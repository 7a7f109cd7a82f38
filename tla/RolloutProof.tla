---------------------------- MODULE RolloutProof -----------------------------
(* Proofs about Rollout, for any versions, schemas, plans and deployments.     *)
EXTENDS Rollout, TLAPS

\* A plan in flight is at one of its stages, and its kind is the class of its change.
FlightsTyped ==
  /\ plan \in [Plans -> PlanRecords \cup {None}]
  /\ stable \in [Deployments -> Versions]
  /\ flight \in [Deployments -> Plans \cup {None}]
  /\ gates \in [Deployments -> SUBSET {"shadow", "canary", "full"}]
  /\ \A d \in Deployments : flight[d] # None => plan[flight[d]] # None
  /\ \A p \in Plans : plan[p] # None =>
       /\ plan[p].index \in 1 .. Len(Stages(plan[p].kind))
       /\ plan[p].kind = Classify(plan[p].base, plan[p].version)

\* In every deployment that flies a plan, the gates of the stages behind it passed
\* since it was begun there, and the gate of its stage if the plan says so.
GatesBehind ==
  \A d \in Deployments : flight[d] # None =>
    LET p == flight[d]
    IN  /\ \A i \in 1 .. (plan[p].index - 1) : Stages(plan[p].kind)[i] \in gates[d]
        /\ plan[p].passed => StageOf(p) \in gates[d]

RolloutInv == FlightsTyped /\ GatesBehind

LEMMA StagesShape ==
  ASSUME NEW k
  PROVE  /\ Len(Stages(k)) \in {2, 3}
         /\ DOMAIN Stages(k) = 1 .. Len(Stages(k))
         /\ \A i \in 1 .. Len(Stages(k)) : Stages(k)[i] \in {"shadow", "canary", "full"}
  <1>1. CASE k = "breaking"
    <2>1. Stages(k) = <<"shadow", "canary", "full">>
      BY <1>1 DEF Stages
    <2>2. 1 .. 3 = {1, 2, 3}
      OBVIOUS
    <2> QED BY <2>1, <2>2
  <1>2. CASE k # "breaking"
    <2>1. Stages(k) = <<"canary", "full">>
      BY <1>2 DEF Stages
    <2>2. 1 .. 2 = {1, 2}
      OBVIOUS
    <2> QED BY <2>1, <2>2
  <1> QED BY <1>1, <1>2

LEMMA RolloutInvInit == Init => RolloutInv
  BY DEF Init, RolloutInv, FlightsTyped, GatesBehind

LEMMA RolloutInvNext == RolloutInv /\ [Next]_vars => RolloutInv'
  <1> SUFFICES ASSUME RolloutInv, [Next]_vars PROVE RolloutInv'
    OBVIOUS
  <1> USE RolloutAssumption
  \* A fresh plan has no stage behind it.
  <1>1. ASSUME NEW d \in Deployments, NEW p \in Plans, Begin(d, p) PROVE RolloutInv'
    <2>1. /\ plan[p] # None /\ plan[p].index = 1 /\ ~ plan[p].passed
          /\ flight' = [flight EXCEPT ![d] = p] /\ gates' = [gates EXCEPT ![d] = {}]
          /\ stable' = stable /\ plan' = plan
      BY <1>1 DEF Begin, Begins
    <2>2. FlightsTyped'
      BY <2>1 DEF RolloutInv, FlightsTyped, Classify
    <2>3. GatesBehind'
      BY <2>1 DEF RolloutInv, FlightsTyped, GatesBehind, StageOf
    <2> QED BY <2>2, <2>3 DEF RolloutInv
  \* A new plan is not in flight.
  <1>2. ASSUME NEW d \in Deployments, NEW p \in Plans, NEW w \in Versions, MakePlan(d, p, w)
        PROVE  RolloutInv'
    <2> DEFINE r == [kind |-> Classify(stable[d], w), version |-> w, index |-> 1,
                     passed |-> FALSE, base |-> stable[d]]
    <2>1. /\ plan[p] = None /\ plan' = [plan EXCEPT ![p] = r]
          /\ flight' = flight /\ gates' = gates /\ stable' = stable
      BY <1>2 DEF MakePlan
    <2>2. r \in PlanRecords /\ r.index = 1 /\ r.kind = Classify(r.base, r.version)
      BY DEF Classify, PlanRecords, RolloutInv, FlightsTyped
    <2>3. r.index \in 1 .. Len(Stages(r.kind))
      <3>1. Len(Stages(r.kind)) \in {2, 3}
        BY StagesShape
      <3>2. 1 \in 1 .. Len(Stages(r.kind))
        <4> HIDE DEF r
        <4> QED BY <3>1
      <3> QED BY <3>2
    <2> HIDE DEF r
    <2>4. /\ plan'[p] = r /\ \A q \in Plans : q # p => plan'[q] = plan[q]
          /\ plan' \in [Plans -> PlanRecords \cup {None}]
      BY <2>1, <2>2 DEF RolloutInv, FlightsTyped
    <2>5. \A e \in Deployments : flight[e] # None =>
            flight[e] # p /\ plan'[flight[e]] = plan[flight[e]]
      BY <2>1, <2>4 DEF RolloutInv, FlightsTyped
    <2>6. FlightsTyped'
      BY <2>1, <2>2, <2>3, <2>4, <2>5 DEF RolloutInv, FlightsTyped, Classify
    <2>7. GatesBehind'
      BY <2>1, <2>5 DEF RolloutInv, GatesBehind, StageOf
    <2> QED BY <2>6, <2>7 DEF RolloutInv
  \* The mark counts in every deployment that flies the plan.
  <1>3. ASSUME NEW p \in Plans, MarkPassed(p) PROVE RolloutInv'
    <2>1. /\ plan[p] # None /\ plan[p] \in PlanRecords
          /\ plan' = [plan EXCEPT ![p].passed = TRUE]
          /\ gates' = [d \in Deployments |->
                         IF flight[d] = p THEN gates[d] \cup {StageOf(p)} ELSE gates[d]]
          /\ flight' = flight /\ stable' = stable
      BY <1>3 DEF MarkPassed, RolloutInv, FlightsTyped
    <2>2. /\ plan'[p] = [plan[p] EXCEPT !.passed = TRUE]
          /\ \A q \in Plans : q # p => plan'[q] = plan[q]
          /\ plan' \in [Plans -> PlanRecords \cup {None}]
      BY <2>1 DEF RolloutInv, FlightsTyped, PlanRecords
    <2>3. /\ plan'[p].index = plan[p].index /\ plan'[p].kind = plan[p].kind
          /\ plan'[p].base = plan[p].base /\ plan'[p].version = plan[p].version
          /\ plan'[p] \in PlanRecords
      BY <2>1, <2>2 DEF PlanRecords
    <2>4. StageOf(p) \in {"shadow", "canary", "full"}
      <3>1. plan[p].index \in 1 .. Len(Stages(plan[p].kind))
        BY <2>1 DEF RolloutInv, FlightsTyped
      <3> QED BY <3>1, StagesShape DEF StageOf
    <2>5. gates' \in [Deployments -> SUBSET {"shadow", "canary", "full"}]
      BY <2>1, <2>4 DEF RolloutInv, FlightsTyped
    <2>6. FlightsTyped'
      BY <2>1, <2>2, <2>3, <2>5 DEF RolloutInv, FlightsTyped, Classify
    <2>7. GatesBehind'
      <3> SUFFICES ASSUME NEW d \in Deployments, flight[d] # None
                   PROVE  LET q == flight[d]
                          IN  /\ \A i \in 1 .. (plan'[q].index - 1) :
                                   Stages(plan'[q].kind)[i] \in gates'[d]
                              /\ plan'[q].passed =>
                                   Stages(plan'[q].kind)[plan'[q].index] \in gates'[d]
        BY <2>1 DEF GatesBehind, StageOf
      <3>1. gates[d] \subseteq gates'[d]
        BY <2>1
      <3>2. CASE flight[d] = p
        BY <3>1, <3>2, <2>1, <2>3 DEF RolloutInv, GatesBehind, StageOf
      <3>3. CASE flight[d] # p
        <4>1. plan'[flight[d]] = plan[flight[d]]
          BY <3>3, <2>2 DEF RolloutInv, FlightsTyped
        <4> QED BY <3>1, <4>1 DEF RolloutInv, GatesBehind, StageOf
      <3> QED BY <3>2, <3>3
    <2> QED BY <2>6, <2>7 DEF RolloutInv
  <1>4. ASSUME NEW p \in Plans, Advance(p) PROVE RolloutInv'
    <2>1. /\ plan[p] # None /\ plan[p] \in PlanRecords /\ plan[p].passed
          /\ plan[p].index < Len(Stages(plan[p].kind))
          /\ plan' = [plan EXCEPT ![p].index = plan[p].index + 1, ![p].passed = FALSE]
          /\ flight' = flight /\ stable' = stable /\ gates' = gates
      BY <1>4 DEF Advance, RolloutInv, FlightsTyped
    <2>2. plan[p].index \in Nat
      BY <2>1 DEF PlanRecords
    <2>3. /\ plan'[p] = [plan[p] EXCEPT !.index = plan[p].index + 1, !.passed = FALSE]
          /\ \A q \in Plans : q # p => plan'[q] = plan[q]
          /\ plan' \in [Plans -> PlanRecords \cup {None}]
      BY <2>1, <2>2 DEF RolloutInv, FlightsTyped, PlanRecords
    <2>4. /\ plan'[p].index = plan[p].index + 1 /\ plan'[p].kind = plan[p].kind
          /\ plan'[p].base = plan[p].base /\ plan'[p].version = plan[p].version
          /\ ~ plan'[p].passed /\ plan'[p] \in PlanRecords
      BY <2>1, <2>2, <2>3 DEF PlanRecords
    <2>5. plan'[p].index \in 1 .. Len(Stages(plan'[p].kind))
      <3>1. Len(Stages(plan[p].kind)) \in {2, 3}
        BY StagesShape
      <3> QED BY <3>1, <2>1, <2>2, <2>4
    <2>6. FlightsTyped'
      BY <2>1, <2>3, <2>4, <2>5 DEF RolloutInv, FlightsTyped, Classify
    <2>7. GatesBehind'
      <3> SUFFICES ASSUME NEW d \in Deployments, flight[d] # None
                   PROVE  LET q == flight[d]
                          IN  /\ \A i \in 1 .. (plan'[q].index - 1) :
                                   Stages(plan'[q].kind)[i] \in gates[d]
                              /\ plan'[q].passed =>
                                   Stages(plan'[q].kind)[plan'[q].index] \in gates[d]
        BY <2>1 DEF GatesBehind, StageOf
      <3>1. CASE flight[d] = p
        <4>1. \A i \in 1 .. plan[p].index : Stages(plan[p].kind)[i] \in gates[d]
          BY <3>1, <2>1, <2>2 DEF RolloutInv, GatesBehind, StageOf
        <4> QED BY <3>1, <4>1, <2>2, <2>4
      <3>2. CASE flight[d] # p
        <4>1. plan'[flight[d]] = plan[flight[d]]
          BY <3>2, <2>3 DEF RolloutInv, FlightsTyped
        <4> QED BY <4>1 DEF RolloutInv, GatesBehind, StageOf
      <3> QED BY <3>1, <3>2
    <2> QED BY <2>6, <2>7 DEF RolloutInv
  <1>5. ASSUME NEW d \in Deployments, Rollback(d) PROVE RolloutInv'
    BY <1>5 DEF Rollback, RolloutInv, FlightsTyped, GatesBehind, StageOf, Classify
  <1>6. ASSUME NEW d \in Deployments, Complete(d) PROVE RolloutInv'
    <2> DEFINE p == flight[d]
    <2>1. /\ p \in Plans /\ plan[p] \in PlanRecords
          /\ stable' = [stable EXCEPT ![d] = plan[p].version]
          /\ flight' = [flight EXCEPT ![d] = None]
          /\ plan' = plan /\ gates' = gates
      BY <1>6 DEF Complete, RolloutInv, FlightsTyped
    <2>2. plan[p].version \in Versions
      BY <2>1 DEF PlanRecords
    <2>3. FlightsTyped'
      BY <2>1, <2>2 DEF RolloutInv, FlightsTyped, Classify
    <2>4. GatesBehind'
      BY <2>1 DEF RolloutInv, FlightsTyped, GatesBehind, StageOf
    <2> QED BY <2>3, <2>4 DEF RolloutInv
  <1>7. CASE UNCHANGED vars
    BY <1>7 DEF vars, RolloutInv, FlightsTyped, GatesBehind, StageOf, Classify
  <1> QED BY <1>1, <1>2, <1>3, <1>4, <1>5, <1>6, <1>7 DEF Next

\* Only Complete changes what is stable, to the version of a plan whose last stage
\* passed.
LEMMA Promoted ==
  ASSUME RolloutInv, [Next]_vars, NEW d \in Deployments, stable'[d] # stable[d]
  PROVE  LET p == flight[d]
         IN  /\ p \in Plans /\ p # None /\ plan[p] \in PlanRecords /\ plan[p] # None
             /\ IsComplete(p) /\ stable'[d] = plan[p].version
  <1>1. PICK e \in Deployments : Complete(e)
    BY DEF Next, Begin, MakePlan, MarkPassed, Advance, Rollback, vars
  <1>2. stable' = [stable EXCEPT ![e] = plan[flight[e]].version] /\ flight[e] # None
    BY <1>1 DEF Complete
  <1>3. d = e /\ stable'[d] = plan[flight[d]].version
    BY <1>2 DEF RolloutInv, FlightsTyped
  <1> QED BY <1>1, <1>2, <1>3 DEF Complete, RolloutInv, FlightsTyped

LEMMA PromotedPassed ==
  ASSUME RolloutInv, [Next]_vars, NEW d \in Deployments, stable'[d] # stable[d]
  PROVE  \A i \in 1 .. Len(Stages(plan[flight[d]].kind)) :
           Stages(plan[flight[d]].kind)[i] \in gates[d]
  <1> DEFINE p == flight[d]
  <1>1. plan[p].index = Len(Stages(plan[p].kind)) /\ plan[p].passed /\ p # None
    BY Promoted DEF IsComplete
  <1>2. plan[p].index \in Nat
    BY Promoted DEF PlanRecords
  <1>3. /\ \A i \in 1 .. (plan[p].index - 1) : Stages(plan[p].kind)[i] \in gates[d]
        /\ Stages(plan[p].kind)[plan[p].index] \in gates[d]
    BY <1>1 DEF RolloutInv, GatesBehind, StageOf
  <1> QED BY <1>1, <1>2, <1>3

StagesAreBehind ==
  \A d \in Deployments : stable'[d] # stable[d] =>
    LET p == flight[d]
    IN  /\ p # None /\ stable'[d] = plan[p].version
        /\ \A i \in 1 .. Len(Stages(plan[p].kind)) : Stages(plan[p].kind)[i] \in gates[d]

(* A deployment changes its stable version only to that of the plan it flies, after *)
(* every gate of the plan passed since it was begun there, whatever plans were       *)
(* marked, advanced, rolled back, shared and begun in between                        *)
(* (RolloutPlan.advance, Deployment.begin, complete).                                *)
THEOREM StagesPassed == Spec => EveryStagePassed
  <1>1. RolloutInv /\ [Next]_vars => [StagesAreBehind]_vars
    BY Promoted, PromotedPassed DEF StagesAreBehind
  <1> QED BY <1>1, RolloutInvInit, RolloutInvNext, PTL
     DEF Spec, EveryStagePassed, StagesAreBehind
-----------------------------------------------------------------------------
\* A document fits both models if they differ in no way _diff_is_breaking sees, the
\* document has no field the older one does not know and the bounds are kept.
LEMMA SameToInputs ==
  ASSUME NEW old, NEW new, ~ DiffIsBreaking(old, new),
         SameBounds(old, new),
         NEW doc, DOMAIN doc \subseteq DOMAIN old, Accepts(old, doc)
  PROVE  Accepts(new, doc)
  <1> SUFFICES ASSUME NEW f \in DOMAIN new
               PROVE  IF f \in DOMAIN doc
                      THEN doc[f].type = new[f].type /\ doc[f].n <= new[f].max
                      ELSE ~ new[f].required
    BY DEF Accepts
  <1>1. CASE f \in DOMAIN old
    <2>1. /\ new[f].type = old[f].type /\ new[f].required = old[f].required
          /\ new[f].max = old[f].max
      BY <1>1 DEF DiffIsBreaking, SameBounds
    <2> QED BY <1>1, <2>1 DEF Accepts
  <1>2. CASE f \notin DOMAIN old
    BY <1>2 DEF DiffIsBreaking
  <1> QED BY <1>1, <1>2

LEMMA SameToOutputs ==
  ASSUME NEW old, NEW new, ~ DiffIsBreaking(old, new),
         SameBounds(old, new),
         NEW doc, Accepts(new, doc)
  PROVE  Accepts(old, doc)
  <1> SUFFICES ASSUME NEW f \in DOMAIN old
               PROVE  IF f \in DOMAIN doc
                      THEN doc[f].type = old[f].type /\ doc[f].n <= old[f].max
                      ELSE ~ old[f].required
    BY DEF Accepts
  <1>1. /\ f \in DOMAIN new
        /\ new[f].type = old[f].type /\ new[f].required = old[f].required
        /\ new[f].max = old[f].max
    BY DEF DiffIsBreaking, SameBounds
  <1> QED BY <1>1 DEF Accepts

\* What breaks a document of either side is classified as breaking.
LEMMA BreakingIsClassified ==
  ASSUME NEW v \in Versions, NEW w \in Versions, KeepsBounds(v, w), Breaks(v, w)
  PROVE  Classify(v, w) = "breaking"
  <1>1. CASE \E doc \in Documents : /\ DOMAIN doc \subseteq DOMAIN Schema[v].input
                                    /\ Accepts(Schema[v].input, doc)
                                    /\ ~ Accepts(Schema[w].input, doc)
    <2>1. DiffIsBreaking(Schema[v].input, Schema[w].input)
      BY <1>1, SameToInputs DEF KeepsBounds
    <2> QED BY <2>1 DEF Classify
  <1>2. CASE \E doc \in Documents : /\ Accepts(Schema[w].output, doc)
                                    /\ ~ Accepts(Schema[v].output, doc)
    <2>1. DiffIsBreaking(Schema[v].output, Schema[w].output)
      BY <1>2, SameToOutputs DEF KeepsBounds
    <2> QED BY <2>1 DEF Classify
  <1> QED BY <1>1, <1>2 DEF Breaks

ShadowIsBehind ==
  \A d \in Deployments : stable'[d] # stable[d] =>
    LET v == plan[flight[d]].base
        w == stable'[d]
    IN  KeepsBounds(v, w) /\ Breaks(v, w) => "shadow" \in gates[d]

(* What breaks consumers of the version its plan was classified against, other than  *)
(* by a changed bound, passed its shadow before it was promoted, in whichever         *)
(* deployment and however late (classify_change, RolloutPlan, Deployment.complete).   *)
THEOREM ShadowsBreaking == Spec => ShadowBeforeBreaking
  <1>1. RolloutInv /\ [Next]_vars => [ShadowIsBehind]_vars
    <2> SUFFICES ASSUME RolloutInv, [Next]_vars, NEW d \in Deployments,
                        stable'[d] # stable[d],
                        KeepsBounds(plan[flight[d]].base, stable'[d]),
                        Breaks(plan[flight[d]].base, stable'[d])
                 PROVE  "shadow" \in gates[d]
      BY DEF ShadowIsBehind
    <2> DEFINE p == flight[d]
    <2>1. /\ p \in Plans /\ plan[p] # None /\ stable'[d] = plan[p].version
          /\ plan[p].base \in Versions /\ plan[p].version \in Versions
      BY Promoted DEF PlanRecords
    <2>2. plan[p].kind = "breaking"
      BY <2>1, BreakingIsClassified DEF RolloutInv, FlightsTyped
    <2>3. 1 \in 1 .. Len(Stages(plan[p].kind)) /\ Stages(plan[p].kind)[1] = "shadow"
      BY <2>2 DEF Stages
    <2> QED BY <2>3, PromotedPassed
  <1> QED BY <1>1, RolloutInvInit, RolloutInvNext, PTL
     DEF Spec, ShadowBeforeBreaking, ShadowIsBehind
=============================================================================
