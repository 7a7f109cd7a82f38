------------------------------- MODULE Rollout --------------------------------
(* Staged rollouts: a change between two versions is classified by its schemas *)
(* (versioning/compat.py), a RolloutPlan walks the stages its kind demands,    *)
(* and a Deployment promotes the version when the plan is complete             *)
(* (versioning/deployment.py).                                                 *)
(*                                                                             *)
(* The gates of the stages, and the operator who makes plans, marks them,      *)
(* advances them and gives them to deployments, are external.                  *)
EXTENDS Naturals, FiniteSets, Sequences

CONSTANTS
  None,
  Versions,
  Schema,        \* version |-> [input, output], each: field |-> [type, required, max]
  Deployments,
  Plans          \* identifiers of RolloutPlan objects

PlanRecords == [kind : {"breaking", "non_breaking"}, version : Versions, index : Nat,
                passed : BOOLEAN, base : Versions]

ASSUME RolloutAssumption == None \notin Plans /\ None \notin PlanRecords

VARIABLES
  stable,        \* deployment |-> stable_version
  flight,        \* deployment |-> None or the plan in flight
  plan,          \* plan |-> None or [kind, version, index, passed, base]; base is the
                 \* version it was classified against (history)
  gates          \* deployment |-> the stages that passed since its plan was begun (history)

vars == <<stable, flight, plan, gates>>

-----------------------------------------------------------------------------
(* Classification.                                                            *)
\* Mutant: a new field is taken for optional.
DiffIsBreakingExceptNew(old, new) ==
  \E f \in DOMAIN old :
    \/ f \notin DOMAIN new
    \/ new[f].type # old[f].type
    \/ new[f].required # old[f].required

\* _diff_is_breaking: types are compared by annotation, which bounds are not part of.
DiffIsBreaking(old, new) ==
  \/ \E f \in DOMAIN old :
       \/ f \notin DOMAIN new
       \/ new[f].type # old[f].type
       \/ new[f].required # old[f].required
  \/ \E f \in DOMAIN new \ DOMAIN old : new[f].required

Classify(v, w) ==
  IF DiffIsBreaking(Schema[v].input, Schema[w].input)
       \/ DiffIsBreaking(Schema[v].output, Schema[w].output)
  THEN "breaking" ELSE "non_breaking"

Stages(kind) == IF kind = "breaking" THEN <<"shadow", "canary", "full">> ELSE <<"canary", "full">>
StageOf(p) == Stages(plan[p].kind)[plan[p].index]
IsComplete(p) == plan[p].index = Len(Stages(plan[p].kind)) /\ plan[p].passed

-----------------------------------------------------------------------------
Init ==
  /\ stable \in [Deployments -> Versions]
  /\ flight = [d \in Deployments |-> None]
  /\ plan = [p \in Plans |-> None]
  /\ gates = [d \in Deployments |-> {}]

\* The operator classifies the change from the version that is stable and makes a plan.
MakePlan(d, p, w) ==
  /\ plan[p] = None
  /\ plan' = [plan EXCEPT ![p] = [kind |-> Classify(stable[d], w), version |-> w, index |-> 1,
                                  passed |-> FALSE, base |-> stable[d]]]
  /\ UNCHANGED <<stable, flight, gates>>

\* Mutant: a used plan can be begun again.
BeginsAgain(d, p) == flight[d] = None

\* begin's conditions.
Begins(d, p) == flight[d] = None /\ plan[p].index = 1 /\ ~ plan[p].passed

\* Any deployment may be given any plan, whatever is stable there by now.
Begin(d, p) ==
  /\ plan[p] # None /\ Begins(d, p)
  /\ flight' = [flight EXCEPT ![d] = p]
  /\ gates' = [gates EXCEPT ![d] = {}]
  /\ UNCHANGED <<stable, plan>>

\* The plan's gate passes, for every deployment that flies it.
MarkPassed(p) ==
  /\ plan[p] # None
  /\ plan' = [plan EXCEPT ![p].passed = TRUE]
  /\ gates' = [d \in Deployments |->
                 IF flight[d] = p THEN gates[d] \cup {StageOf(p)} ELSE gates[d]]
  /\ UNCHANGED <<stable, flight>>

Advance(p) ==
  /\ plan[p] # None /\ plan[p].passed /\ plan[p].index < Len(Stages(plan[p].kind))
  /\ plan' = [plan EXCEPT ![p].index = @ + 1, ![p].passed = FALSE]
  /\ UNCHANGED <<stable, flight, gates>>

\* A failed gate, or the operator, discards the rollout.
Rollback(d) ==
  /\ flight[d] # None
  /\ flight' = [flight EXCEPT ![d] = None]
  /\ UNCHANGED <<stable, plan, gates>>

Complete(d) ==
  LET p == flight[d]
  IN  /\ p # None /\ IsComplete(p)
      /\ stable' = [stable EXCEPT ![d] = plan[p].version]
      /\ flight' = [flight EXCEPT ![d] = None]
      /\ UNCHANGED <<plan, gates>>

Next ==
  \/ \E d \in Deployments :
       \/ \E p \in Plans : Begin(d, p) \/ \E w \in Versions : MakePlan(d, p, w)
       \/ Rollback(d) \/ Complete(d)
  \/ \E p \in Plans : MarkPassed(p) \/ Advance(p)

Spec == Init /\ [][Next]_vars
-----------------------------------------------------------------------------
(* Properties.                                                               *)
\* "Full rollout only after the required stages pass": a deployment's stable version
\* changes only to that of the plan it flies, all of whose gates passed after it was
\* begun here, whatever plans were marked, advanced, discarded or begun elsewhere.
EveryStagePassed ==
  [][\A d \in Deployments : stable'[d] # stable[d] =>
       LET p == flight[d]
       IN  /\ p # None /\ stable'[d] = plan[p].version
           /\ \A i \in 1 .. Len(Stages(plan[p].kind)) :
                Stages(plan[p].kind)[i] \in gates[d]]_vars

\* Documents give some fields a value; a model checks the fields it declares.
Models == {Schema[v].input : v \in Versions} \cup {Schema[v].output : v \in Versions}
Fields == UNION {DOMAIN model : model \in Models}
Types == UNION {{model[f].type : f \in DOMAIN model} : model \in Models}
Documents == UNION {[S -> [type : Types, n : 1 .. 2]] : S \in SUBSET Fields}

Accepts(model, doc) ==
  \A f \in DOMAIN model :
    IF f \in DOMAIN doc
    THEN doc[f].type = model[f].type /\ doc[f].n <= model[f].max
    ELSE ~ model[f].required

\* After a breaking change an accepted document is refused, or a produced one is
\* not understood.
Breaks(v, w) ==
  \/ \E doc \in Documents : /\ DOMAIN doc \subseteq DOMAIN Schema[v].input
                            /\ Accepts(Schema[v].input, doc)
                            /\ ~ Accepts(Schema[w].input, doc)
  \/ \E doc \in Documents : /\ DOMAIN doc \subseteq DOMAIN Schema[w].output
                            /\ Accepts(Schema[w].output, doc)
                            /\ ~ Accepts(Schema[v].output, doc)

\* The fields both have keep their bounds, which the classifier does not look at.
SameBounds(old, new) == \A f \in DOMAIN old \cap DOMAIN new : old[f].max = new[f].max
KeepsBounds(v, w) ==
  /\ SameBounds(Schema[v].input, Schema[w].input)
  /\ SameBounds(Schema[v].output, Schema[w].output)

\* "Shadow first": what breaks consumers of the version its plan was classified against,
\* other than by a changed bound, is promoted only after its shadow passed, by whichever
\* deployment flies the plan and whatever is stable there by then.
ShadowBeforeBreaking ==
  [][\A d \in Deployments : stable'[d] # stable[d] =>
       LET v == plan[flight[d]].base
           w == stable'[d]
       IN  KeepsBounds(v, w) /\ Breaks(v, w) => "shadow" \in gates[d]]_vars
=============================================================================
