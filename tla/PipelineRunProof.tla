-------------------------- MODULE PipelineRunProof ---------------------------
(* Proofs about PipelineRun, for any setups and any number of disturbances.   *)
EXTENDS PipelineRun, TLAPS, FiniteSetTheorems, SequenceTheorems

Deployed == setup \in Setups /\ steps \in Pipelines

IsRecord(out) ==
  out = [v |-> out.v, trust |-> out.trust, by |-> out.by, ins |-> out.ins,
         tainted |-> out.tainted]

-----------------------------------------------------------------------------
(* What a step does to the records and outputs of the run: the actions fall   *)
(* into these kinds, and the invariants below are shown for each kind.        *)

Idles == UNCHANGED <<setup, steps, fingerprint, completed, cascaded, pending, pc, idx,
                     outputs, decision, scope, chosen, requests, supplied>>

(* The attempt ends or begins, or another version is deployed. *)
Ends ==
  /\ UNCHANGED <<setup, fingerprint, completed, cascaded, requests>>
  /\ steps' \in Pipelines /\ pc' \in {"idle", "preflight"}
  /\ pending' = pending \/ pending' = None
  /\ outputs' = <<>> \/ (outputs' = outputs /\ steps' = steps)
  /\ supplied \subseteq supplied'
  /\ \A d \in supplied' \ supplied : d.verdict \in {"approved", "rejected", "amended"}
  /\ decision' \in {None, decision} \cup supplied'

(* The run goes on to the next node without an output. *)
Passes ==
  /\ UNCHANGED <<setup, steps, fingerprint, completed, pending, outputs, decision,
                 requests, supplied>>
  /\ pc \in {"input", "step"} /\ pc' = "step"
  /\ cascaded' = cascaded \/ HasStore

Restores ==
  /\ UNCHANGED <<setup, steps, fingerprint, completed, cascaded, pending, decision,
                 requests, supplied>>
  /\ pc = "step" /\ idx \in DOMAIN completed \cap DOMAIN steps
  /\ Produce(completed[idx].out)

(* The node at hand gets an output. *)
Commits(out, request) ==
  /\ UNCHANGED <<setup, steps, fingerprint, cascaded, pending, decision, requests,
                 supplied>>
  /\ Produce(out) /\ completed' = Committed(out, request)

JoinOutput == Output(Joined, Join({TrustOf(s) : s \in TrustSources}), Range(Bindings), FALSE)
Joins ==
  /\ pc = "step" /\ idx \in DOMAIN steps /\ Node.kind = "join" /\ Commits(JoinOutput, 0)
  /\ BindingsAreOutputs /\ Joined \in Node.schema
Returned == \E out \in Answers :
  /\ pc = "executing" /\ Sound(out) /\ ~Doubtful(out) /\ ~Node.gated
  /\ Commits(out, 0)
Approved == pc = "approving" /\ Commits(chosen.out, chosen.id)

Executes ==
  /\ UNCHANGED <<setup, steps, fingerprint, completed, cascaded, pending, idx, outputs,
                 decision, requests, supplied>>
  /\ pc = "step" /\ idx \in DOMAIN steps /\ Node.kind = "agent"
  /\ pc' = "executing" /\ scope' = Seed

Consumes ==
  /\ UNCHANGED <<setup, steps, fingerprint, completed, cascaded, idx, outputs, decision,
                 requests, supplied>>
  /\ pc = "step" /\ idx \in DOMAIN steps /\ Node.kind = "agent"
  /\ pending # None /\ pending.step = Node.name
  /\ decision # None /\ decision.id = pending.id /\ decision.verdict # "rejected"
  /\ ChosenValue \in Node.schema
  /\ pc' = "approving" /\ pending' = None
  /\ chosen' = [id |-> pending.id,
                out |-> [pending.out EXCEPT !.v = ChosenValue,
                           !.trust = Join({pending.out.trust, Seed})]]

Mints == \E out \in Answers :
  /\ UNCHANGED <<setup, steps, fingerprint, completed, cascaded, supplied>>
  /\ pc = "executing"
  /\ Node.gated \/ (Rating /\ Node.rated)
  /\ pc' = "idle" /\ outputs' = <<>> /\ decision' = None
  /\ \/ UNCHANGED <<pending, requests>>
     \/ /\ requests' = Append(requests, [step |-> Node.name, v |-> out.v])
        /\ \E reason : pending' = [id |-> Len(requests) + 1, step |-> Node.name,
                                   reason |-> reason, out |-> out]

LEMMA Kinds ==
  ASSUME Deployed, [Next]_vars
  PROVE  \/ Idles \/ Ends \/ Verify \/ Passes \/ Restores \/ Joins \/ Returned \/ Approved
         \/ Executes \/ Consumes \/ Mints
  <1> USE DEF world, durable, history, attempt
  <1>1. CASE RefuseTopology \/ RefuseSeal \/ RefuseInput \/ HaltUnconsumed \/ Complete
    BY <1>1 DEF RefuseTopology, RefuseSeal, RefuseInput, HaltUnconsumed, Complete, Halt,
                Stop, Forget, Ends, Deployed
  <1>2. CASE HaltJoin \/ JoinRaises \/ Gates
    BY <1>2 DEF HaltJoin, JoinRaises, Gates, HaltUnevaluable, HaltTainted, HaltIdentity,
                Halt, Stop, Forget, Ends, Deployed
  <1>3. CASE Sanitize \/ Skipping
    BY <1>3 DEF Sanitize, Skipping, ReplaySkip, SkipCascade, SkipCondition, Skip, Advance,
                Unskipped, Evaluable, Reached, At, Passes
  <1>4. CASE Start \/ Approve \/ Decide \/ Redeploy \/ Crash
    BY <1>4 DEF Start, Approve, Decide, Redeploy, Crash, Begin, Stop, Forget, Ends, Deployed
  <1>5. CASE Suspend \/ Reinstate \/ UNCHANGED vars
    BY <1>5 DEF Suspend, Reinstate, vars, Idles
  <1>6. CASE RestoreJoin \/ RestoreStep
    BY <1>6 DEF RestoreJoin, RestoreStep, Restore, IsCompleted, Admitted, Evaluable,
                Reached, Unskipped, At, Restores
  <1>7. CASE CommitJoin
    BY <1>7 DEF CommitJoin, Joining, At, Joins, Commits, JoinOutput
  <1>8. CASE Poll \/ Mismatch \/ Reject \/ RefuseChosen
    BY <1>8 DEF Poll, Mismatch, Reject, RefuseChosen, Close, Halt, Stop, Forget, Ends,
                Deployed
  <1>9. CASE ConsumeApproval
    BY <1>9 DEF ConsumeApproval, Decided, Awaiting, Entered, Admitted, Evaluable, Reached,
                Unskipped, At, Consumes
  <1>10. CASE CommitApproved
    BY <1>10 DEF CommitApproved, Approved, Commits
  <1>11. CASE Execute
    BY <1>11 DEF Execute, Entered, Admitted, Evaluable, Reached, Unskipped, At, Executes
  <1>12. CASE ExecutionFails \/ HaltUnusable \/ HaltLowConfidence
    BY <1>12 DEF ExecutionFails, HaltUnusable, HaltLowConfidence, Stop, Forget, Ends,
                 Deployed
  <1>13. CASE CommitStep
    BY <1>13 DEF CommitStep, Returned, Commits
  <1>14. CASE MintForConfidence
    BY <1>14 DEF MintForConfidence, Mint, Stop, Forget, Doubtful, Rated, Mints
  <1>15. CASE MintForApproval
    BY <1>15 DEF MintForApproval, Mint, Stop, Forget, Mints
  <1> QED BY <1>1, <1>2, <1>3, <1>4, <1>5, <1>6, <1>7, <1>8, <1>9, <1>10, <1>11, <1>12,
             <1>13, <1>14, <1>15
          DEF Next, Running, Preflight, Input, JoinNode, Approval, Executing, Environment

LEMMA Produced ==
  ASSUME NEW out, Produce(out)
  PROVE  pc' = "step" /\ outputs' = [m \in DOMAIN outputs \cup {Node.name} |->
                                       IF m = Node.name THEN out ELSE outputs[m]]
  BY DEF Produce, Advance, With

LEMMA CommittedOne ==
  ASSUME NEW out, NEW r, completed' = Committed(out, r)
  PROVE  \A i \in DOMAIN completed' :
           \/ i \in DOMAIN completed /\ completed'[i] = completed[i]
           \/ i = idx /\ HasStore /\ completed'[i].out = out
              /\ completed'[i].seal = SealFor(Node) /\ completed'[i].request = r
  BY DEF Committed

LEMMA AnswersByCode ==
  ASSUME NEW out \in Answers
  PROVE  IsRecord(out) /\ out.by = SealFor(Node) /\ out.v \in Node.schema
  BY DEF Answers, Returns, Output, IsRecord

(* What an approval writes into the record that waits. *)
LEMMA Relabelled ==
  ASSUME NEW o, IsRecord(o), NEW x, NEW label
  PROVE  /\ [o EXCEPT !.v = x, !.trust = label].trust = label
         /\ [o EXCEPT !.v = x, !.trust = label].v = x
         /\ [o EXCEPT !.v = x, !.trust = label].tainted = o.tainted
         /\ [o EXCEPT !.v = x, !.trust = label].by = o.by
         /\ [o EXCEPT !.v = x, !.trust = label].ins = o.ins
  <1>1. PICK v, t, b, i, d :
          o = [v |-> v, trust |-> t, by |-> b, ins |-> i, tainted |-> d]
    BY DEF IsRecord
  <1> QED BY <1>1

(* The pipelines deployed. *)
LEMMA Versions ==
  ASSUME Deployed
  PROVE  /\ DOMAIN steps = 1..Len(steps)
         /\ \A i \in DOMAIN steps : steps[i].kind \in {"agent", "join"}
         /\ \A i, j \in DOMAIN steps : steps[i].name = steps[j].name => i = j
         /\ TopologyFingerprint(steps) # None
         /\ DOMAIN TopologyFingerprint(steps) = DOMAIN steps
         /\ \A i \in DOMAIN steps :
              TopologyFingerprint(steps)[i][1] = steps[i].kind
  <1>1. Registered(steps)
    BY PipelineAssumption DEF Deployed, Pipelines, IsSetup
  <1>2. /\ DOMAIN steps = 1..Len(steps)
        /\ \A i \in DOMAIN steps : steps[i].kind \in {"agent", "join"}
    BY <1>1 DEF Registered, IsNode
  <1>3. \A i \in DOMAIN steps : \A j \in 1..(i - 1) : steps[j].name # steps[i].name
    BY <1>1 DEF Registered
  <1>4. ASSUME NEW i \in DOMAIN steps, NEW j \in DOMAIN steps, steps[i].name = steps[j].name
        PROVE  i = j
    <2>1. i \in Int /\ j \in Int /\ i >= 1 /\ j >= 1
      BY <1>2
    <2>2. CASE i < j
      <3>1. i \in 1..(j - 1)
        BY <2>1, <2>2
      <3> QED BY <1>3, <1>4, <3>1
    <2>3. CASE j < i
      <3>1. j \in 1..(i - 1)
        BY <2>1, <2>3
      <3> QED BY <1>3, <1>4, <3>1
    <2> QED BY <2>1, <2>2, <2>3
  <1>5. TopologyFingerprint(steps) # None
    BY FingerprintAssumption DEF Deployed, Pipelines
  <1> QED BY <1>2, <1>4, <1>5 DEF TopologyFingerprint

-----------------------------------------------------------------------------
(* Labels.                                                                    *)

(* An all_present join binds only agents that are among its sources.          *)
JoinsBindSources ==
  \A u \in Setups : \A p \in u.versions : \A i \in DOMAIN p :
    p[i].kind = "join" => Range(p[i].inputs) \subseteq Range(p[i].sources)

Labelled(out) == out.tainted => out.trust = "untrusted"

LabelInv ==
  /\ Deployed
  /\ \A n \in DOMAIN outputs : Labelled(outputs[n])
  /\ \A i \in DOMAIN completed : Labelled(completed[i].out)
  /\ pending # None => IsRecord(pending.out) /\ Labelled(pending.out)
  /\ pc = "approving" => Labelled(chosen.out)
  /\ pc = "executing" => scope = Seed

LEMMA LabelInit == Init => LabelInv
  BY DEF Init, LabelInv, Deployed

(* Joining labels keeps an untrusted one. *)
LEMMA JoinAbsorbs ==
  ASSUME NEW S, "untrusted" \in S
  PROVE  Join(S) = "untrusted"
  BY DEF Join

(* A source that untrusted data reached makes the label of a join untrusted.  *)
LEMMA SourcesLabelled ==
  ASSUME LabelInv, NEW S, NEW n \in S, outputs[n].tainted
  PROVE  Join({TrustOf(m) : m \in S}) = "untrusted"
  <1>1. TrustOf(n) = "untrusted"
    BY DEF TrustOf, LabelInv, Labelled
  <1> QED BY <1>1, JoinAbsorbs

(* What an agent may return is labelled. *)
LEMMA AnswersLabelled ==
  ASSUME LabelInv, pc = "executing", NEW out \in Answers
  PROVE  Labelled(out)
  <1>1. PICK v \in Node.schema, r \in {FALSE, Node.reads} : out = Returns(v, r)
    BY DEF Answers
  <1>2. /\ out.trust = IF r THEN "untrusted" ELSE Seed
        /\ out.tainted = ((r \/ (ReachSources = {} /\ InitialTrust = "untrusted"))
                           \/ \E n \in ReachSources : outputs[n].tainted)
    BY <1>1 DEF Returns, Output, LabelInv
  <1>3. ASSUME ReachSources = {}, InitialTrust = "untrusted" PROVE Seed = "untrusted"
    BY <1>3 DEF Seed
  <1>4. ASSUME NEW n \in ReachSources, outputs[n].tainted PROVE Seed = "untrusted"
    BY <1>4, SourcesLabelled DEF Seed
  <1> QED BY <1>2, <1>3, <1>4 DEF Labelled

(* What a join commits is labelled. *)
LEMMA JoinLabelled ==
  ASSUME LabelInv, JoinsBindSources, idx \in DOMAIN steps, Node.kind = "join"
  PROVE  Labelled(JoinOutput)
  <1>1. Range(Node.inputs) \subseteq Range(Node.sources)
    BY DEF JoinsBindSources, LabelInv, Deployed, Pipelines, Node
  <1>2. Range(Bindings) \subseteq TrustSources
    <2>1. CASE Node.policy = "all_present"
      BY <1>1, <2>1 DEF Bindings, TrustSources
    <2>2. CASE Node.policy # "all_present"
      BY <2>2 DEF Bindings, TrustSources, Range
    <2> QED BY <2>1, <2>2
  <1>3. ASSUME NEW n \in Range(Bindings), outputs[n].tainted
        PROVE  Join({TrustOf(s) : s \in TrustSources}) = "untrusted"
    BY <1>2, <1>3, SourcesLabelled
  <1> QED BY <1>3 DEF Output, Labelled, JoinOutput

LEMMA ProduceLabelled ==
  ASSUME LabelInv, NEW out, Labelled(out), Produce(out),
         setup' = setup, steps' = steps, pending' = pending,
         \A i \in DOMAIN completed' : completed'[i].out = out \/
            (i \in DOMAIN completed /\ completed'[i] = completed[i])
  PROVE  LabelInv'
  BY Produced DEF LabelInv, Deployed, Pipelines, Labelled, IsRecord

LEMMA CommitLabelled ==
  ASSUME LabelInv, NEW out, NEW r, Labelled(out), Commits(out, r)
  PROVE  LabelInv'
  <1>1. \A i \in DOMAIN completed' : completed'[i].out = out \/
            (i \in DOMAIN completed /\ completed'[i] = completed[i])
    BY CommittedOne DEF Commits
  <1> QED BY <1>1, ProduceLabelled DEF Commits

LEMMA LabelNext == JoinsBindSources /\ LabelInv /\ [Next]_vars => LabelInv'
  <1> SUFFICES ASSUME JoinsBindSources, LabelInv, [Next]_vars PROVE LabelInv'
    OBVIOUS
  <1> USE DEF Labelled
  <1>1. CASE Idles
    BY <1>1 DEF IsRecord, Idles, LabelInv, Deployed, Pipelines, Seed, ReachSources, Node, TrustOf
  <1>2. CASE Ends
    BY <1>2 DEF IsRecord, Ends, LabelInv, Deployed, Pipelines
  <1>3. CASE Verify \/ Passes
    BY <1>3 DEF IsRecord, Verify, Passes, LabelInv, Deployed, Pipelines, world, attempt
  <1>4. CASE Restores
    <2>1. Labelled(completed[idx].out)
      BY <1>4 DEF Restores, LabelInv
    <2> QED BY <1>4, <2>1, ProduceLabelled DEF Restores
  <1>5. CASE Joins
    BY <1>5, JoinLabelled, CommitLabelled DEF Joins
  <1>6. CASE Returned
    <2>1. PICK out \in Answers : pc = "executing" /\ Commits(out, 0)
      BY <1>6 DEF Returned
    <2> QED BY <2>1, AnswersLabelled, CommitLabelled
  <1>7. CASE Approved
    BY <1>7, CommitLabelled DEF Approved, LabelInv
  <1>8. CASE Executes
    BY <1>8 DEF IsRecord, Executes, LabelInv, Deployed, Pipelines, Seed, ReachSources, Node, TrustOf
  <1>9. CASE Consumes
    <2>1. IsRecord(pending.out) /\ Labelled(pending.out)
      BY <1>9 DEF Consumes, LabelInv
    <2>2. pending.out.tainted => Join({pending.out.trust, Seed}) = "untrusted"
      BY <2>1, JoinAbsorbs
    <2>3. chosen'.out = [pending.out EXCEPT !.v = ChosenValue,
                           !.trust = Join({pending.out.trust, Seed})]
      BY <1>9 DEF Consumes
    <2>4. Labelled(chosen'.out)
      BY <2>1, <2>2, <2>3, Relabelled
    <2> QED BY <1>9, <2>4 DEF IsRecord, Consumes, LabelInv, Deployed, Pipelines
  <1>10. CASE Mints
    <2>1. PICK out \in Answers :
            /\ UNCHANGED <<setup, steps, completed>> /\ pc' = "idle" /\ outputs' = <<>>
            /\ pc = "executing"
            /\ pending' = pending \/ pending'.out = out
      BY <1>10 DEF Mints
    <2>2. IsRecord(out) /\ Labelled(out)
      BY <2>1, AnswersLabelled, AnswersByCode
    <2> QED BY <2>1, <2>2 DEF IsRecord, LabelInv, Deployed, Pipelines
  <1> QED BY <1>1, <1>2, <1>3, <1>4, <1>5, <1>6, <1>7, <1>8, <1>9, <1>10, Kinds DEF LabelInv

(* Whatever attempts crash, stop for a reviewer, are resumed or redeployed, an output *)
(* that untrusted data reached carries the untrusted label, if joins bind only their   *)
(* sources (Pipeline._run_inner, taint.join).                                          *)
THEOREM TaintFollows ==
  ASSUME JoinsBindSources
  PROVE  Spec => []TaintFollowsData
  <1>1. LabelInv => TaintFollowsData
    BY DEF LabelInv, TaintFollowsData, Labelled
  <1> QED BY <1>1, LabelInit, LabelNext, PTL DEF Spec

-----------------------------------------------------------------------------
(* What the records of a run say about the code deployed.                     *)

Live == {"input", "step", "executing", "approving"}

JoinsUnsealed == \A i \in DOMAIN completed \cap DOMAIN fingerprint :
  fingerprint[i][1] = "join" => completed[i].seal = None
Marked ==
  /\ DOMAIN completed \cup cascaded # {} => fingerprint # None
  /\ ~HasStore => DOMAIN completed = {}
Verified == pc \in Live =>
  /\ HasStore => fingerprint = TopologyFingerprint(steps)
  /\ \A i \in DOMAIN steps \cap DOMAIN completed :
       completed[i].seal = SealFor(steps[i])
InStep == pc \in {"executing", "approving"} => idx \in DOMAIN steps /\ Node.kind = "agent"

ResumeInv == Deployed /\ JoinsUnsealed /\ Marked /\ Verified /\ InStep

LEMMA ResumeInit == Init => ResumeInv
  BY DEF Init, ResumeInv, Deployed, JoinsUnsealed, Marked, Verified, InStep, Live

LEMMA ResumeVerify == ResumeInv /\ Verify => ResumeInv'
  <1> SUFFICES ASSUME ResumeInv, Verify PROVE ResumeInv'
    OBVIOUS
  <1>1. /\ UNCHANGED <<setup, steps, completed, cascaded>> /\ pc' = "input"
        /\ HasStore /\ HasProgress => FingerprintMatches /\ Drifted = {}
        /\ fingerprint' = IF HasStore /\ ~HasProgress
                          THEN TopologyFingerprint(steps) ELSE fingerprint
    BY DEF Verify, world, attempt
  <1> USE DEF ResumeInv, Deployed, Pipelines, HasStore, InStep
  <1>2. CASE HasStore /\ ~HasProgress
    <2>1. fingerprint' = TopologyFingerprint(steps) /\ fingerprint' # None
      BY <1>1, <1>2, Versions
    <2>2. DOMAIN steps \cap DOMAIN completed = {}
      BY <1>2 DEF HasProgress
    <2> QED BY <1>1, <1>2, <2>1, <2>2, Versions
            DEF JoinsUnsealed, Marked, Verified, TopologyFingerprint
  <1>3. CASE HasStore /\ HasProgress
    <2>1. fingerprint' = fingerprint /\ fingerprint = TopologyFingerprint(steps)
      BY <1>1, <1>3 DEF Marked, FingerprintMatches, HasProgress
    <2>2. ASSUME NEW i \in DOMAIN steps \cap DOMAIN completed
          PROVE  completed[i].seal = SealFor(steps[i])
      <3>1. CASE steps[i].kind = "agent"
        BY <1>1, <1>3, <3>1 DEF Drifted
      <3>2. CASE steps[i].kind = "join"
        BY <2>1, <3>2, Versions DEF JoinsUnsealed, SealFor
      <3> QED BY <3>1, <3>2, Versions
    <2>3. Verified'
      BY <1>1, <2>1, <2>2 DEF Verified, TopologyFingerprint, SealFor
    <2> QED BY <1>1, <2>1, <2>3 DEF JoinsUnsealed, Marked
  <1>4. CASE ~HasStore
    <2>1. DOMAIN completed = {} /\ fingerprint' = fingerprint
      BY <1>1, <1>4 DEF Marked
    <2> QED BY <1>1, <1>4, <2>1 DEF JoinsUnsealed, Marked, Verified
  <1> QED BY <1>2, <1>3, <1>4

LEMMA ResumeCommit ==
  ASSUME ResumeInv, NEW out, NEW r, Commits(out, r), idx \in DOMAIN steps, pc \in Live
  PROVE  ResumeInv'
  <1>1. /\ UNCHANGED <<setup, steps, fingerprint, cascaded>> /\ pc' = "step"
        /\ completed' = Committed(out, r)
    BY Produced DEF Commits
  <1>2. \A i \in DOMAIN completed' :
           \/ i \in DOMAIN completed /\ completed'[i] = completed[i]
           \/ i = idx /\ HasStore /\ completed'[i].seal = SealFor(Node)
    BY <1>1, CommittedOne
  <1>3. HasStore => fingerprint # None /\ fingerprint = TopologyFingerprint(steps)
    BY Versions DEF ResumeInv, Verified
  <1>4. JoinsUnsealed'
    <2> SUFFICES ASSUME NEW i \in DOMAIN completed' \cap DOMAIN fingerprint,
                        fingerprint[i][1] = "join"
                 PROVE  completed'[i].seal = None
      BY <1>1 DEF JoinsUnsealed
    <2>1. CASE i \in DOMAIN completed /\ completed'[i] = completed[i]
      BY <2>1 DEF ResumeInv, JoinsUnsealed
    <2>2. CASE i = idx /\ HasStore /\ completed'[i].seal = SealFor(Node)
      BY <1>3, <2>2, Versions DEF ResumeInv, Node, SealFor
    <2> QED BY <1>2, <2>1, <2>2
  <1>5. Marked'
    BY <1>1, <1>2, <1>3 DEF ResumeInv, Marked, HasStore
  <1>6. Verified'
    BY <1>1, <1>2 DEF ResumeInv, Verified, Live, SealFor, TopologyFingerprint, HasStore, Node
  <1> QED BY <1>1, <1>4, <1>5, <1>6 DEF ResumeInv, Deployed, Pipelines, InStep

LEMMA ResumeNext == ResumeInv /\ [Next]_vars => ResumeInv'
  <1> SUFFICES ASSUME ResumeInv, [Next]_vars PROVE ResumeInv'
    OBVIOUS
  <1>1. CASE Verify
    BY <1>1, ResumeVerify
  <1>2. CASE Idles
    BY <1>2 DEF Idles, ResumeInv, Deployed, Pipelines, JoinsUnsealed, Marked, Verified,
                InStep, HasStore, TopologyFingerprint, SealFor, Node
  <1>3. CASE Ends \/ Mints
    <2>1. /\ UNCHANGED <<setup, completed, fingerprint, cascaded>>
          /\ steps' \in Pipelines /\ pc' \in {"idle", "preflight"}
      BY <1>3 DEF Ends, Mints, ResumeInv, Deployed
    <2> QED BY <2>1 DEF ResumeInv, Deployed, Pipelines, JoinsUnsealed, Marked, Verified,
                        InStep, HasStore, Live
  <1>4. CASE Passes \/ Restores
    <2>1. /\ UNCHANGED <<setup, steps, completed, fingerprint>>
          /\ pc \in Live /\ pc' = "step" /\ (cascaded' = cascaded \/ HasStore)
      BY <1>4, Produced DEF Passes, Restores, Live
    <2>2. HasStore => fingerprint # None
      BY <2>1, Versions DEF ResumeInv, Verified
    <2> QED BY <2>1, <2>2 DEF ResumeInv, Deployed, Pipelines, JoinsUnsealed, Marked,
               Verified, InStep, HasStore, Live, TopologyFingerprint, SealFor
  <1>5. CASE Joins
    BY <1>5, ResumeCommit DEF Joins, Live
  <1>6. CASE Returned
    <2>1. PICK out \in Answers : pc = "executing" /\ Commits(out, 0)
      BY <1>6 DEF Returned
    <2> QED BY <2>1, ResumeCommit DEF ResumeInv, InStep, Live
  <1>7. CASE Approved
    BY <1>7, ResumeCommit DEF Approved, ResumeInv, InStep, Live
  <1>8. CASE Executes \/ Consumes
    <2>1. /\ UNCHANGED <<setup, steps, completed, fingerprint, cascaded, idx>>
          /\ pc = "step" /\ pc' \in {"executing", "approving"}
          /\ idx \in DOMAIN steps /\ Node.kind = "agent"
      BY <1>8 DEF Executes, Consumes
    <2> QED BY <2>1 DEF ResumeInv, Deployed, Pipelines, JoinsUnsealed, Marked, Verified,
               InStep, HasStore, Live, TopologyFingerprint, SealFor, Node
  <1> QED BY <1>1, <1>2, <1>3, <1>4, <1>5, <1>6, <1>7, <1>8, Kinds DEF ResumeInv

(* During a run, a completed step at hand was committed under the live seal.  *)
LEMMA RestoredSeal ==
  ASSUME ResumeInv, Restores
  PROVE  completed[idx].seal = SealFor(Node)
  BY DEF Restores, ResumeInv, Verified, Live, Node

-----------------------------------------------------------------------------
(* The code that produced what a run reports.                                 *)

(* A step that may wait for a reviewer keeps its code over the versions.      *)
ReviewedCodeStays ==
  \A u \in Setups : \A p, q \in u.versions : \A i \in DOMAIN p, j \in DOMAIN q :
    /\ p[i].kind = "agent" /\ p[i].name = q[j].name
    /\ p[i].gated \/ (u.rating /\ p[i].rated)
    => SealFor(p[i]) = SealFor(q[j])

OutputsLive == \A i \in DOMAIN steps :
  steps[i].name \in DOMAIN outputs => outputs[steps[i].name].by = SealFor(steps[i])
SealsKept == \A i \in DOMAIN completed : completed[i].out.by = completed[i].seal
(* What waits was produced by a version of the step it waits for.             *)
WaitingCode == pending # None =>
  \E p \in Pipelines : \E i \in DOMAIN p :
    /\ p[i].kind = "agent" /\ p[i].name = pending.step
    /\ p[i].gated \/ (Rating /\ p[i].rated)
    /\ IsRecord(pending.out) /\ pending.out.by = SealFor(p[i])
ChosenCode == pc = "approving" => chosen.out.by = SealFor(Node)

CodeInv == OutputsLive /\ SealsKept /\ WaitingCode /\ ChosenCode

LEMMA CodeInit == Init => CodeInv
  BY DEF Init, CodeInv, OutputsLive, SealsKept, WaitingCode, ChosenCode

LEMMA CodeProduced ==
  ASSUME Deployed, CodeInv, NEW out, Produce(out), idx \in DOMAIN steps,
         out.by = SealFor(Node), UNCHANGED <<setup, steps, pending>>,
         \A i \in DOMAIN completed' :
           \/ i \in DOMAIN completed /\ completed'[i] = completed[i]
           \/ completed'[i].out = out /\ completed'[i].seal = SealFor(Node)
  PROVE  CodeInv'
  <1>1. OutputsLive'
    BY Produced, Versions DEF CodeInv, OutputsLive, Node, SealFor
  <1>2. SealsKept'
    BY DEF CodeInv, SealsKept
  <1>3. WaitingCode' /\ ChosenCode'
    BY Produced DEF CodeInv, WaitingCode, ChosenCode, IsRecord, SealFor, Pipelines, Rating
  <1> QED BY <1>1, <1>2, <1>3 DEF CodeInv

LEMMA CodeCommitted ==
  ASSUME Deployed, CodeInv, NEW out, NEW r, Commits(out, r), idx \in DOMAIN steps,
         out.by = SealFor(Node)
  PROVE  CodeInv'
  <1>1. \A i \in DOMAIN completed' :
           \/ i \in DOMAIN completed /\ completed'[i] = completed[i]
           \/ completed'[i].out = out /\ completed'[i].seal = SealFor(Node)
    BY CommittedOne DEF Commits
  <1> QED BY <1>1, CodeProduced DEF Commits

LEMMA CodeNext == ReviewedCodeStays /\ ResumeInv /\ CodeInv /\ [Next]_vars => CodeInv'
  <1> SUFFICES ASSUME ReviewedCodeStays, ResumeInv, CodeInv, [Next]_vars PROVE CodeInv'
    OBVIOUS
  <1>d. Deployed
    BY DEF ResumeInv
  <1>1. CASE Idles
    BY <1>1 DEF Idles, CodeInv, OutputsLive, SealsKept, WaitingCode, ChosenCode, IsRecord,
                SealFor, Pipelines, Rating, Node
  <1>2. CASE Ends
    BY <1>2 DEF Ends, CodeInv, OutputsLive, SealsKept, WaitingCode, ChosenCode, IsRecord,
                SealFor, Pipelines, Rating
  <1>3. CASE Verify \/ Passes \/ Executes
    <2>1. /\ UNCHANGED <<setup, steps, completed, pending, outputs>>
          /\ pc' \in {"input", "step", "executing"}
      BY <1>3 DEF Verify, Passes, Executes, world, attempt
    <2> QED BY <2>1 DEF CodeInv, OutputsLive, SealsKept, WaitingCode, ChosenCode, IsRecord,
                        SealFor, Pipelines, Rating
  <1>4. CASE Restores
    <2>1. completed[idx].out.by = SealFor(Node)
      BY <1>4, RestoredSeal DEF Restores, CodeInv, SealsKept
    <2> QED BY <1>d, <1>4, <2>1, CodeProduced DEF Restores
  <1>5. CASE Joins
    <2>1. JoinOutput.by = SealFor(Node)
      BY DEF JoinOutput, Output
    <2> QED BY <1>d, <1>5, <2>1, CodeCommitted DEF Joins
  <1>6. CASE Returned
    <2>1. PICK out \in Answers : pc = "executing" /\ Commits(out, 0)
      BY <1>6 DEF Returned
    <2> QED BY <1>d, <2>1, AnswersByCode, CodeCommitted DEF ResumeInv, InStep
  <1>7. CASE Approved
    BY <1>d, <1>7, CodeCommitted DEF Approved, ResumeInv, InStep, CodeInv, ChosenCode
  <1>8. CASE Consumes
    <2>1. PICK p \in Pipelines : \E i \in DOMAIN p :
            /\ p[i].kind = "agent" /\ p[i].name = pending.step
            /\ p[i].gated \/ (Rating /\ p[i].rated)
            /\ IsRecord(pending.out) /\ pending.out.by = SealFor(p[i])
      BY <1>8 DEF Consumes, CodeInv, WaitingCode
    <2>2. PICK i \in DOMAIN p :
            /\ p[i].kind = "agent" /\ p[i].name = pending.step
            /\ p[i].gated \/ (Rating /\ p[i].rated)
            /\ IsRecord(pending.out) /\ pending.out.by = SealFor(p[i])
      BY <2>1
    <2>3. SealFor(p[i]) = SealFor(Node)
      BY <1>d, <1>8, <2>2 DEF Consumes, ReviewedCodeStays, Deployed, Pipelines, Rating, Node
    <2>4. chosen'.out = [pending.out EXCEPT !.v = ChosenValue,
                           !.trust = Join({pending.out.trust, Seed})]
      BY <1>8 DEF Consumes
    <2>5. chosen'.out.by = pending.out.by
      BY <2>2, <2>4, Relabelled
    <2>6. ChosenCode'
      BY <1>8, <2>2, <2>3, <2>5 DEF Consumes, ChosenCode, Node, SealFor
    <2> QED BY <1>8, <2>6 DEF Consumes, CodeInv, OutputsLive, SealsKept, WaitingCode, SealFor
  <1>9. CASE Mints
    <2>1. PICK out \in Answers :
            /\ UNCHANGED <<setup, steps, completed>> /\ pc = "executing" /\ pc' = "idle"
            /\ outputs' = <<>>
            /\ Node.gated \/ (Rating /\ Node.rated)
            /\ pending' = pending \/ (pending'.out = out /\ pending'.step = Node.name)
      BY <1>9 DEF Mints
    <2>2. /\ idx \in DOMAIN steps /\ Node.kind = "agent"
          /\ IsRecord(out) /\ out.by = SealFor(Node)
      BY <2>1, AnswersByCode DEF ResumeInv, InStep
    <2>3. WaitingCode'
      <3>1. CASE pending' = pending
        BY <2>1, <3>1 DEF CodeInv, WaitingCode, IsRecord, SealFor, Pipelines, Rating
      <3>2. CASE pending'.out = out /\ pending'.step = Node.name
        BY <1>d, <2>1, <2>2, <3>2
           DEF WaitingCode, Deployed, Pipelines, Node, IsRecord, SealFor, Rating
      <3> QED BY <2>1, <3>1, <3>2
    <2> QED BY <2>1, <2>3 DEF CodeInv, OutputsLive, SealsKept, ChosenCode, SealFor
  <1> QED BY <1>d, <1>1, <1>2, <1>3, <1>4, <1>5, <1>6, <1>7, <1>8, <1>9, Kinds

(* Whatever versions were deployed in between, a run that completes reports only       *)
(* outputs that the deployed versions of its steps produced, if the steps that may     *)
(* wait for a reviewer were not changed (the seal and topology checks of _run_inner).  *)
THEOREM DeployedCodeOnly ==
  ASSUME ReviewedCodeStays
  PROVE  Spec => []OutputsOfDeployedCode
  <1>1. CodeInv => OutputsOfDeployedCode
    BY DEF CodeInv, OutputsLive, OutputsOfDeployedCode
  <1>2. ResumeInv /\ CodeInv /\ [Next]_vars => ResumeInv' /\ CodeInv'
    BY ResumeNext, CodeNext
  <1> QED BY <1>1, <1>2, ResumeInit, CodeInit, PTL DEF Spec

-----------------------------------------------------------------------------
(* Review.                                                                    *)

(* Steps of one name and one seal agree on whether their output is rated.     *)
RatedIsSealed ==
  \A u \in Setups : \A p, q \in u.versions : \A i \in DOMAIN p, j \in DOMAIN q :
    /\ p[i].kind = "agent" /\ q[j].kind = "agent" /\ p[i].name = q[j].name
    /\ SealFor(p[i]) = SealFor(q[j])
    => p[i].rated = q[j].rated

Guarded(n, v) ==
  /\ n.kind = "agent"
  /\ \/ n.gated
     \/ Rating /\ n.rated /\ ~setup.async /\ v \in setup.low
Settles(d, name, v) ==
  /\ d.id \in DOMAIN requests /\ requests[d.id].step = name
  /\ \/ d.verdict = "approved" /\ v = requests[d.id].v
     \/ d.verdict = "amended" /\ v = d.amended

StepNames == UNION {{p[i].name : i \in DOMAIN p} : p \in UNION {u.versions : u \in Setups}}
Asked == [step : StepNames, v : Values]

Decisions ==
  /\ decision # None => decision \in supplied
  /\ \A d \in supplied : d.verdict \in {"approved", "rejected", "amended"}
PendingAsked == pending # None =>
  /\ pending.id \in DOMAIN requests /\ IsRecord(pending.out)
  /\ requests[pending.id].step = pending.step /\ requests[pending.id].v = pending.out.v
ChosenSettled == pc = "approving" =>
  \E d \in supplied : d.id = chosen.id /\ Settles(d, Node.name, chosen.out.v)

(* A completed step was committed by a version of it, and if that version     *)
(* guards it, after a decision on its request.                                *)
CommittedAs(i, p) ==
  /\ i \in DOMAIN p /\ completed[i].seal = SealFor(p[i])
  /\ i \in DOMAIN fingerprint =>
       fingerprint[i][1] = p[i].kind /\ fingerprint[i][2] = p[i].name
  /\ Guarded(p[i], completed[i].out.v) =>
       \E d \in supplied : d.id = completed[i].request /\
                           Settles(d, p[i].name, completed[i].out.v)
CommittedReviewed == \A i \in DOMAIN completed : \E p \in Pipelines : CommittedAs(i, p)
OutputsReviewed == \A i \in DOMAIN steps : steps[i].name \in DOMAIN outputs =>
  LET v == outputs[steps[i].name].v
  IN Guarded(steps[i], v) => \E d \in supplied : Settles(d, steps[i].name, v)

ReviewInv == /\ requests \in Seq(Asked) /\ Decisions /\ PendingAsked /\ ChosenSettled
             /\ CommittedReviewed /\ OutputsReviewed

LEMMA ReviewInit == Init => ReviewInv
  BY DEF Init, ReviewInv, Decisions, PendingAsked, ChosenSettled, CommittedReviewed,
         OutputsReviewed

(* A completed step that the deployed pipeline guards has its decision.       *)
LEMMA GuardedCommitted ==
  ASSUME RatedIsSealed, ResumeInv, CommittedReviewed, NEW i \in DOMAIN completed,
         i \in DOMAIN steps, fingerprint = TopologyFingerprint(steps),
         completed[i].seal = SealFor(steps[i]), Guarded(steps[i], completed[i].out.v)
  PROVE  \E d \in supplied : d.id = completed[i].request /\
           Settles(d, steps[i].name, completed[i].out.v)
  <1>1. PICK p \in Pipelines : CommittedAs(i, p)
    BY DEF CommittedReviewed
  <1>2. fingerprint[i][1] = steps[i].kind /\ fingerprint[i][2] = steps[i].name
        /\ i \in DOMAIN fingerprint
    BY DEF TopologyFingerprint
  <1>3. /\ p[i].kind = "agent" /\ p[i].name = steps[i].name /\ i \in DOMAIN p
        /\ SealFor(p[i]) = SealFor(steps[i]) /\ steps[i].kind = "agent"
    BY <1>1, <1>2 DEF CommittedAs, Guarded
  <1>4. p[i].gated = steps[i].gated
    BY <1>3 DEF SealFor
  <1>5. p[i].rated = steps[i].rated
    BY <1>3 DEF RatedIsSealed, ResumeInv, Deployed, Pipelines
  <1>6. Guarded(p[i], completed[i].out.v)
    BY <1>3, <1>4, <1>5 DEF Guarded
  <1> QED BY <1>1, <1>3, <1>6 DEF CommittedAs

(* Decisions stay, and so do the requests they are about. *)
LEMMA SettledStays ==
  ASSUME requests \in Seq(Asked), supplied \subseteq supplied',
         requests' = requests \/ \E r \in Asked : requests' = Append(requests, r),
         NEW d \in supplied, NEW name, NEW v, Settles(d, name, v)
  PROVE  d \in supplied' /\ Settles(d, name, v)'
  BY DEF Settles

LEMMA CommittedStays ==
  ASSUME ReviewInv, UNCHANGED <<setup, completed, fingerprint>>,
         supplied \subseteq supplied',
         requests' = requests \/ \E r \in Asked : requests' = Append(requests, r)
  PROVE  CommittedReviewed'
  <1> SUFFICES ASSUME NEW i \in DOMAIN completed PROVE \E p \in Pipelines : CommittedAs(i, p)'
    BY DEF CommittedReviewed, Pipelines
  <1>1. PICK p \in Pipelines : CommittedAs(i, p)
    BY DEF ReviewInv, CommittedReviewed
  <1>2. CASE Guarded(p[i], completed[i].out.v)
    <2>1. PICK d \in supplied : d.id = completed[i].request /\
                                Settles(d, p[i].name, completed[i].out.v)
      BY <1>1, <1>2 DEF CommittedAs
    <2>2. d \in supplied' /\ Settles(d, p[i].name, completed[i].out.v)'
      BY <2>1, SettledStays DEF ReviewInv
    <2> QED BY <1>1, <2>1, <2>2 DEF CommittedAs, SealFor
  <1>3. CASE ~Guarded(p[i], completed[i].out.v)
    BY <1>1, <1>3 DEF CommittedAs, Guarded, Rating, SealFor
  <1> QED BY <1>2, <1>3

(* A node gets an output that needs no decision, or has one.                  *)
LEMMA ReviewProduced ==
  ASSUME ResumeInv, ReviewInv, NEW out, Produce(out), idx \in DOMAIN steps,
         UNCHANGED <<setup, steps, supplied, requests>>,
         Guarded(Node, out.v) => \E d \in supplied : Settles(d, Node.name, out.v)
  PROVE  OutputsReviewed' /\ ChosenSettled'
  BY Produced, Versions
     DEF ResumeInv, ReviewInv, OutputsReviewed, ChosenSettled, Node, Guarded, Rating, Settles

LEMMA ReviewCommitted ==
  ASSUME ResumeInv, ReviewInv, NEW out, NEW r, Commits(out, r), idx \in DOMAIN steps,
         pc \in Live,
         Guarded(Node, out.v) =>
           \E d \in supplied : d.id = r /\ Settles(d, Node.name, out.v)
  PROVE  ReviewInv'
  <1>1. /\ UNCHANGED <<setup, steps, fingerprint, cascaded, pending, decision, requests,
                       supplied>>
        /\ Produce(out) /\ completed' = Committed(out, r)
    BY DEF Commits
  <1>2. OutputsReviewed' /\ ChosenSettled'
    BY <1>1, ReviewProduced
  <1>3. CommittedReviewed'
    <2> SUFFICES ASSUME NEW i \in DOMAIN completed'
                 PROVE  \E p \in Pipelines : CommittedAs(i, p)'
      BY <1>1 DEF CommittedReviewed, Pipelines
    <2>1. CASE i \in DOMAIN completed /\ completed'[i] = completed[i]
      <3>1. PICK p \in Pipelines : CommittedAs(i, p)
        BY <2>1 DEF ReviewInv, CommittedReviewed
      <3>2. CommittedAs(i, p)'
        BY <1>1, <2>1, <3>1 DEF CommittedAs, Guarded, Rating, Settles, SealFor
      <3> QED BY <3>2
    <2>2. CASE /\ i = idx /\ HasStore /\ completed'[i].out = out
               /\ completed'[i].seal = SealFor(Node) /\ completed'[i].request = r
      <3>1. fingerprint = TopologyFingerprint(steps)
        BY <2>2 DEF ResumeInv, Verified
      <3>2. fingerprint[i][1] = steps[i].kind /\ fingerprint[i][2] = steps[i].name
        BY <2>2, <3>1 DEF TopologyFingerprint
      <3>3. CommittedAs(i, steps)'
        BY <1>1, <2>2, <3>2 DEF CommittedAs, Guarded, Rating, Settles, SealFor, Node
      <3> QED BY <3>3, <1>1 DEF ResumeInv, Deployed
    <2> QED BY <1>1, <2>1, <2>2, CommittedOne
  <1>4. Decisions' /\ PendingAsked'
    BY <1>1 DEF ReviewInv, Decisions, PendingAsked, IsRecord
  <1> QED BY <1>1, <1>2, <1>3, <1>4 DEF ReviewInv

LEMMA ReviewVerify == ResumeInv /\ ReviewInv /\ Verify => ReviewInv'
  <1> SUFFICES ASSUME ResumeInv, ReviewInv, Verify PROVE ReviewInv'
    OBVIOUS
  <1>1. /\ UNCHANGED <<setup, steps, completed, pending, outputs, decision, requests,
                       supplied>>
        /\ pc' = "input"
        /\ fingerprint' = IF HasStore /\ ~HasProgress
                          THEN TopologyFingerprint(steps) ELSE fingerprint
    BY DEF Verify, world, attempt, history
  <1>2. CommittedReviewed'
    <2>1. CASE fingerprint' = fingerprint
      BY <1>1, <2>1, CommittedStays
    <2>2. CASE ~HasProgress /\ fingerprint' = TopologyFingerprint(steps)
      <3> SUFFICES ASSUME NEW i \in DOMAIN completed
                   PROVE  \E p \in Pipelines : CommittedAs(i, p)'
        BY <1>1 DEF CommittedReviewed, Pipelines
      <3>1. i \notin DOMAIN fingerprint'
        BY <2>2, Versions DEF HasProgress, ResumeInv
      <3>2. PICK p \in Pipelines : CommittedAs(i, p)
        BY DEF ReviewInv, CommittedReviewed
      <3>3. CommittedAs(i, p)'
        BY <1>1, <3>1, <3>2 DEF CommittedAs, Guarded, Rating, Settles, SealFor
      <3> QED BY <3>3
    <2> QED BY <1>1, <2>1, <2>2
  <1> QED BY <1>1, <1>2 DEF ReviewInv, Decisions, PendingAsked, IsRecord, ChosenSettled,
                            OutputsReviewed, Guarded, Rating, Settles

LEMMA ReviewMints == ResumeInv /\ ReviewInv /\ Mints => ReviewInv'
  <1> SUFFICES ASSUME ResumeInv, ReviewInv, Mints PROVE ReviewInv'
    OBVIOUS
  <1>1. PICK out \in Answers :
          /\ UNCHANGED <<setup, steps, fingerprint, completed, supplied>>
          /\ pc = "executing" /\ pc' = "idle" /\ outputs' = <<>> /\ decision' = None
          /\ \/ UNCHANGED <<pending, requests>>
             \/ /\ requests' = Append(requests, [step |-> Node.name, v |-> out.v])
                /\ pending'.id = Len(requests) + 1 /\ pending'.step = Node.name
                /\ pending'.out = out
    BY DEF Mints
  <1>2. [step |-> Node.name, v |-> out.v] \in Asked /\ IsRecord(out)
    <2>1. idx \in DOMAIN steps /\ IsNode(Node)
      BY <1>1, PipelineAssumption
         DEF ResumeInv, InStep, Deployed, Pipelines, IsSetup, Registered, Node
    <2>2. Node.name \in StepNames
      BY <2>1 DEF ResumeInv, Deployed, Pipelines, Node, StepNames
    <2>3. out.v \in Values
      BY <2>1, AnswersByCode DEF IsNode
    <2> QED BY <2>2, <2>3, AnswersByCode DEF Asked
  <1>3. CommittedReviewed' /\ requests' \in Seq(Asked)
    BY <1>1, <1>2, CommittedStays DEF ReviewInv
  <1>4. PendingAsked'
    <2>1. CASE UNCHANGED <<pending, requests>>
      BY <2>1 DEF ReviewInv, PendingAsked, IsRecord
    <2>2. CASE /\ requests' = Append(requests, [step |-> Node.name, v |-> out.v])
               /\ pending'.id = Len(requests) + 1 /\ pending'.step = Node.name
               /\ pending'.out = out
      <3>1. requests \in Seq(Asked)
        BY DEF ReviewInv
      <3>2. /\ Len(requests) + 1 \in DOMAIN requests'
            /\ requests'[Len(requests) + 1] = [step |-> Node.name, v |-> out.v]
        BY <1>2, <2>2, <3>1
      <3> QED BY <1>2, <2>2, <3>2 DEF PendingAsked, IsRecord
    <2> QED BY <1>1, <2>1, <2>2
  <1> QED BY <1>1, <1>3, <1>4 DEF ReviewInv, Decisions, ChosenSettled, OutputsReviewed

LEMMA ReviewConsumes == ResumeInv /\ ReviewInv /\ Consumes => ReviewInv'
  <1> SUFFICES ASSUME ResumeInv, ReviewInv, Consumes PROVE ReviewInv'
    OBVIOUS
  <1>1. /\ IsRecord(pending.out) /\ pending.id \in DOMAIN requests
        /\ requests[pending.id].step = Node.name
        /\ requests[pending.id].v = pending.out.v
    BY DEF Consumes, ReviewInv, PendingAsked
  <1>2. /\ decision \in supplied /\ decision.id = pending.id
        /\ decision.verdict \in {"approved", "amended"}
    BY DEF Consumes, ReviewInv, Decisions
  <1>3. chosen'.id = pending.id /\
        chosen'.out = [pending.out EXCEPT !.v = ChosenValue,
                         !.trust = Join({pending.out.trust, Seed})]
    BY DEF Consumes
  <1>4. chosen'.out.v = ChosenValue
    BY <1>1, <1>3, Relabelled
  <1>5. Settles(decision, Node.name, ChosenValue)
    BY <1>1, <1>2 DEF Settles, ChosenValue
  <1>6. ChosenSettled'
    BY <1>2, <1>3, <1>4, <1>5 DEF Consumes, ChosenSettled, Settles, Node
  <1>7. CommittedReviewed'
    BY CommittedStays DEF Consumes
  <1> QED BY <1>6, <1>7 DEF Consumes, ReviewInv, Decisions, PendingAsked, OutputsReviewed,
                           Guarded, Rating, Settles

LEMMA ReviewNext == RatedIsSealed /\ ResumeInv /\ ReviewInv /\ [Next]_vars => ReviewInv'
  <1> SUFFICES ASSUME RatedIsSealed, ResumeInv, ReviewInv, [Next]_vars PROVE ReviewInv'
    OBVIOUS
  <1>1. CASE Idles
    <2>1. CommittedReviewed'
      BY <1>1, CommittedStays DEF Idles
    <2>2. Decisions' /\ PendingAsked' /\ requests' \in Seq(Asked)
      BY <1>1 DEF Idles, ReviewInv, Decisions, PendingAsked, IsRecord
    <2>3. ChosenSettled' /\ OutputsReviewed'
      BY <1>1 DEF Idles, ReviewInv, ChosenSettled, OutputsReviewed, Guarded, Rating, Settles,
                  Node
    <2> QED BY <2>1, <2>2, <2>3 DEF ReviewInv
  <1>2. CASE Ends
    <2>1. CommittedReviewed'
      BY <1>2, CommittedStays DEF Ends
    <2>2. OutputsReviewed'
      <3>1. CASE outputs' = <<>>
        BY <3>1 DEF OutputsReviewed
      <3>2. CASE outputs' = outputs /\ steps' = steps
        BY <1>2, <3>2 DEF Ends, ReviewInv, OutputsReviewed, Guarded, Rating, Settles
      <3> QED BY <1>2, <3>1, <3>2 DEF Ends
    <2>3. Decisions' /\ PendingAsked' /\ ChosenSettled' /\ requests' \in Seq(Asked)
      BY <1>2 DEF Ends, ReviewInv, Decisions, PendingAsked, IsRecord, ChosenSettled
    <2> QED BY <2>1, <2>2, <2>3 DEF ReviewInv
  <1>3. CASE Verify
    BY <1>3, ReviewVerify
  <1>4. CASE Passes \/ Executes
    <2>1. /\ UNCHANGED <<setup, steps, fingerprint, completed, pending, outputs, decision,
                         requests, supplied>>
          /\ pc' \in {"step", "executing"}
      BY <1>4 DEF Passes, Executes
    <2>2. CommittedReviewed'
      BY <2>1, CommittedStays
    <2> QED BY <2>1, <2>2 DEF ReviewInv, Decisions, PendingAsked, IsRecord, ChosenSettled,
                              OutputsReviewed, Guarded, Rating, Settles
  <1>5. CASE Restores
    <2>1. /\ UNCHANGED <<setup, steps, fingerprint, completed, cascaded, pending, decision,
                         requests, supplied>>
          /\ idx \in DOMAIN completed \cap DOMAIN steps /\ Produce(completed[idx].out)
          /\ pc = "step"
      BY <1>5 DEF Restores
    <2>2. fingerprint = TopologyFingerprint(steps)
      BY <2>1 DEF ResumeInv, Marked, Verified, Live
    <2>3. Guarded(Node, completed[idx].out.v) =>
            \E d \in supplied : Settles(d, Node.name, completed[idx].out.v)
      BY <1>5, <2>1, <2>2, RestoredSeal, GuardedCommitted DEF Node, ReviewInv
    <2>4. OutputsReviewed' /\ ChosenSettled'
      BY <2>1, <2>3, ReviewProduced
    <2>5. CommittedReviewed'
      BY <2>1, CommittedStays
    <2> QED BY <2>1, <2>4, <2>5 DEF ReviewInv, Decisions, PendingAsked, IsRecord
  <1>6. CASE Joins
    <2>1. ~Guarded(Node, JoinOutput.v)
      BY <1>6 DEF Joins, Guarded
    <2> QED BY <1>6, <2>1, ReviewCommitted DEF Joins, Live
  <1>7. CASE Returned
    <2>1. PICK out \in Answers :
            /\ pc = "executing" /\ ~Doubtful(out) /\ ~Node.gated /\ Commits(out, 0)
      BY <1>7 DEF Returned
    <2>2. ~Guarded(Node, out.v)
      BY <2>1 DEF Guarded, Doubtful, Rated
    <2> QED BY <2>1, <2>2, ReviewCommitted DEF ResumeInv, InStep, Live
  <1>8. CASE Approved
    <2>1. \E d \in supplied : d.id = chosen.id /\ Settles(d, Node.name, chosen.out.v)
      BY <1>8 DEF Approved, ReviewInv, ChosenSettled
    <2> QED BY <1>8, <2>1, ReviewCommitted DEF Approved, ResumeInv, InStep, Live
  <1>9. CASE Consumes
    BY <1>9, ReviewConsumes
  <1>10. CASE Mints
    BY <1>10, ReviewMints
  <1> QED BY <1>1, <1>2, <1>3, <1>4, <1>5, <1>6, <1>7, <1>8, <1>9, <1>10, Kinds
          DEF ResumeInv

LEMMA ReviewImplies == RatedIsSealed /\ ResumeInv /\ ReviewInv => Reviewed
  <1> SUFFICES ASSUME RatedIsSealed, ResumeInv, ReviewInv PROVE Reviewed
    OBVIOUS
  <1>1. ASSUME FingerprintMatches, Drifted = {}, NEW i \in DOMAIN completed \cap DOMAIN steps,
               Guarded(steps[i], completed[i].out.v)
        PROVE  \E d \in supplied : d.id = completed[i].request /\
                 Settles(d, steps[i].name, completed[i].out.v)
    <2>1. fingerprint = TopologyFingerprint(steps)
      BY <1>1 DEF FingerprintMatches, ResumeInv, Marked
    <2>2. completed[i].seal = SealFor(steps[i])
      BY <1>1 DEF Drifted, Guarded
    <2> QED BY <1>1, <2>1, <2>2, GuardedCommitted DEF ReviewInv
  <1>2. ASSUME NEW i \in DOMAIN steps, steps[i].name \in DOMAIN outputs,
               Guarded(steps[i], outputs[steps[i].name].v)
        PROVE  \E d \in supplied : Settles(d, steps[i].name, outputs[steps[i].name].v)
    BY <1>2 DEF ReviewInv, OutputsReviewed
  <1> QED BY <1>1, <1>2 DEF Reviewed, Guarded, Settles

(* However often a run crashes, is polled, resumed, rejected or redeployed, a gated or *)
(* doubtful output is committed, and reaches later steps, only if a reviewer approved  *)
(* or wrote it for that request (_handle_pending_approval and the gates behind a step).*)
THEOREM OnlyReviewed ==
  ASSUME RatedIsSealed
  PROVE  Spec => []Reviewed
  <1>1. ResumeInv /\ ReviewInv => Reviewed
    BY ReviewImplies
  <1>2. ResumeInv /\ ReviewInv /\ [Next]_vars => ResumeInv' /\ ReviewInv'
    BY ResumeNext, ReviewNext
  <1> QED BY <1>1, <1>2, ResumeInit, ReviewInit, PTL DEF Spec

-----------------------------------------------------------------------------
(* The walk of an attempt.  What is on record of a run decides what the next  *)
(* attempt restores and skips, so that it comes to the node where the one     *)
(* before stopped with the same outputs.                                      *)

(* The operand of a condition is in no fingerprint: versions that one         *)
(* fingerprint takes for the same must have the same.                         *)
ConditionsStay ==
  \A u \in Setups : \A p, q \in u.versions :
    TopologyFingerprint(p) = TopologyFingerprint(q)
    => \A i \in DOMAIN p : p[i].when.holds = q[i].when.holds

Reach(p, i) == IF p[i].inputs # <<>> THEN Range(p[i].inputs)
               ELSE IF i > 1 THEN {p[i - 1].name} ELSE {}

(* The agents a node names are those of nodes before it. *)
NamesBehind(p, i) ==
  /\ \A n \in Range(p[i].sources) \cup Reach(p, i) : \E j \in 1..(i - 1) : p[j].name = n
  /\ p[i].when.agent # None => \E j \in 1..(i - 1) : p[j].name = p[i].when.agent

LEMMA NodesOf ==
  ASSUME NEW u \in Setups, NEW p \in u.versions
  PROVE  /\ Len(p) \in Nat /\ DOMAIN p = 1..Len(p)
         /\ \A i \in DOMAIN p : IsNode(p[i]) /\ NamesBehind(p, i)
         /\ \A i, j \in DOMAIN p : p[i].name = p[j].name => i = j
         /\ 1 \in DOMAIN p => /\ p[1].kind = "agent" /\ Reach(p, 1) = {}
                              /\ p[1].when.agent = None
  <1>1. Registered(p)
    BY PipelineAssumption DEF IsSetup
  <1>2. Len(p) \in Nat /\ DOMAIN p = 1..Len(p) /\ \A i \in DOMAIN p : IsNode(p[i])
    BY <1>1 DEF Registered
  <1>3. ASSUME NEW i \in DOMAIN p
        PROVE  /\ \A n \in Range(p[i].inputs) \cup Range(p[i].sources) :
                    \E j \in 1..(i - 1) : p[j].name = n
               /\ p[i].when.agent # None => \E j \in 1..(i - 1) : p[j].name = p[i].when.agent
               /\ \A j \in 1..(i - 1) : p[j].name # p[i].name
               /\ p[i].kind = "join" => Len(p[i].sources) > 0
    <2> DEFINE before == {p[j].name : j \in 1..(i - 1)}
               firm == {p[j].name : j \in {k \in 1..(i - 1) : p[k].when.agent = None}}
    <2>1. /\ p[i].name \notin before
          /\ Range(p[i].inputs) \cup Range(p[i].sources) \subseteq before
          /\ p[i].when.agent \in firm \cup {None}
          /\ p[i].kind = "join" => Len(p[i].sources) > 0
      BY <1>1, <1>3 DEF Registered
    <2>2. firm \subseteq before
      OBVIOUS
    <2>3. \A n \in before : \E j \in 1..(i - 1) : p[j].name = n
      OBVIOUS
    <2>4. \A j \in 1..(i - 1) : p[j].name \in before
      OBVIOUS
    <2> HIDE DEF before, firm
    <2> QED BY <2>1, <2>2, <2>3, <2>4
  <1>4. ASSUME NEW i \in DOMAIN p, NEW n \in Reach(p, i)
        PROVE  \E j \in 1..(i - 1) : p[j].name = n
    <2>1. CASE p[i].inputs # <<>>
      BY <1>3, <1>4, <2>1 DEF Reach
    <2>2. CASE p[i].inputs = <<>>
      <3>1. i > 1 /\ n = p[i - 1].name
        BY <1>4, <2>2 DEF Reach
      <3>2. i - 1 \in 1..(i - 1)
        BY <1>2, <3>1
      <3> QED BY <3>1, <3>2
    <2> QED BY <2>1, <2>2
  <1>5. ASSUME NEW i \in DOMAIN p, NEW j \in DOMAIN p, p[i].name = p[j].name
        PROVE  i = j
    <2>1. i \in Int /\ j \in Int /\ i >= 1 /\ j >= 1
      BY <1>2
    <2>2. CASE i < j
      <3>1. i \in 1..(j - 1)
        BY <2>1, <2>2
      <3> QED BY <1>3, <1>5, <3>1
    <2>3. CASE j < i
      <3>1. j \in 1..(i - 1)
        BY <2>1, <2>3
      <3> QED BY <1>3, <1>5, <3>1
    <2> QED BY <2>1, <2>2, <2>3
  <1>6. ASSUME 1 \in DOMAIN p
        PROVE  p[1].kind = "agent" /\ Reach(p, 1) = {} /\ p[1].when.agent = None
    <2>1. 1..(1 - 1) = {}
      OBVIOUS
    <2>2. Range(p[1].sources) = {} /\ p[1].when.agent = None
      BY <1>3, <1>6, <2>1
    <2>3. Reach(p, 1) = {}
      BY <1>4, <1>6, <2>1
    <2>4. p[1].kind # "join"
      <3>1. ASSUME Len(p[1].sources) > 0 PROVE p[1].sources[1] \in Range(p[1].sources)
        <4>1. p[1].sources \in Seq(STRING)
          BY <1>2, <1>6 DEF IsNode
        <4> QED BY <3>1, <4>1 DEF Range
      <3> QED BY <1>3, <1>6, <2>2, <3>1
    <2> QED BY <1>2, <1>6, <2>2, <2>3, <2>4 DEF IsNode
  <1>7. \A i \in DOMAIN p : NamesBehind(p, i)
    BY <1>3, <1>4 DEF NamesBehind
  <1> QED BY <1>2, <1>5, <1>6, <1>7

(* Versions with one fingerprint agree on whatever steers the walk. *)
LEMMA SameWalk ==
  ASSUME ConditionsStay, NEW u \in Setups, NEW p \in u.versions, NEW q \in u.versions,
         TopologyFingerprint(p) = TopologyFingerprint(q)
  PROVE  /\ DOMAIN p = DOMAIN q
         /\ \A i \in DOMAIN p :
              /\ p[i].kind = q[i].kind /\ p[i].name = q[i].name
              /\ p[i].inputs = q[i].inputs /\ p[i].when.agent = q[i].when.agent
              /\ p[i].when.holds = q[i].when.holds
              /\ Reach(p, i) = Reach(q, i)
  <1>1. DOMAIN p = DOMAIN q
    BY DEF TopologyFingerprint
  <1>2. ASSUME NEW i \in DOMAIN p
        PROVE  /\ p[i].kind = q[i].kind /\ p[i].name = q[i].name
               /\ p[i].inputs = q[i].inputs /\ p[i].when.agent = q[i].when.agent
    <2>1. TopologyFingerprint(p)[i] = <<p[i].kind, p[i].name, p[i].inputs,
                                        p[i].when.agent, p[i].sources, p[i].policy>>
      BY DEF TopologyFingerprint
    <2>2. TopologyFingerprint(q)[i] = <<q[i].kind, q[i].name, q[i].inputs,
                                        q[i].when.agent, q[i].sources, q[i].policy>>
      BY <1>1 DEF TopologyFingerprint
    <2> QED BY <2>1, <2>2
  <1>3. ASSUME NEW i \in DOMAIN p PROVE Reach(p, i) = Reach(q, i)
    <2>1. i > 1 => i - 1 \in DOMAIN p
      BY NodesOf
    <2> QED BY <1>2, <2>1 DEF Reach
  <1> QED BY <1>1, <1>2, <1>3 DEF ConditionsStay

-----------------------------------------------------------------------------
(* On record: what a completed agent step, or one that waits for a reviewer,  *)
(* stood on when it ran.  Its sources are completed, its condition held, and  *)
(* it was not skipped.                                                        *)
Firm(p, i) == p[i].kind = "agent" =>
  /\ \A n \in Reach(p, i) : \E j \in DOMAIN completed : j \in 1..(i - 1) /\ p[j].name = n
  /\ p[i].when.agent # None =>
       \E j \in DOMAIN completed : /\ j \in 1..(i - 1) /\ p[j].name = p[i].when.agent
                                   /\ completed[j].out.v \in p[i].when.holds
  /\ i \notin cascaded

(* An output was computed from outputs that are on record. *)
Computed(p, i, out) == \A n \in DOMAIN out.ins :
  \E j \in DOMAIN completed : /\ j \in 1..(i - 1) /\ p[j].name = n
                              /\ completed[j].out.v = out.ins[n]

(* An agent step that will not run: it is completed or will be skipped. *)
Settled(p, i) == p[i].kind = "agent" =>
  \/ i \in DOMAIN completed \cup cascaded
  \/ /\ p[i].when.agent # None
     /\ \E j \in DOMAIN completed : /\ j \in 1..(i - 1) /\ p[j].name = p[i].when.agent
                                    /\ completed[j].out.v \notin p[i].when.holds

OnRecord == \A p \in Pipelines : fingerprint = TopologyFingerprint(p) =>
  \A i \in DOMAIN p \cap DOMAIN completed :
    Firm(p, i) /\ Computed(p, i, completed[i].out)

FirstDone == DOMAIN completed \cup cascaded # {} => 1 \in DOMAIN completed

(* What an attempt has gone past. *)
Walk == pc \in Live \cup {"preflight"} =>
  /\ idx \in Nat \ {0} /\ idx - 1 <= Len(steps)
  /\ DOMAIN outputs \cap skipped = {}
  /\ \A n \in DOMAIN outputs \cup skipped : \E j \in 1..(idx - 1) : steps[j].name = n
  /\ \A j \in 1..(idx - 1) : steps[j].name \in DOMAIN outputs \cup skipped
  /\ idx > 1 => steps[1].name \in DOMAIN outputs
  /\ HasStore => \A j \in 1..(idx - 1) :
       /\ steps[j].name \in DOMAIN outputs <=> j \in DOMAIN completed
       /\ j \in DOMAIN completed => outputs[steps[j].name] = completed[j].out
       /\ Settled(steps, j)

(* The step at hand is one its agent runs for. *)
AtWork == pc \in {"executing", "approving"} =>
  /\ ReachSources \subseteq DOMAIN outputs
  /\ Node.when.agent # None => /\ Node.when.agent \in DOMAIN outputs
                               /\ outputs[Node.when.agent].v \in Node.when.holds
  /\ idx \notin DOMAIN completed \cup cascaded

Fed == \A n \in DOMAIN outputs : \A m \in DOMAIN outputs[n].ins :
  m \in DOMAIN outputs /\ outputs[m].v = outputs[n].ins[m]

(* What waits was computed from outputs that are on record, and so is what a  *)
(* reviewer decided on.                                                       *)
ProposedAt(p, k) ==
  /\ p[k].name = pending.step /\ (DOMAIN pending.out.ins # {} => k > 1)
  /\ k > 1 => 1 \in DOMAIN completed
  /\ k > 1 /\ 1 \in DOMAIN fingerprint =>
       fingerprint = TopologyFingerprint(p) /\ Computed(p, k, pending.out)
Proposed ==
  /\ pending # None => /\ HasStore /\ IsRecord(pending.out)
                       /\ \E p \in Pipelines : \E k \in DOMAIN p : ProposedAt(p, k)
  /\ pc = "approving" => HasStore /\ Computed(steps, idx, chosen.out)

WalkInv == OnRecord /\ FirstDone /\ Walk /\ AtWork /\ Fed /\ Proposed

-----------------------------------------------------------------------------
(* What a step does to the walk.                                              *)

Rests ==
  /\ UNCHANGED <<setup, steps, fingerprint, completed, cascaded, pending, idx, outputs,
                 skipped, chosen, requests, applied>>
  /\ pc' = pc \/ (pc = "input" /\ pc' = "step")

Leaves ==
  /\ UNCHANGED <<setup, fingerprint, completed, cascaded, requests>>
  /\ steps' \in Pipelines
  /\ \/ pc' = "idle" /\ (outputs' = <<>> \/ outputs' = outputs)
     \/ pc' = "preflight" /\ idx' = 1 /\ outputs' = <<>> /\ skipped' = {}
  /\ \/ pending' = pending /\ applied' = applied
     \/ pending # None /\ pending' = None /\ applied' = applied \cup {pending.id}

Asks == \E out \in Answers :
  /\ UNCHANGED <<setup, steps, fingerprint, completed, cascaded, applied>>
  /\ pc = "executing" /\ pc' = "idle" /\ outputs' = <<>>
  /\ IF HasStore
     THEN /\ requests' = Append(requests, [step |-> Node.name, v |-> out.v])
          /\ \E reason : pending' = [id |-> Len(requests) + 1, step |-> Node.name,
                                     reason |-> reason, out |-> out]
     ELSE UNCHANGED <<requests, pending>>

LEMMA Turns ==
  ASSUME Deployed, [Next]_vars
  PROVE  \/ Rests \/ Leaves \/ Verify \/ Skipping \/ RestoreJoin \/ RestoreStep
         \/ CommitJoin \/ Execute \/ ConsumeApproval \/ CommitApproved \/ CommitStep \/ Asks
  <1> USE DEF world, durable, history, attempt
  <1>1. CASE RefuseTopology \/ RefuseSeal \/ RefuseInput \/ HaltUnconsumed \/ Complete
    BY <1>1 DEF RefuseTopology, RefuseSeal, RefuseInput, HaltUnconsumed, Complete, Halt,
                Stop, Forget, Leaves, Deployed
  <1>2. CASE HaltJoin \/ JoinRaises \/ Gates
    BY <1>2 DEF HaltJoin, JoinRaises, Gates, HaltUnevaluable, HaltTainted, HaltIdentity,
                Halt, Stop, Forget, Leaves, Deployed
  <1>3. CASE Sanitize \/ Suspend \/ Reinstate \/ UNCHANGED vars
    BY <1>3 DEF Sanitize, Suspend, Reinstate, vars, Rests
  <1>4. CASE Start \/ Approve \/ Decide \/ Redeploy \/ Crash
    BY <1>4 DEF Start, Approve, Decide, Redeploy, Crash, Begin, Stop, Forget, Leaves, Deployed
  <1>5. CASE Poll \/ Mismatch \/ Reject \/ RefuseChosen
    BY <1>5 DEF Poll, Mismatch, Reject, RefuseChosen, Decided, Awaiting, Close, Halt, Stop,
                Forget, Leaves, Deployed
  <1>6. CASE ExecutionFails \/ HaltUnusable \/ HaltLowConfidence
    BY <1>6 DEF ExecutionFails, HaltUnusable, HaltLowConfidence, Stop, Forget, Leaves,
                Deployed
  <1>7. CASE MintForConfidence
    BY <1>7 DEF MintForConfidence, Mint, Stop, Forget, Asks
  <1>8. CASE MintForApproval
    BY <1>8 DEF MintForApproval, Mint, Stop, Forget, Asks
  <1> QED BY <1>1, <1>2, <1>3, <1>4, <1>5, <1>6, <1>7, <1>8
          DEF Next, Running, Preflight, Input, JoinNode, Approval, Executing, Environment

(* The node at hand has no output yet, and what it names is behind it.        *)
LEMMA AtHand ==
  ASSUME ResumeInv, WalkInv, pc \in Live, idx \in DOMAIN steps
  PROVE  /\ Node.name \notin DOMAIN outputs \cup skipped
         /\ ReachSources = Reach(steps, idx)
         /\ ReachSources \cup Range(Node.sources) \subseteq DOMAIN outputs \cup skipped
         /\ Node.when.agent # None => Node.when.agent \in DOMAIN outputs \cup skipped
         /\ idx = 1 => /\ Node.kind = "agent" /\ ReachSources = {}
                       /\ Node.when.agent = None
         /\ idx \in Nat \ {0} /\ 1 \in DOMAIN steps
  <1>1. setup \in Setups /\ steps \in setup.versions
    BY DEF ResumeInv, Deployed, Pipelines
  <1>2. Len(steps) \in Nat /\ DOMAIN steps = 1..Len(steps)
    BY <1>1, NodesOf
  <1>3. /\ \A n \in Range(steps[idx].sources) : \E j \in 1..(idx - 1) : steps[j].name = n
        /\ \A n \in Reach(steps, idx) : \E j \in 1..(idx - 1) : steps[j].name = n
        /\ steps[idx].when.agent # None =>
             \E j \in 1..(idx - 1) : steps[j].name = steps[idx].when.agent
    <2>1. NamesBehind(steps, idx)
      BY <1>1, NodesOf
    <2> QED BY <2>1 DEF NamesBehind
  <1>4. /\ \A i, j \in DOMAIN steps : steps[i].name = steps[j].name => i = j
        /\ 1 \in DOMAIN steps => /\ steps[1].kind = "agent" /\ Reach(steps, 1) = {}
                                 /\ steps[1].when.agent = None
    BY <1>1, NodesOf
  <1>5. Walk
    BY DEF WalkInv
  <1>6. /\ idx \in Nat \ {0}
        /\ \A n \in DOMAIN outputs \cup skipped : \E j \in 1..(idx - 1) : steps[j].name = n
        /\ \A j \in 1..(idx - 1) : steps[j].name \in DOMAIN outputs \cup skipped
    BY <1>5 DEF Walk
  <1>7. ReachSources = Reach(steps, idx)
    BY DEF ReachSources, Reach, Node
  <1>8. Node.name \notin DOMAIN outputs \cup skipped
    <2> SUFFICES ASSUME NEW j \in 1..(idx - 1), steps[j].name = steps[idx].name PROVE FALSE
      BY <1>6 DEF Node
    <2>1. j \in DOMAIN steps /\ j # idx
      BY <1>2, <1>6
    <2> QED BY <1>4, <2>1
  <1>9. 1 \in DOMAIN steps
    BY <1>2, <1>6
  <1> QED BY <1>3, <1>4, <1>6, <1>7, <1>8, <1>9 DEF Node

(* Records that are kept say of a step what they said before. *)
Grows == /\ \A j \in DOMAIN completed : j \in DOMAIN completed' /\ completed'[j] = completed[j]
         /\ cascaded \subseteq cascaded'

LEMMA Kept ==
  ASSUME Grows, NEW p, NEW i
  PROVE  /\ Firm(p, i) /\ (i \in cascaded' => i \in cascaded) => Firm(p, i)'
         /\ \A out : Computed(p, i, out) => Computed(p, i, out)'
         /\ Settled(p, i) => Settled(p, i)'
  <1>1. ASSUME Firm(p, i), i \in cascaded' => i \in cascaded PROVE Firm(p, i)'
    BY <1>1 DEF Firm, Grows
  <1>2. ASSUME NEW out, Computed(p, i, out) PROVE Computed(p, i, out)'
    BY <1>2 DEF Computed, Grows
  <1>3. ASSUME Settled(p, i) PROVE Settled(p, i)'
    BY <1>3 DEF Settled, Grows
  <1> QED BY <1>1, <1>2, <1>3

(* So do versions of one fingerprint. *)
LEMMA SameRecords ==
  ASSUME ConditionsStay, Deployed, NEW p \in Pipelines, NEW q \in Pipelines,
         TopologyFingerprint(p) = TopologyFingerprint(q), NEW i \in DOMAIN p
  PROVE  /\ Firm(p, i) <=> Firm(q, i)
         /\ \A out : Computed(p, i, out) <=> Computed(q, i, out)
         /\ Settled(p, i) <=> Settled(q, i)
  <1>1. setup \in Setups /\ p \in setup.versions /\ q \in setup.versions
    BY DEF Deployed, Pipelines
  <1>2. DOMAIN p = 1..Len(p) /\ Len(p) \in Nat
    BY <1>1, NodesOf
  <1>3. \A j \in 1..(i - 1) : j \in DOMAIN p
    BY <1>2
  <1>4. /\ DOMAIN p = DOMAIN q
        /\ \A j \in DOMAIN p :
              /\ p[j].kind = q[j].kind /\ p[j].name = q[j].name
              /\ p[j].when.agent = q[j].when.agent
              /\ p[j].when.holds = q[j].when.holds
              /\ Reach(p, j) = Reach(q, j)
    BY <1>1, SameWalk
  <1>5. \A j \in 1..(i - 1) : p[j].name = q[j].name
    BY <1>3, <1>4
  <1>6. Firm(p, i) <=> Firm(q, i)
    BY <1>4, <1>5 DEF Firm
  <1>7. \A out : Computed(p, i, out) <=> Computed(q, i, out)
    BY <1>5 DEF Computed
  <1>8. Settled(p, i) <=> Settled(q, i)
    BY <1>4, <1>5 DEF Settled
  <1> QED BY <1>6, <1>7, <1>8

(* What is on record of the pipeline at work. *)
LEMMA Recorded ==
  ASSUME ResumeInv, WalkInv, pc \in Live, NEW i \in DOMAIN completed \cap DOMAIN steps
  PROVE  /\ HasStore /\ fingerprint = TopologyFingerprint(steps)
         /\ Firm(steps, i) /\ Computed(steps, i, completed[i].out)
  <1>1. HasStore
    BY DEF ResumeInv, Marked
  <1>2. fingerprint = TopologyFingerprint(steps)
    BY <1>1 DEF ResumeInv, Verified
  <1> QED BY <1>1, <1>2 DEF WalkInv, OnRecord, ResumeInv, Deployed

(* With a store, the outputs of an attempt are those of its records. *)
LEMMA Behind ==
  ASSUME ResumeInv, WalkInv, pc \in Live, HasStore
  PROVE  /\ \A n \in DOMAIN outputs : \E j \in DOMAIN completed :
              j \in 1..(idx - 1) /\ steps[j].name = n /\ completed[j].out = outputs[n]
         /\ \A j \in DOMAIN completed : j \in 1..(idx - 1) =>
              /\ steps[j].name \in DOMAIN outputs /\ steps[j].name \notin skipped
              /\ outputs[steps[j].name] = completed[j].out
         /\ idx > 1 => 1 \in DOMAIN completed
  <1>1. /\ idx \in Nat \ {0}
        /\ DOMAIN outputs \cap skipped = {}
        /\ \A n \in DOMAIN outputs \cup skipped : \E j \in 1..(idx - 1) : steps[j].name = n
        /\ idx > 1 => steps[1].name \in DOMAIN outputs
        /\ \A j \in 1..(idx - 1) :
             /\ steps[j].name \in DOMAIN outputs <=> j \in DOMAIN completed
             /\ j \in DOMAIN completed => outputs[steps[j].name] = completed[j].out
    BY DEF WalkInv, Walk
  <1>2. idx > 1 => 1 \in DOMAIN completed
    BY <1>1
  <1> QED BY <1>1, <1>2

(* So what was computed from records was computed from outputs. *)
LEMMA FromOutputs ==
  ASSUME ResumeInv, WalkInv, pc \in Live, HasStore, NEW out
  PROVE  Computed(steps, idx, out) <=>
           \A n \in DOMAIN out.ins : n \in DOMAIN outputs /\ outputs[n].v = out.ins[n]
  <1>1. ASSUME Computed(steps, idx, out), NEW n \in DOMAIN out.ins
        PROVE  n \in DOMAIN outputs /\ outputs[n].v = out.ins[n]
    <2>1. PICK j \in DOMAIN completed : /\ j \in 1..(idx - 1) /\ steps[j].name = n
                                        /\ completed[j].out.v = out.ins[n]
      BY <1>1 DEF Computed
    <2> QED BY <2>1, Behind
  <1>2. ASSUME \A n \in DOMAIN out.ins : n \in DOMAIN outputs /\ outputs[n].v = out.ins[n]
        PROVE  Computed(steps, idx, out)
    <2> SUFFICES ASSUME NEW n \in DOMAIN out.ins
                 PROVE  \E j \in DOMAIN completed : /\ j \in 1..(idx - 1) /\ steps[j].name = n
                                                    /\ completed[j].out.v = out.ins[n]
      BY DEF Computed
    <2>1. n \in DOMAIN outputs /\ outputs[n].v = out.ins[n]
      BY <1>2
    <2> QED BY <2>1, Behind
  <1> QED BY <1>1, <1>2

(* An attempt comes to a node whose agent runs when its sources did.          *)
LEMMA AdmittedFirm ==
  ASSUME ResumeInv, WalkInv, pc \in Live, idx \in DOMAIN steps, HasStore,
         ReachSources \subseteq DOMAIN outputs, idx \notin cascaded,
         Node.when.agent # None => /\ Node.when.agent \in DOMAIN outputs
                                   /\ outputs[Node.when.agent].v \in Node.when.holds
  PROVE  Firm(steps, idx)
  <1>1. \A n \in Reach(steps, idx) :
          \E j \in DOMAIN completed : j \in 1..(idx - 1) /\ steps[j].name = n
    BY AtHand, Behind
  <1>2. ASSUME Node.when.agent # None
        PROVE  \E j \in DOMAIN completed :
                  /\ j \in 1..(idx - 1) /\ steps[j].name = Node.when.agent
                  /\ completed[j].out.v \in Node.when.holds
    BY <1>2, Behind
  <1> QED BY <1>1, <1>2 DEF Firm, Node

(* The record of the node at hand is the output it is given. *)
Recording(out) ==
  /\ \A j : j \in DOMAIN completed' <=> j \in DOMAIN completed \/ (HasStore /\ j = idx)
  /\ \A j \in DOMAIN completed : completed'[j] = completed[j]
  /\ HasStore => completed'[idx].out = out

LEMMA RecordingCommit ==
  ASSUME NEW out, NEW r, completed' = Committed(out, r), idx \notin DOMAIN completed
  PROVE  Recording(out)
  BY DEF Committed, Recording

LEMMA WalksOn ==
  ASSUME ResumeInv, WalkInv, pc \in Live, idx \in DOMAIN steps, NEW out, Produce(out),
         UNCHANGED <<setup, steps, cascaded>>, Recording(out),
         \A m \in DOMAIN out.ins : m \in DOMAIN outputs /\ outputs[m].v = out.ins[m]
  PROVE  Walk' /\ AtWork' /\ Fed'
  <1>1. /\ pc' = "step" /\ idx' = idx + 1 /\ skipped' = skipped
        /\ outputs' = [m \in DOMAIN outputs \cup {Node.name} |->
                         IF m = Node.name THEN out ELSE outputs[m]]
    BY Produced DEF Produce, Advance
  <1>2. /\ DOMAIN outputs' = DOMAIN outputs \cup {Node.name}
        /\ outputs'[Node.name] = out
        /\ \A m \in DOMAIN outputs : outputs'[m] = outputs[m]
    BY <1>1, AtHand
  <1>g. Grows
    BY DEF Grows, Recording
  <1>3. AtWork'
    BY <1>1 DEF AtWork
  <1>4. Fed'
    BY <1>2 DEF Fed, WalkInv
  <1>5. DOMAIN steps = 1..Len(steps) /\ Len(steps) \in Nat
    BY NodesOf DEF ResumeInv, Deployed, Pipelines
  <1>6. /\ idx \in Nat \ {0} /\ idx - 1 <= Len(steps)
        /\ DOMAIN outputs \cap skipped = {}
        /\ \A n \in DOMAIN outputs \cup skipped : \E j \in 1..(idx - 1) : steps[j].name = n
        /\ \A j \in 1..(idx - 1) : steps[j].name \in DOMAIN outputs \cup skipped
        /\ idx > 1 => steps[1].name \in DOMAIN outputs
        /\ HasStore => \A j \in 1..(idx - 1) :
             /\ steps[j].name \in DOMAIN outputs <=> j \in DOMAIN completed
             /\ j \in DOMAIN completed => outputs[steps[j].name] = completed[j].out
             /\ Settled(steps, j)
    BY DEF WalkInv, Walk
  <1>7. idx <= Len(steps) /\ 1..idx = 1..(idx - 1) \cup {idx} /\ (idx + 1) - 1 = idx
    BY <1>5, <1>6
  <1>8. \A j \in 1..(idx - 1) : j # idx /\ steps[j].name # Node.name
    BY <1>6, AtHand
  <1>9. \A n \in DOMAIN outputs' \cup skipped : \E j \in 1..idx : steps[j].name = n
    BY <1>2, <1>6, <1>7 DEF Node
  <1>10. \A j \in 1..idx : steps[j].name \in DOMAIN outputs' \cup skipped
    BY <1>2, <1>6, <1>7 DEF Node
  <1>11. steps[1].name \in DOMAIN outputs'
    <2>1. CASE idx = 1
      BY <1>2, <2>1 DEF Node
    <2>2. CASE idx > 1
      BY <1>2, <1>6, <2>2
    <2> QED BY <1>6, <2>1, <2>2
  <1>12. Node.name \notin skipped
    BY AtHand
  <1>13. ASSUME HasStore, NEW j \in 1..idx
         PROVE  /\ steps[j].name \in DOMAIN outputs' <=> j \in DOMAIN completed'
                /\ j \in DOMAIN completed' => outputs'[steps[j].name] = completed'[j].out
                /\ Settled(steps, j)'
    <2>1. Grows /\ HasStore
      BY <1>g, <1>13
    <2>2. CASE j = idx
      <3>1. idx \in DOMAIN completed' /\ completed'[idx].out = out
        BY <2>1 DEF Recording
      <3>2. Settled(steps, j)'
        BY <2>2, <3>1 DEF Settled
      <3> QED BY <1>2, <2>2, <3>1, <3>2 DEF Node
    <2>3. CASE j \in 1..(idx - 1)
      <3>1. /\ steps[j].name \in DOMAIN outputs <=> j \in DOMAIN completed
            /\ j \in DOMAIN completed => outputs[steps[j].name] = completed[j].out
            /\ Settled(steps, j)
        BY <1>6, <2>1, <2>3
      <3>2. Settled(steps, j)'
        BY <2>1, <3>1, Kept
      <3>3. j # idx /\ steps[j].name # Node.name
        BY <1>8, <2>3
      <3>4. j \in DOMAIN completed' <=> j \in DOMAIN completed
        BY <3>3 DEF Recording
      <3>5. j \in DOMAIN completed => completed'[j] = completed[j]
        BY DEF Recording
      <3> QED BY <1>2, <3>1, <3>2, <3>3, <3>4, <3>5
    <2> QED BY <1>7, <1>13, <2>2, <2>3
  <1>14. HasStore' = HasStore
    BY DEF HasStore
  <1>15. DOMAIN outputs' \cap skipped = {}
    BY <1>2, <1>6, <1>12
  <1> QED
    <2>1. idx + 1 \in Nat \ {0}
      BY <1>6
    <2>2. ASSUME HasStore
          PROVE  \A j \in 1..idx :
             /\ steps[j].name \in DOMAIN outputs' <=> j \in DOMAIN completed'
             /\ j \in DOMAIN completed' => outputs'[steps[j].name] = completed'[j].out
             /\ Settled(steps, j)'
      BY <1>13, <2>2
    <2>3. /\ idx' \in Nat \ {0} /\ idx' - 1 = idx /\ idx <= Len(steps)
      BY <1>1, <1>7, <2>1
    <2>4. /\ steps' = steps /\ skipped' = skipped
      BY <1>1
    <2>5. 1..(idx' - 1) = 1..idx
      BY <2>3
    <2>6. \A n \in DOMAIN outputs' \cup skipped' : \E j \in 1..(idx' - 1) : steps'[j].name = n
      BY <1>9, <2>4, <2>5
    <2>7. \A j \in 1..(idx' - 1) : steps'[j].name \in DOMAIN outputs' \cup skipped'
      BY <1>10, <2>4, <2>5
    <2>8. HasStore' => \A j \in 1..(idx' - 1) :
             /\ steps'[j].name \in DOMAIN outputs' <=> j \in DOMAIN completed'
             /\ j \in DOMAIN completed' => outputs'[steps'[j].name] = completed'[j].out
             /\ Settled(steps, j)'
      BY <1>14, <2>2, <2>4, <2>5
    <2>9. Walk'
      BY <1>11, <1>15, <2>3, <2>4, <2>6, <2>7, <2>8 DEF Walk
    <2> QED BY <1>3, <1>4, <2>9

LEMMA RecordsCommit ==
  ASSUME ConditionsStay, ResumeInv, WalkInv, pc \in Live, idx \in DOMAIN steps, NEW out,
         Recording(out), UNCHANGED <<setup, steps, fingerprint, cascaded>>,
         HasStore => Firm(steps, idx) /\ Computed(steps, idx, out)
  PROVE  OnRecord' /\ FirstDone'
  <1>1. Grows
    BY DEF Recording, Grows
  <1>2. FirstDone'
    <2>1. CASE HasStore
      <3>1. idx > 1 => 1 \in DOMAIN completed
        BY <2>1, Behind
      <3>2. idx \in Nat \ {0}
        BY AtHand
      <3>3. 1 \in DOMAIN completed'
        BY <2>1, <3>1, <3>2 DEF Recording
      <3> QED BY <3>3 DEF FirstDone
    <2>2. CASE ~HasStore
      BY <2>2 DEF Recording, FirstDone, WalkInv
    <2> QED BY <2>1, <2>2
  <1>3. ASSUME NEW p \in Pipelines, fingerprint = TopologyFingerprint(p),
               NEW i \in DOMAIN p \cap DOMAIN completed'
        PROVE  Firm(p, i)' /\ Computed(p, i, completed[i].out)'
    <2>1. CASE i \in DOMAIN completed
      <3>1. Firm(p, i) /\ Computed(p, i, completed[i].out)
        BY <1>3, <2>1 DEF WalkInv, OnRecord
      <3>2. completed'[i] = completed[i]
        BY <2>1 DEF Recording
      <3>3. Firm(p, i)'
        BY <1>1, <3>1, Kept
      <3>4. \A o : Computed(p, i, o) => Computed(p, i, o)'
        BY <1>1, Kept
      <3> QED BY <3>1, <3>2, <3>3, <3>4 DEF Computed
    <2>2. CASE HasStore /\ i = idx
      <3>1. steps \in Pipelines /\ fingerprint = TopologyFingerprint(steps)
        BY <2>2 DEF ResumeInv, Deployed, Verified
      <3>2. Firm(p, i) /\ Computed(p, i, out)
        BY <1>3, <2>2, <3>1, SameRecords DEF ResumeInv
      <3>3. completed'[i].out = out
        BY <2>2 DEF Recording
      <3>4. Firm(p, i)'
        BY <1>1, <3>2, Kept
      <3>5. \A o : Computed(p, i, o) => Computed(p, i, o)'
        BY <1>1, Kept
      <3> QED BY <3>2, <3>3, <3>4, <3>5 DEF Computed
    <2> QED BY <2>1, <2>2 DEF Recording
  <1>4. OnRecord'
    BY <1>3 DEF OnRecord, Pipelines, TopologyFingerprint
  <1> QED BY <1>2, <1>4

(* A step whose sources are completed and whose condition held is not skipped. *)
LEMMA FirmRuns ==
  ASSUME ResumeInv, WalkInv, HasStore, Skipping
  PROVE  ~Firm(steps, idx)
  <1>1. idx \in DOMAIN steps /\ Node.kind = "agent" /\ pc \in Live
    BY DEF Skipping, ReplaySkip, SkipCascade, SkipCondition, Evaluable, Reached, Unskipped,
           At, Live
  <1> SUFFICES ASSUME Firm(steps, idx) PROVE FALSE
    OBVIOUS
  <1>2. /\ \A n \in ReachSources :
             \E j \in DOMAIN completed : j \in 1..(idx - 1) /\ steps[j].name = n
        /\ Node.when.agent # None =>
             \E j \in DOMAIN completed : /\ j \in 1..(idx - 1)
                                         /\ steps[j].name = Node.when.agent
                                         /\ completed[j].out.v \in Node.when.holds
        /\ idx \notin cascaded
    BY <1>1, AtHand DEF Firm, Node
  <1>3. ReachSources \cap skipped = {}
    BY <1>1, <1>2, Behind
  <1>4. Node.when.agent # None => outputs[Node.when.agent].v \in Node.when.holds
    BY <1>1, <1>2, Behind
  <1> QED BY <1>2, <1>3, <1>4 DEF Skipping, ReplaySkip, SkipCascade, SkipCondition, Holds

(* A step that is skipped has no record, and is not the first.                *)
LEMMA SkippedUnrecorded ==
  ASSUME ResumeInv, WalkInv, Skipping
  PROVE  /\ pc = "step" /\ idx \in DOMAIN steps /\ Node.kind = "agent"
         /\ idx \notin DOMAIN completed /\ idx # 1
  <1>1. pc = "step" /\ idx \in DOMAIN steps /\ Node.kind = "agent" /\ pc \in Live
    BY DEF Skipping, ReplaySkip, SkipCascade, SkipCondition, Evaluable, Reached, Unskipped,
           At, Live
  <1>2. ASSUME idx \in DOMAIN completed PROVE FALSE
    BY <1>1, <1>2, Recorded, FirmRuns
  <1>3. ASSUME idx = 1 PROVE FALSE
    <2>1. 1 \notin cascaded
      BY <1>2, <1>3 DEF WalkInv, FirstDone
    <2>2. ReachSources = {} /\ Node.when.agent = None
      BY <1>1, <1>3, AtHand
    <2> QED BY <1>3, <2>1, <2>2
            DEF Skipping, ReplaySkip, SkipCascade, SkipCondition, Holds
  <1> QED BY <1>1, <1>2, <1>3

LEMMA SkipSettles ==
  ASSUME ResumeInv, WalkInv, Skipping, HasStore
  PROVE  Settled(steps, idx) \/ (idx \in cascaded' /\ cascaded' = cascaded \cup {idx})
  <1>1. /\ pc \in Live /\ idx \in DOMAIN steps
    BY SkippedUnrecorded DEF Live
  <1>2. CASE ReplaySkip
    BY <1>2 DEF ReplaySkip, Settled
  <1>3. CASE SkipCascade
    BY <1>3 DEF SkipCascade
  <1>4. CASE SkipCondition
    <2>1. /\ Node.when.agent # None /\ Node.when.agent \notin skipped
          /\ outputs[Node.when.agent].v \notin Node.when.holds
      BY <1>4 DEF SkipCondition, Holds, Evaluable
    <2>2. Node.when.agent \in DOMAIN outputs
      BY <1>1, <2>1, AtHand
    <2>3. \E j \in DOMAIN completed : /\ j \in 1..(idx - 1) /\ steps[j].name = Node.when.agent
                                      /\ completed[j].out.v \notin Node.when.holds
      BY <1>1, <2>1, <2>2, Behind
    <2> QED BY <2>1, <2>3 DEF Settled, Node
  <1> QED BY <1>2, <1>3, <1>4 DEF Skipping

LEMMA WalkSkips ==
  ASSUME ResumeInv, WalkInv, Skipping
  PROVE  WalkInv'
  <1>1. /\ pc = "step" /\ pc' = "step" /\ idx' = idx + 1 /\ skipped' = skipped \cup {Node.name}
        /\ UNCHANGED <<setup, steps, fingerprint, completed, pending, outputs>>
        /\ cascaded' = cascaded \/ (HasStore /\ cascaded' = cascaded \cup {idx})
    <2> USE DEF Skip, Advance, world, durable
    <2>1. CASE ReplaySkip
      BY <2>1 DEF ReplaySkip, At
    <2>2. CASE SkipCascade
      BY <2>2 DEF SkipCascade, Unskipped, At
    <2>3. CASE SkipCondition
      BY <2>3 DEF SkipCondition, Evaluable, Reached, Unskipped, At
    <2> QED BY <2>1, <2>2, <2>3 DEF Skipping
  <1>2. /\ pc \in Live /\ idx \in DOMAIN steps /\ idx \notin DOMAIN completed /\ idx # 1
    BY SkippedUnrecorded DEF Live
  <1>3. Grows
    BY <1>1 DEF Grows
  <1>4. /\ idx \in Nat \ {0} /\ idx - 1 <= Len(steps)
        /\ DOMAIN outputs \cap skipped = {}
        /\ \A n \in DOMAIN outputs \cup skipped : \E j \in 1..(idx - 1) : steps[j].name = n
        /\ \A j \in 1..(idx - 1) : steps[j].name \in DOMAIN outputs \cup skipped
        /\ idx > 1 => steps[1].name \in DOMAIN outputs
        /\ HasStore => \A j \in 1..(idx - 1) :
             /\ steps[j].name \in DOMAIN outputs <=> j \in DOMAIN completed
             /\ j \in DOMAIN completed => outputs[steps[j].name] = completed[j].out
             /\ Settled(steps, j)
    BY <1>2 DEF WalkInv, Walk
  <1>5. DOMAIN steps = 1..Len(steps) /\ Len(steps) \in Nat
    BY NodesOf DEF ResumeInv, Deployed, Pipelines
  <1>6. /\ idx <= Len(steps) /\ 1..idx = 1..(idx - 1) \cup {idx} /\ (idx + 1) - 1 = idx
        /\ idx > 1 /\ idx + 1 \in Nat \ {0}
    BY <1>2, <1>4, <1>5
  <1>7. Node.name \notin DOMAIN outputs
    BY <1>2, AtHand
  <1>8. FirstDone'
    <2>1. HasStore => 1 \in DOMAIN completed
      BY <1>2, <1>6, Behind
    <2> QED BY <1>1, <2>1 DEF WalkInv, FirstDone
  <1>9. OnRecord'
    <2> SUFFICES ASSUME NEW p \in Pipelines, fingerprint = TopologyFingerprint(p),
                        NEW i \in DOMAIN p \cap DOMAIN completed
                 PROVE  Firm(p, i)' /\ Computed(p, i, completed[i].out)'
      BY <1>1 DEF OnRecord, Pipelines
    <2>1. Firm(p, i) /\ Computed(p, i, completed[i].out)
      BY DEF WalkInv, OnRecord
    <2>2. i \in cascaded' => i \in cascaded
      BY <1>1, <1>2
    <2>3. Firm(p, i)'
      BY <1>3, <2>1, <2>2, Kept
    <2> QED BY <1>1, <2>1, <2>3 DEF Computed
  <1>10. Proposed'
    BY <1>1 DEF WalkInv, Proposed, ProposedAt, Computed, IsRecord, Pipelines, HasStore
  <1>11. AtWork' /\ Fed'
    BY <1>1 DEF AtWork, WalkInv, Fed
  <1>12. Walk'
    <2>1. 1..(idx' - 1) = 1..idx /\ idx' \in Nat \ {0} /\ idx' - 1 <= Len(steps)
      BY <1>1, <1>6
    <2>2. \A n \in DOMAIN outputs \cup skipped' : \E j \in 1..idx : steps[j].name = n
      BY <1>1, <1>4, <1>6 DEF Node
    <2>3. \A j \in 1..idx : steps[j].name \in DOMAIN outputs \cup skipped'
      BY <1>1, <1>4, <1>6 DEF Node
    <2>4. ASSUME HasStore, NEW j \in 1..idx
          PROVE  /\ steps[j].name \in DOMAIN outputs <=> j \in DOMAIN completed
                 /\ j \in DOMAIN completed => outputs[steps[j].name] = completed[j].out
                 /\ Settled(steps, j)'
      <3>1. CASE j = idx
        <4>1. Settled(steps, j)'
          <5>1. CASE Settled(steps, j)
            BY <1>1, <1>3, <5>1, Kept
          <5>2. CASE idx \in cascaded'
            BY <3>1, <5>2 DEF Settled
          <5> QED BY <2>4, <3>1, <5>1, <5>2, SkipSettles
        <4> QED BY <1>2, <1>7, <3>1, <4>1 DEF Node
      <3>2. CASE j \in 1..(idx - 1)
        <4>1. Settled(steps, j)
          BY <1>4, <2>4, <3>2
        <4>2. Settled(steps, j)'
          BY <1>1, <1>3, <4>1, Kept
        <4> QED BY <1>4, <2>4, <3>2, <4>2
      <3> QED BY <1>6, <2>4, <3>1, <3>2
    <2>5. HasStore' = HasStore
      BY <1>1 DEF HasStore
    <2>6. HasStore' => \A j \in 1..(idx' - 1) :
             /\ steps'[j].name \in DOMAIN outputs' <=> j \in DOMAIN completed'
             /\ j \in DOMAIN completed' => outputs'[steps'[j].name] = completed'[j].out
             /\ Settled(steps, j)'
      BY <1>1, <2>1, <2>4, <2>5
    <2>7. DOMAIN outputs \cap skipped' = {}
      BY <1>1, <1>4, <1>7
    <2>8. \A n \in DOMAIN outputs' \cup skipped' : \E j \in 1..(idx' - 1) : steps'[j].name = n
      BY <1>1, <2>1, <2>2
    <2>9. \A j \in 1..(idx' - 1) : steps'[j].name \in DOMAIN outputs' \cup skipped'
      BY <1>1, <2>1, <2>3
    <2>10. DOMAIN outputs' \cap skipped' = {} /\ steps'[1].name \in DOMAIN outputs'
           /\ idx' - 1 <= Len(steps')
      BY <1>1, <1>4, <1>6, <2>1, <2>7
    <2> QED BY <2>1, <2>6, <2>8, <2>9, <2>10 DEF Walk
  <1> QED BY <1>8, <1>9, <1>10, <1>11, <1>12 DEF WalkInv

(* Nothing of the records changes. *)
LEMMA RecordsRest ==
  ASSUME WalkInv, UNCHANGED <<setup, fingerprint, completed, cascaded>>
  PROVE  OnRecord' /\ FirstDone'
  <1>1. FirstDone'
    BY DEF WalkInv, FirstDone
  <1>2. OnRecord'
    BY DEF WalkInv, OnRecord, Firm, Computed, Pipelines, TopologyFingerprint
  <1> QED BY <1>1, <1>2

LEMMA WalkLeaves ==
  ASSUME ResumeInv, WalkInv, Leaves
  PROVE  WalkInv'
  <1>1. OnRecord' /\ FirstDone'
    BY RecordsRest DEF Leaves
  <1>2. Proposed'
    BY DEF Leaves, WalkInv, Proposed, ProposedAt, Computed, IsRecord, Pipelines, HasStore
  <1>3. pc' \in {"idle", "preflight"} /\ (outputs' = <<>> \/ outputs' = outputs)
    BY DEF Leaves
  <1>4. AtWork' /\ Fed'
    BY <1>3 DEF AtWork, WalkInv, Fed
  <1>5. Walk'
    <2>1. CASE pc' = "idle"
      BY <2>1 DEF Walk, Live
    <2>2. CASE pc' = "preflight" /\ idx' = 1 /\ outputs' = <<>> /\ skipped' = {}
      <3>1. setup \in Setups /\ steps' \in setup.versions
        BY DEF Leaves, ResumeInv, Deployed, Pipelines
      <3>2. Len(steps') \in Nat
        BY <3>1, NodesOf
      <3>3. 1..(idx' - 1) = {} /\ idx' \in Nat \ {0} /\ idx' - 1 <= Len(steps') /\ ~(idx' > 1)
        BY <2>2, <3>2
      <3> QED BY <2>2, <3>3 DEF Walk
    <2> QED BY <2>1, <2>2 DEF Leaves
  <1> QED BY <1>1, <1>2, <1>4, <1>5 DEF WalkInv

LEMMA WalkRests ==
  ASSUME ResumeInv, WalkInv, Rests
  PROVE  WalkInv'
  <1>1. OnRecord' /\ FirstDone'
    BY RecordsRest DEF Rests
  <1>2. Proposed'
    BY DEF Rests, WalkInv, Proposed, ProposedAt, Computed, IsRecord, Pipelines, HasStore
  <1>3. AtWork' /\ Fed'
    BY DEF Rests, AtWork, WalkInv, Fed, ReachSources, Node
  <1>4. Walk'
    BY DEF Rests, Walk, WalkInv, Live, HasStore, Settled
  <1> QED BY <1>1, <1>2, <1>3, <1>4 DEF WalkInv

LEMMA WalkVerify ==
  ASSUME ResumeInv, WalkInv, Verify
  PROVE  WalkInv'
  <1>1. /\ UNCHANGED <<setup, steps, completed, cascaded, pending, idx, outputs, skipped>>
        /\ pc = "preflight" /\ pc' = "input"
        /\ fingerprint' = IF HasStore /\ ~HasProgress
                          THEN TopologyFingerprint(steps) ELSE fingerprint
    BY DEF Verify, world, attempt
  <1>2. FirstDone'
    BY <1>1 DEF WalkInv, FirstDone
  <1>3. AtWork' /\ Fed' /\ Walk'
    BY <1>1 DEF AtWork, WalkInv, Fed, Walk, HasStore, Settled
  <1>4. CASE fingerprint' = fingerprint
    <2>1. OnRecord'
      BY <1>1, <1>4, RecordsRest
    <2>2. Proposed'
      BY <1>1, <1>4 DEF WalkInv, Proposed, ProposedAt, Computed, IsRecord, Pipelines, HasStore
    <2> QED BY <1>2, <1>3, <2>1, <2>2 DEF WalkInv
  <1>5. CASE ~HasProgress /\ fingerprint' = TopologyFingerprint(steps)
    <2>1. \A i \in DOMAIN fingerprint' : i \notin DOMAIN completed
      BY <1>5, Versions DEF HasProgress, ResumeInv
    <2>2. OnRecord'
      BY <1>1, <2>1 DEF OnRecord, TopologyFingerprint
    <2>3. pending # None => \E p \in Pipelines : \E k \in DOMAIN p : ProposedAt(p, k)'
      <3> SUFFICES ASSUME pending # None
                   PROVE  \E p \in Pipelines : \E k \in DOMAIN p : ProposedAt(p, k)'
        OBVIOUS
      <3>3. PICK p \in Pipelines : \E k \in DOMAIN p : ProposedAt(p, k)
        BY DEF WalkInv, Proposed
      <3>1. PICK k \in DOMAIN p : ProposedAt(p, k)
        BY <3>3
      <3>2. ProposedAt(p, k)'
        BY <1>1, <2>1, <3>1 DEF ProposedAt
      <3> QED BY <3>2
    <2>4. Proposed'
      BY <1>1, <2>3 DEF WalkInv, Proposed, IsRecord, Pipelines, HasStore
    <2> QED BY <1>2, <1>3, <2>2, <2>4 DEF WalkInv
  <1> QED BY <1>1, <1>4, <1>5

(* What waits keeps its records while they grow. *)
LEMMA ProposedStays ==
  ASSUME WalkInv, Grows, UNCHANGED <<setup, fingerprint>>, pc' # "approving",
         pending' = pending \/ pending' = None
  PROVE  Proposed'
  <1> SUFFICES ASSUME pending # None, pending' = pending
               PROVE  /\ HasStore /\ IsRecord(pending.out)
                      /\ \E p \in Pipelines : \E k \in DOMAIN p : ProposedAt(p, k)'
    BY DEF Proposed, IsRecord, Pipelines, HasStore
  <1>3. PICK p \in Pipelines : \E k \in DOMAIN p : ProposedAt(p, k)
    BY DEF WalkInv, Proposed
  <1>1. PICK k \in DOMAIN p : ProposedAt(p, k)
    BY <1>3
  <1>2. ProposedAt(p, k)'
    <2>1. \A o : Computed(p, k, o) => Computed(p, k, o)'
      BY Kept
    <2>2. Computed(p, k, pending.out) => Computed(p, k, pending.out)'
      BY <2>1 DEF Computed
    <2> QED BY <1>1, <2>2 DEF ProposedAt, Grows
  <1> QED BY <1>1, <1>2 DEF WalkInv, Proposed

LEMMA WalkRecords ==
  ASSUME ConditionsStay, ResumeInv, WalkInv, pc \in Live, idx \in DOMAIN steps, NEW out,
         Produce(out), Recording(out),
         UNCHANGED <<setup, steps, fingerprint, cascaded, pending>>,
         HasStore => Firm(steps, idx),
         \A m \in DOMAIN out.ins : m \in DOMAIN outputs /\ outputs[m].v = out.ins[m]
  PROVE  WalkInv'
  <1>1. Walk' /\ AtWork' /\ Fed'
    BY WalksOn
  <1>2. OnRecord' /\ FirstDone'
    BY RecordsCommit, FromOutputs
  <1>3. Proposed'
    <2>1. Grows /\ pc' # "approving"
      BY Produced DEF Recording, Grows
    <2> QED BY <2>1, ProposedStays
  <1> QED BY <1>1, <1>2, <1>3 DEF WalkInv

LEMMA WalkRestores ==
  ASSUME ConditionsStay, ResumeInv, WalkInv, RestoreJoin \/ RestoreStep
  PROVE  WalkInv'
  <1>1. /\ pc \in Live /\ idx \in DOMAIN steps /\ idx \in DOMAIN completed
        /\ Produce(completed[idx].out)
        /\ UNCHANGED <<setup, steps, fingerprint, cascaded, pending, completed>>
    BY DEF RestoreJoin, RestoreStep, Restore, IsCompleted, Admitted, Evaluable, Reached,
           Unskipped, At, Live, world, durable
  <1>2. /\ HasStore /\ Firm(steps, idx) /\ Computed(steps, idx, completed[idx].out)
    BY <1>1, Recorded
  <1>3. Recording(completed[idx].out)
    BY <1>1 DEF Recording
  <1>4. \A m \in DOMAIN completed[idx].out.ins :
          m \in DOMAIN outputs /\ outputs[m].v = completed[idx].out.ins[m]
    BY <1>1, <1>2, FromOutputs
  <1> QED BY <1>1, <1>2, <1>3, <1>4, WalkRecords

LEMMA WalkJoins ==
  ASSUME ConditionsStay, ResumeInv, WalkInv, CommitJoin
  PROVE  WalkInv'
  <1>1. /\ pc \in Live /\ idx \in DOMAIN steps /\ Node.kind = "join"
        /\ idx \notin DOMAIN completed /\ BindingsAreOutputs
        /\ Produce(JoinOutput) /\ completed' = Committed(JoinOutput, 0)
        /\ UNCHANGED <<setup, steps, fingerprint, cascaded, pending>>
    BY DEF CommitJoin, Joining, IsCompleted, At, Live, world, JoinOutput
  <1>2. Firm(steps, idx)
    BY <1>1 DEF Firm, Node
  <1>3. JoinOutput.ins = [n \in Range(Bindings) |-> outputs[n].v]
    BY DEF JoinOutput, Output
  <1>4. \A m \in DOMAIN JoinOutput.ins :
          m \in DOMAIN outputs /\ outputs[m].v = JoinOutput.ins[m]
    BY <1>1, <1>3 DEF BindingsAreOutputs
  <1>5. Recording(JoinOutput)
    BY <1>1, RecordingCommit
  <1> QED BY <1>1, <1>2, <1>4, <1>5, WalkRecords

(* The conditions under which an agent is run, or its output committed. *)
LEMMA EnteredAtWork ==
  ASSUME ResumeInv, WalkInv, Entered
  PROVE  /\ pc \in Live /\ idx \in DOMAIN steps /\ Node.kind = "agent"
         /\ ReachSources \subseteq DOMAIN outputs
         /\ Node.when.agent # None => /\ Node.when.agent \in DOMAIN outputs
                                      /\ outputs[Node.when.agent].v \in Node.when.holds
         /\ idx \notin DOMAIN completed \cup cascaded
  <1>1. /\ pc \in Live /\ idx \in DOMAIN steps /\ Node.kind = "agent"
        /\ ReachSources \cap skipped = {} /\ idx \notin DOMAIN completed \cup cascaded
        /\ Node.when.agent # None => /\ Node.when.agent \notin skipped
                                     /\ outputs[Node.when.agent].v \in Node.when.holds
    BY DEF Entered, Admitted, Evaluable, Holds, Reached, Unskipped, At, Live, IsCompleted
  <1> QED BY <1>1, AtHand

LEMMA WalkCommits ==
  ASSUME ConditionsStay, ResumeInv, WalkInv, pc \in {"executing", "approving"}, NEW out,
         NEW r, Commits(out, r),
         \A m \in DOMAIN out.ins : m \in DOMAIN outputs /\ outputs[m].v = out.ins[m]
  PROVE  WalkInv'
  <1>1. /\ pc \in Live /\ idx \in DOMAIN steps
    BY DEF ResumeInv, InStep, Live
  <1>2. /\ ReachSources \subseteq DOMAIN outputs
        /\ Node.when.agent # None => /\ Node.when.agent \in DOMAIN outputs
                                     /\ outputs[Node.when.agent].v \in Node.when.holds
        /\ idx \notin DOMAIN completed \cup cascaded
    BY DEF WalkInv, AtWork
  <1>3. HasStore => Firm(steps, idx)
    BY <1>1, <1>2, AdmittedFirm
  <1>4. Recording(out)
    BY <1>2, RecordingCommit DEF Commits
  <1> QED BY <1>1, <1>3, <1>4, WalkRecords DEF Commits

(* An agent is given the outputs of its sources. *)
LEMMA AnswersFed ==
  ASSUME NEW out \in Answers
  PROVE  out.ins = [n \in ReachSources |-> outputs[n].v]
  BY DEF Answers, Returns, Output

LEMMA WalkReturned ==
  ASSUME ConditionsStay, ResumeInv, WalkInv, CommitStep
  PROVE  WalkInv'
  <1>1. PICK out \in Answers : pc = "executing" /\ Commits(out, 0)
    BY DEF CommitStep, Commits, world, history
  <1>2. ReachSources \subseteq DOMAIN outputs
    BY <1>1 DEF WalkInv, AtWork
  <1>3. \A m \in DOMAIN out.ins : m \in DOMAIN outputs /\ outputs[m].v = out.ins[m]
    BY <1>2, AnswersFed
  <1> QED BY <1>1, <1>3, WalkCommits

LEMMA WalkApproved ==
  ASSUME ConditionsStay, ResumeInv, WalkInv, CommitApproved
  PROVE  WalkInv'
  <1>1. pc = "approving" /\ Commits(chosen.out, chosen.id)
    BY DEF CommitApproved, Commits, world, history
  <1>2. HasStore /\ Computed(steps, idx, chosen.out)
    BY <1>1 DEF WalkInv, Proposed
  <1>3. \A m \in DOMAIN chosen.out.ins :
          m \in DOMAIN outputs /\ outputs[m].v = chosen.out.ins[m]
    BY <1>1, <1>2, FromOutputs DEF Live
  <1> QED BY <1>1, <1>3, WalkCommits

LEMMA WalkExecutes ==
  ASSUME ResumeInv, WalkInv, Execute
  PROVE  WalkInv'
  <1>1. /\ pc' = "executing" /\ Entered
        /\ UNCHANGED <<setup, steps, fingerprint, completed, cascaded, pending, idx, outputs,
                       skipped>>
    BY DEF Execute, world, durable
  <1>2. pc \in Live
    BY <1>1, EnteredAtWork
  <1>3. AtWork'
    BY <1>1, EnteredAtWork DEF AtWork, ReachSources, Node
  <1>4. Walk'
    BY <1>1, <1>2 DEF Walk, WalkInv, Live, HasStore, Settled
  <1>5. Fed' /\ Proposed'
    BY <1>1 DEF WalkInv, Fed, Proposed, ProposedAt, Computed, IsRecord, Pipelines, HasStore
  <1> QED BY <1>1, <1>3, <1>4, <1>5, RecordsRest DEF WalkInv

(* What a reviewer decided on was computed for the node at hand. *)
LEMMA ConsumedComputed ==
  ASSUME ResumeInv, WalkInv, ConsumeApproval
  PROVE  HasStore /\ IsRecord(pending.out) /\ Computed(steps, idx, pending.out)
  <1>1. /\ Entered /\ HasStore /\ pending # None /\ pending.step = Node.name
    BY DEF ConsumeApproval, Decided, Awaiting
  <1>2. pc \in Live /\ idx \in DOMAIN steps
    BY <1>1, EnteredAtWork
  <1>3. PICK p \in Pipelines : \E k \in DOMAIN p : ProposedAt(p, k)
    BY <1>1 DEF WalkInv, Proposed
  <1>4. PICK k \in DOMAIN p : ProposedAt(p, k)
    BY <1>3
  <1>5. fingerprint = TopologyFingerprint(steps) /\ 1 \in DOMAIN fingerprint
    BY <1>1, <1>2, AtHand, Versions DEF ResumeInv, Verified
  <1>6. setup \in Setups /\ p \in setup.versions /\ steps \in setup.versions
    BY DEF ResumeInv, Deployed, Pipelines
  <1>7. CASE ~(k > 1)
    <2>1. DOMAIN pending.out.ins = {}
      BY <1>4, <1>7 DEF ProposedAt
    <2> QED BY <1>1, <2>1 DEF WalkInv, Proposed, Computed
  <1>8. CASE k > 1
    <2>1. fingerprint = TopologyFingerprint(p) /\ Computed(p, k, pending.out)
          /\ p[k].name = Node.name
      BY <1>1, <1>4, <1>5, <1>8 DEF ProposedAt
    <2>2. k \in DOMAIN fingerprint /\ fingerprint[k][2] = p[k].name
      BY <2>1 DEF TopologyFingerprint
    <2>3. k \in DOMAIN steps /\ fingerprint[k][2] = steps[k].name
      BY <1>5, <2>2 DEF TopologyFingerprint
    <2>4. k = idx
      BY <1>2, <2>1, <2>2, <2>3, Versions DEF ResumeInv, Node
    <2>5. \A j \in 1..(k - 1) : p[j].name = steps[j].name
      <3> SUFFICES ASSUME NEW j \in 1..(k - 1) PROVE p[j].name = steps[j].name
        OBVIOUS
      <3>1. DOMAIN p = 1..Len(p) /\ Len(p) \in Nat
        BY <1>6, NodesOf
      <3>2. j \in DOMAIN p
        BY <3>1
      <3>3. fingerprint[j][2] = p[j].name /\ j \in DOMAIN fingerprint
        BY <2>1, <3>2 DEF TopologyFingerprint
      <3>4. fingerprint[j][2] = steps[j].name
        BY <1>5, <3>3 DEF TopologyFingerprint
      <3> QED BY <3>3, <3>4
    <2>6. Computed(steps, idx, pending.out)
      BY <2>1, <2>4, <2>5 DEF Computed
    <2> QED BY <1>1, <2>6 DEF WalkInv, Proposed
  <1> QED BY <1>7, <1>8

LEMMA WalkConsumes ==
  ASSUME ResumeInv, WalkInv, ConsumeApproval
  PROVE  WalkInv'
  <1>1. /\ pc' = "approving" /\ Entered /\ pending' = None
        /\ UNCHANGED <<setup, steps, fingerprint, completed, cascaded, idx, outputs, skipped>>
        /\ chosen'.out = [pending.out EXCEPT !.v = ChosenValue,
                            !.trust = Join({pending.out.trust, Seed})]
    BY DEF ConsumeApproval, Decided, Awaiting, world
  <1>2. pc \in Live
    BY <1>1, EnteredAtWork
  <1>3. AtWork'
    BY <1>1, EnteredAtWork DEF AtWork, ReachSources, Node
  <1>4. Walk'
    BY <1>1, <1>2 DEF Walk, WalkInv, Live, HasStore, Settled
  <1>5. chosen'.out.ins = pending.out.ins
    BY <1>1, ConsumedComputed, Relabelled
  <1>6. Computed(steps, idx, chosen.out)'
    BY <1>1, <1>5, ConsumedComputed DEF Computed
  <1>7. Fed'
    BY <1>1 DEF WalkInv, Fed
  <1>8. Proposed'
    BY <1>1, <1>6, ConsumedComputed DEF Proposed, HasStore
  <1> QED BY <1>1, <1>3, <1>4, <1>7, <1>8, RecordsRest DEF WalkInv

LEMMA WalkAsks ==
  ASSUME ResumeInv, WalkInv, Asks
  PROVE  WalkInv'
  <1>1. PICK out \in Answers :
          /\ UNCHANGED <<setup, steps, fingerprint, completed, cascaded>>
          /\ pc = "executing" /\ pc' = "idle" /\ outputs' = <<>>
          /\ \/ HasStore /\ pending'.step = Node.name /\ pending'.out = out
             \/ pending' = pending
    BY DEF Asks
  <1>2. OnRecord' /\ FirstDone'
    BY <1>1, RecordsRest
  <1>3. Walk' /\ AtWork' /\ Fed'
    BY <1>1 DEF Walk, AtWork, Fed, Live
  <1>4. CASE pending' = pending
    <2>1. Grows /\ pc' # "approving"
      BY <1>1 DEF Grows
    <2> QED BY <1>1, <1>2, <1>3, <1>4, <2>1, ProposedStays DEF WalkInv
  <1>5. CASE HasStore /\ pending'.step = Node.name /\ pending'.out = out
    <2>1. /\ pc \in Live /\ idx \in DOMAIN steps /\ ReachSources \subseteq DOMAIN outputs
      BY <1>1 DEF ResumeInv, InStep, Live, WalkInv, AtWork
    <2>2. fingerprint = TopologyFingerprint(steps)
      BY <1>5, <2>1 DEF ResumeInv, Verified
    <2>3. out.ins = [n \in ReachSources |-> outputs[n].v]
      BY AnswersFed
    <2>4. Computed(steps, idx, out)
      BY <1>5, <2>1, <2>3, FromOutputs
    <2>5. DOMAIN out.ins # {} => idx > 1
      BY <2>1, <2>3, AtHand
    <2>6. idx > 1 => 1 \in DOMAIN completed
      BY <1>5, <2>1, Behind
    <2>7. PICK p \in Pipelines : p = steps
      BY DEF ResumeInv, Deployed
    <2>8. PICK k \in DOMAIN p : k = idx
      BY <2>1, <2>7
    <2>9. ProposedAt(p, k)'
      <3>1. Computed(p, k, out)
        BY <2>4, <2>7, <2>8
      <3>2. Computed(p, k, pending.out)'
        BY <1>1, <1>5, <3>1 DEF Computed
      <3>3. p[k].name = pending'.step /\ (DOMAIN pending'.out.ins # {} => k > 1)
        BY <1>5, <2>5, <2>7, <2>8 DEF Node
      <3> QED BY <1>1, <2>2, <2>6, <2>7, <2>8, <3>2, <3>3 DEF ProposedAt
    <2>10. IsRecord(out)
      BY AnswersByCode
    <2>11. Proposed'
      BY <1>1, <1>5, <2>9, <2>10 DEF Proposed, IsRecord, Pipelines, HasStore
    <2> QED BY <1>2, <1>3, <2>11 DEF WalkInv
  <1> QED BY <1>1, <1>4, <1>5

LEMMA WalkInit == Init => WalkInv
  <1> SUFFICES ASSUME Init PROVE WalkInv
    OBVIOUS
  <1>1. /\ DOMAIN completed = {} /\ cascaded = {} /\ pending = None /\ pc = "idle"
        /\ DOMAIN outputs = {}
    BY DEF Init
  <1> QED BY <1>1 DEF WalkInv, OnRecord, FirstDone, Walk, AtWork, Fed, Proposed, Live

LEMMA WalkNext == ConditionsStay /\ ResumeInv /\ WalkInv /\ [Next]_vars => WalkInv'
  <1> SUFFICES ASSUME ConditionsStay, ResumeInv, WalkInv, [Next]_vars PROVE WalkInv'
    OBVIOUS
  <1>1. CASE RestoreJoin \/ RestoreStep
    BY <1>1, WalkRestores
  <1>2. CASE CommitJoin
    BY <1>2, WalkJoins
  <1>3. CASE CommitStep
    BY <1>3, WalkReturned
  <1>4. CASE CommitApproved
    BY <1>4, WalkApproved
  <1> QED BY <1>1, <1>2, <1>3, <1>4, Turns, WalkRests, WalkLeaves, WalkVerify, WalkSkips,
             WalkExecutes, WalkConsumes, WalkAsks DEF ResumeInv

(* However often a run crashes, waits for a reviewer, is redeployed and resumed, an    *)
(* attempt that completes reports outputs each of which was computed from the outputs  *)
(* it reports for its sources, if redeployments keep the operands of conditions, which *)
(* the fingerprint leaves out (_run_inner: replayed skips, restored steps, approvals). *)
THEOREM ResumesConsistently ==
  ASSUME ConditionsStay
  PROVE  Spec => []InputsConsistent
  <1>1. WalkInv => InputsConsistent
    BY DEF WalkInv, Fed, InputsConsistent
  <1>2. ResumeInv /\ WalkInv /\ [Next]_vars => ResumeInv' /\ WalkInv'
    BY ResumeNext, WalkNext
  <1> QED BY <1>1, <1>2, ResumeInit, WalkInit, PTL DEF Spec

-----------------------------------------------------------------------------
(* Requests.                                                                  *)

(* Versions begin with the same step. *)
EntryStays ==
  \A u \in Setups : \A p, q \in u.versions :
    1 \in DOMAIN p \cap DOMAIN q => p[1].name = q[1].name

(* Python's None is no ApprovalRequest. *)
NoneIsNoRequest ==
  \A i, s, r, o : None # [id |-> i, step |-> s, reason |-> r, out |-> o]

(* A step that waits for a reviewer is where the records lead the next        *)
(* attempt: it is not committed, it was not skipped, and every step before it *)
(* was settled.                                                               *)
WaitsAt(p, k) ==
  /\ p[k].kind = "agent" /\ p[k].name = pending.step /\ k \notin DOMAIN completed
  /\ k > 1 => 1 \in DOMAIN completed
  /\ k > 1 /\ 1 \in DOMAIN fingerprint =>
       /\ fingerprint = TopologyFingerprint(p) /\ Firm(p, k)
       /\ \A i \in 1..(k - 1) : Settled(p, i)
Waits == pending # None =>
  /\ HasStore /\ pc \notin {"executing", "approving"}
  /\ \E p \in Pipelines : \E k \in DOMAIN p : WaitsAt(p, k)
(* No request is lost: it was decided, or it is the one that waits. *)
NoneLost == \A r \in DOMAIN requests : r \in applied \/ (pending # None /\ pending.id = r)

WaitInv == requests \in Seq(Asked) /\ NoneLost /\ Waits

(* What waits is kept while the records grow, if its step is neither committed *)
(* nor skipped.                                                                *)
LEMMA WaitsStays ==
  ASSUME Deployed, WaitInv, Grows, UNCHANGED <<setup, fingerprint>>,
         pending # None => pc' \notin {"executing", "approving"},
         pending' = pending \/ pending' = None,
         \A p \in Pipelines : \A k \in DOMAIN p : pending # None /\ WaitsAt(p, k) =>
            /\ k \notin DOMAIN completed'
            /\ k > 1 /\ 1 \in DOMAIN fingerprint => k \notin cascaded'
  PROVE  Waits'
  <1> SUFFICES ASSUME pending # None, pending' = pending
               PROVE  /\ HasStore /\ pc' \notin {"executing", "approving"}
                      /\ \E p \in Pipelines : \E k \in DOMAIN p : WaitsAt(p, k)'
    BY DEF Waits, Pipelines, HasStore
  <1>1. PICK p \in Pipelines : \E k \in DOMAIN p : WaitsAt(p, k)
    BY DEF WaitInv, Waits
  <1>2. PICK k \in DOMAIN p : WaitsAt(p, k)
    BY <1>1
  <1>3. WaitsAt(p, k)'
    <2>1. ASSUME k > 1, 1 \in DOMAIN fingerprint
          PROVE  Firm(p, k)' /\ \A i \in 1..(k - 1) : Settled(p, i)'
      <3>1. Firm(p, k) /\ \A i \in 1..(k - 1) : Settled(p, i)
        BY <1>2, <2>1 DEF WaitsAt
      <3>2. k \notin cascaded'
        BY <1>2, <2>1
      <3> QED BY <3>1, <3>2, Kept
    <2>2. k \notin DOMAIN completed'
      BY <1>2
    <2> QED BY <1>2, <2>1, <2>2 DEF WaitsAt, Grows, TopologyFingerprint
  <1> QED BY <1>1, <1>3 DEF WaitInv, Waits

(* In an attempt, a step that waits behind the first one waits in the pipeline *)
(* that is deployed.                                                           *)
LEMMA WaitsHere ==
  ASSUME ConditionsStay, ResumeInv, WalkInv, pc \in Live, idx \in DOMAIN steps, HasStore,
         NEW p \in Pipelines, NEW k \in DOMAIN p, WaitsAt(p, k), k > 1
  PROVE  /\ k \in DOMAIN steps /\ steps[k].kind = "agent" /\ steps[k].name = pending.step
         /\ 1 \in DOMAIN fingerprint
         /\ Firm(steps, k) /\ \A i \in 1..(k - 1) : Settled(steps, i)
  <1>1. fingerprint = TopologyFingerprint(steps) /\ 1 \in DOMAIN fingerprint
    BY AtHand, Versions DEF ResumeInv, Verified
  <1>2. /\ fingerprint = TopologyFingerprint(p) /\ Firm(p, k)
        /\ \A i \in 1..(k - 1) : Settled(p, i)
    BY <1>1 DEF WaitsAt
  <1>3. setup \in Setups /\ p \in setup.versions /\ steps \in setup.versions
    BY DEF ResumeInv, Deployed, Pipelines
  <1>4. DOMAIN p = 1..Len(p) /\ Len(p) \in Nat
    BY <1>3, NodesOf
  <1>5. /\ k \in DOMAIN steps /\ steps[k].kind = p[k].kind /\ steps[k].name = p[k].name
    <2>1. TopologyFingerprint(p) = TopologyFingerprint(steps)
      BY <1>1, <1>2
    <2>2. /\ DOMAIN p = DOMAIN steps
          /\ \A i \in DOMAIN p : p[i].kind = steps[i].kind /\ p[i].name = steps[i].name
      BY <1>3, <2>1, SameWalk
    <2> QED BY <2>2
  <1>6. \A i \in DOMAIN p : (Firm(p, i) <=> Firm(steps, i)) /\ (Settled(p, i) <=> Settled(steps, i))
    BY <1>1, <1>2, SameRecords DEF ResumeInv, Deployed
  <1>7. \A i \in 1..(k - 1) : i \in DOMAIN p
    BY <1>4
  <1> QED BY <1>1, <1>2, <1>5, <1>6, <1>7 DEF WaitsAt

(* An agent is run only when nothing waits. *)
LEMMA RunsAlone ==
  ASSUME ConditionsStay, EntryStays, ResumeInv, WalkInv, WaitInv, Execute
  PROVE  pending = None
  <1> SUFFICES ASSUME pending # None PROVE FALSE
    OBVIOUS
  <1>1. Entered /\ ~Awaiting
    BY DEF Execute
  <1>2. HasStore /\ Node.name # pending.step
    BY <1>1 DEF WaitInv, Waits, Awaiting
  <1>3. /\ pc \in Live /\ idx \in DOMAIN steps /\ Node.kind = "agent"
        /\ idx \notin DOMAIN completed \cup cascaded
        /\ Node.when.agent # None => outputs[Node.when.agent].v \in Node.when.holds
    BY <1>1, EnteredAtWork
  <1>4. PICK p \in Pipelines : \E k \in DOMAIN p : WaitsAt(p, k)
    BY DEF WaitInv, Waits
  <1>5. PICK k \in DOMAIN p : WaitsAt(p, k)
    BY <1>4
  <1>6. /\ setup \in Setups /\ p \in setup.versions /\ steps \in setup.versions
        /\ idx \in Nat \ {0} /\ 1 \in DOMAIN steps
    BY <1>3, AtHand DEF ResumeInv, Deployed, Pipelines
  <1>7. k \in Nat \ {0}
    <2>1. DOMAIN p = 1..Len(p) /\ Len(p) \in Nat
      BY <1>6, NodesOf
    <2> QED BY <2>1
  <1>8. CASE k = 1
    <2>1. idx # 1
      BY <1>2, <1>5, <1>6, <1>8 DEF EntryStays, WaitsAt, Node
    <2>2. 1 \in DOMAIN completed
      BY <1>2, <1>3, <1>6, <2>1, Behind
    <2> QED BY <1>5, <1>8, <2>2 DEF WaitsAt
  <1>9. CASE k > 1
    <2>1. /\ k \in DOMAIN steps /\ steps[k].kind = "agent" /\ steps[k].name = pending.step
          /\ Firm(steps, k) /\ \A i \in 1..(k - 1) : Settled(steps, i)
      BY <1>2, <1>3, <1>5, <1>9, WaitsHere
    <2>2. CASE idx = k
      BY <1>2, <2>1, <2>2 DEF Node
    <2>3. CASE idx < k
      <3>1. Settled(steps, idx)
        <4>1. idx \in 1..(k - 1)
          BY <1>6, <1>7, <2>3
        <4> QED BY <2>1, <4>1
      <3>2. /\ Node.when.agent # None
            /\ \E j \in DOMAIN completed : /\ j \in 1..(idx - 1)
                                           /\ steps[j].name = Node.when.agent
                                           /\ completed[j].out.v \notin Node.when.holds
        BY <1>3, <3>1 DEF Settled, Node
      <3>3. outputs[Node.when.agent].v \notin Node.when.holds
        BY <1>2, <1>3, <3>2, Behind
      <3> QED BY <1>3, <3>2, <3>3
    <2>4. CASE idx > k
      <3>1. Settled(steps, k)
        <4>1. k \in 1..(idx - 1)
          BY <1>6, <1>7, <2>4
        <4> QED BY <1>2, <1>3, <4>1 DEF WalkInv, Walk
      <3>2. k \notin DOMAIN completed \cup cascaded
        BY <1>5, <2>1 DEF WaitsAt, Firm
      <3>3. PICK j \in DOMAIN completed : /\ j \in 1..(k - 1)
                                          /\ steps[j].name = steps[k].when.agent
                                          /\ completed[j].out.v \notin steps[k].when.holds
        BY <2>1, <3>1, <3>2 DEF Settled
      <3>4. PICK i \in DOMAIN completed : /\ i \in 1..(k - 1)
                                          /\ steps[i].name = steps[k].when.agent
                                          /\ completed[i].out.v \in steps[k].when.holds
        BY <2>1, <3>1, <3>2 DEF Settled, Firm
      <3>5. i \in DOMAIN steps /\ j \in DOMAIN steps
        <4>1. DOMAIN steps = 1..Len(steps) /\ Len(steps) \in Nat
          BY <1>6, NodesOf
        <4> QED BY <2>1, <3>3, <3>4, <4>1
      <3>6. i = j
        BY <3>3, <3>4, <3>5, Versions DEF ResumeInv
      <3> QED BY <3>3, <3>4, <3>6
    <2> QED BY <1>6, <1>7, <2>2, <2>3, <2>4
  <1> QED BY <1>7, <1>8, <1>9

LEMMA WaitInit == Init => WaitInv
  BY DEF Init, WaitInv, NoneLost, Waits

(* A proposal is a request. *)
LEMMA AsksAsked ==
  ASSUME ResumeInv, pc = "executing", NEW out \in Answers
  PROVE  [step |-> Node.name, v |-> out.v] \in Asked
  <1>1. idx \in DOMAIN steps /\ IsNode(Node)
    BY NodesOf DEF ResumeInv, InStep, Deployed, Pipelines, Node
  <1>2. Node.name \in StepNames
    BY <1>1 DEF ResumeInv, Deployed, Pipelines, Node, StepNames
  <1>3. out.v \in Values
    BY <1>1, AnswersByCode DEF IsNode
  <1> QED BY <1>2, <1>3 DEF Asked

LEMMA WaitAsks ==
  ASSUME NoneIsNoRequest, ConditionsStay, ResumeInv, WalkInv, WaitInv, Asks
  PROVE  WaitInv'
  <1>1. PICK out \in Answers :
          /\ UNCHANGED <<setup, steps, fingerprint, completed, cascaded, applied>>
          /\ pc = "executing" /\ pc' = "idle"
          /\ \/ /\ HasStore
                /\ requests' = Append(requests, [step |-> Node.name, v |-> out.v])
                /\ pending'.id = Len(requests) + 1 /\ pending'.step = Node.name
                /\ pending' # None
             \/ pending' = pending /\ requests' = requests
    BY DEF Asks, NoneIsNoRequest
  <1>2. pending = None /\ requests \in Seq(Asked) /\ \A r \in DOMAIN requests : r \in applied
    BY <1>1 DEF WaitInv, Waits, NoneLost
  <1>3. CASE pending' = pending /\ requests' = requests
    BY <1>1, <1>2, <1>3 DEF WaitInv, Waits, NoneLost
  <1>4. CASE /\ HasStore /\ requests' = Append(requests, [step |-> Node.name, v |-> out.v])
             /\ pending'.id = Len(requests) + 1 /\ pending'.step = Node.name
             /\ pending' # None
    <2>1. [step |-> Node.name, v |-> out.v] \in Asked
      BY <1>1, AsksAsked
    <2>2. requests' \in Seq(Asked) /\ DOMAIN requests' = DOMAIN requests \cup {Len(requests) + 1}
      BY <1>2, <1>4, <2>1
    <2>3. NoneLost'
      BY <1>1, <1>2, <1>4, <2>2 DEF NoneLost
    <2>4. /\ pc \in Live /\ idx \in DOMAIN steps /\ Node.kind = "agent"
          /\ ReachSources \subseteq DOMAIN outputs
          /\ Node.when.agent # None => /\ Node.when.agent \in DOMAIN outputs
                                       /\ outputs[Node.when.agent].v \in Node.when.holds
          /\ idx \notin DOMAIN completed \cup cascaded
      BY <1>1 DEF ResumeInv, InStep, Live, WalkInv, AtWork
    <2>5. fingerprint = TopologyFingerprint(steps) /\ steps \in Pipelines
      BY <1>4, <2>4 DEF ResumeInv, Verified, Deployed
    <2>6. Firm(steps, idx) /\ \A i \in 1..(idx - 1) : Settled(steps, i)
      BY <1>4, <2>4, AdmittedFirm DEF WalkInv, Walk
    <2>7. idx > 1 => 1 \in DOMAIN completed
      BY <1>4, <2>4, Behind
    <2>8. PICK p \in Pipelines : p = steps
      BY <2>5
    <2>9. PICK k \in DOMAIN p : k = idx
      BY <2>4, <2>8
    <2>10. Grows /\ cascaded' = cascaded
      BY <1>1 DEF Grows
    <2>11. Firm(p, k)' /\ \A i \in 1..(k - 1) : Settled(p, i)'
      BY <2>6, <2>8, <2>9, <2>10, Kept
    <2>12. WaitsAt(p, k)'
      BY <1>1, <1>4, <2>4, <2>5, <2>7, <2>8, <2>9, <2>11 DEF WaitsAt, Node
    <2>13. Waits'
      BY <1>1, <1>4, <2>12 DEF Waits, Pipelines, HasStore
    <2> QED BY <2>2, <2>3, <2>13 DEF WaitInv
  <1> QED BY <1>1, <1>3, <1>4

LEMMA WaitJoins ==
  ASSUME ConditionsStay, ResumeInv, WalkInv, WaitInv, CommitJoin
  PROVE  WaitInv'
  <1>1. /\ pc \in Live /\ idx \in DOMAIN steps /\ Node.kind = "join"
        /\ idx \notin DOMAIN completed /\ Produce(JoinOutput)
        /\ completed' = Committed(JoinOutput, 0)
        /\ UNCHANGED <<setup, steps, fingerprint, cascaded, pending, requests, applied>>
    BY DEF CommitJoin, Joining, IsCompleted, At, Live, world, history, JoinOutput
  <1>2. Recording(JoinOutput)
    BY <1>1, RecordingCommit
  <1>3. Grows /\ pc' = "step"
    BY <1>1, <1>2, Produced DEF Recording, Grows
  <1>4. ASSUME NEW p \in Pipelines, NEW k \in DOMAIN p, pending # None, WaitsAt(p, k)
        PROVE  k \notin DOMAIN completed' /\ (k > 1 /\ 1 \in DOMAIN fingerprint => k \notin cascaded')
    <2>1. HasStore
      BY <1>4 DEF WaitInv, Waits
    <2>2. k \in Nat \ {0}
      <3>1. DOMAIN p = 1..Len(p) /\ Len(p) \in Nat
        BY NodesOf DEF ResumeInv, Deployed, Pipelines
      <3> QED BY <3>1
    <2>3. k # idx
      <3>1. CASE k = 1
        BY <1>1, <3>1, AtHand
      <3>2. CASE k > 1
        BY <1>1, <1>4, <2>1, <3>2, WaitsHere DEF Node
      <3> QED BY <2>2, <3>1, <3>2
    <2>4. k > 1 /\ 1 \in DOMAIN fingerprint => k \notin cascaded
      BY <1>4 DEF WaitsAt, Firm
    <2> QED BY <1>1, <1>2, <1>4, <2>3, <2>4 DEF WaitsAt, Recording
  <1>5. Waits'
    BY <1>1, <1>3, <1>4, WaitsStays DEF ResumeInv
  <1> QED BY <1>1, <1>5 DEF WaitInv, NoneLost

LEMMA WaitSkips ==
  ASSUME ConditionsStay, ResumeInv, WalkInv, WaitInv, Skipping
  PROVE  WaitInv'
  <1>1. /\ pc' = "step"
        /\ UNCHANGED <<setup, steps, fingerprint, completed, pending, requests, applied>>
        /\ cascaded' = cascaded \/ (HasStore /\ cascaded' = cascaded \cup {idx})
    <2> USE DEF Skip, Advance, world, durable, history
    <2>1. CASE ReplaySkip
      BY <2>1 DEF ReplaySkip
    <2>2. CASE SkipCascade
      BY <2>2 DEF SkipCascade
    <2>3. CASE SkipCondition
      BY <2>3 DEF SkipCondition
    <2> QED BY <2>1, <2>2, <2>3 DEF Skipping
  <1>2. pc \in Live /\ idx \in DOMAIN steps
    BY SkippedUnrecorded DEF Live
  <1>3. Grows
    BY <1>1 DEF Grows
  <1>4. ASSUME NEW p \in Pipelines, NEW k \in DOMAIN p, pending # None, WaitsAt(p, k)
        PROVE  k \notin DOMAIN completed' /\ (k > 1 /\ 1 \in DOMAIN fingerprint => k \notin cascaded')
    <2> SUFFICES ASSUME k > 1, 1 \in DOMAIN fingerprint PROVE k \notin cascaded'
      BY <1>1, <1>4 DEF WaitsAt
    <2>1. HasStore
      BY <1>4 DEF WaitInv, Waits
    <2>2. Firm(steps, k) /\ k \in DOMAIN steps /\ steps[k].kind = "agent"
      BY <1>2, <1>4, <2>1, WaitsHere
    <2>3. k # idx
      BY <2>1, <2>2, FirmRuns
    <2>4. k \notin cascaded
      BY <2>2 DEF Firm
    <2> QED BY <1>1, <2>3, <2>4
  <1>5. Waits'
    BY <1>1, <1>3, <1>4, WaitsStays DEF ResumeInv
  <1> QED BY <1>1, <1>5 DEF WaitInv, NoneLost

LEMMA WaitVerify ==
  ASSUME ResumeInv, WaitInv, Verify
  PROVE  WaitInv'
  <1>1. /\ UNCHANGED <<setup, steps, completed, cascaded, pending, requests, applied>>
        /\ pc' = "input"
        /\ fingerprint' = IF HasStore /\ ~HasProgress
                          THEN TopologyFingerprint(steps) ELSE fingerprint
    BY DEF Verify, world, history
  <1>2. Waits'
    <2> SUFFICES ASSUME pending # None PROVE Waits'
      BY <1>1 DEF Waits
    <2>1. PICK p \in Pipelines : \E k \in DOMAIN p : WaitsAt(p, k)
      BY DEF WaitInv, Waits
    <2>2. PICK k \in DOMAIN p : WaitsAt(p, k)
      BY <2>1
    <2>3. WaitsAt(p, k)'
      <3>1. CASE fingerprint' = fingerprint
        BY <1>1, <2>2, <3>1 DEF WaitsAt, Firm, Settled, TopologyFingerprint
      <3>2. CASE ~HasProgress /\ fingerprint' = TopologyFingerprint(steps)
        <4>1. \A i \in DOMAIN fingerprint' : i \notin DOMAIN completed
          BY <3>2, Versions DEF HasProgress, ResumeInv
        <4> QED BY <1>1, <2>2, <4>1 DEF WaitsAt
      <3> QED BY <1>1, <3>1, <3>2
    <2> QED BY <1>1, <2>3 DEF WaitInv, Waits, Pipelines, HasStore
  <1> QED BY <1>1, <1>2 DEF WaitInv, NoneLost

LEMMA WaitNext ==
  NoneIsNoRequest /\ ConditionsStay /\ EntryStays /\ ResumeInv /\ WalkInv /\ WaitInv
    /\ [Next]_vars => WaitInv'
  <1> SUFFICES ASSUME NoneIsNoRequest, ConditionsStay, EntryStays, ResumeInv, WalkInv,
                      WaitInv, [Next]_vars
               PROVE  WaitInv'
    OBVIOUS
  <1>1. CASE Rests \/ Leaves
    <2>1. /\ UNCHANGED <<setup, fingerprint, completed, cascaded, requests>>
          /\ pending # None => pc' \notin {"executing", "approving"}
          /\ \/ pending' = pending /\ applied' = applied
             \/ pending' = None /\ applied' = applied \cup {pending.id}
      BY <1>1 DEF Rests, Leaves, WaitInv, Waits
    <2>2. Grows
      BY <2>1 DEF Grows
    <2>3. \A p \in Pipelines : \A k \in DOMAIN p : pending # None /\ WaitsAt(p, k) =>
            /\ k \notin DOMAIN completed'
            /\ k > 1 /\ 1 \in DOMAIN fingerprint => k \notin cascaded'
      BY <2>1 DEF WaitsAt, Firm
    <2>4. Waits'
      BY <2>1, <2>2, <2>3, WaitsStays DEF ResumeInv
    <2> QED BY <2>1, <2>4 DEF WaitInv, NoneLost
  <1>2. CASE RestoreJoin \/ RestoreStep
    <2>1. /\ UNCHANGED <<setup, fingerprint, completed, cascaded, pending, requests, applied>>
          /\ pc' = "step"
      BY <1>2, Produced DEF RestoreJoin, RestoreStep, Restore, world, durable, history
    <2>2. Grows
      BY <2>1 DEF Grows
    <2>3. \A p \in Pipelines : \A k \in DOMAIN p : pending # None /\ WaitsAt(p, k) =>
            /\ k \notin DOMAIN completed'
            /\ k > 1 /\ 1 \in DOMAIN fingerprint => k \notin cascaded'
      BY <2>1 DEF WaitsAt, Firm
    <2>4. Waits'
      BY <2>1, <2>2, <2>3, WaitsStays DEF ResumeInv
    <2> QED BY <2>1, <2>4 DEF WaitInv, NoneLost
  <1>3. CASE Execute
    <2>1. pending = None
      BY <1>3, RunsAlone
    <2>2. UNCHANGED <<pending, requests, applied>>
      BY <1>3 DEF Execute, durable, history
    <2> QED BY <2>1, <2>2 DEF WaitInv, NoneLost, Waits
  <1>4. CASE ConsumeApproval
    <2>1. /\ pending' = None /\ applied' = applied \cup {pending.id} /\ requests' = requests
      BY <1>4 DEF ConsumeApproval
    <2> QED BY <2>1 DEF WaitInv, NoneLost, Waits
  <1>5. CASE CommitApproved \/ CommitStep
    <2>1. pending = None
      BY <1>5 DEF CommitApproved, CommitStep, WaitInv, Waits
    <2>2. UNCHANGED <<pending, requests, applied>>
      BY <1>5 DEF CommitApproved, CommitStep, history
    <2> QED BY <2>1, <2>2 DEF WaitInv, NoneLost, Waits
  <1>6. CASE Verify
    BY <1>6, WaitVerify
  <1>7. CASE Skipping
    BY <1>7, WaitSkips
  <1>8. CASE CommitJoin
    BY <1>8, WaitJoins
  <1>9. CASE Asks
    BY <1>9, WaitAsks
  <1> QED BY <1>1, <1>2, <1>3, <1>4, <1>5, <1>6, <1>7, <1>8, <1>9, Turns DEF ResumeInv

(* A step whose proposal waits for a reviewer is not run again before that request     *)
(* was decided, however the run is polled, crashed, redeployed and resumed, if the      *)
(* redeployments keep the first step and the operands of conditions                    *)
(* (_handle_pending_approval looks at a request only when it comes to its step).       *)
THEOREM NeverRunsAgain ==
  ASSUME NoneIsNoRequest, ConditionsStay, EntryStays
  PROVE  Spec => []NoRerunWhileOpen
  <1>1. WaitInv => NoRerunWhileOpen
    BY DEF WaitInv, NoneLost, Waits, NoRerunWhileOpen
  <1>2. ResumeInv /\ WalkInv /\ WaitInv /\ [Next]_vars => ResumeInv' /\ WalkInv' /\ WaitInv'
    BY ResumeNext, WalkNext, WaitNext
  <1> QED BY <1>1, <1>2, ResumeInit, WalkInit, WaitInit, PTL DEF Spec

-----------------------------------------------------------------------------
(* The resume ledger.                                                         *)

(* InOrder lists every member of a finite set of indices once. *)
LEMMA Ordered ==
  ASSUME NEW S \in SUBSET Nat, IsFiniteSet(S)
  PROVE  /\ Cardinality(S) \in Nat
         /\ \A k \in 1..Cardinality(S) : InOrder(S)[k] \in S
         /\ \A i \in S : \E k \in 1..Cardinality(S) : InOrder(S)[k] = i
         /\ \A k, l \in 1..Cardinality(S) : InOrder(S)[k] = InOrder(S)[l] => k = l
  <1> DEFINE upto(i) == {j \in S : j <= i}
             rank == [i \in S |-> Cardinality(upto(i))]
             n == Cardinality(S)
  <1>1. n \in Nat
    BY FS_CardinalityType
  <1>2. ASSUME NEW i \in S
        PROVE  IsFiniteSet(upto(i)) /\ Cardinality(upto(i)) \in 1..n
    <2>1. upto(i) \in SUBSET S /\ i \in upto(i)
      OBVIOUS
    <2>2. IsFiniteSet(upto(i)) /\ Cardinality(upto(i)) <= n
      BY <2>1, FS_Subset
    <2>3. Cardinality(upto(i)) \in Nat /\ Cardinality(upto(i)) # 0
      BY <2>1, <2>2, FS_CardinalityType, FS_EmptySet
    <2> QED BY <1>1, <2>2, <2>3
  <1>3. ASSUME NEW i \in S, NEW j \in S, Cardinality(upto(i)) = Cardinality(upto(j))
        PROVE  i = j
    <2>1. ASSUME NEW x \in S, NEW y \in S, x < y, Cardinality(upto(x)) = Cardinality(upto(y))
          PROVE  FALSE
      <3>1. upto(x) \in SUBSET upto(y) /\ y \in upto(y) /\ y \notin upto(x)
        <4>1. \A z \in S : z <= x => z <= y /\ z # y
          <5> SUFFICES ASSUME NEW z \in S, z <= x PROVE z <= y /\ z # y
            OBVIOUS
          <5>1. z \in Nat /\ x \in Nat /\ y \in Nat
            OBVIOUS
          <5> QED BY <2>1, <5>1
        <4>2. y <= y /\ ~(y <= x)
          <5>1. x \in Nat /\ y \in Nat
            OBVIOUS
          <5> QED BY <2>1, <5>1
        <4> QED BY <4>1, <4>2
      <3>2. upto(y) = upto(x)
        BY <1>2, <2>1, <3>1, FS_Subset
      <3> QED BY <3>1, <3>2
    <2> QED BY <1>3, <2>1
  <1>4. rank \in Surjection(S, 1..n)
    <2>1. rank \in Injection(S, 1..n)
      BY <1>2, <1>3 DEF Injection, IsInjective
    <2>2. IsFiniteSet(1..n) /\ Cardinality(1..n) = n
      BY <1>1, FS_Interval
    <2>3. Cardinality(S) = Cardinality(1..n)
      BY <2>2
    <2> HIDE DEF rank, n
    <2> QED BY <2>1, <2>2, <2>3, FS_Injection
  <1>5. ASSUME NEW k \in 1..n
        PROVE  InOrder(S)[k] \in S /\ Cardinality(upto(InOrder(S)[k])) = k
    <2>1. \E i \in S : Cardinality(upto(i)) = k
      BY <1>4 DEF Surjection
    <2>2. InOrder(S)[k] = CHOOSE i \in S : Cardinality(upto(i)) = k
      BY DEF InOrder
    <2> QED BY <2>1, <2>2
  <1>6. ASSUME NEW i \in S PROVE \E k \in 1..n : InOrder(S)[k] = i
    <2>1. Cardinality(upto(i)) \in 1..n
      BY <1>2
    <2>2. InOrder(S)[Cardinality(upto(i))] = i
      BY <1>3, <1>5, <2>1
    <2> QED BY <2>1, <2>2
  <1>7. ASSUME NEW k \in 1..n, NEW l \in 1..n, InOrder(S)[k] = InOrder(S)[l] PROVE k = l
    BY <1>5, <1>7
  <1> QED BY <1>1, <1>5, <1>6, <1>7

EntryRecords == [index : Nat, disposition : {"restored", "executed", "skipped", "refused"}]
TrailRecords == [index : Nat, status : {"ok", "skipped", "failed"}]
ReportOK == report \in [resumed : BOOLEAN,
                        topology : {"untracked", "recorded", "verified", "drifted"},
                        entries : Seq(EntryRecords), trail : Seq(TrailRecords)]

(* What a report says of a node. *)
Has(i) == \E k \in DOMAIN report.entries : report.entries[k].index = i
HasAs(i, d) == \E k \in DOMAIN report.entries :
  report.entries[k].index = i /\ report.entries[k].disposition = d
Once(i) == \A k, l \in DOMAIN report.entries :
  report.entries[k].index = i /\ report.entries[l].index = i => k = l
HasRun(i) == \E k \in DOMAIN report.trail :
  report.trail[k].index = i /\ report.trail[k].status = "ok"

(* During an attempt the nodes that were passed and the completed ones are    *)
(* listed.                                                                    *)
Telling == pc \in Live => \A i \in DOMAIN steps :
  /\ Once(i) /\ (Has(i) <=> i < idx \/ i \in DOMAIN completed)
  /\ HasAs(i, "skipped") <=> i < idx /\ steps[i].name \in skipped
  /\ HasAs(i, "executed") <=> HasRun(i)
  /\ HasRun(i) => i < idx
Covered == report.topology \in {"recorded", "verified"} => \A i \in DOMAIN completed :
  HasAs(i, "executed") \/ HasAs(i, "restored") \/ HasAs(i, "refused")
Told == haltCode = "completed" => pc = "idle" /\ \A i \in DOMAIN steps :
  /\ Once(i) /\ Has(i)
  /\ HasAs(i, "skipped") <=> steps[i].name \in skipped
  /\ HasAs(i, "executed") <=> HasRun(i)
RefusedOnly == haltCode = "resume_drift" =>
  pc = "idle" /\ \A i \in DOMAIN steps : Has(i) => i \in DOMAIN completed

Reasons == {"confidence_below_threshold", "requires_human_approval"}

LedgerInv ==
  /\ ReportOK /\ Telling /\ Covered /\ Told /\ RefusedOnly
  /\ pc = "preflight" => report = NoReport /\ idx = 1
  /\ pending # None => pending.reason \in Reasons
  /\ DOMAIN completed \subseteq DOMAIN fingerprint

(* What an action does to the ledger. *)
Quiet ==
  /\ UNCHANGED <<setup, steps, fingerprint, completed, idx, skipped, report, haltCode>>
  /\ pc' = pc \/ (pc \in Live /\ pc' \in Live)
  /\ pending' = pending \/ pending' = None
Quits ==
  /\ UNCHANGED <<setup, steps, fingerprint, completed>>
  /\ pc' = "idle" /\ haltCode' \notin {"completed", "resume_drift"}
  /\ \/ report' \in {report, NoReport}
     \/ /\ pc = "executing"
        /\ \E failed \in {<<>>, <<Record(idx, "failed")>>} :
             report' = [report EXCEPT !.trail = @ \o failed]
  /\ pending' = pending \/ pending' = None \/ pending'.reason \in Reasons
Opens ==
  /\ UNCHANGED <<setup, fingerprint, completed, pending>>
  /\ report' = NoReport /\ haltCode' = None
  /\ pc' = "idle" \/ (pc' = "preflight" /\ idx' = 1)

LEMMA Accounts ==
  ASSUME Deployed, LedgerInv, [Next]_vars
  PROVE  \/ Quiet \/ Quits \/ Opens \/ Verify \/ RefuseTopology \/ RefuseSeal \/ Skipping
         \/ RestoreJoin \/ RestoreStep \/ CommitJoin \/ CommitApproved \/ CommitStep
         \/ Complete
  <1> USE DEF world, durable, history, attempt
  <1>1. CASE RefuseInput \/ HaltUnconsumed \/ HaltJoin \/ JoinRaises \/ Gates
    BY <1>1 DEF RefuseInput, HaltUnconsumed, HaltJoin, JoinRaises, Gates, HaltUnevaluable,
                HaltTainted, HaltIdentity, Halt, Stop, Forget, Quits
  <1>2. CASE Sanitize \/ Suspend \/ Reinstate \/ UNCHANGED vars
    BY <1>2 DEF Sanitize, Suspend, Reinstate, vars, Quiet, Live
  <1>3. CASE Execute \/ ConsumeApproval
    BY <1>3 DEF Execute, ConsumeApproval, Decided, Awaiting, Entered, Admitted, Evaluable,
                Reached, Unskipped, At, Quiet, Live
  <1>4. CASE Start \/ Approve \/ Decide \/ Redeploy
    BY <1>4 DEF Start, Approve, Decide, Redeploy, Begin, Opens
  <1>5. CASE Crash
    BY <1>5 DEF Crash, Stop, Forget, Quits
  <1>6. CASE Poll
    BY <1>6 DEF Poll, Awaiting, PollCode, Halt, Stop, Forget, Quits, LedgerInv, Reasons
  <1>7. CASE Mismatch \/ Reject \/ RefuseChosen
    BY <1>7 DEF Mismatch, Reject, RefuseChosen, Close, Halt, Stop, Forget, Quits
  <1>8. CASE ExecutionFails
    BY <1>8 DEF ExecutionFails, Stop, Forget, Quits
  <1>9. CASE HaltUnusable \/ HaltLowConfidence
    BY <1>9 DEF HaltUnusable, HaltLowConfidence, Stop, Forget, Quits
  <1>10. CASE MintForConfidence
    BY <1>10 DEF MintForConfidence, Mint, Stop, Forget, Quits, Reasons
  <1>11. CASE MintForApproval
    BY <1>11 DEF MintForApproval, Mint, Stop, Forget, Quits, Reasons
  <1> QED BY <1>1, <1>2, <1>3, <1>4, <1>5, <1>6, <1>7, <1>8, <1>9, <1>10, <1>11
          DEF Next, Running, Preflight, Input, JoinNode, Approval, Executing, Environment

LEMMA NoReportOK ==
  ASSUME report' = NoReport
  PROVE  /\ ReportOK' /\ Covered'
         /\ \A i : /\ Once(i)' /\ ~Has(i)' /\ ~HasRun(i)'
                   /\ \A d : ~HasAs(i, d)'
  BY DEF NoReport, ReportOK, Covered, Once, Has, HasRun, HasAs

(* The node at hand is entered at the end. *)
LEMMA Reported ==
  ASSUME ReportOK, idx \in Nat, NEW d, NEW s, Reports(d, s),
         d \in {"executed", "skipped"}, s \in {"ok", "skipped"}
  PROVE  /\ ReportOK' /\ report'.topology = report.topology
         /\ \A i : /\ Has(i)' <=> Has(i) \/ i = idx
                   /\ \A e : HasAs(i, e)' <=> HasAs(i, e) \/ (i = idx /\ e = d)
                   /\ HasRun(i)' <=> HasRun(i) \/ (i = idx /\ s = "ok")
                   /\ Once(i) /\ (i = idx => ~Has(i)) => Once(i)'
  <1> DEFINE E == report.entries
             T == report.trail
             n == Len(E) + 1
             m == Len(T) + 1
  <1>1. E \in Seq(EntryRecords) /\ T \in Seq(TrailRecords)
    BY DEF ReportOK
  <1>2. Entry(idx, d) \in EntryRecords /\ Record(idx, s) \in TrailRecords
    BY DEF Entry, Record, EntryRecords, TrailRecords
  <1>3. /\ report'.entries = Append(E, Entry(idx, d)) /\ report'.trail = Append(T, Record(idx, s))
        /\ report'.topology = report.topology
        /\ report' = [resumed |-> report.resumed, topology |-> report.topology,
                      entries |-> Append(E, Entry(idx, d)), trail |-> Append(T, Record(idx, s))]
    BY DEF Reports, ReportOK
  <1>4. /\ DOMAIN report'.entries = DOMAIN E \cup {n} /\ n \notin DOMAIN E
        /\ report'.entries[n] = Entry(idx, d)
        /\ \A k \in DOMAIN E : report'.entries[k] = E[k]
    <2> HIDE DEF E
    <2> QED BY <1>1, <1>2, <1>3
  <1>5. /\ DOMAIN report'.trail = DOMAIN T \cup {m}
        /\ report'.trail[m] = Record(idx, s)
        /\ \A k \in DOMAIN T : report'.trail[k] = T[k]
    <2> HIDE DEF T
    <2> QED BY <1>1, <1>2, <1>3
  <1>6. /\ report'.entries[n].index = idx /\ report'.entries[n].disposition = d
        /\ report'.trail[m].index = idx /\ report'.trail[m].status = s
    BY <1>4, <1>5 DEF Entry, Record
  <1>7. ReportOK'
    <2>1. Append(E, Entry(idx, d)) \in Seq(EntryRecords) /\ Append(T, Record(idx, s)) \in Seq(TrailRecords)
      BY <1>1, <1>2
    <2>2. report.resumed \in BOOLEAN /\
          report.topology \in {"untracked", "recorded", "verified", "drifted"}
      BY DEF ReportOK
    <2> HIDE DEF E, T
    <2> QED BY <1>3, <2>1, <2>2 DEF ReportOK
  <1> HIDE DEF n, m
  <1>8. ASSUME NEW i
        PROVE  /\ Has(i)' <=> Has(i) \/ i = idx
               /\ \A e : HasAs(i, e)' <=> HasAs(i, e) \/ (i = idx /\ e = d)
    BY <1>4, <1>6 DEF Has, HasAs
  <1>9. ASSUME NEW i
        PROVE  HasRun(i)' <=> HasRun(i) \/ (i = idx /\ s = "ok")
    BY <1>5, <1>6 DEF HasRun
  <1>10. ASSUME NEW i, Once(i), i = idx => ~Has(i)
         PROVE  Once(i)'
    BY <1>4, <1>6, <1>10 DEF Once, Has
  <1> QED BY <1>3, <1>7, <1>8, <1>9, <1>10

(* The completed nodes are entered in order. *)
LEMMA ListingTells ==
  ASSUME NEW S \in SUBSET Nat, IsFiniteSet(S), NEW t,
         t \in {"untracked", "recorded", "verified", "drifted"},
         report' = Checked(t, Listing(S))
  PROVE  /\ ReportOK' /\ report'.topology = t
         /\ \A i : /\ Once(i)' /\ ~HasRun(i)' /\ (Has(i)' <=> i \in S)
                   /\ ~HasAs(i, "skipped")' /\ ~HasAs(i, "executed")'
                   /\ i \in S => HasAs(i, "restored")' \/ HasAs(i, "refused")'
  <1> DEFINE n == Cardinality(S)
  <1>1. /\ report' = [resumed |-> TRUE, topology |-> t, entries |-> Listing(S), trail |-> <<>>]
    BY DEF Checked, NoReport
  <1>2. /\ n \in Nat /\ \A k \in 1..n : InOrder(S)[k] \in S
        /\ \A i \in S : \E k \in 1..n : InOrder(S)[k] = i
        /\ \A k, l \in 1..n : InOrder(S)[k] = InOrder(S)[l] => k = l
    BY Ordered
  <1>3. /\ DOMAIN Listing(S) = 1..n
        /\ \A k \in 1..n : /\ Listing(S)[k] \in EntryRecords
                           /\ Listing(S)[k].index = InOrder(S)[k]
                           /\ Listing(S)[k].disposition \in {"restored", "refused"}
    BY <1>2 DEF Listing, Entry, EntryRecords
  <1>4. Listing(S) \in Seq(EntryRecords)
    <2>1. Listing(S) \in [1..n -> EntryRecords]
      BY <1>3 DEF Listing
    <2> QED BY <1>2, <2>1, SeqDef
  <1> HIDE DEF n
  <1>5. ReportOK'
    BY <1>1, <1>4 DEF ReportOK
  <1>6. /\ DOMAIN report'.entries = 1..n /\ DOMAIN report'.trail = {}
        /\ \A k \in 1..n : /\ report'.entries[k].index = InOrder(S)[k]
                           /\ report'.entries[k].disposition \in {"restored", "refused"}
    BY <1>1, <1>3
  <1>7. ASSUME NEW i
        PROVE  /\ Once(i)' /\ ~HasRun(i)'
               /\ ~HasAs(i, "skipped")' /\ ~HasAs(i, "executed")'
    BY <1>2, <1>6 DEF Once, HasRun, HasAs
  <1>8. ASSUME NEW i
        PROVE  /\ Has(i)' <=> i \in S
               /\ i \in S => HasAs(i, "restored")' \/ HasAs(i, "refused")'
    <2>1. Has(i)' => i \in S
      BY <1>2, <1>6 DEF Has
    <2>2. ASSUME i \in S
          PROVE  Has(i)' /\ (HasAs(i, "restored")' \/ HasAs(i, "refused")')
      <3>1. PICK k \in 1..n : InOrder(S)[k] = i
        BY <1>2, <2>2
      <3>2. /\ k \in DOMAIN report'.entries /\ report'.entries[k].index = i
            /\ report'.entries[k].disposition \in {"restored", "refused"}
        BY <1>6, <3>1
      <3> QED BY <3>2 DEF Has, HasAs
    <2> QED BY <2>1, <2>2
  <1> QED BY <1>1, <1>5, <1>7, <1>8

(* No version is empty. *)
NonEmpty == \A u \in Setups : \A p \in u.versions : 1 \in DOMAIN p

LEMMA LedgerInit == Init => LedgerInv
  <1> SUFFICES ASSUME Init PROVE LedgerInv
    OBVIOUS
  <1>1. /\ report = NoReport /\ haltCode = None /\ pending = None /\ pc = "idle"
        /\ DOMAIN completed = {}
    BY DEF Init
  <1>2. ReportOK /\ Covered
    BY <1>1 DEF NoReport, ReportOK, Covered
  <1> QED BY <1>1, <1>2, NoneAssumption
          DEF LedgerInv, Telling, Told, RefusedOnly, Live

LEMMA LedgerQuiet ==
  ASSUME LedgerInv, Quiet \/ Quits \/ Opens, ResumeInv
  PROVE  LedgerInv'
  <1> USE DEF LedgerInv
  <1>1. CASE Quiet
    <2>1. Told' /\ RefusedOnly'
      BY <1>1 DEF Quiet, Told, RefusedOnly, Once, Has, HasAs, HasRun, Live
    <2>2. Telling'
      BY <1>1 DEF Quiet, Telling, Once, Has, HasAs, HasRun, Live
    <2> QED BY <1>1, <2>1, <2>2 DEF Quiet, ReportOK, Covered, HasAs, Live
  <1>2. CASE Quits
    <2>1. ReportOK' /\ Covered'
      <3>1. CASE report' = NoReport
        BY <3>1, NoReportOK
      <3>2. CASE report' = report
        BY <1>2, <3>2 DEF Quits, ReportOK, Covered, HasAs
      <3>3. CASE /\ pc = "executing"
                 /\ \E failed \in {<<>>, <<Record(idx, "failed")>>} :
                      report' = [report EXCEPT !.trail = @ \o failed]
        <4>1. PICK failed \in {<<>>, <<Record(idx, "failed")>>} :
                report' = [report EXCEPT !.trail = @ \o failed]
          BY <3>3
        <4>2. idx \in Nat
          BY <3>3, Versions DEF ResumeInv, InStep
        <4>3. Record(idx, "failed") \in TrailRecords
          BY <4>2 DEF Record, TrailRecords
        <4>4. report.trail \in Seq(TrailRecords)
          BY DEF ReportOK
        <4> DEFINE t == report.trail \o failed
        <4>5. t \in Seq(TrailRecords)
          <5>1. <<>> \in Seq(TrailRecords)
            OBVIOUS
          <5>2. <<Record(idx, "failed")>> \in Seq(TrailRecords)
            BY <4>3
          <5>3. failed \in Seq(TrailRecords)
            BY <4>1, <5>1, <5>2
          <5>4. \A a, b \in Seq(TrailRecords) : a \o b \in Seq(TrailRecords)
            OBVIOUS
          <5> QED BY <4>4, <5>3, <5>4
        <4>6. report' = [report EXCEPT !.trail = t]
          BY <4>1, Zenon
        <4> HIDE DEF t
        <4>7. ReportOK' /\ report'.entries = report.entries /\ report'.topology = report.topology
          BY <4>5, <4>6 DEF ReportOK
        <4> QED BY <1>2, <4>7 DEF Quits, Covered, HasAs
      <3> QED BY <1>2, <3>1, <3>2, <3>3 DEF Quits
    <2> QED BY <1>2, <2>1 DEF Quits, Telling, Told, RefusedOnly, Live
  <1>3. CASE Opens
    <2>1. ReportOK' /\ Covered'
      BY <1>3, NoReportOK DEF Opens
    <2> QED BY <1>3, <2>1, NoneAssumption DEF Opens, Telling, Told, RefusedOnly, Live
  <1> QED BY <1>1, <1>2, <1>3

(* The node at hand is listed, as skipped or as executed. *)
LEMMA LedgerLists ==
  ASSUME WalkInv, ResumeInv, LedgerInv, pc \in Live, idx \in DOMAIN steps,
         idx \notin DOMAIN completed, pc' = "step", idx' = idx + 1, haltCode' = haltCode,
         UNCHANGED <<setup, steps, fingerprint, pending>>,
         NEW d, NEW s, Reports(d, s),
         \/ /\ d = "skipped" /\ s = "skipped" /\ completed' = completed
            /\ skipped' = skipped \cup {Node.name}
         \/ /\ d = "executed" /\ s = "ok" /\ skipped' = skipped
            /\ \A i \in DOMAIN completed' : i \in DOMAIN completed \/ (i = idx /\ HasStore)
            /\ \A i \in DOMAIN completed : i \in DOMAIN completed'
  PROVE  LedgerInv'
  <1>1. idx \in Nat \ {0} /\ Node.name \notin skipped
    BY AtHand
  <1>2. /\ ReportOK' /\ report'.topology = report.topology
        /\ \A i : /\ Has(i)' <=> Has(i) \/ i = idx
                  /\ \A e : HasAs(i, e)' <=> HasAs(i, e) \/ (i = idx /\ e = d)
                  /\ HasRun(i)' <=> HasRun(i) \/ (i = idx /\ s = "ok")
                  /\ Once(i) /\ (i = idx => ~Has(i)) => Once(i)'
    BY <1>1, Reported DEF LedgerInv
  <1>3. \A i \in DOMAIN steps : i # idx => steps[i].name # Node.name
    BY Versions DEF ResumeInv, Node
  <1>4. \A i \in DOMAIN steps : i \in Nat /\ (i < idx + 1 <=> i < idx \/ i = idx)
    BY <1>1, Versions DEF ResumeInv
  <1>5. ASSUME NEW i \in DOMAIN steps
        PROVE  /\ Once(i) /\ (Has(i) <=> i < idx \/ i \in DOMAIN completed)
               /\ HasAs(i, "skipped") <=> i < idx /\ steps[i].name \in skipped
               /\ HasAs(i, "executed") <=> HasRun(i)
               /\ HasRun(i) => i < idx
    BY <1>5 DEF LedgerInv, Telling
  <1>6. ~(idx < idx) /\ ~Has(idx)
    BY <1>1, <1>5
  <1>7. ASSUME NEW i \in DOMAIN steps
        PROVE  /\ Once(i)' /\ (Has(i)' <=> i < idx + 1 \/ i \in DOMAIN completed')
               /\ HasAs(i, "skipped")' <=> i < idx + 1 /\ steps[i].name \in skipped'
               /\ HasAs(i, "executed")' <=> HasRun(i)'
               /\ HasRun(i)' => i < idx + 1
    <2>1. CASE i = idx
      BY <1>1, <1>2, <1>4, <1>5, <1>6, <2>1 DEF Node
    <2>2. CASE i # idx
      BY <1>2, <1>3, <1>4, <1>5, <2>2
    <2> QED BY <2>1, <2>2
  <1>8. Telling'
    BY <1>7 DEF Telling
  <1>9. Covered'
    <2> SUFFICES ASSUME report.topology \in {"recorded", "verified"}, NEW i \in DOMAIN completed'
                 PROVE  HasAs(i, "executed")' \/ HasAs(i, "restored")' \/ HasAs(i, "refused")'
      BY <1>2 DEF Covered
    <2>1. CASE i \in DOMAIN completed
      BY <1>2, <2>1 DEF LedgerInv, Covered
    <2>2. CASE i = idx /\ d = "executed"
      BY <1>2, <2>2
    <2> QED BY <2>1, <2>2
  <1>10. DOMAIN completed' \subseteq DOMAIN fingerprint'
    <2>1. HasStore => DOMAIN fingerprint = DOMAIN steps
      BY Versions DEF ResumeInv, Verified
    <2> QED BY <2>1 DEF LedgerInv
  <1>11. pc # "idle"
    BY DEF Live
  <1>12. Told' /\ RefusedOnly'
    BY <1>11 DEF LedgerInv, Told, RefusedOnly
  <1> QED BY <1>2, <1>8, <1>9, <1>10, <1>12 DEF LedgerInv

LEMMA LedgerSkips ==
  ASSUME WalkInv, ResumeInv, LedgerInv, Skipping
  PROVE  LedgerInv'
  <1>1. /\ pc \in Live /\ idx \in DOMAIN steps /\ idx \notin DOMAIN completed
    BY SkippedUnrecorded DEF Live
  <1>2. /\ pc' = "step" /\ idx' = idx + 1 /\ skipped' = skipped \cup {Node.name}
        /\ UNCHANGED <<setup, steps, fingerprint, pending, completed>>
        /\ haltCode' = haltCode /\ Reports("skipped", "skipped")
    <2> USE DEF Skip, Advance, world, durable
    <2>1. CASE ReplaySkip
      BY <2>1 DEF ReplaySkip
    <2>2. CASE SkipCascade
      BY <2>2 DEF SkipCascade
    <2>3. CASE SkipCondition
      BY <2>3 DEF SkipCondition
    <2> QED BY <2>1, <2>2, <2>3 DEF Skipping
  <1> QED BY <1>1, <1>2, LedgerLists

LEMMA LedgerCommits ==
  ASSUME WalkInv, ResumeInv, LedgerInv, CommitJoin \/ CommitApproved \/ CommitStep
  PROVE  LedgerInv'
  <1>1. /\ pc \in Live /\ idx \in DOMAIN steps /\ idx \notin DOMAIN completed
    <2>1. CASE CommitJoin
      BY <2>1 DEF CommitJoin, Joining, IsCompleted, At, Live
    <2>2. CASE CommitApproved \/ CommitStep
      BY <2>2 DEF CommitApproved, CommitStep, Live, ResumeInv, InStep, WalkInv, AtWork
    <2> QED BY <2>1, <2>2
  <1>2. \E out, r : /\ Produce(out) /\ completed' = Committed(out, r)
                    /\ UNCHANGED <<setup, steps, fingerprint, pending>>
                    /\ haltCode' = haltCode /\ Reports("executed", "ok")
    <2> USE DEF world
    <2>1. CASE CommitJoin
      BY <2>1 DEF CommitJoin
    <2>2. CASE CommitApproved
      BY <2>2 DEF CommitApproved
    <2>3. CASE CommitStep
      BY <2>3 DEF CommitStep
    <2> QED BY <2>1, <2>2, <2>3
  <1>3. PICK out, r : /\ Produce(out) /\ completed' = Committed(out, r)
                      /\ UNCHANGED <<setup, steps, fingerprint, pending>>
                      /\ haltCode' = haltCode /\ Reports("executed", "ok")
    BY <1>2
  <1>4. Recording(out)
    BY <1>1, <1>3, RecordingCommit
  <1>5. /\ \A i \in DOMAIN completed' : i \in DOMAIN completed \/ (i = idx /\ HasStore)
        /\ \A i \in DOMAIN completed : i \in DOMAIN completed'
    BY <1>4 DEF Recording
  <1>6. pc' = "step" /\ idx' = idx + 1 /\ skipped' = skipped
    BY <1>3 DEF Produce, Advance
  <1> QED BY <1>1, <1>3, <1>5, <1>6, LedgerLists

(* A restored node was listed when the attempt began. *)
LEMMA LedgerRestores ==
  ASSUME WalkInv, ResumeInv, LedgerInv, RestoreJoin \/ RestoreStep
  PROVE  LedgerInv'
  <1>1. /\ pc \in Live /\ idx \in DOMAIN steps /\ idx \in DOMAIN completed
        /\ pc' \in Live /\ idx' = idx + 1 /\ pc' # "preflight"
        /\ UNCHANGED <<setup, steps, fingerprint, pending, completed, skipped, haltCode, report>>
    BY DEF RestoreJoin, RestoreStep, Restore, IsCompleted, Admitted, Evaluable, Reached,
           Unskipped, At, Live, world, durable, Produce, Advance
  <1>2. idx \in Nat \ {0} /\ Node.name \notin skipped
    BY <1>1, AtHand
  <1>3. \A i \in DOMAIN steps : i \in Nat /\ (i < idx + 1 <=> i < idx \/ i = idx)
    BY <1>2, Versions DEF ResumeInv
  <1>4. ~(idx < idx)
    BY <1>2
  <1>5. \A i \in DOMAIN steps :
          /\ Once(i) /\ (Has(i) <=> i < idx + 1 \/ i \in DOMAIN completed)
          /\ HasAs(i, "skipped") <=> i < idx + 1 /\ steps[i].name \in skipped
          /\ HasAs(i, "executed") <=> HasRun(i)
          /\ HasRun(i) => i < idx + 1
    BY <1>1, <1>2, <1>3, <1>4 DEF LedgerInv, Telling, Node
  <1>6. Telling'
    BY <1>1, <1>5 DEF Telling, Once, Has, HasAs, HasRun
  <1>7. ReportOK' /\ Covered'
    BY <1>1 DEF LedgerInv, ReportOK, Covered, HasAs
  <1>8. Told' /\ RefusedOnly'
    BY <1>1 DEF LedgerInv, Told, RefusedOnly, Live
  <1> QED BY <1>1, <1>6, <1>7, <1>8 DEF LedgerInv

(* The completed nodes are nodes of the version that is resumed. *)
LEMMA CompletedHere ==
  ASSUME ResumeInv, LedgerInv, HasProgress, FingerprintMatches
  PROVE  /\ DOMAIN steps \cap DOMAIN completed = DOMAIN completed
         /\ DOMAIN completed \in SUBSET Nat /\ IsFiniteSet(DOMAIN completed)
  <1>1. fingerprint = TopologyFingerprint(steps)
    BY DEF ResumeInv, Marked, HasProgress, FingerprintMatches
  <1>2. DOMAIN completed \subseteq DOMAIN steps
    BY <1>1 DEF LedgerInv, TopologyFingerprint
  <1>3. DOMAIN steps = 1..Len(steps) /\ Len(steps) \in Nat
    BY NodesOf DEF ResumeInv, Deployed, Pipelines
  <1>4. IsFiniteSet(DOMAIN steps)
    BY <1>3, FS_Interval
  <1>5. IsFiniteSet(DOMAIN completed)
    BY <1>2, <1>4, FS_Subset
  <1>6. DOMAIN completed \in SUBSET Nat
    BY <1>2, <1>3
  <1>7. DOMAIN steps \cap DOMAIN completed = DOMAIN completed
    BY <1>2
  <1> QED BY <1>5, <1>6, <1>7

LEMMA LedgerRefuses ==
  ASSUME ResumeInv, LedgerInv, RefuseTopology \/ RefuseSeal
  PROVE  LedgerInv'
  <1>1. /\ pc' = "idle" /\ haltCode' = "resume_drift"
        /\ UNCHANGED <<setup, steps, fingerprint, completed, pending>>
    BY DEF RefuseTopology, RefuseSeal, Stop, Forget, world, durable
  <1>2. CASE RefuseTopology
    <2>1. report' = [resumed |-> TRUE, topology |-> "drifted", entries |-> <<>>, trail |-> <<>>]
      BY <1>2 DEF RefuseTopology, Checked, NoReport
    <2>2. ReportOK' /\ Covered' /\ \A i : ~Has(i)'
      BY <2>1 DEF ReportOK, Covered, Has
    <2> QED BY <1>1, <2>2, NoneAssumption DEF LedgerInv, Telling, Told, RefusedOnly, Live
  <1>3. CASE RefuseSeal
    <2>1. /\ report' = Checked("verified", Listing(DOMAIN completed))
          /\ DOMAIN completed \in SUBSET Nat /\ IsFiniteSet(DOMAIN completed)
      BY <1>3, CompletedHere DEF RefuseSeal, NodesChecked
    <2>2. /\ ReportOK'
          /\ \A i : /\ Has(i)' <=> i \in DOMAIN completed
                    /\ i \in DOMAIN completed => HasAs(i, "restored")' \/ HasAs(i, "refused")'
      BY <2>1, ListingTells
    <2>3. Covered'
      BY <1>1, <2>2 DEF Covered
    <2>4. RefusedOnly'
      BY <1>1, <2>2 DEF RefusedOnly
    <2> QED BY <1>1, <2>2, <2>3, <2>4 DEF LedgerInv, Telling, Told, Live
  <1> QED BY <1>2, <1>3

LEMMA LedgerVerifies ==
  ASSUME NonEmpty, WalkInv, ResumeInv, LedgerInv, Verify
  PROVE  LedgerInv'
  <1>1. /\ pc = "preflight" /\ pc' = "input"
        /\ UNCHANGED <<setup, steps, completed, pending, idx, skipped, haltCode>>
        /\ HasStore /\ HasProgress => FingerprintMatches
        /\ fingerprint' = IF HasStore /\ ~HasProgress
                          THEN TopologyFingerprint(steps) ELSE fingerprint
        /\ report' = IF ~HasStore THEN report
                     ELSE IF HasProgress THEN Checked("verified", NodesChecked)
                     ELSE [report EXCEPT !.topology = "recorded"]
    BY DEF Verify, world, attempt
  <1>2. report = NoReport /\ idx = 1
    BY <1>1 DEF LedgerInv
  <1>3. \A i \in DOMAIN steps : ~(i < idx)
    BY <1>2, Versions DEF ResumeInv
  <1>4. Told' /\ RefusedOnly'
    BY <1>1 DEF LedgerInv, Told, RefusedOnly
  <1>5. CASE HasStore /\ HasProgress
    <2>1. /\ report' = Checked("verified", Listing(DOMAIN completed))
          /\ DOMAIN completed \in SUBSET Nat /\ IsFiniteSet(DOMAIN completed)
      BY <1>1, <1>5, CompletedHere DEF NodesChecked
    <2>2. /\ ReportOK'
          /\ \A i : /\ Once(i)' /\ ~HasRun(i)' /\ (Has(i)' <=> i \in DOMAIN completed)
                    /\ ~HasAs(i, "skipped")' /\ ~HasAs(i, "executed")'
                    /\ i \in DOMAIN completed => HasAs(i, "restored")' \/ HasAs(i, "refused")'
      BY <2>1, ListingTells
    <2>3. Covered'
      BY <1>1, <2>2 DEF Covered
    <2>4. Telling'
      BY <1>1, <1>3, <2>2 DEF Telling
    <2> QED BY <1>1, <1>4, <1>5, <2>2, <2>3, <2>4 DEF LedgerInv
  <1>6. CASE ~HasStore \/ ~HasProgress
    <2>1. DOMAIN completed = {}
      <3>1. CASE ~HasStore
        BY <3>1 DEF ResumeInv, Marked
      <3>2. CASE ~HasProgress
        <4>1. 1 \in DOMAIN steps
          BY DEF NonEmpty, ResumeInv, Deployed, Pipelines
        <4> QED BY <3>2, <4>1 DEF HasProgress, WalkInv, FirstDone
      <3> QED BY <1>6, <3>1, <3>2
    <2>2. /\ report'.entries = <<>> /\ report'.trail = <<>> /\ report'.resumed = FALSE
          /\ report'.topology \in {"untracked", "recorded"}
          /\ report' = [resumed |-> report'.resumed, topology |-> report'.topology,
                        entries |-> report'.entries, trail |-> report'.trail]
      <3>1. CASE report' = report
        BY <1>2, <3>1 DEF NoReport
      <3>2. CASE report' = [report EXCEPT !.topology = "recorded"]
        BY <1>2, <3>2 DEF NoReport
      <3> QED BY <1>1, <1>6, <3>1, <3>2
    <2>3. ReportOK'
      <3>1. report'.entries \in Seq(EntryRecords) /\ report'.trail \in Seq(TrailRecords)
        BY <2>2
      <3>2. report'.resumed \in BOOLEAN
            /\ report'.topology \in {"untracked", "recorded", "verified", "drifted"}
        BY <2>2
      <3> QED BY <2>2, <3>1, <3>2 DEF ReportOK
    <2>4. \A i : /\ Once(i)' /\ ~Has(i)' /\ ~HasRun(i)'
                 /\ ~HasAs(i, "skipped")' /\ ~HasAs(i, "executed")'
      BY <2>2 DEF Once, Has, HasRun, HasAs
    <2>5. Telling'
      BY <1>1, <1>3, <2>1, <2>4 DEF Telling
    <2>6. Covered'
      BY <1>1, <2>1 DEF Covered
    <2> QED BY <1>1, <1>4, <2>1, <2>3, <2>5, <2>6 DEF LedgerInv
  <1> QED BY <1>5, <1>6

LEMMA LedgerCompletes ==
  ASSUME WalkInv, ResumeInv, LedgerInv, Complete
  PROVE  LedgerInv'
  <1>1. /\ pc = "step" /\ idx \notin DOMAIN steps
        /\ pc' = "idle" /\ haltCode' = "completed"
        /\ UNCHANGED <<setup, steps, fingerprint, pending, completed, skipped, report>>
    BY DEF Complete, AtEnd, world, durable
  <1>2. idx \in Nat \ {0} /\ idx - 1 <= Len(steps)
    BY <1>1 DEF WalkInv, Walk, Live
  <1>3. Len(steps) \in Nat /\ DOMAIN steps = 1..Len(steps)
    BY NodesOf DEF ResumeInv, Deployed, Pipelines
  <1>4. \A i \in DOMAIN steps : i < idx
    BY <1>1, <1>2, <1>3
  <1>5. Told'
    BY <1>1, <1>4 DEF LedgerInv, Telling, Told, Live, Once, Has, HasAs, HasRun
  <1>6. ReportOK' /\ Covered'
    BY <1>1 DEF LedgerInv, ReportOK, Covered, HasAs
  <1> QED BY <1>1, <1>5, <1>6 DEF LedgerInv, Telling, RefusedOnly, Live

LEMMA LedgerNext == NonEmpty /\ ResumeInv /\ WalkInv /\ LedgerInv /\ [Next]_vars => LedgerInv'
  BY Accounts, LedgerQuiet, LedgerVerifies, LedgerRefuses, LedgerSkips, LedgerRestores,
     LedgerCommits, LedgerCompletes DEF ResumeInv

LEMMA LedgerImplies == LedgerInv => LedgerTellsTheRun
  <1> SUFFICES ASSUME LedgerInv PROVE LedgerTellsTheRun
    OBVIOUS
  <1> DEFINE Listed(i) == {k \in DOMAIN report.entries : report.entries[k].index = i}
             As(d) == {report.entries[k].index :
                         k \in {j \in DOMAIN report.entries :
                                  report.entries[j].disposition = d}}
             Ran == {report.trail[k].index :
                       k \in {j \in DOMAIN report.trail : report.trail[j].status = "ok"}}
  <1>1. \A i, d : i \in As(d) <=> HasAs(i, d)
    BY DEF HasAs
  <1>2. \A i : (i \in Ran <=> HasRun(i)) /\ (Listed(i) # {} <=> Has(i))
    BY DEF HasRun, Has
  <1>3. ASSUME NEW i, Once(i), Has(i)
        PROVE  Cardinality(Listed(i)) = 1
    <2>1. PICK k \in DOMAIN report.entries : report.entries[k].index = i
      BY <1>3 DEF Has
    <2>2. Listed(i) = {k}
      BY <1>3, <2>1 DEF Once
    <2> QED BY <2>2, FS_Singleton
  <1>4. report.topology \in {"recorded", "verified"} =>
          DOMAIN completed \subseteq UNION {As(d) : d \in {"executed", "restored", "refused"}}
    BY <1>1 DEF LedgerInv, Covered
  <1>5. haltCode = "resume_drift" => {i \in DOMAIN steps : Listed(i) # {}} \subseteq DOMAIN completed
    BY <1>2 DEF LedgerInv, RefusedOnly
  <1>6. haltCode = "completed" => \A i \in DOMAIN steps :
          /\ Cardinality(Listed(i)) = 1
          /\ i \in As("skipped") <=> steps[i].name \in skipped
          /\ i \in As("executed") <=> i \in Ran
    BY <1>1, <1>2, <1>3 DEF LedgerInv, Told
  <1> QED BY <1>4, <1>5, <1>6 DEF LedgerTellsTheRun

(* Whatever way an attempt took, and however often the run was resumed before, the     *)
(* ledger it returns lists every node of a completed run once and as what it was, and  *)
(* no completed step is missing from it; pipelines with no node are left out: Pipeline *)
(* accepts them, but a run records no progress of one (ResumeLedgerBuilder, as         *)
(* Pipeline._run_inner fills it).                                                      *)
THEOREM LedgerIsTrue ==
  ASSUME ConditionsStay, NonEmpty
  PROVE  Spec => []LedgerTellsTheRun
  <1>1. ResumeInv /\ WalkInv /\ LedgerInv /\ [Next]_vars => ResumeInv' /\ WalkInv' /\ LedgerInv'
    BY ResumeNext, WalkNext, LedgerNext
  <1> QED BY <1>1, ResumeInit, WalkInit, LedgerInit, LedgerImplies, PTL DEF Spec

-----------------------------------------------------------------------------
(* Types.                                                                     *)

(* Python's None is no decided output. *)
NoneIsNoChoice == \A i, o : None # [id |-> i, out |-> o]

Topologies == {"untracked", "recorded", "verified", "drifted"}
IsReport == report = [resumed |-> report.resumed, topology |-> report.topology,
                      entries |-> report.entries, trail |-> report.trail]

(* What an attempt has gone past it has an output of or skipped. *)
Passed ==
  /\ pc \in Live \cup {"preflight"} =>
       \A j \in 1..(idx - 1) : steps[j].name \in DOMAIN outputs \cup skipped
  /\ pc = "executing" => ReachSources \subseteq DOMAIN outputs

Control ==
  /\ idx \in Nat \ {0}
  /\ pc \in {"idle", "preflight", "input", "step", "executing", "approving"}
  /\ blocked \subseteq setup.suspendable
  /\ disturbances \in 0..MaxDisturbances
  /\ IsReport /\ report.topology \in Topologies
  /\ scope \in Labels \cup {None} /\ (scope # None) = (pc = "executing")
  /\ (chosen # None) = (pc = "approving")
  /\ decision # None => decision \in supplied

Data ==
  /\ \A i \in DOMAIN completed : IsOutput(completed[i].out)
  /\ \A n \in DOMAIN outputs : IsOutput(outputs[n])
  /\ pending # None => IsRecord(pending.out) /\ IsOutput(pending.out)
  /\ pc = "approving" => IsOutput(chosen.out)

Numbered ==
  /\ requests \in Seq(Asked) /\ cascaded \subseteq Nat
  /\ pending # None => pending.id \in DOMAIN requests
  /\ applied \subseteq DOMAIN requests

TypeInv == Control /\ Data /\ Numbered /\ Passed

(* What a step does to the parts of an attempt. *)
Controls ==
  /\ setup' = setup /\ idx' \in {1, idx, idx + 1}
  /\ pc' \in {pc, "idle", "preflight", "input", "step", "executing", "approving"}
  /\ blocked' = blocked \/ blocked' \subseteq setup.suspendable \cup blocked
  /\ disturbances' = disturbances \/ Disturb
  /\ \/ scope' = scope /\ (pc' = "executing" <=> pc = "executing")
     \/ scope' = None /\ pc' # "executing"
     \/ scope' = Seed /\ pc' = "executing"
  /\ \/ chosen' = chosen /\ (pc' = "approving" <=> pc = "approving")
     \/ chosen' = None /\ pc' # "approving"
     \/ pc' = "approving" /\ \E i, o : chosen' = [id |-> i, out |-> o]
  /\ supplied \subseteq supplied' /\ decision' \in {None, decision} \cup supplied'
Report ==
  \/ report' = report \/ report' = NoReport
  \/ \E t \in Topologies : \E e : report' = Checked(t, e)
  \/ report' = [report EXCEPT !.topology = "recorded"]
  \/ \E d, s : Reports(d, s)
  \/ \E failed : report' = [report EXCEPT !.trail = @ \o failed]

LEMMA StepControls ==
  ASSUME Deployed, [Next]_vars
  PROVE  Controls
  <1> USE DEF Controls, world, durable, history, attempt
  <1>1. CASE RefuseTopology \/ RefuseSeal \/ RefuseInput \/ HaltUnconsumed \/ HaltJoin
             \/ JoinRaises \/ Gates
    BY <1>1 DEF RefuseTopology, RefuseSeal, RefuseInput, HaltUnconsumed, HaltJoin, JoinRaises,
                Gates, HaltUnevaluable, HaltTainted, HaltIdentity, Halt, Stop, Forget
  <1>2. CASE Complete \/ Verify \/ Sanitize
    BY <1>2 DEF Complete, AtEnd, Verify, Sanitize
  <1>3. CASE Skipping
    BY <1>3 DEF Skipping, ReplaySkip, SkipCascade, SkipCondition, Skip, Advance
  <1>4. CASE Start \/ Approve \/ Decide
    BY <1>4 DEF Start, Approve, Decide, Begin
  <1>5. CASE Redeploy \/ Crash
    BY <1>5 DEF Redeploy, Crash, Stop, Forget
  <1>6. CASE Suspend \/ Reinstate \/ UNCHANGED vars
    BY <1>6 DEF Suspend, Reinstate, vars
  <1>7. CASE RestoreJoin \/ RestoreStep
    BY <1>7 DEF RestoreJoin, RestoreStep, Restore, Produce, Advance
  <1>8. CASE CommitJoin \/ CommitApproved \/ CommitStep
    BY <1>8 DEF CommitJoin, CommitApproved, CommitStep, Produce, Advance
  <1>9. CASE Poll \/ Mismatch \/ Reject \/ RefuseChosen
    BY <1>9 DEF Poll, Mismatch, Reject, RefuseChosen, Close, Halt, Stop, Forget
  <1>10. CASE ConsumeApproval
    BY <1>10 DEF ConsumeApproval, Decided, Awaiting, Entered, Admitted, Evaluable, Reached,
                 Unskipped, At
  <1>11. CASE Execute
    BY <1>11 DEF Execute, Entered, Admitted, Evaluable, Reached, Unskipped, At
  <1>12. CASE ExecutionFails \/ HaltUnusable \/ HaltLowConfidence
    BY <1>12 DEF ExecutionFails, HaltUnusable, HaltLowConfidence, Stop, Forget
  <1>13. CASE MintForConfidence \/ MintForApproval
    BY <1>13 DEF MintForConfidence, MintForApproval, Mint, Stop, Forget
  <1> QED BY <1>1, <1>2, <1>3, <1>4, <1>5, <1>6, <1>7, <1>8, <1>9, <1>10, <1>11, <1>12, <1>13
          DEF Next, Running, Preflight, Input, JoinNode, Approval, Executing, Environment

LEMMA StepReports ==
  ASSUME [Next]_vars
  PROVE  Report
  <1>1. CASE RefuseTopology \/ RefuseSeal
    BY <1>1 DEF RefuseTopology, RefuseSeal, Report, Topologies
  <1>2. CASE Verify
    BY <1>2 DEF Verify, Report, Topologies
  <1>3. CASE Skipping
    BY <1>3 DEF Skipping, ReplaySkip, SkipCascade, SkipCondition, Skip, Report
  <1>4. CASE CommitJoin \/ CommitApproved \/ CommitStep
    BY <1>4 DEF CommitJoin, CommitApproved, CommitStep, Report
  <1>5. CASE ExecutionFails
    BY <1>5 DEF ExecutionFails, Report
  <1>6. CASE Complete \/ Sanitize \/ RefuseInput \/ HaltUnconsumed \/ HaltJoin \/ Gates
    BY <1>6 DEF Complete, Sanitize, RefuseInput, HaltUnconsumed, HaltJoin, Gates,
                HaltUnevaluable, HaltTainted, HaltIdentity, Halt, Report
  <1>7. CASE JoinRaises \/ Crash \/ Start \/ Approve \/ Decide \/ Redeploy
    BY <1>7 DEF JoinRaises, Crash, Start, Approve, Decide, Redeploy, Begin, Report
  <1>8. CASE Suspend \/ Reinstate \/ RestoreJoin \/ RestoreStep \/ UNCHANGED vars
    BY <1>8 DEF Suspend, Reinstate, RestoreJoin, RestoreStep, Restore, vars, Report
  <1>9. CASE Poll \/ Mismatch \/ Reject \/ RefuseChosen \/ ConsumeApproval
    BY <1>9 DEF Poll, Mismatch, Reject, RefuseChosen, Close, Halt, ConsumeApproval, Report
  <1>10. CASE Execute \/ HaltUnusable \/ HaltLowConfidence \/ MintForConfidence
              \/ MintForApproval
    BY <1>10 DEF Execute, HaltUnusable, HaltLowConfidence, MintForConfidence,
                 MintForApproval, Report
  <1> QED BY <1>1, <1>2, <1>3, <1>4, <1>5, <1>6, <1>7, <1>8, <1>9, <1>10
          DEF Next, Running, Preflight, Input, JoinNode, Approval, Executing, Environment

LEMMA ControlNext ==
  ASSUME NoneIsNoChoice, Deployed, Control, [Next]_vars
  PROVE  Control'
  <1>1. Controls /\ Report
    BY StepControls, StepReports
  <1>2. idx' \in Nat \ {0} /\ disturbances' \in 0..MaxDisturbances
    BY <1>1, PipelineAssumption DEF Controls, Control, Disturb
  <1>3. IsReport' /\ report'.topology \in Topologies
    <2>1. CASE report' = report \/ report' = NoReport
      BY <2>1 DEF Control, IsReport, NoReport, Topologies
    <2>2. CASE \E t \in Topologies : \E e : report' = Checked(t, e)
      BY <2>2 DEF IsReport, Checked, NoReport
    <2>3. CASE report' = [report EXCEPT !.topology = "recorded"]
      BY <2>3 DEF Control, IsReport, Topologies
    <2>4. CASE \E d, s : Reports(d, s)
      BY <2>4 DEF Control, IsReport, Reports
    <2>5. CASE \E failed : report' = [report EXCEPT !.trail = @ \o failed]
      BY <2>5 DEF Control, IsReport
    <2> QED BY <1>1, <2>1, <2>2, <2>3, <2>4, <2>5 DEF Report
  <1>4. Seed \in Labels
    BY PipelineAssumption DEF Seed, Join, Labels
  <1>5. scope' \in Labels \cup {None} /\ (scope' # None) = (pc' = "executing")
    BY <1>1, <1>4, NoneAssumption DEF Controls, Control
  <1>6. (chosen' # None) = (pc' = "approving")
    BY <1>1 DEF Controls, Control, NoneIsNoChoice
  <1>7. decision' # None => decision' \in supplied'
    BY <1>1 DEF Controls, Control
  <1> QED BY <1>1, <1>2, <1>3, <1>5, <1>6, <1>7 DEF Controls, Control

(* Every output that is produced was counted before. *)
LEMMA DataProduced ==
  ASSUME Data, NEW out, IsOutput(out), Produce(out), pending' = pending,
         \A i \in DOMAIN completed' : \/ completed'[i].out = out
                                      \/ i \in DOMAIN completed /\ completed'[i] = completed[i]
  PROVE  Data'
  <1>1. /\ pc' = "step" /\ outputs' = [m \in DOMAIN outputs \cup {Node.name} |->
                                         IF m = Node.name THEN out ELSE outputs[m]]
    BY Produced
  <1>2. \A n \in DOMAIN outputs' : IsOutput(outputs'[n])
    BY <1>1 DEF Data
  <1>3. \A i \in DOMAIN completed' : IsOutput(completed'[i].out)
    BY DEF Data
  <1> QED BY <1>1, <1>2, <1>3 DEF Data, IsOutput, IsRecord

(* What an output is computed from has outputs. *)
LEMMA OutputTyped ==
  ASSUME Data, NEW v \in Values, NEW t \in Labels, NEW S \in SUBSET DOMAIN outputs,
         NEW b \in BOOLEAN
  PROVE  IsOutput(Output(v, t, S, b))
  <1> DEFINE o == Output(v, t, S, b)
  <1>1. o.v = v /\ o.trust = t /\ o.ins = [n \in S |-> outputs[n].v]
    BY DEF Output
  <1>2. o.tainted = (b \/ \E n \in S : outputs[n].tainted)
    BY DEF Output
  <1>3. \A n \in DOMAIN o.ins : o.ins[n] \in Values
    BY <1>1 DEF Data, IsOutput
  <1>4. o.tainted \in BOOLEAN
    BY <1>2
  <1> QED BY <1>1, <1>3, <1>4 DEF IsOutput

LEMMA SeedLabel == Seed \in Labels
  BY PipelineAssumption DEF Seed, Join, Labels

LEMMA NodeTyped ==
  ASSUME Deployed, idx \in DOMAIN steps
  PROVE  IsNode(Node) /\ NamesBehind(steps, idx) /\ ReachSources = Reach(steps, idx)
  BY NodesOf DEF Deployed, Pipelines, Node, ReachSources, Reach

(* What an agent may return. *)
LEMMA AnswersTyped ==
  ASSUME ResumeInv, Data, Passed, scope \in Labels, pc = "executing", NEW out \in Answers
  PROVE  IsOutput(out) /\ IsRecord(out)
  <1>1. PICK v \in Node.schema, r \in {FALSE, Node.reads} : out = Returns(v, r)
    BY DEF Answers
  <1>2. v \in Values /\ r \in BOOLEAN
    BY <1>1, NodeTyped DEF IsNode, ResumeInv, InStep
  <1>3. ReachSources \in SUBSET DOMAIN outputs
    BY DEF Passed
  <1> DEFINE t == IF r THEN "untrusted" ELSE scope
             b == r \/ (ReachSources = {} /\ InitialTrust = "untrusted")
  <1>4. t \in Labels /\ b \in BOOLEAN
    BY <1>2 DEF Labels
  <1>5. out = Output(v, t, ReachSources, b)
    BY <1>1 DEF Returns
  <1> HIDE DEF t, b
  <1> QED BY <1>2, <1>3, <1>4, <1>5, OutputTyped, AnswersByCode

LEMMA DataNext ==
  ASSUME ResumeInv, Control, Data, Passed, [Next]_vars
  PROVE  Data'
  <1>1. CASE Idles
    BY <1>1 DEF Idles, Data, IsOutput, IsRecord
  <1>2. CASE Ends
    BY <1>2 DEF Ends, Data, IsOutput, IsRecord
  <1>3. CASE Verify \/ Passes
    BY <1>3 DEF Verify, Passes, Data, IsOutput, IsRecord, world, attempt
  <1>4. CASE Restores
    <2>1. IsOutput(completed[idx].out)
      BY <1>4 DEF Restores, Data
    <2> QED BY <1>4, <2>1, DataProduced DEF Restores
  <1>5. CASE Joins
    <2>1. /\ idx \in DOMAIN steps /\ Range(Bindings) \in SUBSET DOMAIN outputs
          /\ Joined \in Node.schema /\ Commits(JoinOutput, 0)
      BY <1>5 DEF Joins, BindingsAreOutputs
    <2>2. Joined \in Values
      BY <2>1, NodeTyped DEF ResumeInv, IsNode
    <2>3. IsOutput(JoinOutput)
      BY <2>1, <2>2, OutputTyped DEF JoinOutput, Join, Labels
    <2> HIDE DEF JoinOutput
    <2> QED BY <2>1, <2>3, DataProduced, CommittedOne DEF Commits
  <1>6. CASE Returned
    <2>1. PICK out \in Answers : pc = "executing" /\ Commits(out, 0)
      BY <1>6 DEF Returned
    <2>2. IsOutput(out)
      BY <2>1, AnswersTyped, NoneAssumption DEF Control
    <2> QED BY <2>1, <2>2, DataProduced, CommittedOne DEF Commits
  <1>7. CASE Approved
    BY <1>7, DataProduced, CommittedOne DEF Approved, Commits, Data
  <1>8. CASE Executes
    BY <1>8 DEF Executes, Data, IsOutput, IsRecord
  <1>9. CASE Consumes
    <2>1. /\ UNCHANGED <<completed, outputs>> /\ pending # None /\ pending' = None
          /\ ChosenValue \in Node.schema /\ idx \in DOMAIN steps
          /\ chosen'.out = [pending.out EXCEPT !.v = ChosenValue,
                              !.trust = Join({pending.out.trust, Seed})]
      BY <1>9 DEF Consumes
    <2>2. ChosenValue \in Values
      BY <2>1, NodeTyped DEF ResumeInv, IsNode
    <2>3. IsOutput(pending.out) /\ IsRecord(pending.out)
      BY <2>1 DEF Data
    <2>4. /\ chosen'.out.v = ChosenValue /\ chosen'.out.ins = pending.out.ins
          /\ chosen'.out.trust = Join({pending.out.trust, Seed})
          /\ chosen'.out.tainted = pending.out.tainted
      BY <2>1, <2>3, Relabelled
    <2>5. IsOutput(chosen.out)'
      BY <2>2, <2>3, <2>4 DEF IsOutput, Join, Labels
    <2> QED BY <2>1, <2>5 DEF Data, IsOutput, IsRecord
  <1>10. CASE Mints
    <2>1. PICK out \in Answers :
            /\ completed' = completed /\ pc' = "idle" /\ outputs' = <<>>
            /\ pc = "executing"
            /\ pending' = pending \/ pending'.out = out
      BY <1>10 DEF Mints
    <2>2. IsRecord(out) /\ IsOutput(out)
      BY <2>1, AnswersTyped, NoneAssumption DEF Control
    <2> QED BY <2>1, <2>2 DEF Data, IsOutput, IsRecord
  <1> QED BY <1>1, <1>2, <1>3, <1>4, <1>5, <1>6, <1>7, <1>8, <1>9, <1>10, Kinds
          DEF ResumeInv

LEMMA NumberedNext ==
  ASSUME ResumeInv, Control, Numbered, [Next]_vars
  PROVE  Numbered'
  <1>1. CASE Rests \/ Leaves
    BY <1>1 DEF Rests, Leaves, Numbered, Asked, StepNames, Pipelines
  <1>2. CASE Verify
    BY <1>2 DEF Verify, Numbered, Asked, StepNames, Pipelines, world, history
  <1>3. CASE Skipping
    <2>1. /\ UNCHANGED <<setup, pending, requests, applied>>
          /\ cascaded' \subseteq cascaded \cup {idx}
      BY <1>3 DEF Skipping, ReplaySkip, SkipCascade, SkipCondition, world, durable, history
    <2> QED BY <2>1 DEF Control, Numbered, Asked, StepNames, Pipelines
  <1>4. CASE RestoreJoin \/ RestoreStep \/ CommitJoin \/ Execute \/ CommitApproved \/ CommitStep
    <2>1. UNCHANGED <<setup, pending, requests, applied, cascaded>>
      BY <1>4 DEF RestoreJoin, RestoreStep, Restore, CommitJoin, Execute, CommitApproved,
                  CommitStep, world, durable, history
    <2> QED BY <2>1 DEF Numbered, Asked, StepNames, Pipelines
  <1>5. CASE ConsumeApproval
    <2>1. /\ UNCHANGED <<setup, requests, cascaded>> /\ pending # None /\ pending' = None
          /\ applied' = applied \cup {pending.id}
      BY <1>5 DEF ConsumeApproval, Decided, Awaiting, world
    <2> QED BY <2>1 DEF Numbered, Asked, StepNames, Pipelines
  <1>6. CASE Asks
    <2>1. PICK out \in Answers :
            /\ UNCHANGED <<setup, cascaded, applied>> /\ pc = "executing"
            /\ \/ /\ requests' = Append(requests, [step |-> Node.name, v |-> out.v])
                  /\ pending'.id = Len(requests) + 1
               \/ UNCHANGED <<requests, pending>>
      BY <1>6 DEF Asks
    <2>2. CASE UNCHANGED <<requests, pending>>
      BY <2>1, <2>2 DEF Numbered, Asked, StepNames, Pipelines
    <2>3. CASE /\ requests' = Append(requests, [step |-> Node.name, v |-> out.v])
               /\ pending'.id = Len(requests) + 1
      <3> DEFINE r == [step |-> Node.name, v |-> out.v]
      <3>1. r \in Asked
        BY <2>1, AsksAsked
      <3> HIDE DEF r
      <3>2. requests \in Seq(Asked) /\ requests' = Append(requests, r)
        BY <2>3 DEF Numbered, r
      <3>3. /\ requests' \in Seq(Asked)
            /\ DOMAIN requests' = DOMAIN requests \cup {Len(requests) + 1}
        BY <3>1, <3>2
      <3>4. Asked' = Asked
        BY <2>1 DEF Asked, StepNames, Pipelines
      <3> QED BY <2>1, <2>3, <3>3, <3>4 DEF Numbered
    <2> QED BY <2>1, <2>2, <2>3
  <1> QED BY <1>1, <1>2, <1>3, <1>4, <1>5, <1>6, Turns DEF ResumeInv

(* The loop moved past the node at hand. *)
LEMMA PassedMoves ==
  ASSUME Control, Passed, pc \in Live, steps' = steps, idx' = idx + 1, pc' = "step",
         Node.name \in DOMAIN outputs' \cup skipped',
         DOMAIN outputs \cup skipped \subseteq DOMAIN outputs' \cup skipped'
  PROVE  Passed'
  <1>1. idx \in Nat \ {0}
    BY DEF Control
  <1>2. ASSUME NEW j \in 1..(idx' - 1)
        PROVE  steps'[j].name \in DOMAIN outputs' \cup skipped'
    <2>1. j \in 1..(idx - 1) \/ j = idx
      BY <1>1
    <2> QED BY <2>1 DEF Passed, Node
  <1> QED BY <1>2, pc' = "step" DEF Passed

LEMMA PassedNext ==
  ASSUME ResumeInv, Control, Passed, [Next]_vars
  PROVE  Passed'
  <1>1. CASE Rests
    BY <1>1 DEF Rests, Passed, ReachSources, Node, Live
  <1>2. CASE Leaves
    BY <1>2 DEF Leaves, Passed, Live
  <1>3. CASE Verify
    BY <1>3 DEF Verify, Passed, Live, world, attempt
  <1>4. CASE Skipping
    <2>1. /\ pc \in Live /\ steps' = steps /\ idx' = idx + 1 /\ pc' = "step"
          /\ skipped' = skipped \cup {Node.name} /\ outputs' = outputs
      BY <1>4 DEF Skipping, ReplaySkip, SkipCascade, SkipCondition, Skip, Advance, Unskipped,
                  Evaluable, Reached, At, Live, world
    <2> QED BY <2>1, PassedMoves
  <1>5. CASE RestoreJoin \/ RestoreStep \/ CommitJoin \/ CommitApproved \/ CommitStep
    <2>1. pc \in Live /\ steps' = steps /\ \E out : Produce(out)
      BY <1>5 DEF RestoreJoin, RestoreStep, Restore, CommitJoin, Joining, CommitApproved,
                  CommitStep, Admitted, Evaluable, Reached, Unskipped, At, Live, world
    <2>2. PICK out : Produce(out)
      BY <2>1
    <2>3. /\ idx' = idx + 1 /\ pc' = "step" /\ skipped' = skipped
          /\ DOMAIN outputs' = DOMAIN outputs \cup {Node.name}
      BY <2>2, Produced DEF Produce, Advance
    <2> QED BY <2>1, <2>3, PassedMoves
  <1>6. CASE Execute
    <2>1. /\ pc = "step" /\ pc' = "executing" /\ idx \in DOMAIN steps
          /\ ReachSources \cap skipped = {}
          /\ UNCHANGED <<steps, idx, outputs, skipped>>
      BY <1>6 DEF Execute, Entered, Admitted, Evaluable, Reached, Unskipped, At, world
    <2>2. ReachSources \subseteq DOMAIN outputs \cup skipped
      BY <2>1, NodeTyped DEF NamesBehind, ResumeInv, Passed, Live
    <2> QED BY <2>1, <2>2 DEF Passed, Live, ReachSources, Node
  <1>7. CASE ConsumeApproval
    BY <1>7 DEF ConsumeApproval, Decided, Awaiting, Entered, Admitted, Evaluable, Reached,
                Unskipped, At, Passed, Live, world
  <1>8. CASE Asks
    BY <1>8 DEF Asks, Passed, Live
  <1> QED BY <1>1, <1>2, <1>3, <1>4, <1>5, <1>6, <1>7, <1>8, Turns DEF ResumeInv

LEMMA TypeInit == Init => TypeInv
  <1> SUFFICES ASSUME Init PROVE TypeInv
    OBVIOUS
  <1>1. /\ idx = 1 /\ pc = "idle" /\ blocked = {} /\ disturbances = 0 /\ report = NoReport
        /\ scope = None /\ chosen = None /\ decision = None /\ pending = None
        /\ DOMAIN completed = {} /\ DOMAIN outputs = {} /\ cascaded = {} /\ applied = {}
        /\ requests = <<>>
    BY DEF Init
  <1>2. IsReport /\ report.topology \in Topologies
    BY <1>1 DEF IsReport, NoReport, Topologies
  <1>3. Control
    BY <1>1, <1>2, PipelineAssumption DEF Control
  <1>4. Data /\ Passed
    BY <1>1 DEF Data, Passed, Live
  <1>5. Numbered
    BY <1>1 DEF Numbered
  <1> QED BY <1>3, <1>4, <1>5 DEF TypeInv

(* Every variable of a run keeps its declared type, and the parts of an attempt exist  *)
(* exactly in the stages of _run_inner that use them.                                  *)
THEOREM TypesHold ==
  ASSUME NoneIsNoChoice
  PROVE  Spec => []TypeOK
  <1>1. ResumeInv /\ TypeInv => TypeOK
    BY DEF ResumeInv, Deployed, TypeInv, Control, Data, Numbered, Topologies, TypeOK
  <1>2. ResumeInv /\ TypeInv /\ [Next]_vars => ResumeInv' /\ TypeInv'
    BY ResumeNext, ControlNext, DataNext, NumberedNext, PassedNext DEF TypeInv, ResumeInv
  <1> QED BY <1>1, <1>2, ResumeInit, TypeInit, PTL DEF Spec
=============================================================================
