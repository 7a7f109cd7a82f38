----------------------------- MODULE PipelineRun -----------------------------
(***************************************************************************)
(* Pipeline.run: the scheduler that walks a pipeline's nodes in order,     *)
(* checkpoints each one, and resumes, refuses or replays on the next call  *)
(* with the same run_id.                                                   *)
(*                                                                         *)
(* Durable state lives in the CheckpointStore: topology fingerprint,       *)
(* completed steps with trust label and seal, cascade skips and the one    *)
(* pending approval request.  Everything else dies with the attempt.       *)
(* Between attempts a new version of the pipeline may be deployed; while   *)
(* one runs, identities may be suspended and the process may crash.  Each  *)
(* action makes at most one durable write, so a crash may fall between any *)
(* two of them.  One attempt runs at a time.                               *)
(***************************************************************************)
EXTENDS Naturals, Sequences, FiniteSets, Functions

CONSTANTS
  Values,           \* the outputs a node may have
  Setups,           \* how the pipeline is deployed and called: see IsSetup
  InitialTrust,     \* the run's initial_trust
  None,             \* Python's None
  MaxDisturbances   \* bound: crashes, failures, redeployments, suspensions,
                    \* unclean inputs and decisions other than an approval

Labels == {"trusted", "untrusted"}

(* A node: a Step or a JoinNode.  inputs are the agents its bindings name, *)
(* when.holds the values that satisfy its condition, schema the values its *)
(* output model accepts, model the other declared parts its seal covers,   *)
(* reads whether its tools include an untrusted source.                    *)
IsNode(n) ==
  /\ n.kind \in {"agent", "join"} /\ {n.inputs, n.sources} \subseteq Seq(STRING)
  /\ Range(n.inputs) \cap {n.name} = {}
  /\ n.when.holds \subseteq Values /\ n.schema \subseteq Values
  /\ {n.gated, n.rated, n.reads} \subseteq BOOLEAN

(* Pipeline.add and _add_join accept a node only if every agent it names   *)
(* precedes it and no other node has its name; a condition may not read an *)
(* agent that is itself conditional.                                       *)
Registered(p) == Len(p) \in Nat /\ DOMAIN p = 1..Len(p) /\ \A i \in DOMAIN p :
  LET before == {p[j].name : j \in 1..(i - 1)}
      firm == {p[j].name : j \in {k \in 1..(i - 1) : p[k].when.agent = None}}
  IN /\ IsNode(p[i]) /\ p[i].name \notin before
     /\ Range(p[i].inputs) \cup Range(p[i].sources) \subseteq before
     /\ p[i].when.agent \in firm \cup {None}
     /\ p[i].kind = "join" => Len(p[i].sources) > 0

(* versions: the pipelines deployed under this run_id; low, unusable: the  *)
(* outputs whose confidence is below the threshold, or that are marked     *)
(* HasConfidence with no numeric value; rating: is confidence_threshold    *)
(* set; async: is on_failure an asynchronous policy; store: is checkpoints=*)
(* given; suspendable: agents whose identity may be suspended.             *)
IsSetup(u) ==
  /\ \A p \in u.versions : Registered(p)
  /\ u.low \subseteq Values /\ u.unusable \subseteq Values
  /\ {u.rating, u.async, u.store} \subseteq BOOLEAN

ASSUME NoneAssumption == None \notin {"completed", "resume_drift"} \cup Labels

ASSUME PipelineAssumption ==
  /\ \A u \in Setups : IsSetup(u)
  /\ InitialTrust \in Labels
  /\ MaxDisturbances \in Nat

VARIABLES
  setup,        \* a member of Setups, fixed for the run_id
  steps,        \* the pipeline deployed now
  blocked,      \* agents IdentityRegistry.run_block_reason blocks
  fingerprint, completed, cascaded, pending,     \* durable, per run_id
  pc, idx, outputs, skipped, decision, consumed, scope, chosen,
  haltCode,     \* how the last attempt ended
  report,       \* the attempt's ResumeLedgerBuilder and AuditRecorder
  requests,     \* history: every approval request minted, its id the index
  supplied,     \* history: decisions given to run
  applied,      \* history: request ids whose decision was applied
  disturbances

durable == <<fingerprint, completed, cascaded, pending>>
history == <<requests, supplied, applied>>
attempt == <<idx, outputs, skipped, decision, consumed, scope, chosen>>
world == <<setup, steps, blocked>>
vars == <<setup, steps, blocked, fingerprint, completed, cascaded, pending, pc, idx,
          outputs, skipped, decision, consumed, scope, chosen, haltCode, report,
          requests, supplied, applied, disturbances>>

-----------------------------------------------------------------------------
Pipelines == setup.versions
Rating == setup.rating
HasStore == setup.store

Node == steps[idx]

(* taint.join: UNTRUSTED absorbs. *)
Join(labels) == IF "untrusted" \in labels THEN "untrusted" ELSE "trusted"

(* What resume compares: names, bindings, the agent a condition reads (its *)
(* operand is left out) and a join's sources and policy.                   *)
TopologyFingerprint(p) == [i \in DOMAIN p |->
  <<p[i].kind, p[i].name, p[i].inputs, p[i].when.agent, p[i].sources,
    p[i].policy>>]

ASSUME FingerprintAssumption ==
  \A u \in Setups : \A p \in u.versions : TopologyFingerprint(p) # None

(* StepSeal: the declared semantics of an agent step; joins have none. *)
SealFor(n) == IF n.kind = "join" THEN None
              ELSE [model |-> n.model, gated |-> n.gated, schema |-> n.schema]

HasProgress == \E i \in DOMAIN steps : i \in DOMAIN completed \cup cascaded

FingerprintMatches == fingerprint \in {None, TopologyFingerprint(steps)}

DriftedGates == {i \in DOMAIN steps \cap DOMAIN completed :
                   /\ steps[i].kind = "agent"
                   /\ completed[i].seal.gated # steps[i].gated}
(* Completed agent steps whose stored seal is not the live one. *)
Drifted == {i \in DOMAIN steps \cap DOMAIN completed :
              /\ steps[i].kind = "agent"
              /\ completed[i].seal # SealFor(steps[i])}

(* The outputs that decide whether, and with what, an agent step runs. *)
ReachSources ==
  IF Node.inputs # <<>> THEN Range(Node.inputs)
  ELSE IF idx > 1 THEN {steps[idx - 1].name} ELSE {}

TrustOf(n) == IF n \in DOMAIN outputs THEN outputs[n].trust ELSE "untrusted"

Seed == IF ReachSources = {} THEN InitialTrust
        ELSE Join({TrustOf(n) : n \in ReachSources})

(* An output: its value and trust label, and, for the properties, the seal *)
(* of the code that produced it, the values it was computed from and       *)
(* whether untrusted data really reached it.                               *)
Output(v, label, from, tainted) ==
  [v |-> v, trust |-> label, by |-> SealFor(Node),
   ins |-> [n \in from |-> outputs[n].v],
   tainted |-> tainted \/ \E n \in from : outputs[n].tainted]

With(n, out) == [m \in DOMAIN outputs \cup {n} |->
                   IF m = n THEN out ELSE outputs[m]]

Committed(out, request) ==
  IF ~HasStore THEN completed
  ELSE [i \in DOMAIN completed \cup {idx} |->
          IF i = idx
          THEN [out |-> out, seal |-> SealFor(Node), request |-> request]
          ELSE completed[i]]

(* The resume ledger (resumed, topology, entries) and the audit trail an   *)
(* attempt builds up; whoever gets a result gets both with it.             *)
NoReport == [resumed |-> FALSE, topology |-> "untracked", entries |-> <<>>,
             trail |-> <<>>]
Entry(i, d) == [index |-> i, disposition |-> d]
Record(i, status) == [index |-> i, status |-> status]

(* The current node is entered in both. *)
Reports(d, status) ==
  report' = [report EXCEPT !.entries = Append(@, Entry(idx, d)),
                           !.trail = Append(@, Record(idx, status))]

Forget ==
  /\ idx' = 1 /\ outputs' = <<>> /\ skipped' = {} /\ decision' = None
  /\ consumed' = FALSE /\ scope' = None /\ chosen' = None

(* Every exit of an attempt but completion. *)
Stop(code) == pc' = "idle" /\ haltCode' = code /\ Forget
Halt(code) ==
  Stop(code) /\ UNCHANGED <<world, durable, history, disturbances, report>>

Disturb == disturbances < MaxDisturbances /\ disturbances' = disturbances + 1

Init ==
  /\ setup \in Setups /\ steps \in Pipelines /\ blocked = {}
  /\ fingerprint = None /\ completed = <<>> /\ cascaded = {}
  /\ pending = None
  /\ pc = "idle" /\ idx = 1 /\ outputs = <<>> /\ skipped = {}
  /\ decision = None /\ consumed = FALSE /\ scope = None /\ chosen = None
  /\ haltCode = None /\ report = NoReport /\ requests = <<>> /\ supplied = {}
  /\ applied = {} /\ disturbances = 0

-----------------------------------------------------------------------------
(* The environment: callers, reviewers, deployments, identities, crashes.  *)

Begin(d) ==
  /\ pc = "idle" /\ pc' = "preflight"
  /\ idx' = 1 /\ outputs' = <<>> /\ skipped' = {} /\ consumed' = FALSE
  /\ decision' = d /\ haltCode' = None /\ report' = NoReport
  /\ UNCHANGED <<world, durable, scope, chosen, requests, applied>>

Start == Begin(None) /\ UNCHANGED <<supplied, disturbances>>

(* The reviewer approves the pending request. *)
Approve ==
  /\ pending # None
  /\ LET d == [id |-> pending.id, verdict |-> "approved", amended |-> None]
     IN /\ Begin(d) /\ supplied' = supplied \cup {d}
  /\ UNCHANGED disturbances

(* Any decision on a request minted so far: also a rejection, an           *)
(* amendment, a decision that comes late or is sent again.                 *)
Decide == \E d \in [id : DOMAIN requests, verdict : {"approved", "rejected"},
                    amended : {None}]
                   \cup [id : DOMAIN requests, verdict : {"amended"},
                         amended : Values] :
  /\ HasStore /\ Begin(d) /\ supplied' = supplied \cup {d}
  /\ Disturb

Redeploy == \E p \in Pipelines \ {steps} :
  /\ pc = "idle" /\ steps' = p /\ Disturb
  /\ haltCode' = None /\ report' = NoReport /\ outputs' = <<>> /\ skipped' = {}
  /\ UNCHANGED <<setup, blocked, durable, pc, idx, decision, consumed, scope, chosen,
                 history>>

Suspend == \E n \in setup.suspendable \ blocked :
  /\ blocked' = blocked \cup {n} /\ Disturb
  /\ UNCHANGED <<setup, steps, durable, pc, attempt, haltCode, report, history>>

Reinstate == \E n \in blocked :
  /\ blocked' = blocked \ {n}
  /\ UNCHANGED <<setup, steps, durable, pc, attempt, haltCode, report, history,
                 disturbances>>

(* The process dies, or an exception leaves run, such as that of a         *)
(* checkpoint write: there is no result.                                   *)
Crash ==
  /\ pc # "idle" /\ Stop("crashed") /\ Disturb /\ report' = NoReport
  /\ UNCHANGED <<world, durable, history>>

-----------------------------------------------------------------------------
(* Pre-flight: the fingerprint and every completed step's seal, before     *)
(* anything runs.                                                          *)

Checked(topology, entries) ==
  [NoReport EXCEPT !.resumed = TRUE, !.topology = topology,
                   !.entries = entries]

(* The members of a set of indices in ascending order. *)
InOrder(S) ==
  [k \in 1..Cardinality(S) |->
     CHOOSE i \in S : Cardinality({j \in S : j <= i}) = k]
Listing(S) ==
  [k \in 1..Cardinality(S) |->
     Entry(InOrder(S)[k],
           IF InOrder(S)[k] \in Drifted THEN "refused" ELSE "restored")]

(* The completed nodes in index order, joins among them. *)
AgentsChecked == Listing({i \in DOMAIN steps \cap DOMAIN completed :
                            steps[i].kind = "agent"})
NodesChecked == Listing(DOMAIN steps \cap DOMAIN completed)

RefuseTopology ==
  /\ pc = "preflight" /\ HasStore /\ HasProgress /\ ~FingerprintMatches
  /\ Stop("resume_drift") /\ report' = Checked("drifted", <<>>)
  /\ UNCHANGED <<world, durable, history, disturbances>>

RefuseSeal ==
  /\ pc = "preflight" /\ HasStore /\ HasProgress /\ FingerprintMatches
  /\ Drifted # {}
  /\ Stop("resume_drift") /\ report' = Checked("verified", NodesChecked)
  /\ UNCHANGED <<world, durable, history, disturbances>>

Verify ==
  /\ pc = "preflight" /\ pc' = "input"
  /\ report' = IF ~HasStore THEN report
               ELSE IF HasProgress THEN Checked("verified", NodesChecked)
               ELSE [report EXCEPT !.topology = "recorded"]
  /\ HasStore /\ HasProgress => FingerprintMatches /\ Drifted = {}
  /\ fingerprint' = IF HasStore /\ ~HasProgress
                    THEN TopologyFingerprint(steps) ELSE fingerprint
  /\ UNCHANGED <<world, completed, cascaded, pending, attempt, haltCode,
                 history, disturbances>>

(* The initial input is sanitized before the first node. *)
Sanitize ==
  /\ pc = "input" /\ pc' = "step"
  /\ UNCHANGED <<world, durable, attempt, haltCode, report, history,
                 disturbances>>

RefuseInput ==
  /\ pc = "input" /\ Stop("sanitization") /\ Disturb
  /\ UNCHANGED <<world, durable, history, report>>

At(kind) == pc = "step" /\ idx \in DOMAIN steps /\ Node.kind = kind

AdvanceInScope == pc' = "step" /\ idx' = idx + 1 /\ chosen' = None /\ scope' = scope
(* The loop moves on; `out` is the node's output unless it was skipped. *)
Advance == pc' = "step" /\ idx' = idx + 1 /\ scope' = None /\ chosen' = None
Produce(out) ==
  /\ Advance /\ outputs' = With(Node.name, out) /\ UNCHANGED skipped
Skip ==
  /\ Advance /\ skipped' = skipped \cup {Node.name} /\ UNCHANGED outputs
  /\ Reports("skipped", "skipped")

IsCompleted == idx \in DOMAIN completed
Restore ==
  /\ Produce(completed[idx].out)
  /\ UNCHANGED <<world, durable, decision, consumed, haltCode, report, history,
                 disturbances>>

-----------------------------------------------------------------------------
(* Join nodes. *)

RestoreJoin == At("join") /\ IsCompleted /\ Restore

Joining == At("join") /\ ~IsCompleted

Present == SelectSeq(Node.sources,
                     LAMBDA s : s \notin skipped /\ s \in DOMAIN outputs)

JoinSatisfied ==
  \/ Node.policy = "exactly_one" /\ Len(Present) = 1
  \/ Node.policy = "first_by_priority" /\ Len(Present) > 0
  \/ Node.policy = "all_present" /\ Len(Present) = Len(Node.sources)

HaltJoin == Joining /\ ~JoinSatisfied /\ Halt("join_policy_violation")

(* An all_present join builds its output from its bindings and takes the   *)
(* trust of its sources; the other policies forward one source's output.   *)
Bindings == IF Node.policy = "all_present" THEN Node.inputs ELSE <<Present[1]>>
TrustSources ==
  IF Node.policy = "all_present" THEN Range(Node.sources) ELSE {Present[1]}

BindingsAreOutputs == Range(Bindings) \subseteq DOMAIN outputs

(* A built output is represented by its first binding. *)
Joined == outputs[Bindings[1]].v

(* build_input finds no output for a binding, or the join's output model   *)
(* refuses the value: neither is a JoinError, and the exception leaves run.*)
JoinRaises ==
  /\ Joining /\ JoinSatisfied
  /\ BindingsAreOutputs => Joined \notin Node.schema
  /\ Stop("raised") /\ report' = NoReport
  /\ UNCHANGED <<world, durable, history, disturbances>>

CommitJoin ==
  /\ Joining /\ JoinSatisfied /\ BindingsAreOutputs
  /\ Joined \in Node.schema
  /\ LET out == Output(Joined, Join({TrustOf(s) : s \in TrustSources}),
                       Range(Bindings), FALSE)
     IN Produce(out) /\ completed' = Committed(out, 0)
  /\ Reports("executed", "ok")
  /\ UNCHANGED <<world, fingerprint, cascaded, pending, decision, consumed,
                 haltCode, history, disturbances>>

-----------------------------------------------------------------------------
(* Agent steps: reachability, condition, identity, restore, approval, then *)
(* execution, in this order.                                               *)

ReplaySkip ==
  /\ At("agent") /\ idx \in cascaded /\ Skip
  /\ UNCHANGED <<world, durable, decision, consumed, haltCode, history,
                 disturbances>>

Unskipped == At("agent") /\ idx \notin cascaded

SkipCascade ==
  /\ Unskipped /\ ReachSources \cap skipped # {} /\ Skip
  /\ cascaded' = IF HasStore THEN cascaded \cup {idx} ELSE cascaded
  /\ UNCHANGED <<world, fingerprint, completed, pending, decision, consumed,
                 haltCode, history, disturbances>>

Reached == Unskipped /\ ReachSources \cap skipped = {}

HaltUnevaluable ==
  /\ Reached /\ Node.when.agent \in skipped
  /\ Halt("condition_unevaluable")

HaltTainted ==
  /\ Reached /\ Node.when.agent # None /\ Node.when.agent \notin skipped
  /\ TrustOf(Node.when.agent) = "untrusted"
  /\ Halt("condition_tainted")

Evaluable ==
  /\ Reached
  /\ Node.when.agent # None =>
       Node.when.agent \notin skipped /\ TrustOf(Node.when.agent) = "trusted"

Holds == Node.when.agent # None =>
           outputs[Node.when.agent].v \in Node.when.holds

(* A condition that is false is not persisted: it is evaluated again. *)
SkipCondition ==
  /\ Evaluable /\ ~Holds /\ Skip
  /\ UNCHANGED <<world, durable, decision, consumed, haltCode, history,
                 disturbances>>

HaltIdentity ==
  /\ Evaluable /\ Holds /\ Node.name \in blocked
  /\ Halt("identity_blocked")

Admitted == Evaluable /\ Holds /\ Node.name \notin blocked

RestoreStep == Admitted /\ IsCompleted /\ Restore

EnteredAgain == Admitted
Entered == Admitted /\ ~IsCompleted

AwaitingDecided == /\ Entered /\ HasStore /\ decision # None
                   /\ pending # None /\ pending.step = Node.name
(* _handle_pending_approval: the request applies to the step of its name. *)
Awaiting == Entered /\ HasStore /\ pending # None /\ pending.step = Node.name

PollCode(reason) == IF reason = "confidence_below_threshold"
                    THEN "confidence_approval_pending" ELSE reason

Poll == Awaiting /\ decision = None /\ Halt(PollCode(pending.reason))

Mismatch ==
  /\ Awaiting /\ decision # None /\ decision.id # pending.id
  /\ Halt("approval_error")

DecidedAny == Awaiting /\ decision # None
Decided == Awaiting /\ decision # None /\ decision.id = pending.id

ChosenValue ==
  IF decision.verdict = "amended" THEN decision.amended ELSE pending.out.v

Close(code) ==
  /\ pending' = None /\ applied' = applied \cup {pending.id} /\ Stop(code)
  /\ UNCHANGED <<world, fingerprint, completed, cascaded, requests, supplied,
                 disturbances, report>>

Reject == Decided /\ decision.verdict = "rejected" /\ Close("approval_rejected")

RefuseChosen ==
  /\ Decided /\ decision.verdict # "rejected"
  /\ ChosenValue \notin Node.schema
  /\ Close("schema_violation")

ConsumeRelabelled ==
  /\ Decided /\ decision.verdict # "rejected" /\ ChosenValue \in Node.schema
  /\ pc' = "approving" /\ pending' = None
  /\ chosen' = [id |-> pending.id,
                out |-> [pending.out EXCEPT !.v = ChosenValue, !.trust = Seed]]
  /\ applied' = applied \cup {pending.id}
  /\ UNCHANGED <<world, fingerprint, completed, cascaded, idx, outputs, skipped,
                 decision, consumed, scope, haltCode, report, requests, supplied,
                 disturbances>>
(* The request is consumed first, the step committed after. *)
ConsumeApproval ==
  /\ Decided /\ decision.verdict # "rejected" /\ ChosenValue \in Node.schema
  /\ pc' = "approving" /\ pending' = None
  /\ chosen' = [id |-> pending.id,
                out |-> [pending.out EXCEPT !.v = ChosenValue,
                           !.trust = Join({pending.out.trust, Seed})]]
  /\ applied' = applied \cup {pending.id}
  /\ UNCHANGED <<world, fingerprint, completed, cascaded, idx, outputs, skipped,
                 decision, consumed, scope, haltCode, report, requests, supplied,
                 disturbances>>

CommitUnsealed ==
  /\ pc = "approving" /\ consumed' = TRUE
  /\ Produce(chosen.out)
  /\ completed' = [Committed(chosen.out, chosen.id) EXCEPT ![idx].seal = None]
  /\ Reports("executed", "ok")
  /\ UNCHANGED <<world, fingerprint, cascaded, pending, decision, haltCode,
                 history, disturbances>>
CommitApproved ==
  /\ pc = "approving" /\ consumed' = TRUE
  /\ Produce(chosen.out) /\ completed' = Committed(chosen.out, chosen.id)
  /\ Reports("executed", "ok")
  /\ UNCHANGED <<world, fingerprint, cascaded, pending, decision, haltCode,
                 history, disturbances>>

(* The agent runs (an await); its taint scope starts from its sources. *)
Execute ==
  /\ Entered /\ ~Awaiting
  /\ pc' = "executing" /\ scope' = Seed
  /\ UNCHANGED <<world, durable, idx, outputs, skipped, decision, consumed,
                 chosen, haltCode, report, history, disturbances>>

(* Whatever StepExecutor.execute or the orphan check halts on; a step that *)
(* called tools in vain leaves a failed record.                            *)
ExecutionFails ==
  /\ pc = "executing" /\ Stop("step_failed") /\ Disturb
  /\ \E failed \in {<<>>, <<Record(idx, "failed")>>} :
       report' = [report EXCEPT !.trail = @ \o failed]
  /\ UNCHANGED <<world, durable, history>>

(* What the agent returned, with the label its scope ends with. *)
Returns(v, read) ==
  Output(v, IF read THEN "untrusted" ELSE scope, ReachSources,
         read \/ (ReachSources = {} /\ InitialTrust = "untrusted"))
Answers ==
  UNION {{Returns(v, FALSE), Returns(v, Node.reads)} : v \in Node.schema}

Rated == Rating /\ Node.rated
Doubtful(out) == Rated /\ out.v \in setup.low /\ ~Node.gated /\ ~setup.async

HaltUnusable == pc = "executing" /\ \E out \in Answers :
  /\ Rated /\ out.v \in setup.unusable
  /\ Stop("confidence_marker_without_value") /\ Disturb
  /\ UNCHANGED <<world, durable, history, report>>

(* _mint_approval_request, then record_approval_request. *)
Mint(out, reason) ==
  /\ IF HasStore
     THEN /\ requests' = Append(requests, [step |-> Node.name, v |-> out.v])
          /\ pending' = [id |-> Len(requests) + 1, step |-> Node.name,
                         reason |-> reason, out |-> out]
     ELSE UNCHANGED <<requests, pending>>
  /\ UNCHANGED <<world, fingerprint, completed, cascaded, supplied,
                 applied, disturbances>>

Sound(out) == Rated => out.v \notin setup.unusable

MintForConfidence == pc = "executing" /\ \E out \in Answers :
  /\ Sound(out) /\ Doubtful(out) /\ HasStore
  /\ Mint(out, "confidence_below_threshold")
  /\ Stop("confidence_approval_pending") /\ UNCHANGED report

HaltLowConfidence == pc = "executing" /\ \E out \in Answers :
  /\ Sound(out) /\ Doubtful(out) /\ ~HasStore
  /\ Disturb /\ Stop("confidence_below_threshold")
  /\ UNCHANGED <<world, durable, history, report>>

MintAndContinue == pc = "executing" /\ \E out \in Answers :
  /\ Sound(out) /\ ~Doubtful(out) /\ Node.gated
  /\ Mint(out, "requires_human_approval")
  /\ Produce(out) /\ UNCHANGED <<decision, consumed, haltCode, report>>
MintForApproval == pc = "executing" /\ \E out \in Answers :
  /\ Sound(out) /\ ~Doubtful(out) /\ Node.gated
  /\ Mint(out, "requires_human_approval")
  /\ Stop("requires_human_approval") /\ UNCHANGED report

CommitStep == pc = "executing" /\ \E out \in Answers :
  /\ Sound(out) /\ ~Doubtful(out) /\ ~Node.gated
  /\ Produce(out) /\ completed' = Committed(out, 0)
  /\ Reports("executed", "ok")
  /\ UNCHANGED <<world, fingerprint, cascaded, pending, decision, consumed,
                 haltCode, history, disturbances>>

-----------------------------------------------------------------------------
AtEnd == pc = "step" /\ idx \notin DOMAIN steps

HaltUnconsumed ==
  /\ AtEnd /\ decision # None /\ ~consumed /\ Halt("approval_error")

Complete ==
  /\ AtEnd /\ (decision # None => consumed)
  /\ pc' = "idle" /\ haltCode' = "completed"
  /\ idx' = 1 /\ decision' = None /\ consumed' = FALSE
  /\ UNCHANGED <<world, durable, outputs, skipped, scope, chosen, report,
                 history, disturbances>>

(* One step of the attempt that runs. *)
Preflight == RefuseTopology \/ RefuseSeal \/ Verify
Input == Sanitize \/ RefuseInput
JoinNode == RestoreJoin \/ HaltJoin \/ JoinRaises \/ CommitJoin
Skipping == ReplaySkip \/ SkipCascade \/ SkipCondition
Gates == HaltUnevaluable \/ HaltTainted \/ HaltIdentity
Approval == \/ Poll \/ Mismatch \/ Reject \/ RefuseChosen
            \/ ConsumeApproval \/ CommitApproved
Executing == \/ Execute \/ ExecutionFails \/ HaltUnusable \/ CommitStep
             \/ MintForConfidence \/ HaltLowConfidence \/ MintForApproval
Running == \/ Preflight \/ Input \/ JoinNode \/ Skipping \/ Gates
           \/ RestoreStep \/ Approval \/ Executing \/ HaltUnconsumed \/ Complete

Environment == Start \/ Approve \/ Decide \/ Redeploy \/ Suspend \/ Reinstate
               \/ Crash

Next == Running \/ Environment

Spec == Init /\ [][Next]_vars

(* The event loop keeps running an attempt; the caller keeps retrying; the *)
(* reviewer approves in the end, however often the request is polled; a    *)
(* suspended identity is reinstated in the end.                            *)
FairSpec == /\ Spec /\ WF_vars(Running) /\ WF_vars(Start)
            /\ SF_vars(Approve) /\ WF_vars(Reinstate)


-----------------------------------------------------------------------------
IsOutput(out) ==
  /\ out.v \in Values /\ out.trust \in Labels /\ out.tainted \in BOOLEAN
  /\ \A n \in DOMAIN out.ins : out.ins[n] \in Values

(* Every value is what the code declares it to be, and the parts of an     *)
(* attempt exist exactly in the stages that use them.                      *)
TypeOK ==
  /\ setup \in Setups /\ steps \in Pipelines
  /\ blocked \subseteq setup.suspendable
  /\ pc \in {"idle", "preflight", "input", "step", "executing", "approving"}
  /\ \A i \in DOMAIN completed : IsOutput(completed[i].out)
  /\ \A n \in DOMAIN outputs : IsOutput(outputs[n])
  /\ cascaded \subseteq Nat /\ idx \in Nat \ {0}
  /\ pending # None => pending.id \in DOMAIN requests /\ IsOutput(pending.out)
  /\ (scope # None) = (pc = "executing")
  /\ (chosen # None) = (pc = "approving")
  /\ decision # None => decision \in supplied
  /\ report.topology \in {"untracked", "recorded", "verified", "drifted"}
  /\ applied \subseteq DOMAIN requests
  /\ disturbances \in 0..MaxDisturbances

(* A gated step, and a low-confidence step of a synchronous run, commits   *)
(* only an output a reviewer approved or wrote for that very request, and  *)
(* no other output of such a step reaches the steps behind it.  Committed  *)
(* steps are judged by the pipeline they were committed for, the one whose *)
(* fingerprint and seals are stored.                                       *)
Reviewed ==
  LET guarded(i, v) ==
        /\ steps[i].kind = "agent"
        /\ \/ steps[i].gated
           \/ Rating /\ steps[i].rated /\ ~setup.async /\ v \in setup.low
      settles(d, i, v) ==
        /\ requests[d.id].step = steps[i].name
        /\ \/ d.verdict = "approved" /\ v = requests[d.id].v
           \/ d.verdict = "amended" /\ v = d.amended
  IN /\ FingerprintMatches /\ Drifted = {} =>
          \A i \in DOMAIN completed \cap DOMAIN steps :
            LET c == completed[i]
            IN guarded(i, c.out.v) =>
                 \E d \in supplied : d.id = c.request /\ settles(d, i, c.out.v)
     /\ \A i \in DOMAIN steps : steps[i].name \in DOMAIN outputs =>
          LET v == outputs[steps[i].name].v
          IN guarded(i, v) => \E d \in supplied : settles(d, i, v)

(* An output that untrusted data reached carries the untrusted label,      *)
(* through joins, approvals, amendments, checkpoints and resumes.          *)
TaintFollowsData ==
  LET sound(out) == out.tainted => out.trust = "untrusted"
  IN /\ \A n \in DOMAIN outputs : sound(outputs[n])
     /\ \A i \in DOMAIN completed : sound(completed[i].out)
     /\ pending # None => sound(pending.out)

(* When a run completes, however many attempts it took, every output was   *)
(* computed from the outputs the run reports for its sources.              *)
InputsConsistent == haltCode = "completed" =>
  \A n \in DOMAIN outputs : \A m \in DOMAIN outputs[n].ins :
    m \in DOMAIN outputs /\ outputs[m].v = outputs[n].ins[m]

(* The resume ledger tells what became of every node.  When a run          *)
(* completes, each node is listed once: as skipped if it was, as executed  *)
(* if the audit trail of this attempt has an ok record of it, and as       *)
(* restored otherwise.  Whatever an attempt ends with, once the topology   *)
(* was checked no completed step is missing, and a refused resume lists    *)
(* completed steps only.                                                   *)
LedgerTellsTheRun ==
  LET Listed(i) == {k \in DOMAIN report.entries : report.entries[k].index = i}
      As(d) == {report.entries[k].index :
                  k \in {j \in DOMAIN report.entries :
                           report.entries[j].disposition = d}}
      Ran == {report.trail[k].index :
                k \in {j \in DOMAIN report.trail : report.trail[j].status = "ok"}}
  IN /\ haltCode = "completed" =>
          \A i \in DOMAIN steps :
            /\ Cardinality(Listed(i)) = 1
            /\ i \in As("skipped") <=> steps[i].name \in skipped
            /\ i \in As("executed") <=> i \in Ran
     /\ report.topology \in {"recorded", "verified"} =>
          DOMAIN completed \subseteq
            UNION {As(d) : d \in {"executed", "restored", "refused"}}
     /\ haltCode = "resume_drift" =>
          {i \in DOMAIN steps : Listed(i) # {}} \subseteq DOMAIN completed

(* The agent of a step whose proposal waits for a reviewer is not run      *)
(* again before a decision on it was applied.                              *)
NoRerunWhileOpen == pc = "executing" =>
  \A r \in DOMAIN requests \ applied : requests[r].step # Node.name

(* A resumed run never replays outputs into changed logic: what it reports *)
(* was produced by the versions of the agents that are deployed.           *)
OutputsOfDeployedCode == haltCode = "completed" =>
  \A i \in DOMAIN steps : steps[i].name \in DOMAIN outputs =>
    outputs[steps[i].name].by = SealFor(steps[i])

(* A run whose faults end, whose identities are reinstated and whose       *)
(* requests are approved completes.                                        *)
EventuallyCompletes == <>(haltCode = "completed")
=============================================================================
