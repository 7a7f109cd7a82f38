---------------------------- MODULE ExecutorProof ----------------------------
(* Proofs about the executor of a step (pipeline/executor.py): about ModelStep,  *)
(* for every configuration of profiles, every set of reasons to fall back on and *)
(* every bound on the model calls, and about Evidence, for all runs, payloads    *)
(* and policies.                                                                 *)
EXTENDS ModelStep, Evidence, TLAPS

Counters ==
  /\ attempt \in Nat /\ turns \in Nat /\ calls \in Nat /\ limit \in Nat /\ made \in Nat
  /\ reprompts \in 0 .. 1
  /\ ~ Loop => turns = 0

\* Tools belong to the loop, are marked before they run, and no attempt begins
\* with a tool already run.
ToolInv ==
  /\ ran \subseteq {attempt}
  /\ phase = "tool" => Loop
  /\ phase \in {"resolve", "begin"} => ran = {}
  /\ ~ invoked => ran = {}
  /\ ~ Loop => ran = {}

\* A recorded failure is one of the loop, and leaves only the way out.
FailInv ==
  failed => /\ Loop
            /\ phase \in {"raised", "done"}
            /\ phase = "done" => outcome = "tool"

\* What a pass has used of its limit, and what earlier passes have left of it.
BudgetInv ==
  Loop => /\ made <= MaxCalls
          /\ phase \in {"call", "tool", "answer"} =>
               /\ 1 <= limit /\ limit <= MaxCalls /\ calls <= limit
               /\ turns = made /\ made = MaxCalls - limit + calls

\* An answer without a usable object was judged while the attempt could not be
\* asked again, or is being judged.
StuckInv ==
  Loop /\ text \in {"absent", "invalid"} /\ phase # "answer" =>
    reprompts = 1 \/ made = MaxCalls

StepInv == Counters /\ ToolInv /\ FailInv /\ BudgetInv /\ StuckInv

LEMMA StepInvInit == Init => StepInv
  BY MaxCallsAssumption, NoneAssumption
  DEF Init, StepInv, Counters, ToolInv, FailInv, BudgetInv, StuckInv, Loop

(* Every action keeps the invariant.  The arithmetic is in LoopReply, which uses *)
(* one call of the pass, and Reask, which hands the rest to a second pass; the    *)
(* order of the driver's tests matters in HandleLoop.                             *)
LEMMA StepInvNext == StepInv /\ [Next]_vars => StepInv'
  <1> SUFFICES ASSUME StepInv, [Next]_vars PROVE StepInv'
    OBVIOUS
  <1> USE MaxCallsAssumption, NoneAssumption DEF StepInv, input, loop, Loop
  <1>1. CASE Resolve
    BY <1>1 DEF Counters, ToolInv, FailInv, BudgetInv, StuckInv, Resolve, Halt
  <1>2. CASE BeginAttempt
    BY <1>2 DEF Counters, ToolInv, FailInv, BudgetInv, StuckInv, BeginAttempt
  <1>3. CASE LoopExhausted
    BY <1>3 DEF Counters, ToolInv, FailInv, BudgetInv, StuckInv, LoopExhausted, LoopTurn, Exhausted
  <1>4. CASE LoopReply
    <2>1. Counters'
      BY <1>4 DEF Counters, BudgetInv, LoopReply, LoopTurn, Exhausted
    <2>2. ToolInv'
      BY <1>4 DEF ToolInv, LoopReply, LoopTurn, Exhausted
    <2>3. FailInv'
      BY <1>4 DEF FailInv, ToolInv, LoopReply, LoopTurn, Exhausted
    <2>4. BudgetInv'
      BY <1>4 DEF BudgetInv, Counters, LoopReply, LoopTurn, Exhausted
    <2>5. StuckInv'
      BY <1>4 DEF StuckInv, BudgetInv, Counters, LoopReply, LoopTurn, Exhausted
    <2> QED BY <2>1, <2>2, <2>3, <2>4, <2>5
  <1>5. CASE RunTool
    <2>1. Counters'
      BY <1>5 DEF Counters, BudgetInv, RunTool
    <2>2. ToolInv'
      BY <1>5 DEF ToolInv, RunTool
    <2>3. FailInv'
      BY <1>5 DEF FailInv, ToolInv, RunTool
    <2>4. BudgetInv'
      BY <1>5 DEF BudgetInv, Counters, RunTool
    <2>5. StuckInv'
      BY <1>5 DEF StuckInv, BudgetInv, Counters, RunTool
    <2> QED BY <2>1, <2>2, <2>3, <2>4, <2>5
  <1>6. CASE OneShotCall
    BY <1>6 DEF Counters, ToolInv, FailInv, BudgetInv, StuckInv, OneShotCall
  <1>7. CASE Reask
    <2>1. Counters'
      BY <1>7 DEF Counters, BudgetInv, Reask, Stuck, CanReprompt, CanReask
    <2>2. ToolInv'
      BY <1>7 DEF ToolInv, Reask, Stuck, CanReprompt, CanReask
    <2>3. FailInv'
      BY <1>7 DEF FailInv, ToolInv, Reask, Stuck, CanReprompt, CanReask
    <2>4. BudgetInv'
      BY <1>7 DEF BudgetInv, Counters, Reask, Stuck, CanReprompt, CanReask
    <2>5. StuckInv'
      BY <1>7 DEF StuckInv, BudgetInv, Counters, Reask, Stuck, CanReprompt, CanReask
    <2> QED BY <2>1, <2>2, <2>3, <2>4, <2>5
  <1>8. CASE Refuse
    <2>1. Counters'
      BY <1>8 DEF Counters, BudgetInv, Refuse, CanReprompt, CanReask
    <2>2. ToolInv'
      BY <1>8 DEF ToolInv, Refuse, CanReprompt, CanReask
    <2>3. FailInv'
      BY <1>8 DEF FailInv, ToolInv, Refuse, CanReprompt, CanReask
    <2>4. BudgetInv'
      BY <1>8 DEF BudgetInv, Counters, Refuse, CanReprompt, CanReask
    <2>5. StuckInv'
      BY <1>8 DEF StuckInv, BudgetInv, Counters, Refuse, CanReprompt, CanReask
    <2> QED BY <2>1, <2>2, <2>3, <2>4, <2>5
  <1>9. CASE Accept
    <2>1. Counters'
      BY <1>9 DEF Counters, BudgetInv, Accept, Stuck, CanReprompt, CanReask
    <2>2. ToolInv'
      BY <1>9 DEF ToolInv, Accept, Stuck, CanReprompt, CanReask
    <2>3. FailInv'
      BY <1>9 DEF FailInv, ToolInv, Accept, Stuck, CanReprompt, CanReask
    <2>4. BudgetInv'
      BY <1>9 DEF BudgetInv, Counters, Accept, Stuck, CanReprompt, CanReask
    <2>5. StuckInv'
      BY <1>9 DEF StuckInv, BudgetInv, Counters, Accept, Stuck, CanReprompt, CanReask
    <2> QED BY <2>1, <2>2, <2>3, <2>4, <2>5
  <1>10. CASE HandleLoop
    <2>1. Counters'
      BY <1>10 DEF Counters, BudgetInv, HandleLoop, LoopFallsBack, LoopHaltCode, Halt
    <2>2. ToolInv'
      BY <1>10 DEF ToolInv, HandleLoop, LoopFallsBack, LoopHaltCode, Halt
    <2>3. FailInv'
      BY <1>10 DEF FailInv, ToolInv, HandleLoop, LoopFallsBack, LoopHaltCode, Halt
    <2>4. BudgetInv'
      BY <1>10 DEF BudgetInv, Counters, HandleLoop, LoopFallsBack, LoopHaltCode, Halt
    <2>5. StuckInv'
      BY <1>10 DEF StuckInv, BudgetInv, Counters, HandleLoop, LoopFallsBack, LoopHaltCode, Halt
    <2> QED BY <2>1, <2>2, <2>3, <2>4, <2>5
  <1>11. CASE HandleOneShot
    BY <1>11 DEF Counters, ToolInv, FailInv, BudgetInv, StuckInv, HandleOneShot, Halt
  <1>12. CASE UNCHANGED vars
    BY <1>12 DEF vars, Counters, ToolInv, FailInv, BudgetInv, StuckInv
  <1> QED BY <1>1, <1>2, <1>3, <1>4, <1>5, <1>6, <1>7, <1>8, <1>9, <1>10, <1>11, <1>12 DEF Next

(* The inductive invariant of a step, from which the next four theorems follow  *)
(* (_run_one_attempt, run_agentic_loop_chain).                                   *)
THEOREM StepInvariant == Spec => []StepInv
  BY StepInvInit, StepInvNext, PTL DEF Spec

(* No replay of tool side effects: whatever providers fail and in whatever order  *)
(* the chain is walked, one attempt of a step runs tools (run_agentic_loop_chain).*)
THEOREM ToolsStay == Spec => []ToolsStayWithOneAttempt
  <1>1. StepInv => ToolsStayWithOneAttempt
    BY DEF StepInv, ToolInv, ToolsStayWithOneAttempt
  <1> QED BY <1>1, StepInvariant, PTL

(* After a tool failed or was denied the step only ends, with the tool's code,    *)
(* whatever the exception looks like to classify_provider_exception.              *)
THEOREM ToolFailure == Spec => []ToolFailureIsFinal
  <1>1. StepInv => ToolFailureIsFinal
    BY DEF StepInv, FailInv, ToolFailureIsFinal
  <1> QED BY <1>1, StepInvariant, PTL

(* max_llm_calls bounds the model calls of an attempt over both of its passes,    *)
(* for every value it may have (_run_one_attempt, _consume_pass).                 *)
THEOREM CallBound == Spec => []CallsBounded
  <1>1. StepInv => CallsBounded
    BY DEF StepInv, BudgetInv, CallsBounded
  <1> QED BY <1>1, StepInvariant, PTL

(* A loop step that ends without a usable object was asked again, or had used all *)
(* of its calls (coerce_structured_output with LoopBudget).                       *)
THEOREM Reprompted == Spec => []StuckTurnEarnsOneReprompt
  <1>1. StepInv => StuckTurnEarnsOneReprompt
    BY DEF StepInv, StuckInv, StuckTurnEarnsOneReprompt
  <1> QED BY <1>1, StepInvariant, PTL
-----------------------------------------------------------------------------
\* The error is the one of this attempt, only a transport failure has a reason, and
\* a step ended by one had run a tool, come to the end of its chain or was not
\* configured to fall back.
FallbackInv ==
  /\ gateway \in Gateways
  /\ failed => invoked
  /\ phase \in {"resolve", "call", "tool", "answer"} => error = None
  /\ error # None /\ error.reason # None => error.kind = "transport"
  /\ TransportFallsBack

LEMMA ErrorsOfReason ==
  /\ \A e \in ProviderErrors : e.reason # None => e.kind = "transport"
  /\ Raised("llm", None).reason = None /\ Raised("unknown", None).reason = None
  BY DEF ProviderErrors, Raised

LEMMA FallbackInvNext ==
  ASSUME "litellm" \notin Gateways, FallbackInv, [Next]_vars
  PROVE  FallbackInv'
  <1> USE DEF FallbackInv, TransportFallsBack, input, loop
  <1>1. CASE Resolve
    BY <1>1 DEF Resolve, Halt
  <1>2. CASE BeginAttempt
    BY <1>2 DEF BeginAttempt
  <1>3. CASE LoopExhausted
    BY <1>3, ErrorsOfReason DEF LoopExhausted, LoopTurn
  <1>4. CASE LoopReply
    BY <1>4, ErrorsOfReason DEF LoopReply, LoopTurn
  <1>5. CASE RunTool
    BY <1>5, ErrorsOfReason DEF RunTool
  <1>6. CASE OneShotCall
    <2>1. \/ error' \in ProviderErrors \cup {Raised("llm", None)} /\ phase' = "raised"
          \/ error' = error /\ phase' = "answer"
      BY <1>6 DEF OneShotCall
    <2> QED BY <1>6, <2>1, ErrorsOfReason DEF OneShotCall
  <1>7. CASE Reask
    BY <1>7 DEF Reask
  <1>8. CASE Refuse
    BY <1>8, ErrorsOfReason DEF Refuse
  <1>9. CASE Accept
    BY <1>9 DEF Accept
  <1>10. CASE HandleLoop
    BY <1>10 DEF HandleLoop, LoopFallsBack, Retryable, HasNext, Halt
  <1>11. CASE HandleOneShot
    BY <1>11 DEF HandleOneShot, Retryable, HasNext, Halt
  <1>12. CASE UNCHANGED vars
    BY <1>12 DEF vars
  <1> QED BY <1>1, <1>2, <1>3, <1>4, <1>5, <1>6, <1>7, <1>8, <1>9, <1>10, <1>11, <1>12 DEF Next

(* No step ends on a transport failure it is configured to fall back on while its *)
(* chain has another attempt and no tool ran, in the loop and in one shot, if no  *)
(* call goes through LiteLLMGateway, which hides the failure from the chain       *)
(* (LLMRuntime.complete, run_agentic_loop_chain).                                 *)
THEOREM TransportRetried ==
  ASSUME "litellm" \notin Gateways
  PROVE  Spec => []TransportFallsBack
  <1>1. Init => FallbackInv
    BY DEF Init, FallbackInv, TransportFallsBack
  <1>2. FallbackInv /\ [Next]_vars => FallbackInv'
    BY FallbackInvNext
  <1>3. FallbackInv => TransportFallsBack
    BY DEF FallbackInv
  <1> QED BY <1>1, <1>2, <1>3, PTL DEF Spec
-----------------------------------------------------------------------------
(* Evidence: what the model of a step is given instead of a large input.      *)

\* The lists of a payload are lists of rows.
PayloadsAreLists == \A p \in Payloads : p.lists \in Seq(Seq({"plain", "signal"}))

\* None is neither a decision nor what a compression issued.
AbsentIsNoEvidence ==
  /\ Absent \notin {"passthrough", "simulated", "compressed", "rejected"}
  /\ \A p \in Policies, t \in Nat : Absent # [policy |-> p, at |-> t]

\* Every run has a payload, a stage, a view, a decision, a count and an issue.
EvidenceTypes ==
  /\ wiring \in Wirings /\ payload \in [Runs -> Payloads] /\ policy \in [Runs -> Policies]
  /\ clock \in Nat
  /\ DOMAIN stage = Runs /\ DOMAIN view = Runs /\ DOMAIN decision = Runs
  /\ DOMAIN warned = Runs /\ DOMAIN issued = Runs /\ DOMAIN store \subseteq Runs

\* A run that was not compressed sees its whole payload; of a compressed one the
\* original is stored and the dropped signals are counted, of a rejected one nothing is.
SeesOrStores(r) ==
  /\ stage[r] = "idle" => decision[r] = Absent
  /\ decision[r] # "compressed" => view[r] = Rows(payload[r])
  /\ decision[r] = "compressed" =>
       /\ wiring = "passed" => r \in DOMAIN store
       /\ warned[r] = Cardinality(Signals(payload[r]) \ view[r])
  /\ decision[r] = "rejected" => r \notin DOMAIN store

\* A stored original carries the policy and time of the last compression of its run.
AsIssued(h) ==
  /\ issued[h] # Absent
  /\ store[h].full = issued[h].policy.full /\ store[h].search = issued[h].policy.search
  /\ store[h].ttl = issued[h].policy.ttl /\ store[h].at = issued[h].at

EvidenceInv ==
  /\ EvidenceTypes
  /\ ~ UsesSharedStore => DOMAIN store = {}
  /\ \A r \in Runs : SeesOrStores(r)
  /\ \A h \in DOMAIN store : AsIssued(h)

\* The rows a view drops are those of the signals which the warnings count.
LEMMA DroppedAreWarned ==
  ASSUME PayloadsAreLists, NEW p \in Payloads, NEW pol
  PROVE  SignalsDropped(p, pol) = Cardinality(Signals(p) \ Compressed(p, pol))
  <1> DEFINE Dropped == {row \in Signals(p) :
        row[2] \in Selected(p.lists[row[1]])
                     \ Keep(p.lists[row[1]], RowBudget(p, pol.cap))}
  <1>1. ASSUME NEW row \in Signals(p) PROVE row[2] \in Selected(p.lists[row[1]])
    <2>1. PICK l \in DOMAIN p.lists : \E i \in DOMAIN p.lists[l] : row = <<l, i>>
      BY DEF Signals, Rows
    <2>2. PICK i \in DOMAIN p.lists[l] : row = <<l, i>>
      BY <2>1
    <2>3. p.lists[l][i] = "signal" /\ row[1] = l /\ row[2] = i
      BY <2>2 DEF Signals
    <2>4. p.lists[l] \in Seq({"plain", "signal"})
      BY DEF PayloadsAreLists
    <2>5. i \in 1 .. Len(p.lists[l])
      BY <2>2, <2>4
    <2> QED BY <2>3, <2>5 DEF Selected
  <1>2. \A row \in Signals(p) : row \in Rows(p)
    BY DEF Signals
  <1>3. Dropped = Signals(p) \ Compressed(p, pol)
    BY <1>1, <1>2 DEF Compressed
  <1>4. Dropped = {row \in Signals(p) :
                     LET items == p.lists[row[1]]
                     IN  row[2] \in Selected(items)
                                     \ Keep(items, RowBudget(p, pol.cap))}
    OBVIOUS
  <1>5. SignalsDropped(p, pol) = Cardinality(Dropped)
    BY <1>4 DEF SignalsDropped
  <1> HIDE DEF Dropped
  <1> QED BY <1>3, <1>5

(* A step with run r calls the model or ends, and leaves the other runs alone. *)
LEMMA OthersStay ==
  ASSUME EvidenceInv, NEW r \in Runs, NEW x \in Runs, x # r,
         wiring' = wiring, payload' = payload,
         x \in DOMAIN store' <=> x \in DOMAIN store,
         \/ /\ \E c, d : End(r, c, d)
            /\ UNCHANGED <<view, decision, warned>>
         \/ \E d, S, n : Call(r, d, S, n)
  PROVE  SeesOrStores(x)'
  <1>1. /\ stage'[x] = stage[x] /\ view'[x] = view[x] /\ decision'[x] = decision[x]
        /\ warned'[x] = warned[x]
    BY DEF EvidenceInv, EvidenceTypes, End, Call
  <1> QED BY <1>1 DEF EvidenceInv, SeesOrStores

(* Ending, or calling the model, keeps the domains of what is kept per run. *)
LEMMA DomainsStay ==
  ASSUME EvidenceTypes, NEW r \in Runs,
         \/ /\ \E c, d : End(r, c, d)
            /\ UNCHANGED <<view, decision, warned>>
         \/ \E d, S, n : Call(r, d, S, n)
  PROVE  /\ DOMAIN stage' = Runs /\ DOMAIN view' = Runs /\ DOMAIN decision' = Runs
         /\ DOMAIN warned' = Runs
  BY DEF EvidenceTypes, End, Call

(* A step of run r that leaves the store alone: the model sees everything. *)
LEMMA UnstoredKeeps ==
  ASSUME EvidenceInv, AbsentIsNoEvidence, NEW r \in Runs, Idle(r),
         UNCHANGED <<store, issued>>,
         \/ /\ \E c, d : End(r, c, d)
            /\ UNCHANGED <<view, decision, warned>>
         \/ \E d \in {"passthrough", "simulated"} : \E n : Call(r, d, Rows(payload[r]), n)
  PROVE  EvidenceInv'
  <1>1. EvidenceTypes'
    <2>1. /\ DOMAIN stage' = Runs /\ DOMAIN view' = Runs /\ DOMAIN decision' = Runs
          /\ DOMAIN warned' = Runs
      BY DomainsStay DEF EvidenceInv
    <2> QED BY <2>1 DEF EvidenceInv, EvidenceTypes, Idle
  <1>2. ASSUME NEW x \in Runs PROVE SeesOrStores(x)'
    <2>1. CASE x # r
      BY <2>1, OthersStay DEF Idle
    <2>2. CASE x = r
      <3>1. SeesOrStores(r) /\ decision[r] = Absent
        BY DEF EvidenceInv, SeesOrStores, Idle
      <3>2. CASE UNCHANGED <<view, decision, warned>>
        BY <2>2, <3>1, <3>2 DEF SeesOrStores, Idle, AbsentIsNoEvidence
      <3>3. CASE \E d \in {"passthrough", "simulated"} : \E n :
                   Call(r, d, Rows(payload[r]), n)
        <4>1. /\ stage'[r] = "running" /\ decision'[r] \in {"passthrough", "simulated"}
              /\ view'[r] = Rows(payload[r])
          BY <3>3 DEF Call, EvidenceInv, EvidenceTypes
        <4> QED BY <2>2, <4>1 DEF SeesOrStores, Idle
      <3> QED BY <3>2, <3>3
    <2> QED BY <2>1, <2>2
  <1>3. ~ UsesSharedStore' => DOMAIN store' = {}
    BY DEF EvidenceInv, UsesSharedStore, Idle
  <1>4. \A h \in DOMAIN store' : AsIssued(h)'
    BY DEF EvidenceInv, AsIssued
  <1> QED BY <1>1, <1>2, <1>3, <1>4 DEF EvidenceInv

(* A compression stores or deletes the entry of its run, and no other. *)
LEMMA CompressStores ==
  ASSUME EvidenceInv, AbsentIsNoEvidence, NEW r \in Runs, Compress(r)
  PROVE  /\ \A x \in Runs : x # r => (x \in DOMAIN store' <=> x \in DOMAIN store)
         /\ DOMAIN store' \subseteq Runs
         /\ DOMAIN issued' = Runs
         /\ ~ UsesSharedStore => DOMAIN store' = {}
         /\ \A h \in DOMAIN store' : AsIssued(h)'
  <1> DEFINE pol == policy[r]
  <1>1. pol \in Policies /\ clock \in Nat
    BY DEF EvidenceInv, EvidenceTypes
  <1>2. issued' = [issued EXCEPT ![r] = [policy |-> pol, at |-> clock]]
    BY DEF Compress
  <1>3. /\ DOMAIN issued' = Runs /\ issued'[r] = [policy |-> pol, at |-> clock]
        /\ issued'[r] # Absent
        /\ \A x \in Runs : x # r => issued'[x] = issued[x]
    BY <1>1, <1>2 DEF EvidenceInv, EvidenceTypes, AbsentIsNoEvidence
  <1>4. CASE ~ UsesSharedStore
    <2>1. DOMAIN store = {} /\ store' = store
      BY <1>4 DEF Compress, EvidenceInv
    <2> QED BY <1>3, <2>1
  <1>5. CASE UsesSharedStore /\ store' = Stored(r, pol)
    <2>1. /\ DOMAIN store' = DOMAIN store \cup {r}
          /\ store'[r] = [at |-> clock, ttl |-> pol.ttl, full |-> pol.full,
                          search |-> pol.search]
          /\ \A x \in DOMAIN store : x # r => store'[x] = store[x]
      BY <1>5 DEF Stored, Entry
    <2>2. AsIssued(r)'
      BY <1>3, <2>1 DEF AsIssued
    <2>3. ASSUME NEW h \in DOMAIN store, h # r PROVE AsIssued(h)'
      <3>1. h \in Runs /\ AsIssued(h)
        BY DEF EvidenceInv, EvidenceTypes
      <3> QED BY <1>3, <2>1, <2>3, <3>1 DEF AsIssued
    <2> QED BY <1>3, <1>5, <2>1, <2>2, <2>3 DEF EvidenceInv, EvidenceTypes
  <1>6. CASE UsesSharedStore /\ store' = Deleted(r)
    <2>1. /\ DOMAIN store' = DOMAIN store \ {r}
          /\ \A x \in DOMAIN store' : store'[x] = store[x]
      BY <1>6 DEF Deleted
    <2>2. ASSUME NEW h \in DOMAIN store' PROVE AsIssued(h)'
      <3>1. h \in Runs /\ h # r /\ AsIssued(h)
        BY <2>1 DEF EvidenceInv, EvidenceTypes
      <3> QED BY <1>3, <2>1, <3>1 DEF AsIssued
    <2> QED BY <1>3, <1>6, <2>1, <2>2 DEF EvidenceInv, EvidenceTypes
  <1> QED BY <1>4, <1>5, <1>6 DEF Compress

(* Compressing: what the model does not see is stored and its signals counted. *)
LEMMA CompressKeeps ==
  ASSUME PayloadsAreLists, EvidenceInv, AbsentIsNoEvidence, NEW r \in Runs, Compress(r)
  PROVE  EvidenceInv'
  <1>1. /\ Idle(r) /\ wiring' = wiring /\ payload' = payload /\ payload[r] \in Payloads
        /\ SeesOrStores(r) /\ decision[r] = Absent
    BY DEF Compress, Compresses, Idle, EvidenceInv, EvidenceTypes, SeesOrStores
  <1>2. /\ \A x \in Runs : x # r => (x \in DOMAIN store' <=> x \in DOMAIN store)
        /\ DOMAIN store' \subseteq Runs
        /\ DOMAIN issued' = Runs
        /\ ~ UsesSharedStore => DOMAIN store' = {}
        /\ \A h \in DOMAIN store' : AsIssued(h)'
    BY CompressStores
  <1>3. \/ /\ \E c, d : End(r, c, d)
           /\ UNCHANGED <<view, decision, warned>>
        \/ \E d, S, n : Call(r, d, S, n)
    BY DEF Compress
  <1>4. EvidenceTypes'
    <2>1. /\ DOMAIN stage' = Runs /\ DOMAIN view' = Runs /\ DOMAIN decision' = Runs
          /\ DOMAIN warned' = Runs
      BY <1>3, DomainsStay DEF EvidenceInv
    <2> QED BY <1>1, <1>2, <2>1 DEF EvidenceInv, EvidenceTypes, Idle
  <1>5. SeesOrStores(r)'
    <2>1. CASE /\ Call(r, "compressed", Compressed(payload[r], policy[r]),
                          SignalsDropped(payload[r], policy[r]))
               /\ store' = IF UsesSharedStore THEN Stored(r, policy[r]) ELSE store
      <3>1. /\ stage'[r] = "running" /\ decision'[r] = "compressed"
            /\ view'[r] = Compressed(payload[r], policy[r])
            /\ warned'[r] = SignalsDropped(payload[r], policy[r])
        BY <2>1 DEF Call, EvidenceInv, EvidenceTypes
      <3>2. warned'[r] = Cardinality(Signals(payload[r]) \ view'[r])
        BY <1>1, <3>1, DroppedAreWarned
      <3>3. wiring = "passed" => r \in DOMAIN store'
        BY <2>1 DEF UsesSharedStore, Stored
      <3> QED BY <1>1, <3>1, <3>2, <3>3 DEF SeesOrStores
    <2>2. CASE UNCHANGED <<view, decision, warned>>
      BY <1>1, <2>2 DEF SeesOrStores, AbsentIsNoEvidence
    <2>3. CASE /\ Call(r, "rejected", Rows(payload[r]),
                          SignalsDropped(payload[r], policy[r]))
               /\ store' = IF UsesSharedStore THEN Deleted(r) ELSE store
      <3>1. /\ stage'[r] = "running" /\ decision'[r] = "rejected"
            /\ view'[r] = Rows(payload[r])
        BY <2>3 DEF Call, EvidenceInv, EvidenceTypes
      <3>2. r \notin DOMAIN store'
        BY <1>2, <2>3 DEF Deleted
      <3> QED BY <1>1, <3>1, <3>2 DEF SeesOrStores
    <2> QED BY <2>1, <2>2, <2>3 DEF Compress
  <1>6. ASSUME NEW x \in Runs, x # r PROVE SeesOrStores(x)'
    BY <1>1, <1>2, <1>3, <1>6, OthersStay
  <1>7. ~ UsesSharedStore' => DOMAIN store' = {}
    BY <1>1, <1>2 DEF UsesSharedStore
  <1> QED BY <1>2, <1>4, <1>5, <1>6, <1>7 DEF EvidenceInv

(* Resuming: the run starts over with its whole payload. *)
LEMMA ResumeKeeps ==
  ASSUME EvidenceInv, AbsentIsNoEvidence, NEW r \in Runs, Resume(r)
  PROVE  EvidenceInv'
  <1>1. EvidenceTypes'
    BY DEF EvidenceInv, EvidenceTypes, Resume
  <1>2. ASSUME NEW x \in Runs PROVE SeesOrStores(x)'
    <2>1. CASE x # r
      <3>1. /\ stage'[x] = stage[x] /\ view'[x] = view[x] /\ decision'[x] = decision[x]
            /\ warned'[x] = warned[x]
        BY <2>1 DEF Resume, EvidenceInv, EvidenceTypes
      <3> QED BY <3>1 DEF EvidenceInv, SeesOrStores, Resume
    <2>2. CASE x = r
      <3>1. decision'[r] = Absent /\ view'[r] = Rows(payload[r])
        BY DEF Resume, EvidenceInv, EvidenceTypes
      <3> QED BY <2>2, <3>1 DEF SeesOrStores, Resume, AbsentIsNoEvidence
    <2> QED BY <2>1, <2>2
  <1>3. ~ UsesSharedStore' => DOMAIN store' = {}
    BY DEF EvidenceInv, UsesSharedStore, Resume
  <1>4. \A h \in DOMAIN store' : AsIssued(h)'
    BY DEF EvidenceInv, AsIssued, Resume
  <1> QED BY <1>1, <1>2, <1>3, <1>4 DEF EvidenceInv

(* Finishing, the clock, a retrieval and stuttering change nothing of it. *)
LEMMA QuietKeeps ==
  ASSUME EvidenceInv,
         \/ \E r \in Runs : Finish(r)
         \/ \E r \in Runs, h \in Runs, how \in {"full", "search"} : Retrieve(r, h, how)
         \/ Tick
         \/ UNCHANGED evidenceVars
  PROVE  EvidenceInv'
  <1>1. /\ UNCHANGED <<wiring, payload, store, policy, view, decision, warned, issued>>
        /\ clock' \in Nat
    BY DEF Finish, Retrieve, Tick, evidenceVars, local, EvidenceInv, EvidenceTypes
  <1>2. /\ DOMAIN stage' = Runs
        /\ \A x \in Runs : stage'[x] = "idle" => stage[x] = "idle"
    <2>1. CASE \E r \in Runs : Finish(r)
      <3>1. PICK r \in Runs : stage' = [stage EXCEPT ![r] = "done"]
        BY <2>1 DEF Finish, End
      <3> QED BY <3>1 DEF EvidenceInv, EvidenceTypes
    <2>2. CASE stage' = stage
      BY <2>2 DEF EvidenceInv, EvidenceTypes
    <2> QED BY <2>1, <2>2 DEF Retrieve, Tick, evidenceVars, local
  <1>3. EvidenceTypes'
    BY <1>1, <1>2 DEF EvidenceInv, EvidenceTypes
  <1>4. ASSUME NEW x \in Runs PROVE SeesOrStores(x)'
    BY <1>1, <1>2 DEF EvidenceInv, SeesOrStores
  <1>5. ~ UsesSharedStore' => DOMAIN store' = {}
    BY <1>1 DEF EvidenceInv, UsesSharedStore
  <1>6. \A h \in DOMAIN store' : AsIssued(h)'
    BY <1>1 DEF EvidenceInv, AsIssued
  <1> QED BY <1>3, <1>4, <1>5, <1>6 DEF EvidenceInv

LEMMA EvidenceInvariant ==
  ASSUME PayloadsAreLists, AbsentIsNoEvidence
  PROVE  EvidenceSpec => []EvidenceInv
  <1>1. EvidenceInit => EvidenceInv
    BY DEF EvidenceInit, EvidenceInv, EvidenceTypes, SeesOrStores, AsIssued, AbsentIsNoEvidence
  <1>2. EvidenceInv /\ [EvidenceNext]_evidenceVars => EvidenceInv'
    <2> SUFFICES ASSUME EvidenceInv, [EvidenceNext]_evidenceVars PROVE EvidenceInv'
      OBVIOUS
    <2>1. ASSUME NEW r \in Runs, PassThrough(r) \/ Simulate(r) \/ PutFails(r)
          PROVE  EvidenceInv'
      BY <2>1, UnstoredKeeps
      DEF PassThrough, Simulate, PutFails, Compresses
    <2>2. ASSUME NEW r \in Runs, Compress(r) PROVE EvidenceInv'
      BY <2>2, CompressKeeps
    <2>3. ASSUME NEW r \in Runs, Resume(r) PROVE EvidenceInv'
      BY <2>3, ResumeKeeps
    <2>4. ASSUME \/ \E r \in Runs : Finish(r)
                 \/ \E r \in Runs, h \in Runs, how \in {"full", "search"} :
                      Retrieve(r, h, how)
                 \/ Tick
                 \/ UNCHANGED evidenceVars
          PROVE  EvidenceInv'
      BY <2>4, QuietKeeps
    <2> QED BY <2>1, <2>2, <2>3, <2>4 DEF EvidenceNext
  <1> QED BY <1>1, <1>2, PTL DEF EvidenceSpec

(* What a compression drops of the signals is reported with its decision          *)
(* (evidence/compress.py), whatever other runs, expiries and resumes do.          *)
THEOREM LossIsLegible ==
  ASSUME PayloadsAreLists, AbsentIsNoEvidence
  PROVE  EvidenceSpec => []SignalLossIsLegible
  <1>1. EvidenceInv => SignalLossIsLegible
    BY DEF EvidenceInv, SeesOrStores, SignalLossIsLegible
  <1> QED BY <1>1, EvidenceInvariant, PTL

(* With the store passed to the run, a model that sees less than its input has   *)
(* the original in the store (pipeline/executor.py:92), and a rejected view leaves *)
(* nothing there.                                                                *)
THEOREM NeverBlind ==
  ASSUME PayloadsAreLists, AbsentIsNoEvidence, Wirings = {"passed"}
  PROVE  EvidenceSpec => []ModelNeverBlind
  <1>1. EvidenceInv => ModelNeverBlind
    BY DEF EvidenceInv, EvidenceTypes, SeesOrStores, ModelNeverBlind, Retrievable
  <1> QED BY <1>1, EvidenceInvariant, PTL

(* A retrieval is allowed by the policy that stored the original last, and in time. *)
THEOREM ServedAsAllowed ==
  ASSUME PayloadsAreLists, AbsentIsNoEvidence
  PROVE  EvidenceSpec => ServedWithinPolicy
  <1>1. EvidenceInv /\ [EvidenceNext]_evidenceVars =>
          [served' # served =>
             LET i == issued[served'.of]
             IN  /\ i # Absent
                 /\ served'.mode = "full" => i.policy.full
                 /\ served'.mode = "search" => i.policy.search
                 /\ i.policy.ttl # Absent => clock - i.at <= i.policy.ttl]_evidenceVars
    <2> SUFFICES ASSUME EvidenceInv, EvidenceNext, served' # served
                 PROVE  LET i == issued[served'.of]
                        IN  /\ i # Absent
                            /\ served'.mode = "full" => i.policy.full
                            /\ served'.mode = "search" => i.policy.search
                            /\ i.policy.ttl # Absent => clock - i.at <= i.policy.ttl
      OBVIOUS
    <2>1. PICK r \in Runs, h \in Runs, how \in {"full", "search"} : Retrieve(r, h, how)
      BY DEF EvidenceNext, PassThrough, Simulate, PutFails, Compress, Compresses,
             Idle, Finish, Resume, Tick
    <2>2. /\ AsIssued(h) /\ served' = [of |-> h, mode |-> how, at |-> clock]
          /\ \/ how = "full" /\ store[h].full
             \/ how = "search" /\ store[h].search
          /\ store[h].ttl # Absent => clock - store[h].at <= store[h].ttl
      BY <2>1 DEF Retrieve, Live, EvidenceInv
    <2>3. served'.of = h /\ served'.mode = how
      BY <2>2
    <2> QED BY <2>2, <2>3 DEF AsIssued
  <1> QED BY <1>1, EvidenceInvariant, PTL DEF EvidenceSpec, ServedWithinPolicy
====
