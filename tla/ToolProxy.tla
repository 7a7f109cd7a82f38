------------------------------ MODULE ToolProxy ------------------------------
(***************************************************************************)
(* The tool-call chokepoint of a Drawbore run and the durable effect       *)
(* ledger behind it.  Every attempt (one Pipeline.run call on the same     *)
(* run_id) builds its own ToolProxy: per-step effect cursor, circuit       *)
(* breaker counts, run-level caps, taint scopes and call log are volatile. *)
(* The effect ledger and the step checkpoints are shared by all attempts   *)
(* and survive a crash of the process.                                     *)
(*                                                                         *)
(* The program runs on one event loop: everything ToolProxy.invoke does    *)
(* before `await tool.handler(args)` is one atomic step, and so is         *)
(* everything after it.  Between the two, other tool calls of the same     *)
(* step, later steps and later attempts may run.                           *)
(***************************************************************************)
EXTENDS Integers, Sequences, FiniteSets

CONSTANTS
  Attempts,         \* the Pipeline.run calls made for one run_id
  NumSteps,         \* the pipeline is a line of agent steps 1..NumSteps
  Tools, Args,
  Registered,       \* tools the registry resolves
  Exfil,            \* tools registered with exfil_capable=True
  UntrustedSource,  \* tools whose source_trust is UNTRUSTED
  ReadOnly,         \* tools registered with effectful=False
  Denied,           \* tools whose allowed_operations exclude the call's
  Declared,         \* step |-> the tools its agent declares
  Versions,         \* the topologies the pipeline is deployed with
  HasLedger,        \* is effect_ledger= given to Pipeline.run
  InitialTrust,     \* the run's initial_trust
  MaxCallsPerTool, MaxToolCalls, MaxDistinctTools,
  Uses              \* how agents, callers and the ledger behave: see IsUse

Steps == 1..NumSteps
Labels == {"trusted", "untrusted"}

(* A call an agent makes: the tool, its arguments, and whether the         *)
(* capability token presented is one the issuer accepts for it.            *)
Calls == [tool : Tools, args : Args, token : {"fresh", "spent"}]

(* What the ledger matches a replayed call on: tool_ref and input_hash.    *)
ToolOnly(c) == <<c.tool, CHOOSE x \in Args : TRUE>>
Key(c) == <<c.tool, c.args>>
Keys == Tools \X Args

(* deploys: the topologies an attempt may find deployed; programs: for     *)
(* each, step |-> the call sequences its agent may make; awaits: do agents *)
(* await each call before making the next, or else leave them to tasks;    *)
(* handles: halt codes of the exceptions agents handle themselves;         *)
(* overlaps: may an attempt begin while another is active; fails: may a    *)
(* write to the effect ledger raise.                                       *)
IsUse(u) ==
  /\ u.deploys \subseteq Versions
  /\ u.programs \in [Versions -> [Steps -> SUBSET Seq(Calls)]]
  /\ u.handles \subseteq STRING
  /\ {u.awaits, u.overlaps, u.fails} \subseteq BOOLEAN

ASSUME ConstantsAssumption ==
  /\ NumSteps \in Nat
  /\ Registered \subseteq Tools /\ Exfil \subseteq Tools
  /\ UntrustedSource \subseteq Tools /\ ReadOnly \subseteq Tools
  /\ Denied \subseteq Tools /\ Declared \in [Steps -> SUBSET Tools]
  /\ \A u \in Uses : IsUse(u)
  /\ HasLedger \in BOOLEAN /\ InitialTrust \in Labels
  /\ {MaxCallsPerTool, MaxToolCalls, MaxDistinctTools} \subseteq Nat

VARIABLES
  use,         \* how this run is used, a member of Uses
  ledger,      \* durable: the EffectEntry records
  checkpoint,  \* durable: step |-> trust label of its committed output
  topology,    \* durable: the recorded topology fingerprint
  version,     \* the topology an attempt runs
  phase, step, code, upstream,           \* the attempt's run loop
  prog, next,    \* the calls of the attempt's steps, and the next one of each
  logStart,                              \* the step being executed
  cursor, counts, runTotal, runTools,    \* ToolProxy fields
  scope,                                 \* TaintLedger._scope
  log, audit,                            \* ToolProxy.log, audit records
  flying,      \* handler calls started and not finished
  calls,       \* history: the calls made and what became of each
  results      \* history: results handed back for a ledger position

durable == <<ledger, checkpoint, topology>>
loop == <<phase, step, code, upstream>>
stepVars == <<prog, next, logStart>>
gates == <<cursor, counts, runTotal, runTools, scope>>
vars == <<use, ledger, checkpoint, topology, version, phase, step, code, upstream,
          prog, next, logStart, cursor, counts, runTotal, runTools, scope, log, audit,
          flying, calls, results>>

None == "none"

Entries == [step : Steps, pos : Nat \ {0}, key : Keys,
            status : {"pending", "succeeded"}, out : Attempts \cup {None}]
Flights == [att : Attempts, step : Steps, n : Nat, call : Calls, pos : Nat]

(* Halt codes of the exceptions a step can end with, and what a log entry  *)
(* says of its call (for a denial, the code of the gate).                  *)
Codes == {"tool_access", "taint_violation", "token_violation",
          "circuit_breaker", "effect_divergence", "effect_unresolved",
          "effect_ledger_error", "agent_error", "resume_drift"}
Outcomes == Codes \cup {"ok", "error", "replay"}
LogEntries == [step : Steps, n : Nat, tool : Tools, scope : Labels,
               result : Outcomes]

(* A lookup that sees confirmed effects only.                              *)
EntryAtIfSucceeded(s, p) ==
  {e \in ledger : e.step = s /\ e.pos = p /\ e.status = "succeeded"}
EntryAt(s, p) == {e \in ledger : e.step = s /\ e.pos = p}
RecordedCount(s) == Cardinality({e \in ledger : e.step = s})

(* The 1-based ordinal of the step's next effectful call.                  *)
ThisPosition(a, s) == cursor[a][s]
NextPosition(a, s) == cursor[a][s] + 1

(* TaintLedger.scope of a managed ledger: an unseeded step is untrusted.   *)
ScopeOf(a, s) == IF scope[a][s] = None THEN "untrusted" ELSE scope[a][s]
Join(l, m) == IF "untrusted" \in {l, m} THEN "untrusted" ELSE "trusted"

InFlight(a) == {f \in flying : f.att = a}
HasProgress == \E s \in Steps : checkpoint[s] # None
Active == {a \in Attempts : phase[a] \in {"entering", "running"}}

TypeOK ==
  /\ use \in Uses
  /\ ledger \subseteq Entries
  /\ checkpoint \in [Steps -> Labels \cup {None}]
  /\ topology \in Versions \cup {None}
  /\ version \in [Attempts -> Versions \cup {None}]
  /\ \A a \in Attempts :
       phase[a] \in {"entering", "running"} => version[a] \in Versions
  /\ phase \in [Attempts -> {"idle", "entering", "running", "halted",
                             "completed", "crashed"}]
  /\ step \in [Attempts -> Nat]
  /\ \A a \in Attempts : phase[a] = "running" => step[a] \in Steps
  /\ code \in [Attempts -> Codes \cup {None}]
  /\ upstream \in [Attempts -> Labels]
  /\ prog \in [Attempts -> [Steps -> Seq(Calls)]]
  /\ next \in [Attempts -> [Steps -> Nat \ {0}]]
  /\ logStart \in [Attempts -> Nat]
  /\ cursor \in [Attempts -> [Steps -> Nat]]
  /\ counts \in [Attempts -> [Steps \X Tools -> Nat]]
  /\ runTotal \in [Attempts -> Nat]
  /\ runTools \in [Attempts -> SUBSET Tools]
  /\ scope \in [Attempts -> [Steps -> Labels \cup {None}]]
  /\ log \in [Attempts -> Seq(LogEntries)]
  /\ audit \in [Attempts -> SUBSET [step : Steps, calls : Seq(LogEntries)]]
  /\ flying \subseteq Flights
  /\ calls \subseteq [att : Attempts, step : Steps, n : Nat, call : Calls,
                       pos : Nat, how : {"live", "replay", "refused", "denied"},
                       late : BOOLEAN]
  /\ results \subseteq [step : Steps, pos : Nat, call : Calls,
                        out : Attempts \cup {None}]
-----------------------------------------------------------------------------
NoCalls == [a \in Attempts |-> [s \in Steps |-> <<>>]]

Init ==
  /\ use \in Uses
  /\ ledger = {}
  /\ checkpoint = [s \in Steps |-> None]
  /\ topology = None
  /\ version = [a \in Attempts |-> None]
  /\ phase = [a \in Attempts |-> "idle"]
  /\ step = [a \in Attempts |-> 0]
  /\ code = [a \in Attempts |-> None]
  /\ upstream = [a \in Attempts |-> InitialTrust]
  /\ prog = NoCalls
  /\ next = [a \in Attempts |-> [s \in Steps |-> 1]]
  /\ logStart = [a \in Attempts |-> 0]
  /\ cursor = [a \in Attempts |-> [s \in Steps |-> 0]]
  /\ counts = [a \in Attempts |-> [k \in Steps \X Tools |-> 0]]
  /\ runTotal = [a \in Attempts |-> 0]
  /\ runTools = [a \in Attempts |-> {}]
  /\ scope = [a \in Attempts |-> [s \in Steps |-> None]]
  /\ log = [a \in Attempts |-> <<>>]
  /\ audit = [a \in Attempts |-> {}]
  /\ flying = {} /\ calls = {} /\ results = {}

(* A topology other than the recorded one, under completed steps.          *)
Drifts(v) == HasProgress /\ topology # v

(* Pipeline.run begins with the topology v: a new proxy, a new taint       *)
(* ledger, step 1.  Without progress its fingerprint is recorded anew,     *)
(* whatever the effect ledger already holds.                               *)
Begin(a) ==
  /\ phase[a] = "idle"
  /\ use.overlaps \/ Active = {}
  /\ \E v \in use.deploys :
       /\ ~Drifts(v)
       /\ version' = [version EXCEPT ![a] = v]
       /\ topology' = IF HasProgress THEN topology ELSE v
  /\ phase' = [phase EXCEPT ![a] = "entering"]
  /\ step' = [step EXCEPT ![a] = 1]
  /\ UNCHANGED <<ledger, checkpoint, code, upstream, stepVars, gates, log,
                 audit, flying, calls, results>>

RefuseDrift(a) ==
  /\ phase[a] = "idle"
  /\ use.overlaps \/ Active = {}
  /\ \E v \in use.deploys :
       Drifts(v) /\ version' = [version EXCEPT ![a] = v]
  /\ phase' = [phase EXCEPT ![a] = "halted"]
  /\ code' = [code EXCEPT ![a] = "resume_drift"]
  /\ UNCHANGED <<durable, step, upstream, stepVars, gates, log, audit,
                 flying, calls, results>>

RestoreStepUnlabelled(a) ==
  /\ phase[a] = "entering" /\ step[a] \in Steps
  /\ checkpoint[step[a]] # None
  /\ upstream' = [upstream EXCEPT ![a] = InitialTrust]
  /\ step' = [step EXCEPT ![a] = @ + 1]
  /\ UNCHANGED <<durable, version, phase, code, stepVars, gates, log, audit,
                 flying, calls, results>>

(* The loop reaches a checkpointed step and restores its output and trust. *)
RestoreStep(a) ==
  /\ phase[a] = "entering" /\ step[a] \in Steps
  /\ checkpoint[step[a]] # None
  /\ upstream' = [upstream EXCEPT ![a] = checkpoint[step[a]]]
  /\ step' = [step EXCEPT ![a] = @ + 1]
  /\ UNCHANGED <<durable, version, phase, code, stepVars, gates, log, audit,
                 flying, calls, results>>

(* The loop reaches an incomplete step: seed its taint scope from the      *)
(* predecessor's output and start the agent.                               *)
ExecuteStep(a) ==
  LET s == step[a] IN
  /\ phase[a] = "entering" /\ s \in Steps
  /\ checkpoint[s] = None
  /\ \E p \in use.programs[version[a]][s] : prog' = [prog EXCEPT ![a][s] = p]
  /\ logStart' = [logStart EXCEPT ![a] = Len(log[a])]
  /\ scope' = [scope EXCEPT ![a][s] =
                 IF @ = None THEN upstream[a] ELSE Join(@, upstream[a])]
  /\ phase' = [phase EXCEPT ![a] = "running"]
  /\ UNCHANGED <<durable, version, step, code, upstream, next, cursor, counts,
                 runTotal, runTools, log, audit, flying, calls, results>>

(* No step is left: the run completes.                                     *)
Complete(a) ==
  /\ phase[a] = "entering" /\ step[a] \notin Steps
  /\ phase' = [phase EXCEPT ![a] = "completed"]
  /\ UNCHANGED <<durable, version, step, code, upstream, stepVars, gates, log,
                 audit, flying, calls, results>>
-----------------------------------------------------------------------------
(* The gates of ToolProxy._run_gates in their order: each predicate says   *)
(* the call cleared that gate and all the ones before it.                  *)
Resolves(c) == c.tool \in Registered
ClearsTaint(a, s, c) ==
  Resolves(c) /\ ~(c.tool \in Exfil /\ ScopeOf(a, s) = "untrusted")
ClearsToken(a, s, c) == ClearsTaint(a, s, c) /\ c.token = "fresh"
ClearsOperation(a, s, c) == ClearsToken(a, s, c) /\ c.tool \notin Denied
ClearsBreaker(a, s, c) ==
  ClearsOperation(a, s, c) /\ counts[a][<<s, c.tool>>] + 1 <= MaxCallsPerTool
ClearsGates(a, s, c) ==
  /\ ClearsBreaker(a, s, c)
  /\ runTotal[a] + 1 <= MaxToolCalls
  /\ \/ c.tool \in runTools[a]
     \/ Cardinality(runTools[a]) + 1 <= MaxDistinctTools

(* halt_reason_for(exc) of the first gate that refuses the call.           *)
DenialCode(a, s, c) ==
  CASE ~Resolves(c) -> "tool_access"
    [] Resolves(c) /\ ~ClearsTaint(a, s, c) -> "taint_violation"
    [] ClearsTaint(a, s, c) /\ ~ClearsToken(a, s, c) -> "token_violation"
    [] ClearsToken(a, s, c) /\ ~ClearsOperation(a, s, c) -> "tool_access"
    [] OTHER -> "circuit_breaker"

(* The run total is committed before the caps are tested.                  *)
GateEffectsEagerTotal(a, s, c) ==
  /\ scope' = IF ClearsTaint(a, s, c) /\ c.tool \in UntrustedSource
                THEN [scope EXCEPT ![a][s] = "untrusted"] ELSE scope
  /\ counts' = IF ClearsOperation(a, s, c)
                 THEN [counts EXCEPT ![a][<<s, c.tool>>] = @ + 1] ELSE counts
  /\ runTotal' = IF ClearsBreaker(a, s, c)
                   THEN [runTotal EXCEPT ![a] = @ + 1] ELSE runTotal
  /\ runTools' = IF ClearsGates(a, s, c)
                   THEN [runTools EXCEPT ![a] = @ \cup {c.tool}] ELSE runTools

(* What the gates leave behind: an untrusted source taints the scope even  *)
(* if a later gate denies the call; a breaker trip still counts; the run   *)
(* totals count only calls that clear everything.                          *)
GateEffects(a, s, c) ==
  /\ scope' = IF ClearsTaint(a, s, c) /\ c.tool \in UntrustedSource
                THEN [scope EXCEPT ![a][s] = "untrusted"] ELSE scope
  /\ counts' = IF ClearsOperation(a, s, c)
                 THEN [counts EXCEPT ![a][<<s, c.tool>>] = @ + 1] ELSE counts
  /\ runTotal' = IF ClearsGates(a, s, c)
                   THEN [runTotal EXCEPT ![a] = @ + 1] ELSE runTotal
  /\ runTools' = IF ClearsGates(a, s, c)
                   THEN [runTools EXCEPT ![a] = @ \cup {c.tool}] ELSE runTools

(* What is logged of a call carries the step's taint scope at that moment, *)
(* which for a live call is after its handler returned.                    *)
Logged(a, s, n, t, result) ==
  log' = [log EXCEPT ![a] =
            Append(@, [step |-> s, n |-> n, tool |-> t,
                       scope |-> ScopeOf(a, s)', result |-> result])]

(* The attempt is running step s.                                          *)
InStep(a, s) == phase[a] = "running" /\ step[a] = s

(* A call's exception reaches the agent: unless the agent handles it, the  *)
(* step is going to fail with it.  Nobody may ask for that of a call that  *)
(* was not awaited.                                                        *)
Raises(a, s, why) ==
  \/ code' = IF why \notin use.handles /\ InStep(a, s) /\ code[a] = None
               THEN [code EXCEPT ![a] = why] ELSE code
  \/ ~use.awaits /\ UNCHANGED code

(* A call is late that begins when its step is over.                       *)
Called(a, s, n, c, pos, how) ==
  calls' = calls \cup {[att |-> a, step |-> s, n |-> n, call |-> c,
                          pos |-> pos, how |-> how, late |-> ~InStep(a, s)]}

(* The next call of step s of attempt a, c, begins.  An agent that awaits  *)
(* its calls makes it while the step runs, all the earlier ones answered;  *)
(* a call left to a task begins whenever the event loop comes to it, after *)
(* the step or the attempt has ended, too.                                 *)
Wants(a, s, n, c) ==
  /\ n = next[a][s] /\ n <= Len(prog[a][s]) /\ c = prog[a][s][n]
  /\ use.awaits => InStep(a, s) /\ InFlight(a) = {} /\ code[a] = None

(* ToolContext has a shim for every tool the agent declares.               *)
ShimForAny(s, t) == t \in Tools
HasShim(s, t) == t \in Declared[s]

(* A call reaches the proxy.                                               *)
Calling(a, s, n, c) ==
  /\ Wants(a, s, n, c)
  /\ HasShim(s, c.tool)
  /\ next' = [next EXCEPT ![a][s] = @ + 1]
  /\ GateEffects(a, s, c)
  /\ UNCHANGED <<checkpoint, topology, version, phase, step, upstream, prog,
                 logStart, audit>>

(* A call of an undeclared tool raises before there is a token or a log    *)
(* entry for it.                                                           *)
RefuseUndeclared(a) == \E s \in Steps : \E n \in 1..Len(prog[a][s]) :
  LET c == prog[a][s][n] IN
  /\ Wants(a, s, n, c)
  /\ ~HasShim(s, c.tool)
  /\ next' = [next EXCEPT ![a][s] = @ + 1]
  /\ Raises(a, s, "tool_access")
  /\ UNCHANGED <<durable, version, phase, step, upstream, prog, logStart,
                 gates, log, audit, flying, calls, results>>

Ledgered(c) == HasLedger /\ c.tool \notin ReadOnly

(* A gate refuses the call.                                                *)
DenyCall(a) == \E s \in Steps : \E n \in 1..Len(prog[a][s]) :
  LET c == prog[a][s][n] IN
  /\ Calling(a, s, n, c)
  /\ ~ClearsGates(a, s, c)
  /\ Logged(a, s, n, c.tool, DenialCode(a, s, c))
  /\ Raises(a, s, DenialCode(a, s, c))
  /\ Called(a, s, n, c, 0, "denied")
  /\ UNCHANGED <<ledger, cursor, flying, results>>

(* No ledger, or a read-only tool: the handler is called, nothing is       *)
(* recorded.                                                               *)
CallUnledgered(a) == \E s \in Steps : \E n \in 1..Len(prog[a][s]) :
  LET c == prog[a][s][n] IN
  /\ Calling(a, s, n, c)
  /\ ClearsGates(a, s, c) /\ ~Ledgered(c)
  /\ flying' = flying \cup {[att |-> a, step |-> s, n |-> n, call |-> c,
                             pos |-> 0]}
  /\ Called(a, s, n, c, 0, "live")
  /\ UNCHANGED <<ledger, cursor, log, code, results>>

(* An effectful call takes the next position of its step; the position is  *)
(* used up whatever becomes of the call.                                   *)
TakesPosition(a, s, n, c, pos) ==
  /\ Calling(a, s, n, c)
  /\ ClearsGates(a, s, c) /\ Ledgered(c)
  /\ pos = NextPosition(a, s)
  /\ cursor' = [cursor EXCEPT ![a][s] = pos]

(* Nothing recorded at the position: record_pending, then fire.            *)
FireEffect(a) == \E s \in Steps : \E n \in 1..Len(prog[a][s]) :
  LET c == prog[a][s][n]
      pos == NextPosition(a, s) IN
  /\ TakesPosition(a, s, n, c, pos)
  /\ EntryAt(s, pos) = {}
  /\ ledger' = ledger \cup {[step |-> s, pos |-> pos, key |-> Key(c),
                             status |-> "pending", out |-> None]}
  /\ flying' = flying \cup {[att |-> a, step |-> s, n |-> n, call |-> c,
                             pos |-> pos]}
  /\ Called(a, s, n, c, pos, "live")
  /\ UNCHANGED <<log, code, results>>

(* The pending write raises: the handler is not called.                    *)
PendingWriteFails(a) == \E s \in Steps : \E n \in 1..Len(prog[a][s]) :
  LET c == prog[a][s][n]
      pos == NextPosition(a, s) IN
  /\ use.fails
  /\ TakesPosition(a, s, n, c, pos)
  /\ EntryAt(s, pos) = {}
  /\ Logged(a, s, n, c.tool, "error")
  /\ Raises(a, s, "effect_ledger_error")
  /\ Called(a, s, n, c, pos, "refused")
  /\ UNCHANGED <<ledger, flying, results>>

(* Replay without looking at the status of the entry.                      *)
ReplayAnyEffect(a) == \E s \in Steps : \E n \in 1..Len(prog[a][s]) :
  LET c == prog[a][s][n]
      pos == NextPosition(a, s) IN
  /\ TakesPosition(a, s, n, c, pos)
  /\ \E e \in EntryAt(s, pos) :
       /\ e.key = Key(c)
       /\ results' = results \cup {[step |-> s, pos |-> pos, call |-> c,
                                    out |-> e.out]}
  /\ Logged(a, s, n, c.tool, "replay")
  /\ Called(a, s, n, c, pos, "replay")
  /\ UNCHANGED <<ledger, flying, code>>

(* A succeeded entry for the same tool and arguments: hand its output back.*)
ReplayEffect(a) == \E s \in Steps : \E n \in 1..Len(prog[a][s]) :
  LET c == prog[a][s][n]
      pos == NextPosition(a, s) IN
  /\ TakesPosition(a, s, n, c, pos)
  /\ \E e \in EntryAt(s, pos) :
       /\ e.status = "succeeded" /\ e.key = Key(c)
       /\ results' = results \cup {[step |-> s, pos |-> pos, call |-> c,
                                    out |-> e.out]}
  /\ Logged(a, s, n, c.tool, "replay")
  /\ Called(a, s, n, c, pos, "replay")
  /\ UNCHANGED <<ledger, flying, code>>

(* An entry for another call (effect_divergence), or one still pending     *)
(* (effect_unresolved): raise, do not fire.                                *)
RefuseEffect(a) == \E s \in Steps : \E n \in 1..Len(prog[a][s]) :
  LET c == prog[a][s][n]
      pos == NextPosition(a, s) IN
  /\ TakesPosition(a, s, n, c, pos)
  /\ \E e \in EntryAt(s, pos) :
       /\ ~(e.status = "succeeded" /\ e.key = Key(c))
       /\ Raises(a, s, IF e.status = "succeeded" THEN "effect_divergence"
                       ELSE "effect_unresolved")
  /\ Logged(a, s, n, c.tool, "error")
  /\ Called(a, s, n, c, pos, "refused")
  /\ UNCHANGED <<ledger, flying, results>>
-----------------------------------------------------------------------------
(* A handler that was not ledgered returns or raises.                      *)
FinishUnledgered(f) ==
  /\ f.pos = 0
  /\ \/ Logged(f.att, f.step, f.n, f.call.tool, "ok") /\ UNCHANGED code
     \/ /\ Logged(f.att, f.step, f.n, f.call.tool, "error")
        /\ Raises(f.att, f.step, "agent_error")
  /\ UNCHANGED <<ledger, results>>

(* A ledgered handler returns and its output is recorded and handed back.  *)
FinishEffect(f) ==
  /\ f.pos # 0
  /\ ledger' = {IF e.step = f.step /\ e.pos = f.pos
                  THEN [e EXCEPT !.status = "succeeded", !.out = f.att]
                  ELSE e : e \in ledger}
  /\ results' = results \cup {[step |-> f.step, pos |-> f.pos,
                               call |-> f.call, out |-> f.att]}
  /\ Logged(f.att, f.step, f.n, f.call.tool, "ok")
  /\ UNCHANGED code

(* The handler raises, or returns and record_succeeded raises: the entry   *)
(* stays pending and the agent sees an exception.                          *)
FailEffect(f) ==
  /\ f.pos # 0
  /\ Logged(f.att, f.step, f.n, f.call.tool, "error")
  /\ \/ Raises(f.att, f.step, "agent_error")
     \/ use.fails /\ Raises(f.att, f.step, "effect_ledger_error")
  /\ UNCHANGED <<ledger, results>>

Finish(f) ==
  /\ flying' = flying \ {f}
  /\ UNCHANGED <<checkpoint, topology, version, phase, step, upstream,
                 stepVars, gates, audit, calls>>
  /\ FinishUnledgered(f) \/ FinishEffect(f) \/ FailEffect(f)
-----------------------------------------------------------------------------
(* StepExecutor._tool_calls_since: what was logged since the step began.   *)
WholeLog(a) == log[a]
StepCalls(a) == SubSeq(log[a], logStart[a] + 1, Len(log[a]))
RecordStep(a) ==
  audit' = [audit EXCEPT ![a] =
              @ \cup {[step |-> step[a], calls |-> StepCalls(a)]}]

(* The agent returns a schema-valid output and has used every recorded     *)
(* effect of the step: record the step and commit it.  One that leaves its *)
(* calls to tasks may return before any of them.                           *)
LiveOnly(a) ==
  Cardinality({p \in calls : /\ p.att = a /\ p.step = step[a]
                              /\ p.pos # 0 /\ p.how = "live"})
Consumed(a) == IF HasLedger THEN cursor[a][step[a]] ELSE 0
OrphansOffByOne(a) == HasLedger /\ RecordedCount(step[a]) > Consumed(a) + 1
Orphans(a) == HasLedger /\ RecordedCount(step[a]) > Consumed(a)

Returning(a) ==
  /\ phase[a] = "running" /\ code[a] = None
  /\ use.awaits => InFlight(a) = {} /\ next[a][step[a]] > Len(prog[a][step[a]])
  /\ UNCHANGED <<ledger, topology, version, stepVars, gates, log, flying,
                 calls, results>>

CommitStep(a) ==
  LET s == step[a] IN
  /\ Returning(a)
  /\ ~Orphans(a)
  /\ RecordStep(a)
  /\ checkpoint' = [checkpoint EXCEPT ![s] = ScopeOf(a, s)]
  /\ upstream' = [upstream EXCEPT ![a] = ScopeOf(a, s)]
  /\ step' = [step EXCEPT ![a] = s + 1]
  /\ phase' = [phase EXCEPT ![a] = "entering"]
  /\ UNCHANGED code

(* The orphan check: a recorded effect was not used by this attempt.       *)
HaltOnOrphan(a) ==
  /\ Returning(a)
  /\ Orphans(a)
  /\ phase' = [phase EXCEPT ![a] = "halted"]
  /\ code' = [code EXCEPT ![a] = "effect_divergence"]
  /\ UNCHANGED <<checkpoint, step, upstream, audit>>

(* The agent raises: the exception of a call, or one of its own.  A step   *)
(* that called tools leaves a failed-step record.                          *)
FailStep(a) ==
  /\ phase[a] = "running"
  /\ use.awaits => InFlight(a) = {}
  /\ phase' = [phase EXCEPT ![a] = "halted"]
  /\ code' = [code EXCEPT ![a] = IF @ = None THEN "agent_error" ELSE @]
  /\ IF StepCalls(a) = <<>> THEN UNCHANGED audit ELSE RecordStep(a)
  /\ UNCHANGED <<durable, version, step, upstream, stepVars, gates, log,
                 flying, calls, results>>

(* The process dies, and every task with it, possibly between a pending    *)
(* write and its handler: the entry of attempt a's next call is then       *)
(* recorded but never fired.                                               *)
Crashing ==
  /\ Active # {}
  /\ phase' = [a \in Attempts |-> IF a \in Active THEN "crashed" ELSE phase[a]]
  /\ flying' = {} /\ prog' = NoCalls
  /\ UNCHANGED <<checkpoint, topology, version, step, code, upstream,
                 next, logStart, gates, log, audit, calls, results>>

Crash == Crashing /\ UNCHANGED ledger

CrashBeforeFire(a) == \E s \in Steps : \E n \in 1..Len(prog[a][s]) :
  LET c == prog[a][s][n]
      pos == NextPosition(a, s) IN
  /\ Wants(a, s, n, c) /\ HasShim(s, c.tool)
  /\ ClearsGates(a, s, c) /\ Ledgered(c) /\ EntryAt(s, pos) = {}
  /\ ledger' = ledger \cup {[step |-> s, pos |-> pos, key |-> Key(c),
                             status |-> "pending", out |-> None]}
  /\ Crashing

Invoke(a) ==
  \/ DenyCall(a) \/ CallUnledgered(a) \/ FireEffect(a)
  \/ PendingWriteFails(a) \/ ReplayEffect(a) \/ RefuseEffect(a)
  \/ RefuseUndeclared(a)

RunLoop(a) ==
  \/ Begin(a) \/ RefuseDrift(a) \/ RestoreStep(a) \/ ExecuteStep(a)
  \/ Complete(a)
  \/ CommitStep(a) \/ HaltOnOrphan(a) \/ FailStep(a)

Step ==
  \/ \E a \in Attempts : RunLoop(a) \/ Invoke(a) \/ CrashBeforeFire(a)
  \/ \E f \in flying : Finish(f)
  \/ Crash

Next == Step /\ UNCHANGED use

Spec == Init /\ [][Next]_vars
-----------------------------------------------------------------------------
(* An effect position is fired at most once, whatever the attempts do:     *)
(* crash, overlap, run agents whose calls differ from one run to the next  *)
(* or come late, find another topology deployed or the ledger's writes     *)
(* failing.  The entry is recorded pending before the handler is called so *)
(* that no attempt can miss it.                                            *)
AtMostOnceEffect ==
  \A p, q \in calls :
    (/\ p.how = "live" /\ q.how = "live" /\ p.pos # 0
     /\ p.step = q.step /\ p.pos = q.pos) => p = q

(* What an agent is handed for an effect position never changes: every     *)
(* attempt that gets a result there gets the one recorded when it fired,   *)
(* for the call that fired.                                                *)
ReplayAgreement ==
  \A r, q \in results :
    (r.step = q.step /\ r.pos = q.pos)
    => /\ r.call.tool = q.call.tool /\ r.call.args = q.call.args
       /\ r.out = q.out

InvokedBefore(q, p) ==
  /\ p.att = q.att
  /\ \/ q.step < p.step /\ ~q.late
     \/ q.step = p.step /\ q.n < p.n

(* No exfil-capable tool is reached once the attempt has invoked an        *)
(* untrusted source, in the same step or an earlier one, even if a later   *)
(* gate refused that source, its handler has not returned yet, or the call *)
(* to the exfil-capable tool begins when its step is over; nor when an     *)
(* earlier step has an untrusted checkpoint, whichever attempt wrote it.   *)
(* A source that an earlier step did not await and that was invoked late   *)
(* is not seen: that step's label was handed on before.  With overlapping  *)
(* attempts it need not hold: one that restores a step another attempt has *)
(* just committed continues from that attempt's output.                    *)
NoExfil == ~use.overlaps =>
  \A p \in calls : (p.call.tool \in Exfil /\ p.how # "denied") =>
    /\ InitialTrust = "trusted"
    /\ \A s \in Steps : s < p.step => checkpoint[s] = "trusted"
    /\ ~\E q \in calls : /\ q.call.tool \in UntrustedSource \cap Registered
                         /\ InvokedBefore(q, p)

(* The breaker and the run caps bound what reaches the handlers: replays   *)
(* and refusals count, denied calls do not push a later call over a cap.   *)
CapsBind ==
  \A a \in Attempts :
    LET mine == {p \in calls : p.att = a /\ p.how # "denied"} IN
    /\ runTotal[a] = Cardinality(mine) /\ runTotal[a] <= MaxToolCalls
    /\ runTools[a] = {p.call.tool : p \in mine}
    /\ Cardinality(runTools[a]) <= MaxDistinctTools
    /\ \A s \in Steps, t \in Tools :
         Cardinality({p \in mine : p.step = s /\ p.call.tool = t})
           <= MaxCallsPerTool

MatchesLedger(a, s) ==
  {<<e.pos, e.key>> : e \in {x \in ledger : x.step = s}} =
  {<<p.pos, Key(p.call)>> :
     p \in {q \in calls : q.att = a /\ q.step = s /\ q.pos # 0}}
LedgerCodes == {"effect_divergence", "effect_unresolved", "effect_ledger_error"}

(* The agent of a step left a call to a task, the effect ledger refused it *)
(* and nobody asked for its exception.                                     *)
LosesRefusal(a, s) ==
  ~use.awaits /\ \E p \in calls : p.att = a /\ p.step = s /\ p.how = "refused"

(* A step is committed only by an attempt whose effectful calls so far are *)
(* exactly the recorded ones, in order: an effect that was fired is never  *)
(* left out of the output that was checkpointed, nor refused and ignored,  *)
(* unless its agent handles the exceptions of the effect ledger or loses   *)
(* them.                                                                   *)
CommitsMatchLedger ==
  [][\A s \in Steps :
       use.handles \cap LedgerCodes = {} /\ checkpoint'[s] # checkpoint[s] =>
         \E a \in Attempts : /\ phase[a] = "running" /\ step[a] = s
                             /\ step'[a] = s + 1
                             /\ MatchesLedger(a, s) \/ LosesRefusal(a, s)]_vars

(* Agents that let an exception of a handler or of the effect ledger end   *)
(* their step.                                                             *)
Obedient == use.handles \cap (LedgerCodes \cup {"agent_error"}) = {}

(* A checkpointed step has no effect of unknown outcome, if its agent      *)
(* awaits every call and lets failures end the step, and attempts do not   *)
(* overlap.                                                                *)
CommittedIsResolved == use.awaits /\ ~use.overlaps /\ Obedient =>
  \A e \in ledger : checkpoint[e.step] # None => e.status = "succeeded"

Deterministic == /\ \A v \in use.deploys, s \in Steps :
                      \A p, q \in use.programs[v][s] : p = q
                 /\ \A v, w \in use.deploys : v = w
                 /\ use.awaits /\ ~use.overlaps /\ use.handles = {}

(* A deterministic step replays cleanly, whatever crashed or failed before:*)
(* its calls in a later attempt are the recorded ones.  An agent that goes *)
(* on after a denied call is not deterministic in this sense: what a run   *)
(* cap denied in one attempt may be admitted in the next.                  *)
ReplaysCleanly ==
  Deterministic => \A a \in Attempts : code[a] # "effect_divergence"

(* A step record of the audit trail holds the calls of that step only, if  *)
(* the agent awaits its calls.                                             *)
AuditIsOwn == use.awaits =>
  \A a \in Attempts : \A r \in audit[a] :
    \A i \in 1..Len(r.calls) : r.calls[i].step = r.step
=============================================================================
