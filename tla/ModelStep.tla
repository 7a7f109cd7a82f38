------------------------------ MODULE ModelStep ------------------------------
(* One step of a model-backed agent: the declared models are resolved to a   *)
(* chain of provider attempts (llm/resolution.py), and the chain is walked   *)
(* either by the one-shot runtime (llm/runtime.py over a gateway) or by the  *)
(* agentic tool loop (orchestration/adk_loop.py over the ADK runner).  Every *)
(* answer passes the structured-output boundary (llm/structured_output.py).  *)
(*                                                                           *)
(* The model, the provider and the ADK runner are external: a model call     *)
(* answers with one tool call, several, an answer, or a provider exception.  *)
(* What the runner does is taken from how adk_loop.py and adk_tools.py use   *)
(* it: it calls before_model, refuses a call over max_llm_calls (0 or less   *)
(* means no bound), yields the model's event before it runs the tool, and    *)
(* lets the exception of a tool out of run_async.                            *)
EXTENDS Integers, FiniteSets, Sequences, SequencesExt

CONSTANTS
  None,
  Profiles,      \* profile name |-> [targets, on]: ordered targets and fallback_on
  Configured,    \* the profiles the deployment configures
  Needing,       \* targets whose credential is required
  Reasons,       \* the transport reasons a profile may fall back on
  Specs,         \* declared model references: <<model>> or <<model, fallback_model>>
  Modes,         \* {"one_shot", "loop"}: without and with declared tools
  Gateways,      \* {"production", "litellm"}: the gateway of a one-shot call
  MaxCalls       \* ADKEngine's max_llm_calls

ASSUME MaxCallsAssumption == MaxCalls \in Nat \ {0}
ASSUME NoneAssumption == None \notin {"absent", "invalid"}

VARIABLES
  mode, gateway, spec,
  held,        \* the targets whose credential is present
  chain,       \* resolved attempts: [target, on]
  attempt,     \* index of the attempt that runs, 0 before the first
  phase,       \* what happens next: "resolve", "begin", "call", "tool", "answer",
               \* "raised" or "done"
  turns,       \* len(tool_loop.turns): model turns of this attempt
  calls,       \* model calls of this pass, as the runner counts them
  limit,       \* max_llm_calls of this pass
  failed,      \* tool_loop.failures is not empty
  invoked,     \* tool_loop.tool_invoked is not empty
  reprompts,   \* corrective re-asks of this attempt
  text,        \* the answer to judge
  error,       \* the exception on its way up
  outcome,     \* None, "ok" or the halt code
  audit,       \* what the step's audit record says: [turns, reprompts]
  ran,         \* attempts in which a tool was run (history)
  made         \* model calls made in this attempt, over all its passes (history)

input == <<mode, gateway, spec, held>>
loop == <<turns, calls, limit, failed, invoked, reprompts, made>>
vars == <<input, chain, attempt, phase, loop, text, error, outcome, audit, ran>>

Loop == mode = "loop"

-----------------------------------------------------------------------------
(* Resolution.                                                               *)
IsProfile(ref) == ref \in DOMAIN Profiles

\* _attempts_for_ref: a reference that is no profile is a direct model string,
\* which cannot be preflighted and falls back on every reason.
AttemptsFor(ref) ==
  IF IsProfile(ref)
  THEN [i \in DOMAIN Profiles[ref].targets |->
          [target |-> Profiles[ref].targets[i], on |-> Profiles[ref].on]]
  ELSE <<[target |-> ref, on |-> Reasons]>>

Unresolvable(ref) ==
  IsProfile(ref) /\
    (ref \notin Configured \/ \E t \in ToSet(Profiles[ref].targets) : t \in Needing \ held)

\* resolve_chain keeps the first attempt for a target.
AddAttempt(attempts, a) ==
  IF \E b \in ToSet(attempts) : b.target = a.target THEN attempts ELSE Append(attempts, a)

Resolved(refs) ==
  FoldLeft(AddAttempt, <<>>, FlattenSeq([i \in DOMAIN refs |-> AttemptsFor(refs[i])]))

-----------------------------------------------------------------------------
(* Exceptions.  "llm" is an LLMError with halt code model_error,             *)
(* "unavailable" and "config" its subclasses, "internal" another DrawboreError; *)
(* the rest is what classify_provider_exception makes of an exception.       *)
Raised(kind, reason) == [kind |-> kind, reason |-> reason]
ProviderErrors ==
  {Raised("transport", r) : r \in Reasons}
    \cup {Raised(kind, None) : kind \in {"auth", "contract", "unknown", "internal"}}

IsLLMError(e) == e.kind \in {"llm", "unavailable", "config"}

HaltCode(e) ==
  CASE e.kind = "llm" -> "model_error"
    [] e.kind = "unavailable" -> "model_unavailable"
    [] e.kind = "config" -> "model_config_error"
    [] OTHER -> e.kind

Retryable(e) == e.kind = "transport" /\ e.reason \in chain[attempt].on

-----------------------------------------------------------------------------
Init ==
  /\ mode \in Modes /\ gateway \in Gateways
  /\ spec \in Specs
  /\ held \in SUBSET Needing
  /\ chain = <<>> /\ attempt = 0 /\ phase = "resolve"
  /\ turns = 0 /\ calls = 0 /\ limit = 0
  /\ failed = FALSE /\ invoked = FALSE /\ reprompts = 0
  /\ text = None /\ error = None /\ outcome = None /\ audit = None
  /\ ran = {} /\ made = 0

\* The executor turns an exception of the engine into a halt.  Its audit record
\* has the turns of the loop, if there is one, and no reprompts.
Halt(code) ==
  /\ outcome' = code /\ phase' = "done"
  /\ audit' = [turns |-> IF Loop THEN turns ELSE 0, reprompts |-> 0]

\* LLMRuntime.resolve, before any model call.
Resolve ==
  /\ phase = "resolve"
  /\ IF \E ref \in ToSet(spec) : Unresolvable(ref)
     THEN Halt("model_config_error") /\ UNCHANGED chain
     ELSE /\ chain' = Resolved(spec)
          /\ phase' = "begin" /\ UNCHANGED <<outcome, audit>>
  /\ UNCHANGED <<input, attempt, loop, text, error, ran>>

\* Mutant: the same provider is tried again.
BeginSameAttempt ==
  /\ phase = "begin"
  /\ attempt' = 1
  /\ phase' = "call"
  /\ turns' = 0 /\ calls' = 0 /\ limit' = MaxCalls
  /\ failed' = FALSE /\ invoked' = FALSE /\ reprompts' = 0 /\ made' = 0
  /\ text' = None /\ error' = None
  /\ UNCHANGED <<input, chain, outcome, audit, ran>>

\* The head of the chain's for loop, and of _run_one_attempt, which clears the
\* accumulators of the bundle.
BeginAttempt ==
  /\ phase = "begin"
  /\ attempt' = attempt + 1
  /\ phase' = "call"
  /\ turns' = 0 /\ calls' = 0 /\ limit' = MaxCalls
  /\ failed' = FALSE /\ invoked' = FALSE /\ reprompts' = 0 /\ made' = 0
  /\ text' = None /\ error' = None
  /\ UNCHANGED <<input, chain, outcome, audit, ran>>

-----------------------------------------------------------------------------
(* Model calls.                                                              *)

\* One turn of the loop is counted before the runner refuses or makes the call.
LoopTurn ==
  /\ phase = "call" /\ Loop /\ ~ failed
  /\ turns' = turns + 1

Exhausted == limit > 0 /\ calls + 1 > limit

\* The runner refuses the call: an exception that no provider raised.
LoopExhausted ==
  /\ LoopTurn /\ Exhausted
  /\ error' = Raised("unknown", None) /\ phase' = "raised"
  /\ UNCHANGED <<input, chain, attempt, calls, limit, failed, invoked, reprompts, made,
                 text, outcome, audit, ran>>

\* The model's reply: one call of a declared tool, a call of another tool (which
\* the runner cannot find), several calls (refused on the event), or an answer.
LoopReply ==
  /\ LoopTurn /\ ~ Exhausted
  /\ calls' = calls + 1 /\ made' = made + 1
  /\ \/ phase' = "tool" /\ UNCHANGED <<text, error>>
     \/ /\ error' \in ProviderErrors \cup {Raised("llm", None)}
        /\ phase' = "raised" /\ UNCHANGED text
     \/ /\ text' \in {"valid", "invalid", "structural", "absent"}
        /\ phase' = "answer" /\ UNCHANGED error
  /\ UNCHANGED <<input, chain, attempt, limit, failed, invoked, reprompts, outcome, audit, ran>>

\* before_tool marks the tool as invoked, and the proxy runs or refuses it.  Its
\* exception may be of any kind: a tool may itself call a provider.
RunTool ==
  /\ phase = "tool"
  /\ invoked' = TRUE
  /\ \/ /\ ran' = ran \cup {attempt}
        /\ phase' = "call" /\ UNCHANGED <<failed, error>>
     \/ /\ failed' = TRUE
        /\ error' \in ProviderErrors
        /\ ran' \in {ran, ran \cup {attempt}}
        /\ phase' = "raised"
  /\ UNCHANGED <<input, chain, attempt, turns, calls, limit, reprompts, made, text,
                 outcome, audit>>

\* litellm.acompletion and _content_or_halt.  The direct-chain gateway, given the
\* one model of the attempt, makes ModelUnavailableError of every exception that
\* is not an LLMError (the reason stays as the cause of the new exception).
OneShotCall ==
  /\ phase = "call" /\ ~ Loop
  /\ calls' = calls + 1 /\ made' = made + 1
  /\ \/ /\ \E e \in ProviderErrors \cup {Raised("llm", None)} :
             error' = IF gateway = "litellm" /\ ~ IsLLMError(e)
                      THEN Raised("unavailable", e.reason) ELSE e
        /\ phase' = "raised" /\ UNCHANGED text
     \/ /\ text' \in {"valid", "invalid", "structural", "absent"}
        /\ phase' = "answer" /\ UNCHANGED error
  /\ UNCHANGED <<input, chain, attempt, turns, limit, failed, invoked, reprompts,
                 outcome, audit, ran>>

-----------------------------------------------------------------------------
(* The structured-output boundary: coerce_structured_output.                 *)

\* LoopBudget and OneShotBudget.
\* Mutant: a re-ask with no call left (the runner takes 0 for no bound).
CanReaskOneMore == IF Loop THEN MaxCalls - turns >= 0 ELSE TRUE

CanReask == IF Loop THEN MaxCalls - turns >= 1 ELSE TRUE

CanReprompt == reprompts < 1 /\ CanReask

\* Mutant: a schema-invalid object is never sent back.
StuckOnProse == text = "absent"

\* Only the loop passes validate_object.
Stuck == text = "absent" \/ (Loop /\ text = "invalid")

Reask ==
  /\ phase = "answer" /\ Stuck /\ CanReprompt
  /\ reprompts' = reprompts + 1
  /\ calls' = 0 /\ limit' = MaxCalls - turns
  /\ phase' = "call"
  /\ UNCHANGED <<input, chain, attempt, turns, failed, invoked, made, text, error,
                 outcome, audit, ran>>

Refuse ==
  /\ phase = "answer"
  /\ text = "structural" \/ (text = "absent" /\ ~ CanReprompt)
  /\ error' = Raised("llm", None) /\ phase' = "raised"
  /\ UNCHANGED <<input, chain, attempt, loop, text, outcome, audit, ran>>

\* The step's output is judged by the executor: a schema-invalid object halts there.
Accept ==
  /\ phase = "answer"
  /\ text = "valid" \/ (text = "invalid" /\ ~ (Stuck /\ CanReprompt))
  /\ outcome' = IF text = "valid" THEN "ok" ELSE "schema_violation"
  /\ phase' = "done"
  /\ audit' = [turns |-> IF Loop THEN turns ELSE 1, reprompts |-> reprompts]
  /\ UNCHANGED <<input, chain, attempt, loop, text, error, ran>>

-----------------------------------------------------------------------------
(* The chain drivers.                                                        *)
\* Mutant: the last attempt is never reached.
HasNextButOne == attempt + 1 < Len(chain)

HasNext == attempt < Len(chain)

\* Mutant: a provider failure falls back after a tool ran as well.
LoopFallsBackAfterTools == ~ failed /\ Retryable(error) /\ HasNext

\* Mutant: the exception is classified before the tool failure is looked at.
LoopHaltCodeByClass ==
  CASE IsLLMError(error) -> HaltCode(error)
    [] error.kind \in {"unknown", "internal"} -> "model_error"
    [] OTHER -> "model_unavailable"

\* run_agentic_loop_chain: the order of its tests decides the halt code.
LoopFallsBack ==
  /\ ~ failed /\ ~ invoked
  /\ Retryable(error) /\ HasNext

LoopHaltCode ==
  CASE failed -> "tool"
    [] ~ failed /\ IsLLMError(error) -> HaltCode(error)
    [] ~ failed /\ error.kind \in {"unknown", "internal"} -> "model_error"
    [] OTHER -> "model_unavailable"

HandleLoop ==
  /\ phase = "raised" /\ Loop
  /\ IF LoopFallsBack THEN phase' = "begin" /\ UNCHANGED <<outcome, audit>>
                      ELSE Halt(LoopHaltCode)
  /\ UNCHANGED <<input, chain, attempt, loop, text, error, ran>>

\* LLMRuntime.complete.  A retryable failure of the last attempt leaves the loop,
\* and the chain is exhausted.
OneShotHaltCode ==
  CASE IsLLMError(error) -> HaltCode(error)
    [] error.kind = "internal" -> "internal"
    [] error.kind = "auth" -> "model_config_error"
    [] error.kind = "contract" -> "model_error"
    [] OTHER -> "model_unavailable"

HandleOneShot ==
  /\ phase = "raised" /\ ~ Loop
  /\ IF Retryable(error) /\ HasNext THEN phase' = "begin" /\ UNCHANGED <<outcome, audit>>
                                    ELSE Halt(OneShotHaltCode)
  /\ UNCHANGED <<input, chain, attempt, loop, text, error, ran>>

Next ==
  \/ Resolve \/ BeginAttempt
  \/ LoopExhausted \/ LoopReply \/ RunTool \/ OneShotCall
  \/ Reask \/ Refuse \/ Accept
  \/ HandleLoop \/ HandleOneShot

Spec == Init /\ [][Next]_vars

\* The code runs to its end as long as the provider and the tools answer, and the
\* provider calls are bounded by the timeouts of the deployment.
FairSpec == Spec /\ WF_vars(Next)
-----------------------------------------------------------------------------
(* Properties.                                                               *)
\* No replay of tool side effects across providers: whatever provider failures and
\* fallbacks happen, all tools of a step run under the same attempt.
ToolsStayWithOneAttempt == ran \subseteq {attempt}

\* A tripped control ends the step and names itself: after a tool failed there is
\* no model call, no tool and no other provider, and the halt carries its code.
ToolFailureIsFinal ==
  failed => phase \in {"raised", "done"} /\ (phase = "done" => outcome = "tool")

\* max_llm_calls bounds an attempt over both of its passes, the corrective one included.
CallsBounded == Loop => made <= MaxCalls

\* "A stuck turn earns one reprompt": no loop step ends on an answer without a
\* usable object before the model was asked once more, unless no budget was left.
StuckTurnEarnsOneReprompt ==
  Loop /\ phase = "done" /\ outcome # "ok" /\ text \in {"absent", "invalid"}
    => reprompts = 1 \/ made = MaxCalls

\* A failure of transport that the attempt is configured to fall back on, before
\* any tool ran, never ends the step while the chain has another attempt.
TransportFallsBack ==
  phase = "done" /\ error # None /\ ~ invoked /\ attempt < Len(chain)
    => error.reason = None \/ error.reason \notin chain[attempt].on

\* Every step ends: whatever the model answers, the budgets run out.
StepEnds == <>(phase = "done")
=============================================================================
