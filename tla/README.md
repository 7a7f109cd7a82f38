# Drawbore in TLA+

Drawbore runs pipelines of agents under governance: every tool call passes one
chokepoint, every step is checkpointed, risky outputs wait for a reviewer, untrusted
data stays labelled, and a run that died is resumed without repeating its effects.
This directory models the parts of `src/src/drawbore` that decide such things, checks
them with TLC on small instances and proves the most important results with TLAPS for
every value of the constants.

Paths below are relative to `src/src/drawbore`. `PROJECT.json` maps every definition to
the lines it models and lists the runs, hazards and theorems.

- [The system](#the-system)
- [Modules](#modules)
- [Runs and their bounds](#runs-and-their-bounds)
- [Fairness](#fairness)
- [Proofs](#proofs)
- [Abstractions and assumptions](#abstractions-and-assumptions)
- [Known disagreements](#known-disagreements)
- [Not modelled, and the plan](#not-modelled-and-the-plan)

## The system

Everything runs on one asyncio event loop. Between two `await`s the code is atomic; at
an `await` other steps, other calls of the same step and other `Pipeline.run` calls on
the same `run_id` may go on. The process can die anywhere. What survives it is what the
checkpoint store and the effect ledger hold.

    Pipeline.run ──restores/commits──> CheckpointStore (memory | files)
       │  asks IdentityRegistry before each agent step
       │  steps
       ▼
    StepExecutor ──compress──> Evidence store <── retrieval tool
       │  run_step                                    ▲
       ▼                                              │
    engine: one-shot runtime | agentic tool loop ──> ToolProxy.invoke ──> handlers
                                                      │
                                                      └──> EffectLedger (durable)
    on every return: resume ledger, audit record, confinement receipt <── proxy log

    register_mcp_server, mcp_server ──> tool registry (refs served by live sessions)
    admit (ratchet) ──replays candidates through Pipeline.run with mocked tools
    schema oracle, Deployment ──judge changes to a pipeline before it is deployed

| component | state | operations | what is hard | what makes it correct |
|---|---|---|---|---|
| Tool proxy `tools/proxy`, effect ledger `state/effect_ledger.py` | per attempt: cursors, breaker counts, run caps, taint scopes, call log; durable: ledger entries (pending, succeeded) | `invoke` (registry, token, operation, taint, breaker, caps, then replay or fire), the orphan check at step end | overlapping attempts, a crash or a failed write around the handler, calls of tasks that outlive their step | an effect fires at most once; replays give what was recorded; commits use exactly the recorded effects; no exfil-capable call after an untrusted source invoked while its step ran; only declared tools are reached; caps hold |
| Confinement receipt `confinement/receipt.py` | none: made of the proxy's log when `run` returns | mint, evaluate, verify | log entries written after the gate judged, restored steps, stragglers | a run whose gates held is `confined`, the receipt verifies against the log and accounts for the effects of the steps it executed |
| Scheduler `pipeline/pipeline.py` | durable: fingerprint, completed steps with label and seal, skips, one approval request; per attempt: position, outputs, skips, decision, scope | pre-flight, joins, skips, conditions, identity gate, restore, approval, execution, confidence gate, commit | stale, repeated and mismatched decisions; redeployments between attempts; cascades and conditions evaluated again after a resume | only reviewed outputs of gated steps are used; the resume ledger tells what became of each step; outputs agree with their sources; labels follow the data; completion |
| Checkpoint stores `state/checkpoint.py`, `file_checkpoint.py` | a record per step, fingerprint, approval request; file store: a cache per instance | `commit_step`, `step_skipped`, `record_fingerprint`, `record_approval_request`, `clear_approval_request`, load | a crash between temporary file and rename, unreadable files, a cache another process makes stale | every call takes effect as a whole or not at all; nothing recorded is lost |
| Safety ratchet `ratchet/` | durable: a file per regression case, a chain; per process: a cache of them | seed (derive), `admit`: four layers, replay, growth, `append` | admissions that interleave at the awaits of the replay, appends that fail half-way, restarts, callers that pass other baselines | an admitted candidate has no new authority and refuses every known provocation; cases are genuine and not repeated |
| Schema oracle `config/schema_oracle.py` | none | `compare` two JSON schemas | keywords that change each other's meaning, direction of bounds | passes no relaxation; no false alarm on a pure tightening (both under conditions, see [Proofs](#proofs)) |
| Model step `llm/`, `orchestration/adk_*` | the chain and the place in it, model calls used, tool and failure markers, reprompt | resolve, one-shot completion, agentic loop, structured output, fallback | provider failures after tools ran; a bound that spans two passes; tool exceptions that look like provider exceptions | tools run under one attempt only; a tool failure ends the step; bounds hold; every step ends |
| Evidence `evidence/`, `pipeline/executor.py` | stored originals with permissions and expiry; per step view and decision | compress, validate, pass through, store, retrieve, search | failing `put`, rejected views, a resumed step that stores under an old handle | what the model does not see it can retrieve, and only as the policy allows; dropped signals are reported |
| Identity `identity/registry.py` | state, attested surface, pending change | register, suspend, resume, decommission, update, reattest, the gate | transitions in any order while pipelines, which keep the definition they were built with, start steps | a pipeline built from the definition announced last runs only what was attested; what is attested the owner approved; decommissioning is final |
| MCP servers `mcp/`, `tools/registry` | transport and session of each client, refs in the registry | connect, initialize, register, use, leave the scope, close | a failure or cancellation at every `await`, two scopes on one registry, servers that change their offer | sessions are open exactly while somebody holds them; a ref reaches the tool that was declared |
| Rollouts `versioning/` | stable version, plan in flight, stage and its gate | classify, begin, mark_passed, advance, rollback, promote | marks and stages in any order, plans shared by deployments or begun when another version is stable | promotion after every stage; what breaks against the version it was classified against is shadowed |

The components that are not modelled are listed with their reasons at the
[end](#not-modelled-and-the-plan) and in `PROJECT.json`.

## Modules

One module per component, `MC<module>` with the values TLC needs, and `<module>Proof`
with the theorems (`ExecutorProof` has those of ModelStep and of Evidence,
`AdmissionProof` those of RatchetGate and of SchemaOracle, which is behind one of its
layers). An operator with a comment that begins with "Mutant" or that describes a bug,
and that nothing uses, is a variant of the definition beside it, with which the property
it is meant to break was seen to fail.

**ToolProxy** (`tools/proxy/proxy.py`, `tools/taint.py`, `state/effect_ledger.py`, the
step loop of `pipeline.py` and `executor.py` around it). The pipeline is a line of
steps; each attempt runs one of the call sequences `use.programs` allows for a step of
the version deployed. `Begin` is the pre-flight: the version's topology is recorded or
matched, else `RefuseDrift`. `RefuseUndeclared` is a call of a tool the agent does not
declare: it has no shim and never reaches the proxy. An attempt has the calls of each step
it began in `prog` and the one to come in `next`. An agent that awaits makes them one by
one while its step runs. One that does not (`~use.awaits`) leaves them to tasks, which the
event loop may come to at any time, also after the step was committed or the run returned
(`late`): the shim knows its step from the context the task was created in and checks
nothing. An exception of such a call may reach the step or be lost (`Raises`).
`Invoke` is what `ToolProxy.invoke` does before it awaits the handler, one action: the
gates in the code's order, their effects on scope, counts and caps, and then a replay, a
refusal or a pending entry and the handler in flight. `Finish` is what follows the
handler: the confirming write, which may fail, the log and the result. `CommitStep`,
`HaltOnOrphan` and `FailStep` are the ends of a step: checked and checkpointed, halted for
a recorded effect it did not use, or failed with an exception of its agent. `Crash` may come anywhere,
`CrashBeforeFire` between the pending entry and the handler. `use` fixes for a behaviour
how agents and callers behave (see `IsUse`).

**Confinement** (`confinement/receipt.py`) composes the receipt with ToolProxy: whenever
an attempt returns, `Minting` makes a receipt of its log, as the `finally` of `run` does.
An attempt that crashes leaves none.

**PipelineRun** (`pipeline/pipeline.py` and what it calls). One action for every way a
node can go; the guards of the actions repeat the order of the tests in `run`. Every
action makes at most one durable write, so that `Crash` may fall between any two.
`setup` fixes what is deployed under the run_id; `Redeploy` changes between the versions
of the setup, `Suspend` and `Reinstate` the identity of an agent, `Approve` and `Decide`
supply a reviewer's decision, of any kind and for any request, also old ones. An output
carries its value and, as a history, the outputs it was computed from and whether
untrusted data reached it, which the properties compare with the labels of the code.
`report` is what the attempt's `ResumeLedgerBuilder` and `AuditRecorder` hold; an attempt
that raises takes it along.

**CheckpointStore** is the contract: what `InMemoryCheckpointStore` does, each call
atomic. **FileCheckpointStore** (`state/file_checkpoint.py`) is the directory of
files, with a cache for each instance that opened it; each call puts the record into the
cache and starts a write that may be renamed, raise, or be cut off by a crash; reads may
fail, and several instances may have the directory open. It is shown to implement the
contract with the files as the contract's state (`INSTANCE CheckpointStore WITH`,
property `Implements`): unconditionally each record is written as a whole, and as long as
no I/O failed and one instance was used at a time (`~faulty`, the contract's `sound`)
each call takes effect at one point or not at all.

**RatchetGate** (`ratchet/gate.py`, `corpus.py`, `file_corpus.py`, the mode of `testing/`
it replays through). A job is one call of `admit`; it stops at the replay of each case and
at the growth run, where other jobs go on. `corpus` is the case files, `cache` what the
process has of them: it is read once, every growth writes a file and then extends it, a
write may fail after some of the new cases (`GrowthStops`), and `Restart` loses the cache
and the calls under way. A manifest is its steps, threshold and policy.

**SchemaOracle** (`config/schema_oracle.py`). The comparator over schemas as functions
from keywords to values, and beside it `Accepts`, the meaning the JSON Schema standard
gives the keywords, those included that the comparator does not look into (`not`, `if`,
`then`, `else`, `oneOf`, `prefixItems`, `patternProperties`). Comparator and meaning recurse,
and are written as functions over the levels of nesting
(`comparing`, `accepting`): `CompareAt` and `AcceptsAt` are one call, given what the calls
one level below return. A level too deep for the comparator is flagged. `Divides` has the
tolerance of the code's float division. `relaxations` has
the keywords flagged, without their paths. A behaviour deploys one schema after another.

**ModelStep** (`llm/runtime.py`, `resolution.py`, `classify.py`,
`structured_output.py`, `gateway.py`, `orchestration/adk_loop.py`, `adk_tools.py`). One
step of a model-backed agent from the declared models to its output or halt code. The
provider, the tools and the ADK runner are external and answer anything.

**Evidence** (`evidence/`, the evidence block of `StepExecutor.execute`). Several runs
share a store, are halted and resumed with another policy; rows are plain or signals.

**Identity** (`identity/registry.py`, `Pipeline.add`, the gate at `pipeline.py:1089`): an
action per method, with the operator and the sponsors as the environment. A pipeline keeps
the definition it was built with (`built`), and the gate asks the registry for the name
alone; what is announced to the registry need not be what any pipeline has.

**Rollout** (`versioning/compat.py`, `deployment.py`): an action per method, with the
operator and the gates of the stages as the environment. A plan is an object of its own:
it is classified when it is made, and any deployment may begin it later, several at once
too, whatever is stable there by then.

**McpServers** (`mcp/registration.py`, `mcp/live.py`, `ToolRegistry`). A registration is
staged at its awaits: transport, session, `initialize`, listing, refs; each stage may fail
or be cancelled. A scoped one is left with `LeaveScope`; `Redeploy` changes a server's
offer while it is connected.

ToolProxy and PipelineRun see the same step end from two sides. ToolProxy has only agent
steps in a line and looks into their calls; PipelineRun has all kinds of nodes and treats
the execution of an agent as one answer. ModelStep is a look into that answer, Evidence
into its input, CheckpointStore into the durable variables, Identity into `blocked`.

## Runs and their bounds

| run | question | size |
|---|---|---|
| `tool_proxy` | effects, replay, taint, caps, audit and receipts over two attempts of two steps | 1 057 000 states |
| `pipeline_run` | review, resume, skips, labels and ledger over five setups | 568 000 |
| `progress` | does a run complete once faults end | 9 900 |
| `file_store` | two processes, crashes anywhere, failing I/O: is the directory a CheckpointStore | 969 000 |
| `ratchet` | two admissions, overlapping, with failing writes and restarts | 379 000 |
| `schema_oracle` | every pair of schemas of ten families | 292 000 |
| `schema_oracle_keyword` | a family the comparator misjudges (expected violation) | |
| `model_step` | loop and one-shot steps over chains | 5 700 |
| `evidence` | two runs, resumed under any policy | 1 148 000 |
| `identity` | redefinition and lifecycle under two pipelines | 9 200 |
| `mcp` | three registrations, two servers, failures at every await | 1 347 000 |
| `rollout` | five versions, two plans, two deployments | 637 000 |

What each shows, and why its bounds are enough:

- **`tool_proxy`.** Two attempts are the least that can overlap or resume, and every
  guard of the code speaks of the attempt itself and the durable ledger, never of a
  third; nothing tells the two apart (symmetry; the run has no liveness property). Two steps
  are needed for taint and for calls that outlive their step. The eight
  uses of `MCToolProxy` are chosen for what they bring about: an agent that changes its
  calls between attempts, with overlap and failing writes
  (`AtMostOnceEffect`, `ReplayAgreement`); the same of agents that leave one call or two to
  tasks, whose calls come late and whose refusals get lost (`CommitsMatchLedger`); a
  deterministic agent with failing writes (`ReplaysCleanly`, `CommittedIsResolved`);
  untrusted sources before and after exfil-capable calls, awaited or left to tasks
  (`NoExfil`); calls each gate refuses, at the caps of 2,
  4 and 2 (`CapsBind`); and a pipeline that changes between attempts. The agents also try
  a tool they do not declare. `NoExfil` sees every untrusted source of the same step, and
  those of earlier steps that were invoked before their step ended, awaited or not; it does
  not cover a source invoked late (see below). `AuditIsOwn` says that a step record has only its own calls,
  `ReceiptStands` that a run which awaits its calls gets a `confined` receipt that
  verifies, `ReceiptAccounts` that a receipt counts the effects of the steps it covers.
- **`pipeline_run`.** The setups of `MCPipelineRun`: a review line with a confidence
  gate, with a store and without; branches with a cascade, an exclusive join and a
  condition on a step that may be skipped; every kind of join over a tainted source; and
  versions of a line that differ in a model or a binding. Three disturbances (crashes,
  failures, redeployments, suspensions, unclean inputs, unfavourable decisions) allow,
  for instance, a crash after an approval was consumed, then a stale decision, then a
  crash. `Reviewed`, `NoRerunWhileOpen`, `LedgerTellsTheRun`, `InputsConsistent`,
  `TaintFollowsData` and `OutputsOfDeployedCode` are described in the module.
- **`progress`.** The review setup, with rejections, crashes, polls and suspensions:
  once they end, `EventuallyCompletes`.
- **`file_store`.** One step, one output, one seal and one request: each step has a file of
  its own, no call reads another's, and with a step, `run.json` and the approval there are
  three files whose writes can be told apart. At most one stray file (a second one is under
  another name and treated alike); two instances are the least of which one can be stale. `CacheMatchesDisk` is the
  invariant the refinement rests on; after a failed read or write, or once two instances
  were used together, `Implements` still asks for whole records.
- **`ratchet`.** Two seeds, one that halts and one that escalates, and twelve manifests
  around them, each of which fails, or passes, one layer in one way; a restart at any point
  makes the next call read what is on file; two calls reach every interleaving of a pair, which is
  what the single re-read of the corpus can be about. `AuthorityAnchored` holds whatever
  baseline the callers claim; `KnownPropertiesKept` is about the cases of the corpus when
  the call began; `CorpusIsGenuine` about what growth appends and that the process replays what is on file.
- **`schema_oracle`.** All pairs within ten families of schemas over documents that
  separate them: numbers with bounds, multiples and enumerations; divisors up to the
  largest whose quotients floats keep apart; lengths, exclusive bounds and property
  counts; records with properties, required and additionalProperties; lists; tuples with
  `prefixItems` before `items`; patterns; conditions (`not`, `if`, `oneOf`, with references
  in `then` and `else`); references, also under anyOf and allOf; nested records. Four
  levels are more than any of them has. `PassesNoRelaxation` compares the verdict with
  `Accepts` on every document; `TighteningPasses` asks for no false alarm on decidable
  keywords. TLC evaluates the conditions of the two theorems on all families of the run
  (`FamiliesJudged`: `Sound`, `Exact` and `Distinct`; `FamiliesTold`).
  `schema_oracle_keyword` adds schemas without `properties`, and the first property
  fails (see below).
- **`model_step`.** Profiles that overlap, fall back on nothing, are not configured or
  have no credential; every reply, tool outcome and exception; three model calls, enough
  for a tool call, a bad answer and the reprompt with no call left.
- **`evidence`.** Payloads of one list with a signal between the samples, two lists
  under one budget, and one that the schema wants whole; policies that differ in what
  they allow, their time to live, strictness and mode; two runs and one resumption of
  each are what overwriting a handle needs. The runs are interchangeable (symmetry; the
  run has no liveness property).
- **`identity`.** Three surfaces (attested, pending, next), two sponsors, and two pipelines,
  each built from any of the three and rebuilt at will, of which one may be running while
  the other starts, and one may hold an old definition while the other holds the last.
- **`mcp`.** Three calls, each with one of six requests: two servers that offer `send`,
  `read` or both, plain and scoped, with flags for a tool that is not declared, a tool
  declared twice and a server-level credential. Two calls meet in the registry; the third
  is needed for a scope that is entered after one was left while another is open.
- **`rollout`.** Five versions whose schemas differ in every way the classifier tells
  apart, and in a bound; a second plan that may be made before the first is complete and
  begun after it; two deployments that may fly one plan, or one each. Plans, and
  deployments, are interchangeable (symmetry).

Where a system may stop (all attempts used, a job list done, a plan finished)
`CHECK_DEADLOCK FALSE` is set. `pipeline_run`, `progress`, `file_store`, `mcp`
and `schema_oracle*` check for deadlock as well.

## Fairness

- `PipelineRun!FairSpec`: weak fairness of `Running` (the event loop goes on with the
  attempt), of `Start` (the caller runs the pipeline again) and of `Reinstate`; strong
  fairness of `Approve`, because polls of the caller take the request away from the
  reviewer for the time of an attempt, again and again. The latter three are assumptions
  about people: the code promises completion only if somebody retries and approves.
  Crashes and the other disturbances are unfair and bounded.
- `ModelStep!FairSpec`: weak fairness of `Next`. Providers and tools answer or time out
  (the timeout is one of the answers). `StepEnds` then rests on the budgets only.

## Proofs

All proofs are checked by `tlapm` with no step left open.

| module | theorem | holds for |
|---|---|---|
| ToolProxyProof | `TypeCorrect`, `AtMostOnce`, `ReplaysAgree`, `CapsHold`, `CommitsMatch`, `CleanReplay` | any tools, attempts, steps, uses, caps, overlap, tasks, crashes and failing writes |
| ToolProxyProof | `NothingLeaks` | the same, without overlapping attempts; sources invoked late by tasks are excepted |
| ToolProxyProof | `CommittedResolved` | agents that await their calls and let failures end their step, attempts that follow each other |
| ToolProxyProof | `AuditOwn`, `ReceiptsStand` (of Confinement) | the same, when agents await their calls |
| ToolProxyProof | `ReceiptsAccount` (of Confinement) | any agents that await their calls and let failures end their step, attempts that follow each other |
| PipelineRunProof | `TypesHold` | any setups and any number of disturbances (`NoneIsNoChoice`) |
| PipelineRunProof | `TaintFollows` | any setups and values, if joins bind only their sources (`JoinsBindSources`) |
| PipelineRunProof | `DeployedCodeOnly` | any setups, if a step that may wait for a reviewer keeps its code (`ReviewedCodeStays`) |
| PipelineRunProof | `OnlyReviewed` | any setups, if a seal determines whether a step is rated (`RatedIsSealed`) |
| PipelineRunProof | `ResumesConsistently` | any setups whose versions keep the operands of conditions (`ConditionsStay`) |
| PipelineRunProof | `NeverRunsAgain` | the same, if versions also begin with the same step (`EntryStays`, `NoneIsNoRequest`) |
| PipelineRunProof | `LedgerIsTrue` | `ConditionsStay`, and no version is empty (`NonEmpty`) |
| AdmissionProof | `NothingWidens`, `RefusalsKept` | any catalog, manifests, mocks and calls, failing writes, restarts |
| AdmissionProof | `CorpusGenuine` | the same, if low confidence stops a run (`GatesKept`, `NoneIsNoCase`) |
| AdmissionProof | `NoRelaxationPasses` (of SchemaOracle) | any schemas, documents and depth, if `Sound`, `Exact` and `Distinct` |
| AdmissionProof | `TighteningNeverRefused` (of SchemaOracle) | any schemas whose documents tell them apart (`DocumentsTell`), if `Exact` |
| FileCheckpointStoreProof | `TypeCorrect`, `RecordsWhole`, `CacheAgrees`, `FileStoreImplements` | any number of instances, failing reads and writes, crashes |
| ExecutorProof | `ToolsStay`, `ToolFailure`, `CallBound`, `Reprompted` | any profiles, chains and bounds on calls |
| ExecutorProof | `TransportRetried` | the same, if no call goes through `LiteLLMGateway` |
| ExecutorProof | `LossIsLegible`, `ServedAsAllowed` (of Evidence) | any runs, policies, stores and resumes, payloads of any length (`PayloadsAreLists`, `AbsentIsNoEvidence`) |
| ExecutorProof | `NeverBlind` (of Evidence) | the same, with the store passed to the run |
| IdentityProof | `OwnerApproves`, `DecommissionFinal` | any surfaces, sponsors and pipelines |
| IdentityProof | `StepsAttested` | the same, of pipelines built from the definition announced last |
| McpServersProof | `SessionsMatch`, `DeclaredReached` | any servers, tools, requests and calls |
| RolloutProof | `StagesPassed` | any versions, deployments and plans, shared or outdated |
| RolloutProof | `ShadowsBreaking` | the same, of what breaks against the version the plan was classified against other than by a changed bound |

The constants' assumptions are the named `ASSUME`s of the modules; TLC evaluates them in
every run. What a theorem assumes beyond them is in its statement, and each of these is
needed: without it the code behaves differently, as the table under "Known disagreements"
says of most of them.

- `ConditionsStay`: versions with one fingerprint have the same operands of conditions.
  The fingerprint covers the agent a condition reads and leaves out what it compares with,
  so that otherwise a step is restored whose condition no longer holds, or skipped though
  steps behind it were computed from it (`pipeline.py:1069`).
- `EntryStays`: versions begin with the same step. While nothing is committed the
  fingerprint is recorded anew, and a version that begins elsewhere walks another way to a
  step whose proposal waits, and runs it again.
- `NonEmpty`: `Pipeline` accepts no node at all, and a version without one finds no
  progress, records its own fingerprint over what is completed and completes.
- `NoneIsNoRequest`, `NoneIsNoChoice`: Python's `None` is not an approval request nor a
  decided output; in the model both are records.
- `GatesKept`: a manifest with steps that give a confidence stops on a low one, or the
  seeded pipeline has such steps and stops. The low-confidence case is derived whatever
  the policy is (`ratchet/corpus.py:282`), so that otherwise a case is pinned which its own
  baseline does not refuse.
- `NoneIsNoCase`: Python's `None` is not a case.
- `PayloadsAreLists`, `AbsentIsNoEvidence`: a payload is made of lists of rows, and Python's
  `None` is neither a decision nor a policy with a time.
- Evidence with the store passed to the run (`Wirings`): without it, or with the retrieval
  tool bound to another store, originals cannot be retrieved (`pipeline/executor.py:92`).
- `Sound`: a `$ref` names a definition of every root of its family, and none stands under
  `not`, `if` or `oneOf` (`config/schema_oracle.py:344`); among the schemas of a family that
  have `additionalProperties`, all or none have `properties`, and among those that have
  `items`, all or none have `prefixItems` (`:180`); `additionalProperties` comes without
  `patternProperties` (`:320`). `Exact`: divisors are at most 5·10^8, half the inverse of the
  tolerance, so that the float quotient of two of them is near an integer only if it is one
  (`:110`). `Distinct`: values that Python's `==` takes for equal are equal (`:171`). A
  reference without a definition means nothing; with any of the others lifted
  `PassesNoRelaxation` or `TighteningPasses` fails.
- `DocumentsTell`: among the documents is one at each bound, a multiple that is the
  divisor, every value of an enumeration, an object with just the required names, a value
  of each type. Narrowing is measured by documents; where none is at the bound, a raised
  bound would seem to narrow.
- No `"litellm"` in `Gateways`: that gateway hides transport failures (`llm/gateway.py:78`).

- **AtMostOnce.** The property is not inductive: it speaks of calls, and a call fires
  if its position has no entry. `EffectInv` adds `FiredIsRecorded`, that a position that
  ever fired has an entry. Entries are never removed (`EntriesStay`), a step adds at most
  one call that fires, at a position without an entry (`CallsGrow`, `LedgerSteps`).
- **ReplaysAgree.** `ReplayInv` says that a position has one entry, that a handler in
  flight at a position is the only one there and its entry is pending with that call's
  key, and that every result ever given is in a succeeded entry. Each action is shown to
  be one of idling, firing, replaying or finishing (`EffectSteps`), and the four keep the
  invariant (`FiresKeeps`, `FinishKeeps`). That two attempts may both be live is covered:
  `OneFlightEach` is what a crash between them could have broken.
- **NothingLeaks.** That a call was untrusted shows in a label the next step starts from,
  but only along one attempt. `LineInv` says that one attempt at a time walks the line
  (`Walks`): steps behind it are checkpointed, steps ahead of those it executed are not,
  and a trusted label it carries has only trusted checkpoints and no untrusted source
  behind it but late ones. Of every scope that is trusted, also that of a step that has
  ended, the same holds (`Clean`), because tasks still call under it. A step has calls only
  if it was executed (`Started`), and trusted checkpoints stand in line
  (`CheckpointsInLine`). Lemmas per action (`RestoreKeeps`, `ExecuteKeeps`, `CommitKeeps`,
  `InvokesKeeps`) keep it; with overlap it is false.
- **CapsHold.** `Counted` equates the counters with the cardinalities of sets of calls in
  the history. Counting a new call by one needs that it is new, and `CallsInPast` says so:
  every call an attempt made is, in its step's calls, before the next one, and its step has
  begun (`HasBegun`), whether it is still running or not (`CallIsNew`).
- **CommitsMatch.** `MatchInv`: the positions up to the cursor of a running attempt that
  has not halted are those of the calls it made in its step, and each of these calls has
  an entry of its key (`Matches`, while agents leave ledger codes alone), unless a refusal
  of the ledger was lost (`LosesRefusal`); the cursors of
  steps it has not reached are zero (`CursorAhead`).
- **CommittedResolved.** `ResolvedInv`: at every position a running attempt has taken
  there is a succeeded entry or its handler is in flight (`TakenAreAnswered`), and the
  entries of checkpointed steps have succeeded (`CommittedSucceeded`). A step is committed
  when no handler is in flight, which is where awaiting comes in.
- **CleanReplay.** `CleanInv`, for deterministic steps: attempts run the one program
  (`OnProgram`), no call of a step that has not begun was made (`Untouched`), the cursor
  counts the ledgered calls before the next one (`InPlace`), and
  every entry is at the position its call has in that program (`Placed`).
- **AuditOwn, ReceiptsStand.** `LogInv`: what was executed or is in flight has a shim; if
  agents await, handlers in flight and the log since the step began are of the step at
  hand, and pure exfil calls were logged with a trusted scope. `ReceiptInv`: a receipt
  shows no stray call, its attempt has ended with the log it observed, and the leaks it
  names are of tools that are untrusted sources themselves.
- **ReceiptsAccount.** `AccountInv`: the numbered effects that a running attempt logged in
  its step are the first entries of that step's ledger, each once and in order, up to the
  cursor but for the handler in flight; for a committed step with an audit record they are
  all of its entries. Logging an effect adds the next number (`EffectsGrow`), and the
  entries and the log of a committed step stay (`CommittedStaysCounted`). At the commit
  `MatchInv` is what excludes entries behind the cursor (`CommitAccounts`).
- **TaintFollows.** `Kinds` classifies every step of PipelineRun by its effect on what is
  committed, waiting or produced, and the other results rest on it. `LabelInv`: every
  output that exists anywhere is labelled if tainted. Joins need the assumption, because
  the label comes from the sources and the data from the bindings.
- **DeployedCodeOnly.** `ResumeInv` says that during an attempt the fingerprint and the
  seals on record are those of the deployed version, since the pre-flight has compared
  them; `CodeInv` that outputs, completed steps and what waits were made by the code their
  seal names. A waiting proposal outlives a redeployment, hence the assumption.
- **OnlyReviewed.** `ReviewInv`: each completed step was committed by some version of it
  and, if that version guards the step, after a decision on its own request that settles
  it. `RatedIsSealed` is needed for a restored step, where only the seal was compared.
- **ResumesConsistently.** That each output fits those of its sources holds across resumes
  only because an attempt walks the way the one before it walked. `WalkInv` says what the
  records fix of that way: a completed step had its sources completed and its condition
  true (`Firm`) and was computed from completed outputs (`Computed`); every step an
  attempt went past is completed or will be skipped again (`Settled`), with the outputs on
  record; what waits for a reviewer was computed from outputs that are still on record
  (`Proposed`), which a redeployment cannot change once a step is completed. `Turns`
  splits the steps of the specification for it, and `SkippedUnrecorded` is the crux: a
  replayed or repeated skip never meets a completed step.
- **NeverRunsAgain.** `WaitInv`: a request that no decision was applied to is the pending
  one, and its step is where the records lead every later attempt, with all steps before it
  settled, so that the attempt comes to it and polls, or to a halt before it.
- **LedgerIsTrue.** `LedgerInv`: during an attempt the ledger lists exactly the nodes it
  went past and the completed ones, each once; the node at hand is in neither, by `WalkInv`,
  and is entered as what it is. `Ordered` shows that the pre-flight enters each completed
  node once.
- **TypesHold.** `TypeInv` adds to the types that an attempt has an output of, or skipped,
  each node it went past (`Passed`): only therefore is what an agent is given defined.
- **NothingWidens, RefusalsKept.** `FilesInv`: the first case is pinned to the seeded
  manifest and the cache is what is on file, so that layer 0 lets only the seeded manifest
  pass as a baseline (`Measured`). `HalfReplayed`: of the cases known when the call began,
  `todo` is the part not replayed yet and the part before it was refused. Files are only
  added (`AppendGrows`), so what other calls append leaves both true.
- **CorpusGenuine.** `GenuineInv` adds that calls past the resolver have a manifest that
  resolves, and that a seeded pipeline with a low-confidence case has it on file among the
  cases of every call. What is admitted has then refused it, hence stops on a low
  confidence itself (`GateStands`), and the cases derived from it are refused
  (`CaseHolds`, by stepping through the replay of the baseline: `CompletesAll`,
  `RefusedThere`). Their keys differ because resolved names do (`NamesDistinct`) and
  because the slots are listed in order, each once (`Ranked`); least fields and ranks
  exist because the order of the naturals is well-founded (`Least`).
- **NoRelaxationPasses.** `OracleInv`: what is flagged is what the comparator returns for
  the two schemas. A pair `Passes` if it is equal or was flagged at no level; every
  constraint of the old schema is then in the new one and no wider (`PassesKeys`,
  `ChangedPasses`). By the least level that fails, what the newer schema accepts at a
  level the older one does too (`EveryLevelCarries`, `LevelCarries`): keyword by keyword
  (`FlatCarries`, `UnionCarries`, `PrefixCarries`, `ItemsCarry`, `FieldsCarry`), a reference
  going through the definitions of the two roots, which were compared on their own
  (`DefinitionsPass`). Where acceptance may be turned round the schemas hold no reference
  and mean the same under both roots (`PlainSame`). Within `Exact` the tolerance tells a
  multiple (`ExactDivides`). A recursive function is its equation only if a function obeys
  it: `AcceptingEquation` and `ComparingEquation` put it together from approximations up to
  each level, as the induction theorems of the library are out of reach.
- **TighteningNeverRefused.** A keyword that differs and narrows is not one that
  `ScalarWidens`, because the document that would show it is among those it was measured
  with (`NarrowerNotWidened`); two divisors that divide each other are one
  (`DivisorsOfEachOther`).
- **SessionsMatch, DeclaredReached.** `McpInv`: transports and sessions agree with the
  place of each call, a ref in the registry is owned by a call that listed its server, and
  what was reached was reached through such a ref.
- **StagesPassed.** `RolloutInv`: in every deployment that flies a plan the gates of the
  stages behind it passed since it was begun there (`GatesBehind`). Two deployments may fly
  one plan; that each saw its gates holds because a plan can only be begun at its start.
- **ShadowsBreaking.** `RolloutInv` also says that a plan has the kind of its change
  (`FlightsTyped`). A change that breaks other than by a bound is classified so
  (`BreakingIsClassified`), and its plan has a shadow stage.
- **RecordsWhole.** `WholeInv`: records on disk, in caches and in writes are whole.
- **CacheAgrees, FileStoreImplements.** `CacheInv`: types, `CacheMatchesDisk`, and that
  an instance that has not read the directory is not writing. Every action then changes
  the files as one action of the contract or not at all (`StepRefines`): the rename is
  the point where a call takes effect, and it merges into what the disk holds because
  the cache agrees with it.
- **ToolsStay to TransportRetried.** `StepInv` = `Counters`, `ToolInv` (an attempt begins with no tool
  run), `FailInv` (after a failure only the way out is left), `BudgetInv` (calls made are
  what the earlier pass left plus this pass), `StuckInv` (an unusable answer past its
  judgement was reprompted or had no call left). `FallbackInv`, for `TransportRetried`: an
  error with a fallback reason is a transport failure, no error is pending while an
  attempt works, and only an attempt that ran a tool has failed.
- **LossIsLegible, NeverBlind, ServedAsAllowed.** `EvidenceInv`: a run that was not
  compressed sees its whole payload; of one that was, the original is stored and the
  warnings count what is missing; a stored original carries the policy and the time of the
  last compression of its run (`AsIssued`). That the warnings, which count what the cap
  dropped, count all signals that are missing needs that every signal was selected before
  the cap (`DroppedAreWarned`).
- **IdentityProof.** `ApprovedInv`: what is attested was approved, and an agent needs its
  sponsor exactly while a change waits. `KnownInv`: the definition announced last is attested,
  or it is the change that waits, unless a change was taken back, after which the registry
  no longer tells (`latest = None`).

Only model-checked: liveness (`EventuallyCompletes`, `StepEnds`), which is beyond the
prover. Every other property of a passing run is stated by a theorem.

## Abstractions and assumptions

- Payloads are values of a small set, hashes are the values they hash, fingerprints are
  what they cover. Spans, metrics, wording and the content of audit records beyond what a
  property needs are left out.
- A resumed run is called with the same initial input and `initial_trust`, as the docs
  ask.
- PipelineRun has one attempt at a time; overlap is in ToolProxy.
- A rename is atomic and durable: power loss without an fsync of the directory is not
  modelled.
- One process appends to a ratchet corpus, as `FileRegressionCorpus` documents. The hash
  chain is the order of the files, so that `verify` finds nothing. In the replay a scripted loop agent calls each of its tools.
- A write to the effect ledger takes effect or raises, not both.
- `Evidence` has the in-memory store, of which only `put` is assumed to fail.
- SchemaOracle has numbers that are integers, one keyword `$defs` for itself and
  `definitions`, and gives no meaning to `format`, `pattern`, `contains`, `minContains`,
  `maxContains`, `uniqueItems`, `propertyNames`, the `dependent` and the `unevaluated`
  keywords; a schema with one of them is outside the model and the theorems. The quotient
  that `Divides` compares with the tolerance is exact. References are followed for `Depth`
  levels.
- In `Identity` a pipeline that is rebuilt is the old one with another definition, once its
  step has ended.

## Known disagreements

One run shows a code bug: `schema_oracle_keyword`. `compare` skips every keyword that
only the new schema has (`config/schema_oracle.py:180`), "a new schema *keyword* always
narrows". With `additionalProperties: false` present, adding `properties` admits the new
fields, and nothing is flagged.

The modules reproduce further differences between the code and what its docs or comments
say. They are kept out of the properties, by the condition or the bound named here;
lifting it shows the behaviour. Where a row names an action, the model has the behaviour
and the properties hold of it as they are stated.

| where | what | how to see it |
|---|---|---|
| `tools/proxy/proxy.py:160` | run caps start anew in a resumed attempt: a deterministic step that handles a cap denial diverges on replay | `ReplaysCleanly` without `handles = {}`, a use that handles `circuit_breaker` |
| `tools/proxy/proxy.py:268` | divergence is an exception the agent can handle: its step is then committed | `CommitsMatchLedger` with ledger codes in `handles` |
| `tools/access.py:116`, `pipeline/executor.py:159` | a call left to a task and never awaited may begin after its step was committed: an untrusted source then taints the scope of a step whose label was handed on, and the next step, seeded trusted, reaches an exfil-capable tool | `NoExfil` without `~q.late` in `InvokedBefore` |
| `pipeline/executor.py:159` | nobody retrieves the exception of such a call: a step whose effect the ledger refused is committed | `CommitsMatchLedger` without `LosesRefusal` |
| `pipeline/executor.py:57` | a call that is not awaited is audited in a later step | `AuditIsOwn` without `awaits` |
| `pipeline/pipeline.py:1183` | a step halted by the orphan check leaves its calls out of the audit | `HaltOnOrphan` makes no audit record |
| `pipeline/pipeline.py:546` | a decision sent again after a rejection runs the step again instead of halting with `approval_error` | `Execute` with a decision and no request pending |
| `pipeline/pipeline.py:627` | a proposal approved after an upgrade is committed under the new seal | `OutputsOfDeployedCode`, versions of a gated step |
| `pipeline/pipeline.py:1069` | the operand of a condition is in no fingerprint: after it changed a step is listed both as restored and as skipped | `LedgerTellsTheRun`, versions that differ in `when.holds` |
| `pipeline/pipeline.py:899` | "a clean resume keeps entries ordered": not when a step skipped by its condition precedes a restored one, the pre-flight lists the restored ones first | the order of `report.entries` |
| `pipeline/pipeline.py:875` | while an attempt of one version has committed nothing, an overlapping one of another version records its own topology; the checkpoint then mixes both | `Begin` with `use.overlaps` and two versions |
| `confinement/receipt.py:240` | "always `confined`" (`docs/guide/confinement-receipt.mdx:117`): a tool both exfil-capable and an untrusted source taints its own scope after it was admitted, and the receipt reads it as a leak | `ReceiptStands` without the exception for such tools |
| `tools/proxy/proxy.py:367` | a call that is not awaited may be logged with a scope tainted later, or after the receipt was minted: a false `breached`, or a log the receipt does not verify against | `ReceiptStands` without `awaits` |
| `pipeline/pipeline.py:764` | the receipt of a resumed run omits the calls of restored steps, and an attempt that crashed has none: no receipt has them | `ReceiptAccounts` for restored steps |
| `mcp/registration.py:148`, `tools/registry/registry.py:135` | `docs/guide/mcp-tools.mdx:131` recommends a scope per request, but refs are never unregistered and the second scope on a registry raises `ValueError` | `LeaveScope`, then `Registrable` |
| `mcp/live.py:97` | a failing `initialize` closes the transport and leaves the session object entered | `DropTransport` |
| `mcp/registration.py:99` | refs of a failed registration stay in the registry, served by a closed session | `Cleanup` leaves `tools` |
| `pipeline/pipeline.py:970` | the output model of a join is in no fingerprint or seal | versions that differ in a join's `schema` |
| `pipeline/pipeline.py:992`, `:651` | an `all_present` join may bind an agent outside its sources: the label misses it, and if it was skipped `KeyError` leaves `run` | `TaintFollowsData`, `JoinRaises`, a join with such `inputs` |
| `state/file_checkpoint.py:136` | after a failed write the cache is ahead of the disk | `CacheMatchesDisk` once `faulty` |
| `state/file_checkpoint.py:122` | an unreadable `run.json` accepts any topology | `Load` when `run.json` is unread (`fp = None`) |
| `ratchet/gate.py:135` | a case appended during a replay is not replayed: the candidate is admitted though it completes under it | `KnownPropertiesKept` for the corpus at the verdict |
| `ratchet/gate.py:173` | growth pins cases to the candidate, after which layer 0 rejects every baseline | an admission after one that grew the corpus |
| `ratchet/gate.py:136` | a replay that cannot start raises out of `admit`, no verdict is given | a candidate that drops a step the mocks name |
| `ratchet/corpus.py:282` | the low-confidence case is derived whatever the policy: an asynchronous baseline does not refuse its own case | `CorpusIsGenuine`, a seed with policy `async` |
| `ratchet/file_corpus.py:280` | a second instance with a stale cache writes its case over the file of another (documented: single writer); with one process not modelled | a cache per job in `AppendAll` |
| `config/schema_oracle.py:171` | `1 == True` in Python: `enum [1]` to `enum [true]` passes | a family with both in `enum` (not `Distinct`) |
| `config/schema_oracle.py:110` | `multipleOf` is compared by float division with a tolerance of 10^-9: 2000000000 to 6000000001 passes though it is no multiple, and 1 to 10000000000, a pure tightening, is flagged | families with such divisors (not `Exact`) |
| `config/schema_oracle.py:344` | a definition that is narrowed widens the whole where it is referenced under `not`, `if` or `oneOf`, and the comparator, which resolves no reference, passes it | a family with such a reference (not `Sound`) |
| `config/schema_oracle.py:180` | `prefixItems` added beside `items` exempts the first elements from it, `patternProperties` added beside `additionalProperties` the names it matches, and both pass as new keywords | families with both forms (not `Sound`) |
| `config/schema_oracle.py:320` | under `additionalProperties: false` a removed property is taken for forbidden, which it is not if a pattern matches its name | a family with both (not `Sound`) |
| `llm/gateway.py:78` | `LiteLLMGateway` hides transport failures from the chain, there is no fallback | `Gateways = {"litellm"}`, `TransportFallsBack` |
| `orchestration/adk_loop.py:326`, `:319` | rejected credentials in the loop halt with `model_unavailable`; a loop agent falls back | outcomes of `ModelStep` |
| `pipeline/executor.py:173` | a step that halts is audited with no reprompts and no evidence decision | `audit` in ModelStep, `record` in Evidence |
| `pipeline/executor.py:116` | a strict policy whose view is rejected leaves the stored entry behind | `ModelNeverBlind` for the strict halts |
| `pipeline/executor.py:92`, `pipeline/pipeline.py:815` | without a store, or with the tool registered for another one, originals cannot be retrieved | `Wirings = {"none"}`, `{"elsewhere"}` |
| `evidence/retrieval.py:64` | a search with an empty query returns all rows of a short original | `Retrieve` in `search` mode |
| `pipeline/pipeline.py:226`, `:1089` | a pipeline keeps the definition it was built with and the gate knows the agent by name (`tests/pipeline/test_identity_gate.py:80`): after a redefinition was announced and re-attested, a pipeline built before runs the old one, and a definition that was never announced runs as well | `StepsRunAttested` without `built[p] = latest` |
| `identity/registry.py:107` | announcing the attested definition again does not take a pending change back: it may be attested while pipelines run what was announced last | `Updated`; `StepsRunAttested` with `latest' = s` in `Update` |
| `versioning/deployment.py:77` | a plan made before another was promoted may be begun after it: what breaks against the version that is stable by then, though not against the one it was classified against, is promoted without a shadow, where `docs/guide/identity-versioning.mdx:65` says "Must shadow first" | `ShadowBeforeBreaking` with `stable[d]` for `plan[flight[d]].base` |
| `versioning/deployment.py:77`, `:87` | `begin` does not ask whose plan it is: two deployments may fly one, and a mark or an advance counts for both | `Begin`, `MarkPassed` |
| `versioning/compat.py:45` | a changed bound on a field is not breaking | `ShadowBeforeBreaking` without `KeepsBounds` |

## Not modelled, and the plan

Not modelled:

- **Configuration round trip** (`config/resolver.py`, `serialization.py`, `models.py`):
  export and import of a pipeline, pure functions over large records.
- **Static and runtime schema checks** (`schema/`): assignability between Python
  annotations, pure; runtime validation is Pydantic's.
- **Escalation delivery**: the core has an interface and a recorder for tests; when a run
  halts or waits is in PipelineRun.
- **Context assembly** (`context/sanitize.py`): scrubbing of text.
- **Agent definition**: a frozen record; the fields that steer a run are in the constants.
- **Observability** and **error types**: they steer nothing.

Partly modelled:

- **Tool proxy, capability tokens**: a token is issued and consumed within one call of
  `invoke`, so single use and expiry cannot be observed; its gates are modelled. Spans and
  hashes are left out.
- **Scheduler, audit**: metrics, durations and the escalation package are left out.
- **Model-backed step, model configuration, orchestration engines**: native structured
  output, requests, prompts, credentials and token usage are data the control does not
  depend on.
- **Test doubles**: what the ratchet replays through is in RatchetGate.

Next, in this order:

1. The configuration round trip as a pure algorithm: what `from_config` rebuilds from what
   `to_config` wrote.
2. Assignability of annotations beside SchemaOracle.
3. Two processes on one ratchet corpus.
