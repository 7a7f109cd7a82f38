------------------------------- MODULE Evidence -------------------------------
(* Evidence compression: what the model of a step sees of a large input, what  *)
(* is kept of the original, and what can be retrieved of it.  The evidence     *)
(* block of StepExecutor.execute (pipeline/executor.py), compress_for_model    *)
(* with its transforms and InMemoryEvidenceStore (evidence/), the retrieval    *)
(* tool (evidence/retrieval.py) and its binding (pipeline/pipeline.py).        *)
(*                                                                             *)
(* Several runs share the store of their caller.  A run has one step with      *)
(* evidence; a halted run is resumed with the same payload, under the policy   *)
(* deployed by then.  A payload is a sequence of lists (record lists or log    *)
(* lines) of rows, each plain or a signal (notable, severe); its size is its   *)
(* number of rows, and so are the token bounds of a policy.  A row is named by *)
(* its list and its index.                                                     *)
(* The names are those ModelStep leaves free: both are parts of the executor.  *)
EXTENDS Integers, FiniteSets, Sequences, SequencesExt

CONSTANTS
  Absent,        \* None
  Runs,
  Payloads,      \* [lists, least]: least is the input schema's least number of rows
  Policies,      \* EvidencePolicy: [enabled, mode, min, cap, required, full, search, ttl, strict]
  Wirings,       \* {"passed", "none", "elsewhere"}: see Retrievable
  HeadRows, TailRows, SampleRows,        \* _HEAD, _TAIL, _SAMPLE
  MaxClock, MaxAttempts      \* bounds

ASSUME BoundsAssumption ==
  /\ HeadRows \in Nat /\ TailRows \in Nat /\ SampleRows \in Nat
  /\ MaxClock \in Nat /\ MaxAttempts \in Nat

VARIABLES
  wiring, payload,
  clock,
  store,     \* the caller's store, by run (a handle id is the hash of the run, step,
             \* agent, transform and original): [at, ttl, full, search]
  policy,    \* run |-> the deployed policy
  stage,     \* run |-> "idle", "running" or "done"
  attempts,
  view,      \* run |-> the rows the model sees
  decision,  \* run |-> Absent, "passthrough", "simulated", "compressed" or "rejected"
  warned,    \* run |-> signal rows the decision's warnings report as dropped
  record,    \* run |-> Absent or the step's outcome: [code, decision, handle]
  issued,    \* run |-> policy and time of its last compression (history)
  served     \* the last retrieval that succeeded: [of, mode, at] (history)

local == <<policy, stage, attempts, view, decision, warned, record>>
evidenceVars == <<wiring, payload, clock, store, local, issued, served>>

Greater(m, n) == IF m < n THEN n ELSE m

-----------------------------------------------------------------------------
(* Transforms.                                                               *)
Rows(p) == UNION {{<<l, i>> : i \in DOMAIN p.lists[l]} : l \in DOMAIN p.lists}
Signals(p) == {row \in Rows(p) : p.lists[row[1]][row[2]] = "signal"}
Size(p) == Cardinality(Rows(p))

\* The first n of a set of indices.
First(S, n) == {i \in S : Cardinality({j \in S : j <= i}) <= n}

\* _row_budget: the output budget, divided evenly across the lists, never below 1.
RowBudget(p, cap) == IF cap = Absent THEN Absent ELSE Greater(1, cap \div Len(p.lists))

\* Mutant: signals are not selected for being signals.
SelectedBlindly(items) ==
  LET n == Len(items)
      stride == Greater(1, n \div SampleRows)
  IN  {i \in 1 .. n : i <= HeadRows \/ i > n - TailRows \/ (i - 1) % stride = 0}

\* _select_items before the cap: head, tail, signals, an evenly spaced sample.
Selected(items) ==
  LET n == Len(items)
      stride == Greater(1, n \div SampleRows)
  IN  {i \in 1 .. n : \/ i <= HeadRows \/ i > n - TailRows
                      \/ items[i] = "signal"
                      \/ SampleRows > 0 /\ (i - 1) % stride = 0}

Keep(items, budget) ==
  IF budget = Absent THEN Selected(items) ELSE First(Selected(items), budget)

Compressed(p, pol) ==
  {row \in Rows(p) : row[2] \in Keep(p.lists[row[1]], RowBudget(p, pol.cap))}

\* The warnings count the signals among the selected rows that the cap dropped.
SignalsDropped(p, pol) ==
  Cardinality({row \in Signals(p) :
    LET items == p.lists[row[1]]
    IN  row[2] \in Selected(items) \ Keep(items, RowBudget(p, pol.cap))})

Applies(p, pol) == pol.enabled /\ Size(p) >= pol.min /\ p.lists # <<>>

\* The compressed view is validated against the input schema.
ViewValid(p, pol) == Cardinality(Compressed(p, pol)) >= p.least

-----------------------------------------------------------------------------
(* The store.                                                                *)
\* Mutant: the permissions of an entry stay what put made them.
EntryWithDefaults(pol) == [at |-> clock, ttl |-> pol.ttl, full |-> FALSE, search |-> TRUE]

\* put replaces an entry of the same handle, and set_policy follows.
Entry(pol) == [at |-> clock, ttl |-> pol.ttl, full |-> pol.full, search |-> pol.search]

Stored(r, pol) == [x \in DOMAIN store \cup {r} |-> IF x = r THEN Entry(pol) ELSE store[x]]

Deleted(r) == [x \in DOMAIN store \ {r} |-> store[x]]

\* _live_entry.
Live(h) ==
  /\ h \in DOMAIN store
  /\ store[h].ttl # Absent => clock - store[h].at <= store[h].ttl

\* With evidence_store passed to the run, compression and the retrieval tool use
\* it ("passed"), unless the registry already has the tool, bound to another store
\* ("elsewhere").  Without it every step compresses into a store of its own.
UsesSharedStore == wiring # "none"
Retrievable(h) == wiring = "passed" /\ h \in DOMAIN store

-----------------------------------------------------------------------------
EvidenceInit ==
  /\ wiring \in Wirings
  /\ payload \in [Runs -> Payloads]
  /\ policy \in [Runs -> Policies]
  /\ clock = 0 /\ store = <<>>
  /\ stage = [r \in Runs |-> "idle"] /\ attempts = [r \in Runs |-> 1]
  /\ view = [r \in Runs |-> Rows(payload[r])]
  /\ decision = [r \in Runs |-> Absent] /\ warned = [r \in Runs |-> 0]
  /\ record = [r \in Runs |-> Absent] /\ issued = [r \in Runs |-> Absent]
  /\ served = Absent

\* The step ends: an audit record with evidence is built for a successful step only.
End(r, code, d) ==
  /\ stage' = [stage EXCEPT ![r] = "done"]
  /\ record' = [record EXCEPT ![r] =
       IF code = "ok"
       THEN [code |-> code, decision |-> d, handle |-> IF d = "compressed" THEN r ELSE Absent]
       ELSE [code |-> code, decision |-> Absent, handle |-> Absent]]

\* The model is called with the rows S, after decision d.
Call(r, d, S, dropped) ==
  /\ stage' = [stage EXCEPT ![r] = "running"]
  /\ decision' = [decision EXCEPT ![r] = d]
  /\ view' = [view EXCEPT ![r] = S]
  /\ warned' = [warned EXCEPT ![r] = dropped]

Idle(r) ==
  /\ stage[r] = "idle"
  /\ UNCHANGED <<wiring, payload, clock, policy, attempts, served>>

PassThrough(r) ==
  /\ Idle(r) /\ ~ Applies(payload[r], policy[r])
  /\ Call(r, "passthrough", Rows(payload[r]), 0)
  /\ UNCHANGED <<store, record, issued>>

Simulate(r) ==
  /\ Idle(r) /\ Applies(payload[r], policy[r]) /\ policy[r].mode = "simulate"
  /\ Call(r, "simulated", Rows(payload[r]), SignalsDropped(payload[r], policy[r]))
  /\ UNCHANGED <<store, record, issued>>

Compresses(r) ==
  Idle(r) /\ Applies(payload[r], policy[r]) /\ policy[r].mode = "compress"

\* Mutant: the model gets the compressed view although nothing was stored.
PutFailsUnnoticed(r) ==
  /\ Compresses(r)
  /\ Call(r, "compressed", Compressed(payload[r], policy[r]),
          SignalsDropped(payload[r], policy[r]))
  /\ UNCHANGED <<store, record, issued>>

\* put raises (a durable store): the run halts, or the model gets the original.
PutFails(r) ==
  /\ Compresses(r) /\ UsesSharedStore
  /\ IF policy[r].required
     THEN End(r, "evidence_error", Absent) /\ UNCHANGED <<view, decision, warned>>
     ELSE Call(r, "passthrough", Rows(payload[r]), 0) /\ UNCHANGED record
  /\ UNCHANGED <<store, issued>>

\* The original is stored and its permissions set, before the view is validated.
Compress(r) ==
  LET p == payload[r]
      pol == policy[r]
  IN  /\ Compresses(r)
      /\ issued' = [issued EXCEPT ![r] = [policy |-> pol, at |-> clock]]
      /\ \/ /\ ViewValid(p, pol)
            /\ Call(r, "compressed", Compressed(p, pol), SignalsDropped(p, pol))
            /\ store' = IF UsesSharedStore THEN Stored(r, pol) ELSE store
            /\ UNCHANGED record
         \/ /\ ~ ViewValid(p, pol) /\ pol.strict
            /\ End(r, "evidence_error", Absent)
            /\ store' = IF UsesSharedStore THEN Stored(r, pol) ELSE store
            /\ UNCHANGED <<view, decision, warned>>
         \/ /\ ~ ViewValid(p, pol) /\ ~ pol.strict
            /\ Call(r, "rejected", Rows(p), SignalsDropped(p, pol))
            /\ store' = IF UsesSharedStore THEN Deleted(r) ELSE store
            /\ UNCHANGED record

-----------------------------------------------------------------------------
(* Retrieval, by any step that runs, of any handle.                          *)

Retrieve(r, h, mode) ==
  /\ stage[r] = "running"
  /\ Retrievable(h) /\ Live(h)
  /\ \/ mode = "full" /\ store[h].full
     \/ mode = "search" /\ store[h].search
  /\ served' = [of |-> h, mode |-> mode, at |-> clock]
  /\ UNCHANGED <<wiring, payload, clock, store, local, issued>>

\* The step ends, or fails: in its own code, in the model, on a refused retrieval or
\* on its output.
Finish(r) ==
  /\ stage[r] = "running"
  /\ \/ End(r, "ok", decision[r])
     \/ End(r, "halted", Absent)
  /\ UNCHANGED <<wiring, payload, clock, store, policy, attempts, view, decision, warned,
                 issued, served>>

Resume(r) ==
  /\ stage[r] = "done" /\ record[r].code # "ok" /\ attempts[r] < MaxAttempts
  /\ attempts' = [attempts EXCEPT ![r] = @ + 1]
  /\ \E pol \in Policies : policy' = [policy EXCEPT ![r] = pol]
  /\ stage' = [stage EXCEPT ![r] = "idle"]
  /\ view' = [view EXCEPT ![r] = Rows(payload[r])]
  /\ decision' = [decision EXCEPT ![r] = Absent] /\ warned' = [warned EXCEPT ![r] = 0]
  /\ record' = [record EXCEPT ![r] = Absent]
  /\ UNCHANGED <<wiring, payload, clock, store, issued, served>>

Tick ==
  /\ clock < MaxClock /\ clock' = clock + 1
  /\ UNCHANGED <<wiring, payload, store, local, issued, served>>

EvidenceNext ==
  \/ \E r \in Runs :
       \/ PassThrough(r) \/ Simulate(r) \/ PutFails(r) \/ Compress(r)
       \/ Finish(r) \/ Resume(r)
       \/ \E h \in Runs, mode \in {"full", "search"} : Retrieve(r, h, mode)
  \/ Tick

EvidenceSpec == EvidenceInit /\ [][EvidenceNext]_evidenceVars
-----------------------------------------------------------------------------
(* Properties.                                                               *)
\* "Give the model less, keep everything": while a step works on less than its input,
\* the store of the retrieval tool holds the original, whatever other runs do to it
\* (expiry apart, which ServedWithinPolicy is about).  And nothing is left of a view that
\* was rejected: the model has the whole input and the store has no entry for it, not
\* even one of an earlier attempt.
ModelNeverBlind ==
  \A r \in Runs :
    /\ view[r] # Rows(payload[r]) => Retrievable(r)
    /\ decision[r] = "rejected" /\ stage[r] \in {"running", "done"} =>
         r \notin DOMAIN store /\ view[r] = Rows(payload[r])

\* A dropped signal is legible: the decision reports as many dropped signal rows as
\* the model does not see.
SignalLossIsLegible ==
  \A r \in Runs : decision[r] = "compressed" =>
    warned[r] = Cardinality(Signals(payload[r]) \ view[r])

\* Every retrieval was allowed by the policy under which the original was last stored,
\* and came before its expiry, whatever was stored under the handle before.
ServedWithinPolicy ==
  [][served' # served =>
       LET i == issued[served'.of]
       IN  /\ i # Absent
           /\ served'.mode = "full" => i.policy.full
           /\ served'.mode = "search" => i.policy.search
           /\ i.policy.ttl # Absent => clock - i.at <= i.policy.ttl]_evidenceVars
=============================================================================
