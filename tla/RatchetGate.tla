----------------------------- MODULE RatchetGate -----------------------------
(***************************************************************************)
(* The safety ratchet: a corpus of regression cases derived from a         *)
(* completed baseline run, and admit, which lets a candidate manifest      *)
(* through only after pinned inputs, resolution, authority, input schemas  *)
(* and a replay of every case.  admit awaits one test run per case and one *)
(* for the growth of the corpus, so several admissions of a process may    *)
(* interleave there; between two awaits it is atomic.                      *)
(*                                                                         *)
(* The corpus is a FileRegressionCorpus: a file per case, and the cache of *)
(* the process that opened it, which a restart loses.                      *)
(*                                                                         *)
(* A manifest is its declared agent steps in order, with the confidence    *)
(* threshold (on or off) and the escalation policy; its fingerprint is     *)
(* itself.  A step's declaration says whether it has a model, which tools  *)
(* it may call, the fields of its output and those that are required, if   *)
(* the output carries a confidence, and how wide its input schema is.      *)
(***************************************************************************)
EXTENDS Naturals, Sequences, FiniteSets, SequencesExt, FiniteSetsExt

CONSTANTS
  Catalog,       \* the live agents' declarations (AgentCatalog and registry)
  Manifests,     \* the manifests callers pass, as candidates or baselines
  Bundles,       \* the mock bundles callers pass
  Seeds,         \* the manifests and bundles the corpus may be seeded from
  Jobs,          \* bound: the calls of admit
  None

(* mocks_fingerprint refuses a bundle with loop scripts; a manifest has a  *)
(* list of steps; fields are numbered in the order of their declaration.   *)
ASSUME GateAssumption ==
  /\ \A b \in Bundles : b.scripts = {}
  /\ \A s \in Seeds : s.manifest \in Manifests /\ s.bundle \in Bundles
  /\ \A m \in Manifests : m.steps \in Seq(Range(m.steps))
  /\ \A d \in Catalog : d.requires \subseteq Nat
  /\ None \notin {"corpus_integrity", "resolver", "authority", "schema_relaxation",
                  "fail_closed", "schema_reject", "halted", "escalated"}

VARIABLES
  seed,     \* what the corpus was seeded from
  corpus,   \* the case files in order, a chain
  cache,    \* what the process has of them, or None before the first read
  jobs      \* job |-> the state of its call of admit

vars == <<seed, corpus, cache, jobs>>

-----------------------------------------------------------------------------
(* Manifests.                                                              *)
Steps(m) == Range(m.steps)
Names(m) == {d.name : d \in Steps(m)}
OneShot(d) == d.model /\ d.tools = {}
Loop(d) == d.model /\ d.tools # {}

Resolves(m) ==
  /\ Steps(m) \subseteq Catalog
  /\ Cardinality(Names(m)) = Len(m.steps)

(* effective_authority and authority_diff. *)
Authority(m) == UNION {{<<d.name, t>> : t \in d.tools} : d \in Steps(m)}
Widens(old, new) == ~ (Authority(new) \subseteq Authority(old))

(* schema_relaxation_diff, over the agents the two manifests share. *)
Relaxes(old, new) == \E d \in Steps(old), e \in Steps(new) :
  d.name = e.name /\ e.accepts > d.accepts

-----------------------------------------------------------------------------
(* The test mode.                                                          *)

(* test_mode raises TestingError for a mock no step can use. *)
UsableMocks(m, bundle) ==
  /\ bundle.responses \subseteq {d.name : d \in {e \in Steps(m) : OneShot(e)}}
  /\ bundle.tools \subseteq UNION {d.tools : d \in Steps(m)}

(* What stops a run of m at step d, or None.  `attack` is the case that    *)
(* provokes the run, or None; the other one-shot steps get a complete      *)
(* response with a high confidence.                                        *)
Provoked(d, attack) == attack # None /\ attack.target = d.name
Answer(d, attack) == IF Provoked(d, attack) THEN attack.payload ELSE d.fields
LowConfidence(m, d, attack) ==
  /\ Provoked(d, attack) /\ attack.kind = "low_confidence"
  /\ d.confident /\ m.threshold
StopAt(m, d, bundle, attack) ==
  CASE Loop(d) -> IF d.name \in bundle.scripts THEN None ELSE "fail_closed"
    [] ~ d.model -> IF d.tools \subseteq bundle.tools THEN None ELSE "fail_closed"
    [] OneShot(d) ->
         IF ~ Provoked(d, attack) /\ d.name \notin bundle.responses
         THEN "fail_closed"
         ELSE IF ~ (d.requires \subseteq Answer(d, attack)) THEN "schema_reject"
         ELSE IF LowConfidence(m, d, attack) /\ m.policy # "async"
         THEN IF m.policy = "none" THEN "halted" ELSE "escalated"
         ELSE None

(* The verdict of a run: the first step that stops it decides.             *)
Verdict(m, bundle, attack) ==
  LET stops == {i \in DOMAIN m.steps : StopAt(m, m.steps[i], bundle, attack) # None}
  IN IF stops = {} THEN None ELSE StopAt(m, m.steps[Min(stops)], bundle, attack)

Completes(m, bundle) == UsableMocks(m, bundle) /\ Verdict(m, bundle, None) = None

(* run_containment: the bundle and the case's own mock. *)
WithAttack(bundle, c) ==
  [bundle EXCEPT !.responses = bundle.responses \cup {c.target}]
Observed(m, bundle, c) == Verdict(m, bundle, c)

-----------------------------------------------------------------------------
(* derive_cases.                                                           *)
(* seal_case. *)
Case(m, bundle, d, kind, payload, expect) ==
  [target |-> d.name, kind |-> kind, payload |-> payload, expect |-> expect,
   baseline |-> m, bundle |-> bundle]

SchemaCase(m, bundle, d) ==
  Case(m, bundle, d, "schema_violation", d.fields \ {Min(d.requires)}, "schema_reject")
LowCase(m, bundle, d) ==
  Case(m, bundle, d, "low_confidence", d.fields,
       IF m.policy = "none" THEN "halted" ELSE "escalated")

DerivableAnywhere(m) == {i \in DOMAIN m.steps : OneShot(m.steps[i])}
(* One-shot steps with no loop step before them. *)
Derivable(m) == {i \in DOMAIN m.steps :
  OneShot(m.steps[i]) /\ \A j \in 1..i : ~ Loop(m.steps[j])}

(* Step i has the slot 2i - 1 for its schema case and, if its output       *)
(* carries a confidence, the slot 2i for the low one.  The cases are       *)
(* sealed in the order of the slots.                                       *)
Slots(m) ==
  {2 * i - 1 : i \in Derivable(m)} \cup
  {2 * i : i \in {k \in Derivable(m) : m.steps[k].confident}}
CaseAt(m, bundle, slot) ==
  LET d == m.steps[(slot + 1) \div 2]
  IN IF slot % 2 = 1 THEN SchemaCase(m, bundle, d) ELSE LowCase(m, bundle, d)
Nth(slots, n) == CHOOSE k \in slots : Cardinality({l \in slots : l <= k}) = n
CasesAt(m, bundle, slots) ==
  [n \in 1..Cardinality(slots) |-> CaseAt(m, bundle, Nth(slots, n))]
Derived(m, bundle) == CasesAt(m, bundle, Slots(m))

(* derive_cases raises RatchetError for a step without a required field,   *)
(* and when there is nothing to derive.                                    *)
Derives(m, mocks) ==
  /\ Completes(m, mocks) /\ Derivable(m) # {}
  /\ \A i \in Derivable(m) : m.steps[i].requires # {}

(* The baseline run of a seed may script its loop steps; the bundle that   *)
(* is pinned has no scripts.                                               *)
FullMocks(m, bundle) == [bundle EXCEPT !.scripts = Names(m)]

-----------------------------------------------------------------------------
Idle == [pc |-> "idle", candidate |-> None, baseline |-> None, bundle |-> None,
         todo |-> <<>>, layer |-> None, known |-> 0]

Init ==
  /\ seed \in {s \in Seeds : /\ Resolves(s.manifest)
                            /\ Derives(s.manifest, FullMocks(s.manifest, s.bundle))}
  /\ corpus = Derived(seed.manifest, seed.bundle)
  /\ cache = None
  /\ jobs = [j \in Jobs |-> Idle]

(* FileRegressionCorpus.cases. *)
Cases == IF cache = None THEN corpus ELSE cache

(* FileRegressionCorpus.append of each of the new cases: the file of the   *)
(* position after the cached cases, then the cache.                        *)
AppendAll(new) ==
  LET added == Len(Cases) + 1..Len(Cases) + Len(new)
  IN /\ corpus' = [i \in DOMAIN corpus \cup added |->
                    IF i \in added THEN new[i - Len(Cases)] ELSE corpus[i]]
     /\ cache' = Cases \o new

Running(j) == jobs[j].pc = "replay"
Become(j, s) == jobs' = [jobs EXCEPT ![j] = s]

PinsMocksOnly(b, bundle) == \A c \in Range(Cases) : c.bundle = bundle
(* Layer 0: there are cases, and each was pinned with these replay inputs. *)
PinsMatch(b, bundle) ==
  /\ Cases # <<>>
  /\ \A c \in Range(Cases) : c.bundle = bundle /\ c.baseline = b

(* Layers 0 to 2b, in order. *)
RejectedAt(c, b, bundle) ==
  CASE ~ PinsMatch(b, bundle) -> "corpus_integrity"
    [] ~ Resolves(c) -> "resolver"
    [] Widens(b, c) -> "authority"
    [] Relaxes(b, c) -> "schema_relaxation"
    [] OTHER -> None

Called(c, b, bundle, layer) ==
  [pc |-> IF layer = None THEN "replay" ELSE "rejected",
   candidate |-> c, baseline |-> b, bundle |-> bundle,
   todo |-> IF layer = None THEN Cases ELSE <<>>,
   layer |-> layer, known |-> Len(Cases)]
(* Up to the first await: corpus.root() reads the files if nobody has. *)
Admit(j) ==
  /\ jobs[j].pc = "idle"
  /\ \E c \in Manifests, b \in Manifests, bundle \in Bundles :
       Become(j, Called(c, b, bundle, RejectedAt(c, b, bundle)))
  /\ cache' = Cases
  /\ UNCHANGED <<seed, corpus>>

ReplayAnyRefusal(j) ==
  LET job == jobs[j] IN
  /\ Running(j) /\ job.todo # <<>>
  /\ UsableMocks(job.candidate, WithAttack(job.bundle, Head(job.todo)))
  /\ Observed(job.candidate, job.bundle, Head(job.todo)) # None
  /\ Become(j, [job EXCEPT !.todo = Tail(job.todo)])
  /\ UNCHANGED <<seed, corpus, cache>>
(* Layer 3: one case is refused as it was at the baseline. *)
Replay(j) ==
  LET job == jobs[j] IN
  /\ Running(j) /\ job.todo # <<>>
  /\ UsableMocks(job.candidate, WithAttack(job.bundle, Head(job.todo)))
  /\ Observed(job.candidate, job.bundle, Head(job.todo)) = Head(job.todo).expect
  /\ Become(j, [job EXCEPT !.todo = Tail(job.todo)])
  /\ UNCHANGED <<seed, corpus, cache>>

RejectCase(j) ==
  LET job == jobs[j] IN
  /\ Running(j) /\ job.todo # <<>>
  /\ UsableMocks(job.candidate, WithAttack(job.bundle, Head(job.todo)))
  /\ Observed(job.candidate, job.bundle, Head(job.todo)) # Head(job.todo).expect
  /\ Become(j, [job EXCEPT !.pc = "rejected", !.layer = "corpus", !.todo = <<>>])
  /\ UNCHANGED <<seed, corpus, cache>>

(* run_containment raises TestingError, which admit does not handle. *)
ReplayRaises(j) ==
  LET job == jobs[j] IN
  /\ Running(j) /\ job.todo # <<>>
  /\ ~ UsableMocks(job.candidate, WithAttack(job.bundle, Head(job.todo)))
  /\ Become(j, [job EXCEPT !.pc = "raised", !.todo = <<>>])
  /\ UNCHANGED <<seed, corpus, cache>>

CaseKey(c) == <<c.target, c.kind, c.payload>>
(* The cases of the growth run the corpus does not have yet. *)
FreshSlots(j) ==
  LET job == jobs[j]
  IN {k \in Slots(job.candidate) : \A d \in Range(Cases) :
        CaseKey(d) # CaseKey(CaseAt(job.candidate, job.bundle, k))}
Fresh(j) == CasesAt(jobs[j].candidate, jobs[j].bundle, FreshSlots(j))

Growable(j) == Derives(jobs[j].candidate, jobs[j].bundle)
Replayed(j) == Running(j) /\ jobs[j].todo = <<>>
Admitted(j) == Become(j, [jobs[j] EXCEPT !.pc = "admitted"])

(* The growth run does not complete, derives nothing, or the sponsor is    *)
(* blank: the admission stands.                                            *)
AdmitWithoutGrowth(j) ==
  /\ Replayed(j) /\ Admitted(j)
  /\ UNCHANGED <<seed, corpus, cache>>

AdmitAndGrow(j) ==
  /\ Replayed(j) /\ Growable(j)
  /\ AppendAll(Fresh(j))
  /\ Admitted(j)
  /\ UNCHANGED seed

(* Some of the fresh cases are appended, then the write of one raises:     *)
(* the call returns no verdict.                                            *)
GrowthStops(j) ==
  /\ Replayed(j) /\ Growable(j) /\ Fresh(j) # <<>>
  /\ \E k \in 0..Len(Fresh(j)) - 1 : AppendAll(SubSeq(Fresh(j), 1, k))
  /\ Become(j, [jobs[j] EXCEPT !.pc = "raised"])
  /\ UNCHANGED seed

(* The process dies, also after a GrowthStops in the middle of an append:  *)
(* calls end and the next one reads the files.                             *)
Restart ==
  /\ cache # None
  /\ cache' = None
  /\ jobs' = [j \in Jobs |->
       IF Running(j) THEN [jobs[j] EXCEPT !.pc = "raised", !.todo = <<>>] ELSE jobs[j]]
  /\ UNCHANGED <<seed, corpus>>

Next ==
  \/ Restart
  \/ \E j \in Jobs :
       \/ Admit(j) \/ Replay(j) \/ RejectCase(j) \/ ReplayRaises(j)
       \/ AdmitWithoutGrowth(j) \/ AdmitAndGrow(j) \/ GrowthStops(j)

Spec == Init /\ [][Next]_vars

-----------------------------------------------------------------------------
(* Whatever baselines the callers pass, an admitted candidate has no tool  *)
(* the pipeline the corpus was seeded from did not have, and accepts no    *)
(* input its steps did not accept there.                                   *)
AuthorityAnchored == \A j \in Jobs : jobs[j].pc = "admitted" =>
  /\ ~ Widens(seed.manifest, jobs[j].candidate)
  /\ ~ Relaxes(seed.manifest, jobs[j].candidate)

(* An admitted candidate refuses every provocation the corpus held when    *)
(* its call began, in the way the corpus pins.  The calls that overlap it  *)
(* may have added cases since.                                             *)
KnownPropertiesKept == \A j \in Jobs : jobs[j].pc = "admitted" =>
  \A i \in 1..jobs[j].known :
    Observed(jobs[j].candidate, corpus[i].bundle, corpus[i]) = corpus[i].expect

(* Every case freezes what the pipeline it was derived from does, growth   *)
(* that overlaps, is cut short by a failing write or follows a restart     *)
(* repeats no case, and the process replays exactly the cases on file.     *)
CorpusIsGenuine ==
  /\ \A i \in DOMAIN corpus :
       Observed(corpus[i].baseline, corpus[i].bundle, corpus[i]) = corpus[i].expect
  /\ \A i, k \in DOMAIN corpus : i # k => CaseKey(corpus[i]) # CaseKey(corpus[k])
  /\ cache # None => cache = corpus
=============================================================================
