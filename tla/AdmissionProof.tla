--------------------------- MODULE AdmissionProof ---------------------------
(* Proofs about what admits a changed pipeline: RatchetGate, for any catalog,  *)
(* manifests, mocks and calls, and SchemaOracle, which is behind layer 2b, for *)
(* any schemas and documents.                                                  *)
EXTENDS RatchetGate, SchemaOracle, FiniteSetTheorems, SequenceTheorems, WellFoundedInduction, TLAPS

IsList(s) == s \in Seq(Range(s))

\* The files are a list whose first case was pinned to the seeded manifest, and the
\* cache of the process is what is on file.
FilesInv ==
  /\ seed \in Seeds
  /\ IsList(corpus) /\ corpus # <<>>
  /\ corpus[1].baseline = seed.manifest
  /\ cache = None \/ cache = corpus

States == {"idle", "replay", "rejected", "raised", "admitted"}
JobRecords(cases) ==
  [pc : States, candidate : Manifests \cup {None}, baseline : Manifests \cup {None},
   bundle : Bundles \cup {None}, todo : Seq(cases),
   layer : {None, "corpus_integrity", "resolver", "authority", "schema_relaxation", "corpus"},
   known : Nat]

JobsTyped == jobs \in [Jobs -> JobRecords(Range(corpus))]

\* A call past layer 2b was measured against the seeded manifest.
Measured(from, job) ==
  /\ job.candidate \in Manifests /\ job.bundle \in Bundles
  /\ ~ Widens(from.manifest, job.candidate)
  /\ ~ Relaxes(from.manifest, job.candidate)

\* Of the cases on file when its call began, the last Len(todo) are still to be
\* replayed and those before them were refused as pinned.
HalfReplayed(files, job) ==
  /\ job.known <= Len(files) /\ Len(job.todo) <= job.known
  /\ \A i \in 1..job.known : files[i].bundle = job.bundle
  /\ \A i \in 1..Len(job.todo) :
       job.todo[i] = files[job.known - Len(job.todo) + i]
  /\ \A i \in 1..job.known - Len(job.todo) :
       Observed(job.candidate, job.bundle, files[i]) = files[i].expect

Past(job) == job.pc \in {"replay", "admitted"}

CallsInv == \A j \in Jobs : Past(jobs[j]) =>
  /\ Measured(seed, jobs[j]) /\ HalfReplayed(corpus, jobs[j])
  /\ jobs[j].pc = "admitted" => jobs[j].todo = <<>>

GateInv == FilesInv /\ JobsTyped /\ CallsInv

-----------------------------------------------------------------------------
(* What derivation returns.                                                *)

LEMMA SlotsFinite ==
  ASSUME NEW m \in Manifests
  PROVE  /\ Slots(m) \in SUBSET (1..2 * Len(m.steps))
         /\ IsFiniteSet(Slots(m))
  <1>1. Len(m.steps) \in Nat /\ DOMAIN m.steps = 1..Len(m.steps)
    BY GateAssumption
  <1>2. Slots(m) \in SUBSET (1..2 * Len(m.steps))
    <2>1. \A i \in Derivable(m) : i \in 1..Len(m.steps)
      BY <1>1 DEF Derivable
    <2>2. \A i \in 1..Len(m.steps) :
            2 * i - 1 \in 1..2 * Len(m.steps) /\ 2 * i \in 1..2 * Len(m.steps)
      BY <1>1
    <2> QED BY <2>1, <2>2 DEF Slots
  <1>3. IsFiniteSet(1..2 * Len(m.steps))
    BY <1>1, FS_Interval
  <1> QED BY <1>2, <1>3, FS_Subset

LEMMA CasesAreListed ==
  ASSUME NEW m, NEW bundle, NEW slots, IsFiniteSet(slots)
  PROVE  /\ IsList(CasesAt(m, bundle, slots))
         /\ Len(CasesAt(m, bundle, slots)) = Cardinality(slots)
         /\ \A n \in 1..Cardinality(slots) : CasesAt(m, bundle, slots)[n].baseline = m
  <1>1. Cardinality(slots) \in Nat
    BY FS_CardinalityType
  <1>2. \A n : CaseAt(m, bundle, n).baseline = m
    BY DEF CaseAt, SchemaCase, LowCase, Case
  <1> DEFINE s == CasesAt(m, bundle, slots)
  <1>3. /\ DOMAIN s = 1..Cardinality(slots)
        /\ \A n \in DOMAIN s : s[n] = CaseAt(m, bundle, Nth(slots, n))
        /\ s = [n \in 1..Cardinality(slots) |-> s[n]]
    BY DEF CasesAt
  <1>4. s \in [1..Cardinality(slots) -> Range(s)]
    BY <1>3 DEF Range
  <1>5. s \in Seq(Range(s)) /\ Len(s) = Cardinality(slots)
    BY <1>1, <1>4, <1>3
  <1> QED BY <1>2, <1>3, <1>5 DEF IsList

LEMMA DerivedIsPinned ==
  ASSUME NEW m \in Manifests, NEW bundle, NEW mocks, Derives(m, mocks)
  PROVE  /\ IsList(Derived(m, bundle)) /\ Derived(m, bundle) # <<>>
         /\ Derived(m, bundle)[1].baseline = m
  <1>1. PICK i \in Derivable(m) : TRUE
    BY DEF Derives
  <1>2. Slots(m) # {}
    BY <1>1 DEF Slots
  <1>3. IsFiniteSet(Slots(m)) /\ Cardinality(Slots(m)) \in Nat
    BY SlotsFinite, FS_CardinalityType
  <1>4. Cardinality(Slots(m)) # 0
    BY <1>2, <1>3, FS_EmptySet
  <1> QED BY <1>3, <1>4, CasesAreListed DEF Derived, IsList

-----------------------------------------------------------------------------
(* The files only grow.                                                    *)

Grows ==
  /\ IsList(corpus') /\ Len(corpus) <= Len(corpus')
  /\ \A i \in 1..Len(corpus) : corpus'[i] = corpus[i]

LEMMA AppendGrows ==
  ASSUME FilesInv, NEW new, IsList(new), AppendAll(new)
  PROVE  /\ Grows /\ cache' = corpus'
         /\ Len(corpus') = Len(corpus) + Len(new)
         /\ \A i \in Len(corpus) + 1..Len(corpus') : corpus'[i] = new[i - Len(corpus)]
  <1>1. Cases = corpus
    BY DEF Cases, FilesInv
  <1> DEFINE k == Len(corpus)
  <1>2. /\ k \in Nat /\ Len(new) \in Nat
        /\ DOMAIN corpus = 1..k /\ DOMAIN new = 1..Len(new)
    BY DEF FilesInv, IsList
  <1>3. /\ corpus' = [i \in 1..k \cup (k + 1..k + Len(new)) |->
             IF i \in k + 1..k + Len(new) THEN new[i - k] ELSE corpus[i]]
        /\ cache' = corpus \o new
    BY <1>1, <1>2 DEF AppendAll
  <1>4. 1..k \cup (k + 1..k + Len(new)) = 1..k + Len(new)
    BY <1>2
  <1>5. /\ DOMAIN corpus' = 1..k + Len(new)
        /\ \A i \in 1..k : corpus'[i] = corpus[i]
        /\ \A i \in k + 1..k + Len(new) : corpus'[i] = new[i - k]
        /\ corpus' = [i \in 1..k + Len(new) |-> corpus'[i]]
    BY <1>2, <1>3, <1>4
  <1>6. corpus' \in [1..k + Len(new) -> Range(corpus')]
    BY <1>5 DEF Range
  <1>7. corpus' \in Seq(Range(corpus')) /\ Len(corpus') = k + Len(new)
    BY <1>2, <1>5, <1>6
  <1>8. cache' = corpus'
    <2> DEFINE S == Range(corpus) \cup Range(new)
    <2>1. corpus \in Seq(S) /\ new \in Seq(S)
      BY DEF FilesInv, IsList
    <2>2. /\ corpus \o new \in Seq(S) /\ Len(corpus \o new) = k + Len(new)
          /\ \A i \in 1..k + Len(new) :
               (corpus \o new)[i] = IF i <= k THEN corpus[i] ELSE new[i - k]
      BY <2>1
    <2> DEFINE both == corpus \o new
    <2>a. both \in [1..k + Len(new) -> S]
      <3>1. both \in [1..Len(both) -> S]
        BY <2>2, LenProperties
      <3> QED BY <3>1, <2>2
    <2> HIDE DEF both
    <2>3. both = [i \in 1..k + Len(new) |-> both[i]]
      BY <2>a
    <2>4. \A i \in 1..k + Len(new) : (corpus \o new)[i] = corpus'[i]
      BY <1>2, <1>5, <2>2
    <2> QED BY <1>3, <1>5, <2>3, <2>4 DEF both
  <1> QED BY <1>2, <1>5, <1>7, <1>8 DEF Grows, IsList

LEMMA GrowingKeeps ==
  ASSUME FilesInv, Grows, seed' = seed
  PROVE  /\ Range(corpus) \subseteq Range(corpus')
         /\ corpus' # <<>> /\ corpus'[1].baseline = seed'.manifest
         /\ \A job : Measured(seed, job) => Measured(seed', job)
         /\ \A job \in JobRecords(Range(corpus)) : HalfReplayed(corpus, job) =>
              HalfReplayed(corpus', job)
  <1>1. /\ Len(corpus) \in Nat /\ Len(corpus) > 0 /\ Len(corpus') \in Nat
        /\ DOMAIN corpus = 1..Len(corpus) /\ DOMAIN corpus' = 1..Len(corpus')
    BY DEF FilesInv, Grows, IsList
  <1>2. Range(corpus) \subseteq Range(corpus')
    BY <1>1 DEF Grows, Range
  <1>3. corpus' # <<>> /\ corpus'[1].baseline = seed'.manifest
    BY <1>1 DEF Grows, FilesInv
  <1>4. \A job : Measured(seed, job) => Measured(seed', job)
    BY DEF Measured
  <1>5. ASSUME NEW job \in JobRecords(Range(corpus)), HalfReplayed(corpus, job)
        PROVE  HalfReplayed(corpus', job)
    <2>1. job.known \in Nat /\ Len(job.todo) \in Nat
      BY DEF JobRecords
    <2>2. \A i \in 1..job.known : i \in 1..Len(corpus) /\ corpus'[i] = corpus[i]
      BY <1>1, <1>5, <2>1 DEF Grows, HalfReplayed
    <2>3. \A i \in 1..Len(job.todo) :
            job.known - Len(job.todo) + i \in 1..job.known
      BY <1>5, <2>1 DEF HalfReplayed
    <2>4. \A i \in 1..job.known - Len(job.todo) : i \in 1..job.known
      BY <1>5, <2>1 DEF HalfReplayed
    <2> QED BY <1>1, <1>5, <2>1, <2>2, <2>3, <2>4 DEF HalfReplayed, Grows
  <1> QED BY <1>2, <1>3, <1>4, <1>5

-----------------------------------------------------------------------------
(* The invariant.                                                          *)

LEMMA GateInvInit == Init => GateInv
  <1> SUFFICES ASSUME Init PROVE GateInv
    OBVIOUS
  <1>1. FilesInv
    <2>1. seed.manifest \in Manifests
      BY GateAssumption DEF Init
    <2> QED BY <2>1, DerivedIsPinned DEF Init, FilesInv
  <1>2. JobsTyped
    BY DEF Init, JobsTyped, JobRecords, Idle, States
  <1>3. CallsInv
    BY DEF Init, CallsInv, Past, Idle
  <1> QED BY <1>1, <1>2, <1>3 DEF GateInv

LEMMA FilesKept ==
  ASSUME GateInv, seed' = seed, corpus' = corpus \/ Grows
  PROVE  /\ Grows
         /\ IsList(corpus') /\ corpus' # <<>> /\ corpus'[1].baseline = seed'.manifest
         /\ Range(corpus) \subseteq Range(corpus')
         /\ \A job : Measured(seed, job) => Measured(seed', job)
         /\ \A job \in JobRecords(Range(corpus)) : HalfReplayed(corpus, job) =>
              HalfReplayed(corpus', job)
  <1>1. Grows
    BY DEF Grows, GateInv, FilesInv, IsList
  <1>2. FilesInv
    BY DEF GateInv
  <1> QED BY <1>1, <1>2, GrowingKeeps DEF Grows

\* It suffices to look at the record of the call that moves.
LEMMA OneCallMoves ==
  ASSUME GateInv, NEW j \in Jobs, NEW job,
         seed' = seed, corpus' = corpus \/ Grows, cache' = corpus' \/ UNCHANGED <<corpus, cache>>,
         jobs' = [jobs EXCEPT ![j] = job],
         job \in JobRecords(Range(corpus')),
         Past(job) => /\ Measured(seed', job) /\ HalfReplayed(corpus', job)
                      /\ job.pc = "admitted" => job.todo = <<>>
  PROVE  GateInv'
  <1>0. /\ IsList(corpus') /\ corpus' # <<>> /\ corpus'[1].baseline = seed'.manifest
        /\ Range(corpus) \subseteq Range(corpus')
        /\ \A c : Measured(seed, c) => Measured(seed', c)
        /\ \A c \in JobRecords(Range(corpus)) : HalfReplayed(corpus, c) => HalfReplayed(corpus', c)
    BY FilesKept
  <1>1. FilesInv'
    BY <1>0 DEF GateInv, FilesInv
  <1>2. jobs \in [Jobs -> JobRecords(Range(corpus))]
    BY DEF GateInv, JobsTyped
  <1>3. \A c \in JobRecords(Range(corpus)) : c \in JobRecords(Range(corpus'))
    <2>1. Seq(Range(corpus)) \subseteq Seq(Range(corpus'))
      BY <1>0
    <2> QED BY <2>1 DEF JobRecords
  <1>4. JobsTyped'
    BY <1>2, <1>3 DEF JobsTyped
  <1>5. CallsInv'
    <2> SUFFICES ASSUME NEW k \in Jobs, Past(jobs'[k])
                 PROVE  /\ Measured(seed', jobs'[k]) /\ HalfReplayed(corpus', jobs'[k])
                        /\ jobs'[k].pc = "admitted" => jobs'[k].todo = <<>>
      BY DEF CallsInv, Past
    <2>1. CASE k = j
      <3>1. jobs'[k] = job
        BY <1>2, <2>1
      <3> QED BY <3>1
    <2>2. CASE k # j
      <3>1. jobs'[k] = jobs[k]
        BY <1>2, <2>2
      <3>2. PICK c \in JobRecords(Range(corpus)) : c = jobs[k]
        BY <1>2
      <3>3. Measured(seed, c) /\ HalfReplayed(corpus, c) /\ (c.pc = "admitted" => c.todo = <<>>)
        BY <3>1, <3>2 DEF GateInv, CallsInv
      <3> QED BY <1>0, <3>1, <3>2, <3>3
    <2> QED BY <2>1, <2>2
  <1> QED BY <1>1, <1>4, <1>5 DEF GateInv

LEMMA SeqIsList ==
  ASSUME NEW S, NEW s \in Seq(S)
  PROVE  IsList(s)
  <1>1. Len(s) \in Nat /\ s \in [1..Len(s) -> S] /\ DOMAIN s = 1..Len(s)
    BY LenProperties
  <1>2. s \in [1..Len(s) -> Range(s)]
    BY <1>1 DEF Range
  <1> QED BY <1>1, <1>2 DEF IsList

LEMMA FreshIsList ==
  ASSUME NEW j \in Jobs, jobs[j].candidate \in Manifests
  PROVE  IsList(Fresh(j))
  <1>1. IsFiniteSet(Slots(jobs[j].candidate))
    BY SlotsFinite
  <1>2. FreshSlots(j) \in SUBSET Slots(jobs[j].candidate)
    BY DEF FreshSlots
  <1>3. IsFiniteSet(FreshSlots(j))
    BY <1>1, <1>2, FS_Subset
  <1> QED BY <1>3, CasesAreListed DEF Fresh

LEMMA GateInvNext == GateInv /\ [Next]_vars => GateInv'
  <1> SUFFICES ASSUME GateInv, [Next]_vars PROVE GateInv'
    OBVIOUS
  <1>a. /\ IsList(corpus) /\ corpus # <<>> /\ corpus[1].baseline = seed.manifest
        /\ Cases = corpus /\ Len(corpus) \in Nat /\ Len(corpus) >= 1
        /\ DOMAIN corpus = 1..Len(corpus)
        /\ corpus \in Seq(Range(corpus))
    BY DEF GateInv, FilesInv, Cases, IsList
  <1>b. jobs \in [Jobs -> JobRecords(Range(corpus))]
    BY DEF GateInv, JobsTyped
  <1>1. ASSUME NEW j \in Jobs, Admit(j) PROVE GateInv'
    <2>1. PICK c \in Manifests, b \in Manifests, bundle \in Bundles :
            Become(j, Called(c, b, bundle, RejectedAt(c, b, bundle)))
      BY <1>1 DEF Admit
    <2>2. PICK layer : layer = RejectedAt(c, b, bundle)
      OBVIOUS
    <2> DEFINE job == [pc |-> IF layer = None THEN "replay" ELSE "rejected",
                       candidate |-> c, baseline |-> b, bundle |-> bundle,
                       todo |-> IF layer = None THEN corpus ELSE <<>>,
                       layer |-> layer, known |-> Len(corpus)]
    <2>3. jobs' = [jobs EXCEPT ![j] = job]
      <3>1. Called(c, b, bundle, layer) = job
        BY <1>a DEF Called
      <3> HIDE DEF job
      <3> QED BY <2>1, <2>2, <3>1 DEF Become
    <2>4. seed' = seed /\ corpus' = corpus /\ cache' = corpus'
      BY <1>1, <1>a DEF Admit
    <2>5. job \in JobRecords(Range(corpus'))
      <3>1. layer \in {None, "corpus_integrity", "resolver", "authority",
                      "schema_relaxation"}
        BY <2>2 DEF RejectedAt
      <3> QED BY <1>a, <2>4, <3>1 DEF JobRecords, States
    <2>6. ASSUME Past(job)
          PROVE  Measured(seed, job) /\ HalfReplayed(corpus, job) /\ job.pc # "admitted"
      <3>1. layer = None /\ job.pc = "replay" /\ job.todo = corpus
        BY <2>6 DEF Past
      <3>2. PinsMatch(b, bundle) /\ ~ Widens(b, c) /\ ~ Relaxes(b, c)
        BY <2>2, <3>1, GateAssumption DEF RejectedAt
      <3>3. \A i \in 1..Len(corpus) : corpus[i].bundle = bundle /\ corpus[i].baseline = b
        BY <1>a, <3>2 DEF PinsMatch, Range
      <3>4. b = seed.manifest
        BY <1>a, <3>3
      <3>5. Measured(seed, job)
        BY <3>2, <3>4 DEF Measured
      <3>6. HalfReplayed(corpus, job)
        BY <1>a, <3>1, <3>3 DEF HalfReplayed
      <3> QED BY <3>1, <3>5, <3>6
    <2> HIDE DEF job
    <2> QED BY <2>3, <2>4, <2>5, <2>6, OneCallMoves
  <1>2. ASSUME NEW j \in Jobs, Replay(j) PROVE GateInv'
    <2>1. PICK old \in JobRecords(Range(corpus)) : old = jobs[j]
      BY <1>b
    <2> DEFINE job == [old EXCEPT !.todo = Tail(old.todo)]
    <2>2. /\ jobs' = [jobs EXCEPT ![j] = job] /\ old.pc = "replay" /\ old.todo # <<>>
          /\ Observed(old.candidate, old.bundle, Head(old.todo)) = Head(old.todo).expect
          /\ seed' = seed /\ corpus' = corpus /\ cache' = cache
      BY <1>2, <2>1 DEF Replay, Become, Running
    <2>3. Measured(seed, old) /\ HalfReplayed(corpus, old)
      BY <2>1, <2>2 DEF GateInv, CallsInv, Past
    <2>4. /\ old.todo \in Seq(Range(corpus)) /\ old.known \in Nat
          /\ Len(old.todo) \in Nat /\ Len(old.todo) >= 1
      BY <2>2 DEF JobRecords
    <2>5. /\ Tail(old.todo) \in Seq(Range(corpus)) /\ Len(Tail(old.todo)) = Len(old.todo) - 1
          /\ \A i \in 1..Len(old.todo) - 1 : Tail(old.todo)[i] = old.todo[i + 1]
          /\ Head(old.todo) = old.todo[1]
      BY <2>2, <2>4, HeadTailProperties
    <2>6. /\ job \in JobRecords(Range(corpus)) /\ job.pc = "replay"
          /\ job.candidate = old.candidate /\ job.bundle = old.bundle
          /\ job.known = old.known /\ job.todo = Tail(old.todo)
      BY <2>2, <2>5 DEF JobRecords
    <2> HIDE DEF job
    <2>7. HalfReplayed(corpus, job)
      <3> DEFINE n == old.known - Len(old.todo)
      <3>1. n \in Nat /\ n + 1 \in 1..old.known /\ job.known - Len(job.todo) = n + 1
        BY <2>3, <2>4, <2>5, <2>6 DEF HalfReplayed
      <3>2. corpus[n + 1] = old.todo[1]
        BY <2>3, <2>4 DEF HalfReplayed
      <3>3. \A i \in 1..n + 1 :
              Observed(job.candidate, job.bundle, corpus[i]) = corpus[i].expect
        <4> TAKE i \in 1..n + 1
        <4>1. CASE i = n + 1
          BY <2>2, <2>5, <2>6, <3>2, <4>1
        <4>2. CASE i # n + 1
          <5>1. i \in 1..n
            BY <3>1, <4>2
          <5> QED BY <2>3, <2>6, <5>1 DEF HalfReplayed
        <4> QED BY <4>1, <4>2
      <3>4. \A i \in 1..Len(job.todo) : job.todo[i] = corpus[n + 1 + i]
        <4> TAKE i \in 1..Len(job.todo)
        <4>1. i \in Nat /\ i + 1 \in 1..Len(old.todo) /\ job.todo[i] = old.todo[i + 1]
          BY <2>4, <2>5, <2>6
        <4>2. old.todo[i + 1] = corpus[n + (i + 1)]
          BY <2>3, <4>1 DEF HalfReplayed
        <4>3. n + (i + 1) = n + 1 + i
          BY <3>1, <4>1
        <4> QED BY <4>1, <4>2, <4>3
      <3>5. job.known <= Len(corpus) /\ Len(job.todo) <= job.known
        BY <1>a, <2>3, <2>4, <2>5, <2>6 DEF HalfReplayed
      <3>6. \A i \in 1..job.known : corpus[i].bundle = job.bundle
        BY <2>3, <2>6 DEF HalfReplayed
      <3> HIDE DEF n
      <3> QED BY <3>1, <3>3, <3>4, <3>5, <3>6 DEF HalfReplayed
    <2>8. Measured(seed, job)
      BY <2>3, <2>6 DEF Measured
    <2>9. job \in JobRecords(Range(corpus')) /\ job.pc # "admitted"
      BY <2>2, <2>6
    <2> QED BY <2>2, <2>7, <2>8, <2>9, OneCallMoves
  <1>3. ASSUME NEW j \in Jobs, RejectCase(j) PROVE GateInv'
    <2>1. PICK old \in JobRecords(Range(corpus)) : old = jobs[j]
      BY <1>b
    <2> DEFINE job == [old EXCEPT !.pc = "rejected", !.layer = "corpus", !.todo = <<>>]
    <2>2. /\ jobs' = [jobs EXCEPT ![j] = job]
          /\ seed' = seed /\ corpus' = corpus /\ cache' = cache
      BY <1>3, <2>1 DEF RejectCase, Become
    <2>3. <<>> \in Seq(Range(corpus))
      BY EmptySeq
    <2>4. job \in JobRecords(Range(corpus))
      BY <2>3 DEF JobRecords, States
    <2>5. ~ Past(job)
      BY DEF JobRecords, Past
    <2> HIDE DEF job
    <2> QED BY <2>2, <2>4, <2>5, OneCallMoves
  <1>4. ASSUME NEW j \in Jobs, ReplayRaises(j) PROVE GateInv'
    <2>1. PICK old \in JobRecords(Range(corpus)) : old = jobs[j]
      BY <1>b
    <2> DEFINE job == [old EXCEPT !.pc = "raised", !.todo = <<>>]
    <2>2. /\ jobs' = [jobs EXCEPT ![j] = job]
          /\ seed' = seed /\ corpus' = corpus /\ cache' = cache
      BY <1>4, <2>1 DEF ReplayRaises, Become
    <2>3. <<>> \in Seq(Range(corpus))
      BY EmptySeq
    <2>4. job \in JobRecords(Range(corpus))
      BY <2>3 DEF JobRecords, States
    <2>5. ~ Past(job)
      BY DEF JobRecords, Past
    <2> HIDE DEF job
    <2> QED BY <2>2, <2>4, <2>5, OneCallMoves
  \* A replayed call that becomes admitted keeps what it was measured by.
  <1>c. ASSUME NEW j \in Jobs, Replayed(j), Admitted(j), seed' = seed,
               corpus' = corpus \/ Grows, cache' = corpus' \/ UNCHANGED <<corpus, cache>>
        PROVE  GateInv'
    <2>1. PICK old \in JobRecords(Range(corpus)) : old = jobs[j]
      BY <1>b
    <2> DEFINE job == [old EXCEPT !.pc = "admitted"]
    <2>2. jobs' = [jobs EXCEPT ![j] = job] /\ old.pc = "replay" /\ old.todo = <<>>
      BY <1>c, <2>1 DEF Admitted, Become, Replayed, Running
    <2>3. /\ job \in JobRecords(Range(corpus)) /\ job.todo = <<>>
          /\ job.candidate = old.candidate /\ job.bundle = old.bundle
          /\ job.known = old.known
      BY <2>2 DEF JobRecords, States
    <2> HIDE DEF job
    <2>4. Measured(seed, old) /\ HalfReplayed(corpus, old)
      BY <2>1, <2>2 DEF GateInv, CallsInv, Past
    <2>5. Measured(seed, job) /\ HalfReplayed(corpus, job)
      BY <2>2, <2>3, <2>4 DEF Measured, HalfReplayed
    <2>6. /\ Range(corpus) \subseteq Range(corpus')
          /\ Measured(seed', job) /\ HalfReplayed(corpus', job)
      BY <1>c, <2>3, <2>5, FilesKept
    <2>7. job \in JobRecords(Range(corpus'))
      <3>1. Seq(Range(corpus)) \subseteq Seq(Range(corpus'))
        BY <2>6
      <3> QED BY <2>3, <3>1 DEF JobRecords
    <2> QED BY <1>c, <2>2, <2>3, <2>6, <2>7, OneCallMoves
  <1>5. ASSUME NEW j \in Jobs, AdmitWithoutGrowth(j) PROVE GateInv'
    BY <1>5, <1>c DEF AdmitWithoutGrowth
  <1>d. ASSUME NEW j \in Jobs, Replayed(j)
        PROVE  jobs[j].candidate \in Manifests
    BY <1>d DEF GateInv, CallsInv, Past, Measured, Replayed, Running
  <1>6. ASSUME NEW j \in Jobs, AdmitAndGrow(j) PROVE GateInv'
    <2>1. Replayed(j) /\ Admitted(j) /\ seed' = seed /\ AppendAll(Fresh(j))
      BY <1>6 DEF AdmitAndGrow
    <2>2. IsList(Fresh(j))
      BY <1>d, <2>1, FreshIsList
    <2>3. Grows /\ cache' = corpus'
      BY <2>1, <2>2, AppendGrows DEF GateInv
    <2> QED BY <1>c, <2>1, <2>3
  <1>7. ASSUME NEW j \in Jobs, GrowthStops(j) PROVE GateInv'
    <2>1. PICK k \in 0..Len(Fresh(j)) - 1 : AppendAll(SubSeq(Fresh(j), 1, k))
      BY <1>7 DEF GrowthStops
    <2>2. Replayed(j) /\ seed' = seed
      BY <1>7 DEF GrowthStops
    <2>3. IsList(SubSeq(Fresh(j), 1, k))
      <3>1. Fresh(j) \in Seq(Range(Fresh(j))) /\ Len(Fresh(j)) \in Nat
        BY <1>d, <2>2, FreshIsList DEF IsList
      <3>2. \A i \in 1..k : Fresh(j)[i] \in Range(Fresh(j))
        BY <3>1
      <3>3. SubSeq(Fresh(j), 1, k) \in Seq(Range(Fresh(j)))
        BY <3>1, <3>2, SubSeqProperties
      <3> QED BY <3>3, SeqIsList
    <2>4. Grows /\ cache' = corpus'
      BY <2>1, <2>3, AppendGrows DEF GateInv
    <2>5. PICK old \in JobRecords(Range(corpus)) : old = jobs[j]
      BY <1>b
    <2> DEFINE job == [old EXCEPT !.pc = "raised"]
    <2>6. jobs' = [jobs EXCEPT ![j] = job]
      BY <1>7, <2>5 DEF GrowthStops, Become
    <2>7. job \in JobRecords(Range(corpus')) /\ ~ Past(job)
      <3>1. Range(corpus) \subseteq Range(corpus')
        BY <2>2, <2>4, FilesKept
      <3>2. Seq(Range(corpus)) \subseteq Seq(Range(corpus'))
        BY <3>1
      <3> QED BY <3>2 DEF JobRecords, States, Past
    <2> HIDE DEF job
    <2> QED BY <2>2, <2>4, <2>6, <2>7, OneCallMoves
  <1>8. CASE Restart
    <2>1. seed' = seed /\ corpus' = corpus /\ cache' = None
      BY <1>8 DEF Restart
    <2>2. ASSUME NEW j \in Jobs
          PROVE  /\ jobs'[j] \in JobRecords(Range(corpus))
                 /\ jobs'[j] = jobs[j] \/ ~ Past(jobs'[j])
      <3>1. PICK old \in JobRecords(Range(corpus)) : old = jobs[j]
        BY <1>b
      <3>2. jobs'[j] = IF old.pc = "replay" THEN [old EXCEPT !.pc = "raised", !.todo = <<>>]
                       ELSE old
        BY <1>8, <3>1 DEF Restart, Running
      <3>3. <<>> \in Seq(Range(corpus))
        BY EmptySeq
      <3>4. CASE old.pc = "replay"
        <4> DEFINE job == [old EXCEPT !.pc = "raised", !.todo = <<>>]
        <4>1. job \in JobRecords(Range(corpus))
          BY <3>3 DEF JobRecords, States
        <4>2. ~ Past(job)
          BY DEF JobRecords, Past
        <4> QED BY <3>2, <3>4, <4>1, <4>2
      <3> QED BY <3>1, <3>2, <3>4
    <2>3. jobs' \in [Jobs -> JobRecords(Range(corpus))]
      BY <1>8, <2>2 DEF Restart
    <2>4. FilesInv'
      BY <2>1 DEF GateInv, FilesInv, IsList
    <2>5. CallsInv'
      BY <2>1, <2>2 DEF GateInv, CallsInv
    <2> QED BY <2>1, <2>3, <2>4, <2>5 DEF GateInv, JobsTyped
  <1>9. CASE UNCHANGED vars
    BY <1>9 DEF vars, GateInv, FilesInv, IsList, JobsTyped, CallsInv
  <1> QED BY <1>1, <1>2, <1>3, <1>4, <1>5, <1>6, <1>7, <1>8, <1>9 DEF Next

\* The inductive invariant of the gate, from which the next two theorems follow
\* (files and cache agree, baselines are measured, replay has refused what it passed).
THEOREM GateAlways == Spec => []GateInv
  BY GateInvInit, GateInvNext, PTL DEF Spec

\* For any manifests, bundles and callers, in any interleaving of calls, failing
\* writes and restarts: what is admitted has no tool and accepts no input that the
\* pipeline the corpus was seeded from did not.
THEOREM NothingWidens == Spec => []AuthorityAnchored
  <1>1. GateInv => AuthorityAnchored
    BY DEF GateInv, CallsInv, Past, Measured, AuthorityAnchored
  <1> QED BY <1>1, GateAlways, PTL

\* Likewise, what is admitted refuses, as pinned, every case that was on file when
\* its call began.
THEOREM RefusalsKept == Spec => []KnownPropertiesKept
  <1>1. ASSUME GateInv, NEW j \in Jobs, jobs[j].pc = "admitted",
               NEW i \in 1..jobs[j].known
        PROVE  Observed(jobs[j].candidate, corpus[i].bundle, corpus[i]) = corpus[i].expect
    <2>1. jobs[j].known \in Nat /\ jobs[j].todo = <<>> /\ HalfReplayed(corpus, jobs[j])
      BY <1>1 DEF GateInv, JobsTyped, JobRecords, CallsInv, Past
    <2>2. Len(jobs[j].todo) = 0
      BY <2>1
    <2>3. i \in 1..jobs[j].known - Len(jobs[j].todo)
      BY <2>1, <2>2
    <2> QED BY <2>1, <2>3 DEF HalfReplayed
  <1>2. GateInv => KnownPropertiesKept
    BY <1>1 DEF KnownPropertiesKept
  <1> QED BY <1>2, GateAlways, PTL

-----------------------------------------------------------------------------
(* What a derived case observes.                                           *)

LEMMA Least ==
  ASSUME NEW S \in SUBSET Nat, S # {}
  PROVE  Min(S) \in S /\ \A y \in S : Min(S) <= y
  <1> DEFINE R == {ss \in Nat \X Nat : ss[1] < ss[2]}
  <1>1. IsWellFoundedOn(R, Nat)
    BY NatLessThanWellFounded DEF OpToRel
  <1> HIDE DEF R
  <1>2. PICK x \in S : \A y \in S : ~ (<<y, x>> \in R)
    BY <1>1, WFMin
  <1>3. ASSUME NEW y \in S PROVE x <= y
    <2>1. <<y, x>> \notin R
      BY <1>2
    <2>2. ~ (y < x)
      BY <2>1 DEF R
    <2> QED BY <2>2
  <1> QED BY <1>3 DEF Min

LEMMA NamesDistinct ==
  ASSUME NEW m \in Manifests, Resolves(m),
         NEW i \in DOMAIN m.steps, NEW k \in DOMAIN m.steps,
         m.steps[i].name = m.steps[k].name
  PROVE  i = k
  <1> DEFINE n == Len(m.steps)
             f == [x \in 1..n |-> m.steps[x].name]
  <1>1. n \in Nat /\ DOMAIN m.steps = 1..n /\ Cardinality(Names(m)) = n
    BY GateAssumption DEF Resolves
  <1>2. f \in Surjection(1..n, Names(m))
    <2>1. \A x \in 1..n : m.steps[x] \in Steps(m)
      BY <1>1 DEF Steps, Range
    <2>2. f \in [1..n -> Names(m)]
      BY <2>1 DEF Names
    <2>3. ASSUME NEW t \in Names(m) PROVE \E x \in 1..n : f[x] = t
      <3>1. PICK d \in Steps(m) : t = d.name
        BY <2>3 DEF Names
      <3>2. PICK x \in 1..n : m.steps[x] = d
        BY <1>1 DEF Steps, Range
      <3> QED BY <3>1, <3>2
    <2> HIDE DEF f, n
    <2> QED BY <2>2, <2>3 DEF Surjection
  <1>3. IsFiniteSet(1..n) /\ Cardinality(1..n) = n
    BY <1>1, FS_Interval
  <1>4. f \in Injection(1..n, Names(m))
    <2> HIDE DEF f, n
    <2> QED BY <1>1, <1>2, <1>3, FS_Surjection
  <1>5. f[i] = f[k] => i = k
    <2> HIDE DEF f
    <2> QED BY <1>1, <1>4 DEF Injection, IsInjective
  <1> QED BY <1>1, <1>5

\* Nth lists every slot once.
LEMMA Ranked ==
  ASSUME NEW S \in SUBSET Nat, IsFiniteSet(S)
  PROVE  /\ Cardinality(S) \in Nat
         /\ \A k \in 1..Cardinality(S) : Nth(S, k) \in S
         /\ \A i \in S : \E k \in 1..Cardinality(S) : Nth(S, k) = i
         /\ \A k, l \in 1..Cardinality(S) : Nth(S, k) = Nth(S, l) => k = l
  <1> DEFINE upto(i) == {j \in S : j <= i}
             rank == [i \in S |-> Cardinality(upto(i))]
             n == Cardinality(S)
  <1>1. n \in Nat
    BY FS_CardinalityType
  <1>2. ASSUME NEW i \in S
        PROVE  IsFiniteSet(upto(i)) /\ Cardinality(upto(i)) \in 1..n
    <2>1. upto(i) \in SUBSET S /\ i \in upto(i)
      OBVIOUS
    <2>2. IsFiniteSet(upto(i)) /\ Cardinality(upto(i)) <= n
      BY <2>1, FS_Subset
    <2>3. Cardinality(upto(i)) \in Nat /\ Cardinality(upto(i)) # 0
      BY <2>1, <2>2, FS_CardinalityType, FS_EmptySet
    <2> QED BY <1>1, <2>2, <2>3
  <1>3. ASSUME NEW i \in S, NEW j \in S, Cardinality(upto(i)) = Cardinality(upto(j))
        PROVE  i = j
    <2>1. ASSUME NEW x \in S, NEW y \in S, x < y, Cardinality(upto(x)) = Cardinality(upto(y))
          PROVE  FALSE
      <3>1. upto(x) \in SUBSET upto(y) /\ y \in upto(y) /\ y \notin upto(x)
        <4>1. \A z \in S : z <= x => z <= y
          <5> SUFFICES ASSUME NEW z \in S, z <= x PROVE z <= y
            OBVIOUS
          <5>1. z \in Nat /\ x \in Nat /\ y \in Nat
            OBVIOUS
          <5> QED BY <2>1, <5>1
        <4>2. y <= y /\ ~(y <= x)
          <5>1. x \in Nat /\ y \in Nat
            OBVIOUS
          <5> QED BY <2>1, <5>1
        <4> QED BY <4>1, <4>2
      <3>2. upto(y) = upto(x)
        BY <1>2, <2>1, <3>1, FS_Subset
      <3> QED BY <3>1, <3>2
    <2> QED BY <1>3, <2>1
  <1>4. rank \in Surjection(S, 1..n)
    <2>1. rank \in Injection(S, 1..n)
      BY <1>2, <1>3 DEF Injection, IsInjective
    <2>2. IsFiniteSet(1..n) /\ Cardinality(S) = Cardinality(1..n)
      BY <1>1, FS_Interval
    <2> HIDE DEF rank, n
    <2> QED BY <2>1, <2>2, FS_Injection
  <1>5. ASSUME NEW k \in 1..n
        PROVE  Nth(S, k) \in S /\ Cardinality(upto(Nth(S, k))) = k
    <2>1. \E i \in S : Cardinality(upto(i)) = k
      BY <1>4 DEF Surjection
    <2>2. Nth(S, k) = CHOOSE i \in S : Cardinality(upto(i)) = k
      BY DEF Nth
    <2> QED BY <2>1, <2>2
  <1>6. ASSUME NEW i \in S PROVE \E k \in 1..n : Nth(S, k) = i
    <2>1. Cardinality(upto(i)) \in 1..n
      BY <1>2
    <2>2. Nth(S, Cardinality(upto(i))) = i
      BY <1>3, <1>5, <2>1
    <2> QED BY <2>1, <2>2
  <1>7. ASSUME NEW k \in 1..n, NEW l \in 1..n, Nth(S, k) = Nth(S, l) PROVE k = l
    BY <1>5, <1>7
  <1> QED BY <1>1, <1>5, <1>6, <1>7

\* None is no case.
NoneIsNoCase ==
  \A m, bundle, d, kind, payload, expect : Case(m, bundle, d, kind, payload, expect) # None

\* A completed run was stopped by no step.
LEMMA CompletesAll ==
  ASSUME NEW m \in Manifests, NEW mocks, Completes(m, mocks), NEW k \in DOMAIN m.steps
  PROVE  StopAt(m, m.steps[k], mocks, None) = None
  <1> DEFINE stops == {i \in DOMAIN m.steps : StopAt(m, m.steps[i], mocks, None) # None}
  <1>1. stops \in SUBSET Nat
    BY GateAssumption
  <1>2. CASE stops = {}
    BY <1>2
  <1>3. CASE stops # {}
    <2>1. StopAt(m, m.steps[Min(stops)], mocks, None) = None
      BY <1>3 DEF Completes, Verdict
    <2>2. Min(stops) \in stops
      <3> QED BY <1>1, <1>3, Least
    <2> QED BY <2>1, <2>2
  <1> QED BY <1>2, <1>3

\* The mocks of a bundle, with or without the scripts of the seed's run.
SameMocks(bundle, mocks) ==
  bundle.responses = mocks.responses /\ bundle.tools = mocks.tools

\* A case that a derivable step refuses is refused there and nowhere before.
LEMMA RefusedThere ==
  ASSUME NEW m \in Manifests, Resolves(m), NEW mocks, Completes(m, mocks),
         NEW bundle, SameMocks(bundle, mocks), NEW i \in Derivable(m),
         NEW attack, attack # None, attack.target = m.steps[i].name,
         StopAt(m, m.steps[i], bundle, attack) # None
  PROVE  Verdict(m, bundle, attack) = StopAt(m, m.steps[i], bundle, attack)
  <1> DEFINE stops == {k \in DOMAIN m.steps : StopAt(m, m.steps[k], bundle, attack) # None}
  <1>1. Len(m.steps) \in Nat /\ DOMAIN m.steps = 1..Len(m.steps)
    BY GateAssumption
  <1>2. i \in DOMAIN m.steps /\ i \in stops
    BY DEF Derivable
  <1>3. ASSUME NEW k \in DOMAIN m.steps, k < i
        PROVE  StopAt(m, m.steps[k], bundle, attack) = None
    <2> DEFINE d == m.steps[k]
    <2>1. StopAt(m, d, mocks, None) = None
      BY CompletesAll
    <2>2. ~ Loop(d)
      BY <1>1, <1>2, <1>3 DEF Derivable
    <2>3. ~ Provoked(d, attack) /\ ~ Provoked(d, None)
      BY <1>1, <1>2, <1>3, NamesDistinct DEF Provoked
    <2> HIDE DEF d
    <2>4. CASE ~ d.model
      <3>1. ~ OneShot(d)
        BY <2>4 DEF OneShot
      <3>2. d.tools \subseteq mocks.tools
        BY <2>1, <2>2, <2>4, <3>1, GateAssumption DEF StopAt
      <3>3. StopAt(m, d, bundle, attack) = None
        BY <2>2, <2>4, <3>1, <3>2 DEF StopAt, SameMocks
      <3> QED BY <3>3 DEF d
    <2>5. CASE OneShot(d)
      <3>1. ~ (~ d.model)
        BY <2>5 DEF OneShot
      <3>2. d.name \in mocks.responses /\ d.requires \subseteq Answer(d, None)
        BY <2>1, <2>2, <2>3, <2>5, <3>1, GateAssumption DEF StopAt
      <3>3. Answer(d, None) = Answer(d, attack) /\ ~ LowConfidence(m, d, attack)
        BY <2>3 DEF Answer, LowConfidence
      <3>4. d.requires \subseteq Answer(d, attack) /\ d.name \in bundle.responses
        BY <3>2, <3>3 DEF SameMocks
      <3>5. StopAt(m, d, bundle, attack) = None
        <4>1. ~ (~ Provoked(d, attack) /\ d.name \notin bundle.responses)
          BY <3>4
        <4>2. ~ (~ (d.requires \subseteq Answer(d, attack)))
          BY <3>4
        <4>3. ~ (LowConfidence(m, d, attack) /\ m.policy # "async")
          BY <3>3
        <4> QED BY <2>2, <2>5, <3>1, <4>1, <4>2, <4>3 DEF StopAt
      <3> QED BY <3>5 DEF d
    <2> QED BY <2>2, <2>4, <2>5 DEF OneShot, Loop
  <1>4. stops \in SUBSET Nat /\ stops # {}
    BY <1>1, <1>2
  <1>5. Min(stops) \in stops /\ Min(stops) <= i
    <2> HIDE DEF stops
    <2> QED BY <1>2, <1>4, Least
  <1>6. Min(stops) = i
    <2>1. ~ (Min(stops) < i)
      BY <1>3, <1>5
    <2>2. Min(stops) \in Nat /\ i \in Nat
      BY <1>1, <1>2, <1>5
    <2> QED BY <1>5, <2>1, <2>2
  <1> QED BY <1>4, <1>6 DEF Verdict

\* A manifest whose low-confidence cases can be derived stops on a low confidence
\* (the low case is derived whatever the policy is).
Rates(m) == \E i \in Derivable(m) : m.steps[i].confident
Gated(m) == m.threshold /\ m.policy # "async"
Low == {"halted", "escalated"}
Genuine(c) == Observed(c.baseline, c.bundle, c) = c.expect

LEMMA SlotStep ==
  ASSUME NEW m \in Manifests, NEW bundle, NEW slot \in Slots(m)
  PROVE  \E i \in Derivable(m) :
           \/ slot = 2 * i - 1 /\ CaseAt(m, bundle, slot) = SchemaCase(m, bundle, m.steps[i])
           \/ /\ slot = 2 * i /\ m.steps[i].confident
              /\ CaseAt(m, bundle, slot) = LowCase(m, bundle, m.steps[i])
  <1>1. DOMAIN m.steps \in SUBSET Nat
    BY GateAssumption
  <1>2. ASSUME NEW i \in Derivable(m), slot = 2 * i - 1
        PROVE  CaseAt(m, bundle, slot) = SchemaCase(m, bundle, m.steps[i])
    <2>1. i \in Nat
      BY <1>1 DEF Derivable
    <2>2. (slot + 1) \div 2 = i /\ slot % 2 = 1
      BY <1>2, <2>1
    <2> QED BY <2>2 DEF CaseAt
  <1>3. ASSUME NEW i \in Derivable(m), slot = 2 * i
        PROVE  CaseAt(m, bundle, slot) = LowCase(m, bundle, m.steps[i])
    <2>1. i \in Nat
      BY <1>1 DEF Derivable
    <2>2. (slot + 1) \div 2 = i /\ slot % 2 # 1
      BY <1>3, <2>1
    <2> QED BY <2>2 DEF CaseAt
  <1>4. \/ \E i \in Derivable(m) : slot = 2 * i - 1
        \/ \E i \in Derivable(m) : slot = 2 * i /\ m.steps[i].confident
    BY DEF Slots
  <1> QED BY <1>2, <1>3, <1>4

\* What derive_cases freezes is what the run it derives it from does.
LEMMA CaseHolds ==
  ASSUME NEW m \in Manifests, Resolves(m), NEW mocks, Derives(m, mocks),
         NEW bundle, SameMocks(bundle, mocks), Rates(m) => Gated(m), NoneIsNoCase,
         NEW slot \in Slots(m)
  PROVE  Genuine(CaseAt(m, bundle, slot))
  <1>1. PICK i \in Derivable(m) :
           \/ slot = 2 * i - 1 /\ CaseAt(m, bundle, slot) = SchemaCase(m, bundle, m.steps[i])
           \/ /\ slot = 2 * i /\ m.steps[i].confident
              /\ CaseAt(m, bundle, slot) = LowCase(m, bundle, m.steps[i])
    BY SlotStep
  <1> DEFINE d == m.steps[i]
             c == CaseAt(m, bundle, slot)
  <1>2. i \in DOMAIN m.steps /\ OneShot(d) /\ ~ Loop(d) /\ ~ (~ d.model)
    BY DEF Derivable, OneShot, Loop
  <1>3. d \in Catalog /\ d.requires \subseteq Nat /\ d.requires # {}
    <2>1. d \in Steps(m)
      BY <1>2 DEF Steps, Range
    <2> QED BY <2>1, GateAssumption DEF Resolves, Derives
  <1>4. c # None /\ c.target = d.name /\ c.baseline = m /\ c.bundle = bundle
    BY <1>1 DEF SchemaCase, LowCase, Case, NoneIsNoCase
  <1>5. Provoked(d, c) /\ Answer(d, c) = c.payload
    BY <1>4 DEF Provoked, Answer
  <1>6. Completes(m, mocks)
    BY DEF Derives
  <1>7. StopAt(m, d, bundle, c) = c.expect /\ c.expect # None
    <2>1. CASE c = SchemaCase(m, bundle, d)
      <3>1. c.expect = "schema_reject" /\ c.payload = d.fields \ {Min(d.requires)}
        BY <2>1 DEF SchemaCase, Case
      <3>2. Min(d.requires) \in d.requires
        BY <1>3, Least
      <3>3. ~ (d.requires \subseteq Answer(d, c))
        BY <1>5, <3>1, <3>2
      <3>4. StopAt(m, d, bundle, c) = "schema_reject"
        <4> HIDE DEF c, d
        <4> QED BY <1>2, <1>5, <3>3 DEF StopAt
      <3> QED BY <3>1, <3>4, GateAssumption
    <2>2. CASE c = LowCase(m, bundle, d) /\ d.confident
      <3>1. /\ c.expect = IF m.policy = "none" THEN "halted" ELSE "escalated"
            /\ c.payload = d.fields /\ c.kind = "low_confidence"
        BY <2>2 DEF LowCase, Case
      <3>2. d.requires \subseteq d.fields
        <4>1. StopAt(m, d, mocks, None) = None
          BY <1>2, <1>6, CompletesAll
        <4>2. ~ Provoked(d, None) /\ Answer(d, None) = d.fields
          BY DEF Provoked, Answer
        <4> HIDE DEF d
        <4> QED BY <1>2, <4>1, <4>2, GateAssumption DEF StopAt
      <3>3. LowConfidence(m, d, c) /\ m.policy # "async"
        BY <1>5, <2>2, <3>1 DEF LowConfidence, Rates, Gated
      <3>4. StopAt(m, d, bundle, c) = IF m.policy = "none" THEN "halted" ELSE "escalated"
        <4>1. ~ (~ (d.requires \subseteq Answer(d, c)))
          BY <1>5, <3>1, <3>2
        <4> HIDE DEF c, d
        <4> QED BY <1>2, <1>5, <3>3, <4>1 DEF StopAt
      <3> QED BY <3>1, <3>4, GateAssumption
    <2> QED BY <1>1, <2>1, <2>2
  <1>8. Verdict(m, bundle, c) = c.expect
    <2> HIDE DEF c
    <2> QED BY <1>4, <1>6, <1>7, RefusedThere DEF d
  <1> QED BY <1>4, <1>8 DEF Genuine, Observed

LEMMA KeysDiffer ==
  ASSUME NEW m \in Manifests, Resolves(m), NEW bundle,
         NEW k \in Slots(m), NEW l \in Slots(m),
         CaseKey(CaseAt(m, bundle, k)) = CaseKey(CaseAt(m, bundle, l))
  PROVE  k = l
  <1>1. PICK i \in Derivable(m) :
           \/ k = 2 * i - 1 /\ CaseAt(m, bundle, k) = SchemaCase(m, bundle, m.steps[i])
           \/ k = 2 * i /\ CaseAt(m, bundle, k) = LowCase(m, bundle, m.steps[i])
    BY SlotStep
  <1>2. PICK j \in Derivable(m) :
           \/ l = 2 * j - 1 /\ CaseAt(m, bundle, l) = SchemaCase(m, bundle, m.steps[j])
           \/ l = 2 * j /\ CaseAt(m, bundle, l) = LowCase(m, bundle, m.steps[j])
    BY SlotStep
  <1>3. /\ CaseAt(m, bundle, k).target = m.steps[i].name
        /\ CaseAt(m, bundle, l).target = m.steps[j].name
    BY <1>1, <1>2 DEF SchemaCase, LowCase, Case
  <1>4. /\ CaseAt(m, bundle, k).target = CaseAt(m, bundle, l).target
        /\ CaseAt(m, bundle, k).kind = CaseAt(m, bundle, l).kind
    BY DEF CaseKey
  <1>5. i = j
    <2>1. i \in DOMAIN m.steps /\ j \in DOMAIN m.steps
      BY DEF Derivable
    <2> QED BY <1>3, <1>4, <2>1, NamesDistinct
  <1>6. \/ k = 2 * i - 1 /\ l = 2 * i - 1
        \/ k = 2 * i /\ l = 2 * i
    BY <1>1, <1>2, <1>4, <1>5 DEF SchemaCase, LowCase, Case
  <1> QED BY <1>6

LEMMA ListHolds ==
  ASSUME NEW m \in Manifests, Resolves(m), NEW mocks, Derives(m, mocks),
         NEW bundle, SameMocks(bundle, mocks), Rates(m) => Gated(m), NoneIsNoCase,
         NEW slots \in SUBSET Slots(m)
  PROVE  /\ IsFiniteSet(slots) /\ Cardinality(slots) \in Nat
         /\ Len(CasesAt(m, bundle, slots)) = Cardinality(slots)
         /\ \A n \in 1..Cardinality(slots) :
              /\ Genuine(CasesAt(m, bundle, slots)[n])
              /\ \E k \in slots : CasesAt(m, bundle, slots)[n] = CaseAt(m, bundle, k)
         /\ \A n, p \in 1..Cardinality(slots) :
              CaseKey(CasesAt(m, bundle, slots)[n]) = CaseKey(CasesAt(m, bundle, slots)[p])
                => n = p
         /\ \A k \in slots : \E n \in 1..Cardinality(slots) :
              CasesAt(m, bundle, slots)[n] = CaseAt(m, bundle, k)
  <1>1. IsFiniteSet(slots) /\ slots \in SUBSET Nat
    <2>1. Slots(m) \in SUBSET (1..2 * Len(m.steps)) /\ IsFiniteSet(Slots(m))
      BY SlotsFinite
    <2>2. 1..2 * Len(m.steps) \in SUBSET Nat
      BY GateAssumption
    <2> QED BY <2>1, <2>2, FS_Subset
  <1>2. Cardinality(slots) \in Nat
    BY <1>1, FS_CardinalityType
  <1>3. \A n \in 1..Cardinality(slots) :
          CasesAt(m, bundle, slots)[n] = CaseAt(m, bundle, Nth(slots, n))
    BY DEF CasesAt
  <1>4. Len(CasesAt(m, bundle, slots)) = Cardinality(slots)
    BY <1>1, CasesAreListed
  <1>5. ASSUME NEW n \in 1..Cardinality(slots)
        PROVE  /\ Genuine(CasesAt(m, bundle, slots)[n])
               /\ \E k \in slots : CasesAt(m, bundle, slots)[n] = CaseAt(m, bundle, k)
    <2>1. Nth(slots, n) \in slots
      BY <1>1, Ranked
    <2>2. Genuine(CaseAt(m, bundle, Nth(slots, n)))
      BY <2>1, CaseHolds
    <2> QED BY <1>3, <2>1, <2>2
  <1>6. ASSUME NEW n \in 1..Cardinality(slots), NEW p \in 1..Cardinality(slots),
               CaseKey(CasesAt(m, bundle, slots)[n]) = CaseKey(CasesAt(m, bundle, slots)[p])
        PROVE  n = p
    <2>1. Nth(slots, n) \in slots /\ Nth(slots, p) \in slots
      BY <1>1, Ranked
    <2>2. CaseKey(CaseAt(m, bundle, Nth(slots, n))) = CaseKey(CaseAt(m, bundle, Nth(slots, p)))
      BY <1>3, <1>6
    <2>3. Nth(slots, n) = Nth(slots, p)
      BY <2>1, <2>2, KeysDiffer
    <2> QED BY <1>1, <2>3, Ranked
  <1>7. ASSUME NEW k \in slots
        PROVE  \E n \in 1..Cardinality(slots) :
                 CasesAt(m, bundle, slots)[n] = CaseAt(m, bundle, k)
    <2>1. PICK n \in 1..Cardinality(slots) : Nth(slots, n) = k
      BY <1>1, Ranked
    <2> QED BY <1>3, <2>1
  <1> QED BY <1>1, <1>2, <1>4, <1>5, <1>6, <1>7

LowWithin(n) == \E i \in 1..n : corpus[i].expect \in Low

\* Cases are genuine and all different; calls past the resolver resolve; if the seeded
\* pipeline has a low case, it is on file and among those any call replays.
GenuineInv ==
  /\ \A i \in 1..Len(corpus) : Genuine(corpus[i])
  /\ \A i, k \in 1..Len(corpus) : CaseKey(corpus[i]) = CaseKey(corpus[k]) => i = k
  /\ \A j \in Jobs : Past(jobs[j]) => Resolves(jobs[j].candidate)
  /\ Rates(seed.manifest) =>
       /\ LowWithin(Len(corpus))
       /\ \A j \in Jobs : Past(jobs[j]) => LowWithin(jobs[j].known)

\* Manifests whose steps give a confidence stop on a low one, or the pipeline the
\* corpus was seeded from does.
GatesKept == \A s \in Seeds, m \in Manifests :
  Rates(m) => Gated(m) \/ (Rates(s.manifest) /\ Gated(s.manifest))

LEMMA GenuineInvInit ==
  ASSUME Init, GatesKept, NoneIsNoCase
  PROVE  GenuineInv
  <1> DEFINE m == seed.manifest
             b == seed.bundle
  <1>1. /\ seed \in Seeds /\ m \in Manifests /\ Resolves(m) /\ Derives(m, FullMocks(m, b))
        /\ corpus = CasesAt(m, b, Slots(m))
    BY GateAssumption DEF Init, Derived
  <1>2. SameMocks(b, FullMocks(m, b))
    <2>1. b \in Bundles
      BY <1>1, GateAssumption
    <2> QED BY DEF SameMocks, FullMocks
  <1>3. Rates(m) => Gated(m)
    BY <1>1 DEF GatesKept
  <1> HIDE DEF m, b
  <1>4. /\ Cardinality(Slots(m)) \in Nat
        /\ Len(corpus) = Cardinality(Slots(m))
        /\ \A n \in 1..Len(corpus) : Genuine(corpus[n])
        /\ \A n, p \in 1..Len(corpus) : CaseKey(corpus[n]) = CaseKey(corpus[p]) => n = p
        /\ \A k \in Slots(m) : \E n \in 1..Len(corpus) : corpus[n] = CaseAt(m, b, k)
    BY <1>1, <1>2, <1>3, ListHolds
  <1>5. Rates(m) => LowWithin(Len(corpus))
    <2> SUFFICES ASSUME Rates(m) PROVE LowWithin(Len(corpus))
      OBVIOUS
    <2>1. PICK i \in Derivable(m) : m.steps[i].confident
      BY DEF Rates
    <2>2. 2 * i \in Slots(m)
      BY <2>1 DEF Slots
    <2>3. CaseAt(m, b, 2 * i) = LowCase(m, b, m.steps[i])
      <3>1. i \in Nat
        BY <1>1, GateAssumption DEF Derivable
      <3>2. (2 * i + 1) \div 2 = i /\ (2 * i) % 2 # 1
        BY <3>1
      <3> QED BY <3>2 DEF CaseAt
    <2>4. CaseAt(m, b, 2 * i).expect \in Low
      BY <2>3 DEF LowCase, Case, Low
    <2> QED BY <1>4, <2>2, <2>4 DEF LowWithin
  <1>6. \A j \in Jobs : ~ Past(jobs[j])
    BY DEF Init, Past, Idle
  <1> QED BY <1>4, <1>5, <1>6 DEF GenuineInv, m

\* Whatever is admitted past a low case stops on a low confidence itself.
LEMMA GateStands ==
  ASSUME GateInv, GenuineInv, GatesKept, NEW j \in Jobs, Replayed(j),
         Rates(jobs[j].candidate)
  PROVE  Gated(jobs[j].candidate)
  <1> DEFINE c == jobs[j].candidate
  <1>1. Past(jobs[j]) /\ jobs[j].todo = <<>>
    BY DEF Replayed, Running, Past
  <1>2. c \in Manifests /\ seed \in Seeds
    BY <1>1 DEF GateInv, CallsInv, Measured, FilesInv
  <1> SUFFICES ASSUME Rates(seed.manifest) PROVE Gated(c)
    BY <1>2 DEF GatesKept
  <1>3. PICK i \in 1..jobs[j].known : corpus[i].expect \in Low
    BY <1>1 DEF GenuineInv, LowWithin
  <1>4. Observed(c, jobs[j].bundle, corpus[i]) = corpus[i].expect
    <2>1. jobs[j].known \in Nat
      BY DEF GateInv, JobsTyped, JobRecords
    <2>2. jobs[j].known - Len(jobs[j].todo) = jobs[j].known
      BY <1>1, <2>1
    <2> QED BY <1>1, <1>3, <2>2 DEF GateInv, CallsInv, HalfReplayed
  <1>5. PICK d : StopAt(c, d, jobs[j].bundle, corpus[i]) \in Low
    <2>1. Verdict(c, jobs[j].bundle, corpus[i]) \in Low
      BY <1>3, <1>4 DEF Observed
    <2>2. None \notin Low
      BY GateAssumption DEF Low
    <2> QED BY <2>1, <2>2 DEF Verdict
  <1> HIDE DEF c
  <1>6. None \notin Low /\ "fail_closed" \notin Low /\ "schema_reject" \notin Low
    BY GateAssumption DEF Low
  <1>7. CASE Loop(d)
    BY <1>5, <1>6, <1>7 DEF StopAt, Loop, OneShot
  <1>8. CASE ~ d.model
    BY <1>5, <1>6, <1>8 DEF StopAt, Loop, OneShot
  <1>9. CASE OneShot(d)
    <2>1. ~ Loop(d) /\ ~ (~ d.model)
      BY <1>9 DEF Loop, OneShot
    <2>2. LowConfidence(c, d, corpus[i]) /\ c.policy # "async"
      BY <1>5, <1>6, <1>9, <2>1 DEF StopAt
    <2> QED BY <2>2 DEF LowConfidence, Gated
  <1> QED BY <1>7, <1>8, <1>9 DEF Loop, OneShot

LEMMA AppendHolds ==
  ASSUME GateInv, GenuineInv, NEW new, IsList(new), AppendAll(new),
         \A n \in 1..Len(new) :
           /\ Genuine(new[n])
           /\ \A i \in 1..Len(corpus) : CaseKey(corpus[i]) # CaseKey(new[n]),
         \A n, p \in 1..Len(new) : CaseKey(new[n]) = CaseKey(new[p]) => n = p
  PROVE  /\ \A i \in 1..Len(corpus') : Genuine(corpus'[i])
         /\ \A i, k \in 1..Len(corpus') : CaseKey(corpus'[i]) = CaseKey(corpus'[k]) => i = k
  <1> DEFINE k == Len(corpus)
  <1>1. FilesInv /\ k \in Nat /\ Len(new) \in Nat
    BY DEF GateInv, FilesInv, IsList
  <1>2. /\ Len(corpus') = k + Len(new)
        /\ \A i \in 1..k : corpus'[i] = corpus[i]
        /\ \A i \in k + 1..Len(corpus') : corpus'[i] = new[i - k]
    BY <1>1, AppendGrows DEF Grows
  <1>3. ASSUME NEW i \in 1..Len(corpus')
        PROVE  \/ i \in 1..k /\ corpus'[i] = corpus[i]
               \/ i - k \in 1..Len(new) /\ corpus'[i] = new[i - k]
    <2>1. CASE i <= k
      BY <1>1, <1>2, <2>1
    <2>2. CASE ~ (i <= k)
      BY <1>1, <1>2, <2>2
    <2> QED BY <2>1, <2>2
  <1>4. \A i \in 1..Len(corpus') : Genuine(corpus'[i])
    BY <1>3 DEF GenuineInv
  <1>5. ASSUME NEW i \in 1..Len(corpus'), NEW l \in 1..Len(corpus'),
               CaseKey(corpus'[i]) = CaseKey(corpus'[l])
        PROVE  i = l
    <2>1. CASE i \in 1..k /\ l \in 1..k
      BY <1>2, <1>5, <2>1 DEF GenuineInv
    <2>2. CASE i - k \in 1..Len(new) /\ corpus'[i] = new[i - k]
               /\ l - k \in 1..Len(new) /\ corpus'[l] = new[l - k]
      <3>1. i - k = l - k
        BY <1>5, <2>2
      <3> QED BY <1>1, <1>2, <3>1
    <2>3. ASSUME NEW x \in 1..k, NEW n \in 1..Len(new), corpus'[x] = corpus[x],
                 NEW y, corpus'[y] = new[n], CaseKey(corpus'[x]) = CaseKey(corpus'[y])
          PROVE  FALSE
      BY <2>3
    <2> HIDE DEF k
    <2> QED BY <1>3, <1>5, <2>1, <2>2, <2>3
  <1> QED BY <1>4, <1>5

LEMMA GenuineStep ==
  ASSUME GateInv, GenuineInv, seed' = seed, corpus' = corpus \/ Grows,
         \A i \in 1..Len(corpus') : Genuine(corpus'[i]),
         \A i, k \in 1..Len(corpus') : CaseKey(corpus'[i]) = CaseKey(corpus'[k]) => i = k,
         \A j \in Jobs : Past(jobs'[j]) =>
           /\ Resolves(jobs'[j].candidate)
           /\ \/ jobs'[j].known = Len(corpus)
              \/ Past(jobs[j]) /\ jobs'[j].known = jobs[j].known
  PROVE  GenuineInv'
  <1>1. /\ Len(corpus) \in Nat /\ Len(corpus') \in Nat /\ Len(corpus) <= Len(corpus')
        /\ \A i \in 1..Len(corpus) : corpus'[i] = corpus[i]
    BY FilesKept DEF Grows, IsList, GateInv, FilesInv
  <1>2. \A j \in Jobs : Past(jobs'[j]) => Resolves(jobs'[j].candidate)
    OBVIOUS
  <1>3. ASSUME NEW n \in Nat, n <= Len(corpus), LowWithin(n)
        PROVE  \E i \in 1..n : corpus'[i].expect \in Low
    <2>1. PICK i \in 1..n : corpus[i].expect \in Low
      BY <1>3 DEF LowWithin
    <2>2. i \in 1..Len(corpus)
      BY <1>1, <1>3
    <2> QED BY <1>1, <2>1, <2>2
  <1>4. ASSUME Rates(seed'.manifest)
        PROVE  /\ LowWithin(Len(corpus))
               /\ \A j \in Jobs : Past(jobs[j]) => LowWithin(jobs[j].known)
    BY <1>4 DEF GenuineInv
  <1>5. ASSUME Rates(seed'.manifest)
        PROVE  \E i \in 1..Len(corpus') : corpus'[i].expect \in Low
    <2>1. PICK i \in 1..Len(corpus) : corpus'[i].expect \in Low
      BY <1>1, <1>3, <1>4, <1>5
    <2>2. i \in 1..Len(corpus')
      BY <1>1
    <2> QED BY <2>1, <2>2
  <1>6. ASSUME Rates(seed'.manifest), NEW j \in Jobs, Past(jobs'[j])
        PROVE  \E i \in 1..jobs'[j].known : corpus'[i].expect \in Low
    <2>1. CASE jobs'[j].known = Len(corpus)
      BY <1>1, <1>3, <1>4, <1>6, <2>1
    <2>2. CASE Past(jobs[j]) /\ jobs'[j].known = jobs[j].known
      <3>1. jobs[j].known \in Nat /\ jobs[j].known <= Len(corpus)
        BY <2>2 DEF GateInv, JobsTyped, JobRecords, CallsInv, HalfReplayed
      <3>2. LowWithin(jobs[j].known)
        BY <1>4, <1>6, <2>2
      <3>3. \E i \in 1..jobs[j].known : corpus'[i].expect \in Low
        BY <1>3, <3>1, <3>2
      <3> QED BY <2>2, <3>3
    <2> QED BY <1>6, <2>1, <2>2
  <1> QED BY <1>2, <1>5, <1>6 DEF GenuineInv, LowWithin, Past

\* A call that moves within the replay keeps its candidate and what it knew.
LEMMA JobKeeps ==
  ASSUME GateInv, GenuineInv, NEW j \in Jobs, NEW job, jobs' = [jobs EXCEPT ![j] = job],
         Past(job) => /\ Resolves(job.candidate)
                      /\ \/ job.known = Len(corpus)
                         \/ Past(jobs[j]) /\ job.known = jobs[j].known
  PROVE  \A k \in Jobs : Past(jobs'[k]) =>
           /\ Resolves(jobs'[k].candidate)
           /\ \/ jobs'[k].known = Len(corpus)
              \/ Past(jobs[k]) /\ jobs'[k].known = jobs[k].known
  <1> SUFFICES ASSUME NEW k \in Jobs, Past(jobs'[k])
               PROVE  /\ Resolves(jobs'[k].candidate)
                      /\ \/ jobs'[k].known = Len(corpus)
                         \/ Past(jobs[k]) /\ jobs'[k].known = jobs[k].known
    OBVIOUS
  <1>1. jobs'[k] = IF k = j THEN job ELSE jobs[k]
    BY DEF GateInv, JobsTyped
  <1>2. CASE k = j
    BY <1>1, <1>2
  <1>3. CASE k # j
    BY <1>1, <1>3 DEF GenuineInv
  <1> QED BY <1>2, <1>3

\* The cases a growing admission adds, or the first of them.
LEMMA FreshHolds ==
  ASSUME GateInv, GenuineInv, GatesKept, NoneIsNoCase, NEW j \in Jobs,
         Replayed(j), Growable(j), NEW new, IsList(new), Len(new) <= Len(Fresh(j)),
         \A n \in 1..Len(new) : new[n] = Fresh(j)[n], AppendAll(new)
  PROVE  /\ \A i \in 1..Len(corpus') : Genuine(corpus'[i])
         /\ \A i, k \in 1..Len(corpus') : CaseKey(corpus'[i]) = CaseKey(corpus'[k]) => i = k
  <1> DEFINE m == jobs[j].candidate
             b == jobs[j].bundle
  <1>1. Past(jobs[j])
    BY DEF Replayed, Running, Past
  <1>2. m \in Manifests /\ Resolves(m) /\ Derives(m, b)
    BY <1>1 DEF GateInv, CallsInv, Measured, GenuineInv, Growable
  <1>3. Rates(m) => Gated(m)
    BY GateStands
  <1>4. FreshSlots(j) \in SUBSET Slots(m) /\ Fresh(j) = CasesAt(m, b, FreshSlots(j))
    BY DEF FreshSlots, Fresh
  <1>5. SameMocks(b, b)
    BY DEF SameMocks
  <1>a. \A k \in FreshSlots(j) : \A d \in Range(Cases) :
          CaseKey(d) # CaseKey(CaseAt(m, b, k))
    BY DEF FreshSlots
  <1> HIDE DEF m, b
  <1>6. /\ Len(Fresh(j)) \in Nat
        /\ \A n \in 1..Len(Fresh(j)) : /\ Genuine(Fresh(j)[n])
                                       /\ \E k \in FreshSlots(j) : Fresh(j)[n] = CaseAt(m, b, k)
        /\ \A n, p \in 1..Len(Fresh(j)) :
             CaseKey(Fresh(j)[n]) = CaseKey(Fresh(j)[p]) => n = p
    BY <1>2, <1>3, <1>4, <1>5, ListHolds
  <1>7. \A n \in 1..Len(new) : n \in 1..Len(Fresh(j))
    BY <1>6 DEF IsList
  <1>8. \A i \in 1..Len(corpus) : corpus[i] \in Range(Cases)
    BY DEF GateInv, FilesInv, IsList, Cases, Range
  <1>9. ASSUME NEW n \in 1..Len(new)
        PROVE  /\ Genuine(new[n])
               /\ \A i \in 1..Len(corpus) : CaseKey(corpus[i]) # CaseKey(new[n])
    <2>1. PICK k \in FreshSlots(j) : Fresh(j)[n] = CaseAt(m, b, k)
      BY <1>6, <1>7
    <2> QED BY <1>6, <1>7, <1>8, <1>a, <2>1
  <1>10. \A n, p \in 1..Len(new) : CaseKey(new[n]) = CaseKey(new[p]) => n = p
    BY <1>6, <1>7
  <1> QED BY <1>9, <1>10, AppendHolds

LEMMA GenuineInvNext ==
  ASSUME GateInv, GenuineInv, GatesKept, NoneIsNoCase, [Next]_vars
  PROVE  GenuineInv'
  <1>a. /\ \A i \in 1..Len(corpus) : Genuine(corpus[i])
        /\ \A i, k \in 1..Len(corpus) : CaseKey(corpus[i]) = CaseKey(corpus[k]) => i = k
    BY DEF GenuineInv
  <1>b. jobs \in [Jobs -> JobRecords(Range(corpus))]
    BY DEF GateInv, JobsTyped
  \* A replay that goes on or ends leaves the corpus alone.
  <1>c. ASSUME NEW j \in Jobs, NEW job, seed' = seed, corpus' = corpus,
               jobs' = [jobs EXCEPT ![j] = job],
               Past(job) => /\ Resolves(job.candidate)
                            /\ \/ job.known = Len(corpus)
                               \/ Past(jobs[j]) /\ job.known = jobs[j].known
        PROVE  GenuineInv'
    BY <1>a, <1>c, JobKeeps, GenuineStep
  <1>1. ASSUME NEW j \in Jobs, Admit(j) PROVE GenuineInv'
    <2>1. PICK c \in Manifests, b \in Manifests, bundle \in Bundles :
            Become(j, Called(c, b, bundle, RejectedAt(c, b, bundle)))
      BY <1>1 DEF Admit
    <2> DEFINE job == Called(c, b, bundle, RejectedAt(c, b, bundle))
    <2>2. seed' = seed /\ corpus' = corpus /\ jobs' = [jobs EXCEPT ![j] = job]
      BY <1>1, <2>1 DEF Admit, Become
    <2>3. Cases = corpus
      BY DEF GateInv, FilesInv, Cases
    <2>4. ASSUME Past(job) PROVE Resolves(job.candidate) /\ job.known = Len(corpus)
      <3>1. job.candidate = c /\ job.known = Len(corpus)
        BY <2>3 DEF Called
      <3>2. RejectedAt(c, b, bundle) = None
        BY <2>4 DEF Past, Called
      <3>3. Resolves(c)
        BY <3>2, GateAssumption DEF RejectedAt
      <3> QED BY <3>1, <3>3
    <2> HIDE DEF job
    <2> QED BY <1>c, <2>2, <2>4
  <1>2. ASSUME NEW j \in Jobs, Replay(j) PROVE GenuineInv'
    <2>1. PICK old \in JobRecords(Range(corpus)) : old = jobs[j]
      BY <1>b
    <2> DEFINE job == [old EXCEPT !.todo = Tail(old.todo)]
    <2>2. /\ jobs' = [jobs EXCEPT ![j] = job] /\ Past(old)
          /\ seed' = seed /\ corpus' = corpus
      BY <1>2, <2>1 DEF Replay, Become, Running, Past
    <2>3. job.candidate = old.candidate /\ job.known = old.known
      BY DEF JobRecords
    <2>4. Resolves(old.candidate)
      BY <2>1, <2>2 DEF GenuineInv
    <2> HIDE DEF job
    <2> QED BY <1>c, <2>1, <2>2, <2>3, <2>4
  <1>3. ASSUME NEW j \in Jobs, RejectCase(j) PROVE GenuineInv'
    <2>1. PICK old \in JobRecords(Range(corpus)) : old = jobs[j]
      BY <1>b
    <2> DEFINE job == [old EXCEPT !.pc = "rejected", !.layer = "corpus", !.todo = <<>>]
    <2>2. jobs' = [jobs EXCEPT ![j] = job] /\ seed' = seed /\ corpus' = corpus
      BY <1>3, <2>1 DEF RejectCase, Become
    <2>3. ~ Past(job)
      BY DEF JobRecords, Past
    <2> HIDE DEF job
    <2> QED BY <1>c, <2>2, <2>3
  <1>4. ASSUME NEW j \in Jobs, ReplayRaises(j) PROVE GenuineInv'
    <2>1. PICK old \in JobRecords(Range(corpus)) : old = jobs[j]
      BY <1>b
    <2> DEFINE job == [old EXCEPT !.pc = "raised", !.todo = <<>>]
    <2>2. jobs' = [jobs EXCEPT ![j] = job] /\ seed' = seed /\ corpus' = corpus
      BY <1>4, <2>1 DEF ReplayRaises, Become
    <2>3. ~ Past(job)
      BY DEF JobRecords, Past
    <2> HIDE DEF job
    <2> QED BY <1>c, <2>2, <2>3
  \* The record of an admitted call.
  <1>d. ASSUME NEW j \in Jobs, Replayed(j), Admitted(j)
        PROVE  \A k \in Jobs : Past(jobs'[k]) =>
                 /\ Resolves(jobs'[k].candidate)
                 /\ \/ jobs'[k].known = Len(corpus)
                    \/ Past(jobs[k]) /\ jobs'[k].known = jobs[k].known
    <2>1. PICK old \in JobRecords(Range(corpus)) : old = jobs[j]
      BY <1>b
    <2> DEFINE job == [old EXCEPT !.pc = "admitted"]
    <2>2. jobs' = [jobs EXCEPT ![j] = job] /\ Past(old)
      BY <1>d, <2>1 DEF Admitted, Become, Replayed, Running, Past
    <2>3. job.candidate = old.candidate /\ job.known = old.known
      BY DEF JobRecords
    <2>4. Resolves(old.candidate)
      BY <2>1, <2>2 DEF GenuineInv
    <2> HIDE DEF job
    <2> QED BY <2>1, <2>2, <2>3, <2>4, JobKeeps
  <1>5. ASSUME NEW j \in Jobs, AdmitWithoutGrowth(j) PROVE GenuineInv'
    BY <1>5, <1>a, <1>d, GenuineStep DEF AdmitWithoutGrowth
  <1>e. ASSUME NEW j \in Jobs, Replayed(j)
        PROVE  IsList(Fresh(j))
    <2>1. jobs[j].candidate \in Manifests
      BY <1>e DEF GateInv, CallsInv, Past, Measured, Replayed, Running
    <2> QED BY <2>1, FreshIsList
  <1>6. ASSUME NEW j \in Jobs, AdmitAndGrow(j) PROVE GenuineInv'
    <2>1. /\ Replayed(j) /\ Admitted(j) /\ seed' = seed /\ AppendAll(Fresh(j))
          /\ Growable(j)
      BY <1>6 DEF AdmitAndGrow
    <2>2. IsList(Fresh(j)) /\ Len(Fresh(j)) <= Len(Fresh(j))
      BY <1>e, <2>1 DEF IsList
    <2>3. Grows
      BY <2>1, <2>2, AppendGrows DEF GateInv
    <2>4. /\ \A i \in 1..Len(corpus') : Genuine(corpus'[i])
          /\ \A i, k \in 1..Len(corpus') : CaseKey(corpus'[i]) = CaseKey(corpus'[k]) => i = k
      BY <2>1, <2>2, FreshHolds
    <2> QED BY <1>d, <2>1, <2>3, <2>4, GenuineStep
  <1>7. ASSUME NEW j \in Jobs, GrowthStops(j) PROVE GenuineInv'
    <2>1. PICK k \in 0..Len(Fresh(j)) - 1 : AppendAll(SubSeq(Fresh(j), 1, k))
      BY <1>7 DEF GrowthStops
    <2>2. Replayed(j) /\ Growable(j) /\ seed' = seed
      BY <1>7 DEF GrowthStops
    <2> DEFINE new == SubSeq(Fresh(j), 1, k)
    <2>3. /\ IsList(new) /\ Len(new) <= Len(Fresh(j))
          /\ \A n \in 1..Len(new) : new[n] = Fresh(j)[n]
      <3>1. Fresh(j) \in Seq(Range(Fresh(j))) /\ Len(Fresh(j)) \in Nat
        BY <1>e, <2>2 DEF IsList
      <3>2. \A i \in 1..k : Fresh(j)[i] \in Range(Fresh(j))
        BY <3>1
      <3>3. new \in Seq(Range(Fresh(j)))
        BY <3>1, <3>2, SubSeqProperties
      <3>4. Len(new) = k /\ \A n \in 1..k : new[n] = Fresh(j)[n]
        BY <3>1, SubSeqProperties
      <3>5. IsList(new)
        BY <3>3, SeqIsList
      <3>6. k \in Nat /\ k <= Len(Fresh(j))
        BY <3>1
      <3> HIDE DEF new
      <3> QED BY <3>4, <3>5, <3>6
    <2> HIDE DEF new
    <2>4. AppendAll(new)
      BY <2>1 DEF new
    <2>5. Grows
      BY <2>3, <2>4, AppendGrows DEF GateInv
    <2>6. /\ \A i \in 1..Len(corpus') : Genuine(corpus'[i])
          /\ \A i, l \in 1..Len(corpus') : CaseKey(corpus'[i]) = CaseKey(corpus'[l]) => i = l
      BY <2>2, <2>3, <2>4, FreshHolds
    <2>7. PICK old \in JobRecords(Range(corpus)) : old = jobs[j]
      BY <1>b
    <2> DEFINE job == [old EXCEPT !.pc = "raised"]
    <2>8. jobs' = [jobs EXCEPT ![j] = job]
      BY <1>7, <2>7 DEF GrowthStops, Become
    <2>9. ~ Past(job)
      BY DEF JobRecords, Past
    <2> HIDE DEF job
    <2>10. \A l \in Jobs : Past(jobs'[l]) =>
             /\ Resolves(jobs'[l].candidate)
             /\ \/ jobs'[l].known = Len(corpus)
                \/ Past(jobs[l]) /\ jobs'[l].known = jobs[l].known
      BY <2>8, <2>9, JobKeeps
    <2> QED BY <2>2, <2>5, <2>6, <2>10, GenuineStep
  <1>8. CASE Restart
    <2>1. seed' = seed /\ corpus' = corpus
      BY <1>8 DEF Restart
    <2>2. ASSUME NEW j \in Jobs, Past(jobs'[j])
          PROVE  /\ Resolves(jobs'[j].candidate)
                 /\ Past(jobs[j]) /\ jobs'[j].known = jobs[j].known
      <3>1. PICK old \in JobRecords(Range(corpus)) : old = jobs[j]
        BY <1>b
      <3>2. jobs'[j] = IF old.pc = "replay" THEN [old EXCEPT !.pc = "raised", !.todo = <<>>]
                       ELSE old
        BY <1>8, <3>1 DEF Restart, Running
      <3>3. ~ Past([old EXCEPT !.pc = "raised", !.todo = <<>>])
        BY DEF JobRecords, Past
      <3>4. jobs'[j] = jobs[j]
        BY <2>2, <3>1, <3>2, <3>3
      <3> QED BY <2>2, <3>4 DEF GenuineInv
    <2> QED BY <1>a, <2>1, <2>2, GenuineStep
  <1>9. CASE UNCHANGED vars
    <2>1. seed' = seed /\ corpus' = corpus /\ jobs' = jobs
      BY <1>9 DEF vars
    <2> QED BY <2>1 DEF GenuineInv, LowWithin
  <1> QED BY <1>1, <1>2, <1>3, <1>4, <1>5, <1>6, <1>7, <1>8, <1>9 DEF Next

\* Every case on file is refused by the pipeline it was derived from as it is pinned, no
\* two cases are the same, and the process replays what is on file (derive_cases, grow,
\* FileRegressionCorpus.append), if manifests whose steps give a confidence stop on a
\* low one or the seeded pipeline does (a low case is derived whatever the policy is).
THEOREM CorpusGenuine ==
  ASSUME GatesKept, NoneIsNoCase
  PROVE  Spec => []CorpusIsGenuine
  <1>1. Init => GenuineInv
    BY GenuineInvInit
  <1>2. GateInv /\ GenuineInv /\ [Next]_vars => GenuineInv'
    BY GenuineInvNext
  <1>3. GateInv /\ GenuineInv => CorpusIsGenuine
    <2> SUFFICES ASSUME GateInv, GenuineInv PROVE CorpusIsGenuine
      OBVIOUS
    <2>1. DOMAIN corpus = 1..Len(corpus) /\ (cache # None => cache = corpus)
      BY DEF GateInv, FilesInv, IsList
    <2> QED BY <2>1 DEF GenuineInv, Genuine, CorpusIsGenuine
  <1> QED BY <1>1, <1>2, <1>3, GateAlways, PTL DEF Spec

-----------------------------------------------------------------------------
(* The oracle of layer 2b.  Its two recursive functions exist: each is the     *)
(* union of the approximations that obey its equation up to some level, and    *)
(* these agree wherever two of them are defined.                               *)

AcceptLevel(g, n) ==
  [x \in Questions |-> IF n = 0 THEN TRUE ELSE AcceptsAt(g[n - 1], x[1], x[2], x[3])]
AcceptUpTo(n, g) == \A k \in 0..n : g[k] = AcceptLevel(g, k)

LEMMA AcceptLevelLocal ==
  ASSUME NEW g, NEW h, NEW n \in Nat, n # 0 => g[n - 1] = h[n - 1]
  PROVE  AcceptLevel(g, n) = AcceptLevel(h, n)
  <1>1. CASE n = 0
    BY <1>1 DEF AcceptLevel
  <1>2. CASE n # 0
    <2>1. g[n - 1] = h[n - 1] BY <1>2
    <2>2. \A x \in Questions :
            AcceptsAt(g[n - 1], x[1], x[2], x[3]) = AcceptsAt(h[n - 1], x[1], x[2], x[3])
      BY <2>1
    <2> QED BY <1>2, <2>2 DEF AcceptLevel
  <1> QED BY <1>1, <1>2

LEMMA AcceptUpToAgree ==
  ASSUME NEW n \in Nat, NEW m \in Nat, NEW g, NEW h, AcceptUpTo(n, g), AcceptUpTo(m, h)
  PROVE  \A k \in 0..n \cap 0..m : g[k] = h[k]
  <1> DEFINE Differ == {k \in Nat : k <= n /\ k <= m /\ g[k] # h[k]}
  <1>1. SUFFICES ASSUME Differ # {} PROVE FALSE
    OBVIOUS
  <1>2. PICK k \in Differ : \A j \in Differ : k <= j
    BY <1>1, Least
  <1>3. k # 0 => g[k - 1] = h[k - 1]
    BY <1>2
  <1>4. AcceptLevel(g, k) = AcceptLevel(h, k)
    BY <1>3, AcceptLevelLocal
  <1> QED BY <1>2, <1>4 DEF AcceptUpTo

LEMMA AcceptUpToExists == \A n \in Nat : \E g : AcceptUpTo(n, g)
  <1> DEFINE Missing == {n \in Nat : ~ \E g : AcceptUpTo(n, g)}
  <1>1. SUFFICES ASSUME Missing # {} PROVE FALSE
    OBVIOUS
  <1>2. PICK n \in Missing : \A j \in Missing : n <= j
    BY <1>1, Least
  <1>3. n \in Nat /\ ~ \E g : AcceptUpTo(n, g)
    BY <1>2
  <1>4. \E g : \A k \in 0..n - 1 : g[k] = AcceptLevel(g, k)
    <2>1. CASE n = 0
      BY <2>1
    <2>2. CASE n # 0
      <3>1. n - 1 \in Nat /\ n - 1 \notin Missing BY <1>2, <1>3, <2>2
      <3>2. \E g : AcceptUpTo(n - 1, g) BY <3>1
      <3> QED BY <3>2 DEF AcceptUpTo
    <2> QED BY <2>1, <2>2
  <1>5. PICK g : \A k \in 0..n - 1 : g[k] = AcceptLevel(g, k)
    BY <1>4
  <1> DEFINE h == [k \in 0..n |-> IF k = n THEN AcceptLevel(g, n) ELSE g[k]]
  <1>6. \A k \in 0..n - 1 : h[k] = g[k]
    BY <1>3
  <1>7. h[n] = AcceptLevel(g, n)
    BY <1>3
  <1>8. \A k \in 0..n : AcceptLevel(h, k) = AcceptLevel(g, k)
    <2> HIDE DEF h
    <2> TAKE k \in 0..n
    <2>1. k \in Nat /\ (k # 0 => h[k - 1] = g[k - 1]) BY <1>3, <1>6
    <2> QED BY <2>1, AcceptLevelLocal
  <1>9. AcceptUpTo(n, h)
    <2> HIDE DEF h
    <2> QED BY <1>3, <1>5, <1>6, <1>7, <1>8 DEF AcceptUpTo
  <1> QED BY <1>3, <1>9

LEMMA AcceptingEquation ==
  accepting = [n \in Nat |-> AcceptLevel(accepting, n)]
  <1> DEFINE up(n) == CHOOSE g : AcceptUpTo(n, g)
             f == [n \in Nat |-> up(n)[n]]
  <1>1. \A n \in Nat : AcceptUpTo(n, up(n))
    BY AcceptUpToExists
  <1> HIDE DEF up
  <1>2. \A n \in Nat : f[n] = AcceptLevel(up(n), n)
    BY <1>1 DEF AcceptUpTo
  <1>3. \A n \in Nat : n # 0 => f[n - 1] = up(n)[n - 1]
    <2> TAKE n \in Nat
    <2> HAVE n # 0
    <2>1. n - 1 \in Nat /\ n - 1 \in 0..n - 1 \cap 0..n OBVIOUS
    <2>2. up(n - 1)[n - 1] = up(n)[n - 1]
      BY <1>1, <2>1, AcceptUpToAgree
    <2> QED BY <2>1, <2>2
  <1>4. \A n \in Nat : AcceptLevel(up(n), n) = AcceptLevel(f, n)
    <2> HIDE DEF f
    <2> QED BY <1>3, AcceptLevelLocal
  <1>5. f = [n \in Nat |-> AcceptLevel(f, n)]
    <2>1. \A n \in Nat : f[n] = AcceptLevel(f, n) BY <1>2, <1>4
    <2>2. f = [n \in Nat |-> f[n]] OBVIOUS
    <2> HIDE DEF f
    <2> QED BY <2>1, <2>2
  <1> HIDE DEF f
  <1>6. \E F : F = [n \in Nat |-> AcceptLevel(F, n)]
    BY <1>5
  <1> QED BY <1>6 DEF accepting, AcceptLevel

CompareLevel(g, n) ==
  [x \in Pairs |-> IF n = 0 THEN {"<depth>"} ELSE CompareAt(g[n - 1], x[1], x[2])]
CompareUpTo(n, g) == \A k \in 0..n : g[k] = CompareLevel(g, k)

LEMMA CompareLevelLocal ==
  ASSUME NEW g, NEW h, NEW n \in Nat, n # 0 => g[n - 1] = h[n - 1]
  PROVE  CompareLevel(g, n) = CompareLevel(h, n)
  <1>1. CASE n = 0
    BY <1>1 DEF CompareLevel
  <1>2. CASE n # 0
    <2>1. g[n - 1] = h[n - 1] BY <1>2
    <2>2. \A x \in Pairs :
            CompareAt(g[n - 1], x[1], x[2]) = CompareAt(h[n - 1], x[1], x[2])
      BY <2>1
    <2> QED BY <1>2, <2>2 DEF CompareLevel
  <1> QED BY <1>1, <1>2

LEMMA CompareUpToAgree ==
  ASSUME NEW n \in Nat, NEW m \in Nat, NEW g, NEW h, CompareUpTo(n, g), CompareUpTo(m, h)
  PROVE  \A k \in 0..n \cap 0..m : g[k] = h[k]
  <1> DEFINE Differ == {k \in Nat : k <= n /\ k <= m /\ g[k] # h[k]}
  <1>1. SUFFICES ASSUME Differ # {} PROVE FALSE
    OBVIOUS
  <1>2. PICK k \in Differ : \A j \in Differ : k <= j
    BY <1>1, Least
  <1>3. k # 0 => g[k - 1] = h[k - 1]
    BY <1>2
  <1>4. CompareLevel(g, k) = CompareLevel(h, k)
    BY <1>3, CompareLevelLocal
  <1> QED BY <1>2, <1>4 DEF CompareUpTo

LEMMA CompareUpToExists == \A n \in Nat : \E g : CompareUpTo(n, g)
  <1> DEFINE Missing == {n \in Nat : ~ \E g : CompareUpTo(n, g)}
  <1>1. SUFFICES ASSUME Missing # {} PROVE FALSE
    OBVIOUS
  <1>2. PICK n \in Missing : \A j \in Missing : n <= j
    BY <1>1, Least
  <1>3. n \in Nat /\ ~ \E g : CompareUpTo(n, g)
    BY <1>2
  <1>4. \E g : \A k \in 0..n - 1 : g[k] = CompareLevel(g, k)
    <2>1. CASE n = 0
      BY <2>1
    <2>2. CASE n # 0
      <3>1. n - 1 \in Nat /\ n - 1 \notin Missing BY <1>2, <1>3, <2>2
      <3>2. \E g : CompareUpTo(n - 1, g) BY <3>1
      <3> QED BY <3>2 DEF CompareUpTo
    <2> QED BY <2>1, <2>2
  <1>5. PICK g : \A k \in 0..n - 1 : g[k] = CompareLevel(g, k)
    BY <1>4
  <1> DEFINE h == [k \in 0..n |-> IF k = n THEN CompareLevel(g, n) ELSE g[k]]
  <1>6. \A k \in 0..n - 1 : h[k] = g[k]
    BY <1>3
  <1>7. h[n] = CompareLevel(g, n)
    BY <1>3
  <1>8. \A k \in 0..n : CompareLevel(h, k) = CompareLevel(g, k)
    <2> HIDE DEF h
    <2> TAKE k \in 0..n
    <2>1. k \in Nat /\ (k # 0 => h[k - 1] = g[k - 1]) BY <1>3, <1>6
    <2> QED BY <2>1, CompareLevelLocal
  <1>9. CompareUpTo(n, h)
    <2> HIDE DEF h
    <2> QED BY <1>3, <1>5, <1>6, <1>7, <1>8 DEF CompareUpTo
  <1> QED BY <1>3, <1>9

LEMMA ComparingEquation ==
  comparing = [n \in Nat |-> CompareLevel(comparing, n)]
  <1> DEFINE up(n) == CHOOSE g : CompareUpTo(n, g)
             f == [n \in Nat |-> up(n)[n]]
  <1>1. \A n \in Nat : CompareUpTo(n, up(n))
    BY CompareUpToExists
  <1> HIDE DEF up
  <1>2. \A n \in Nat : f[n] = CompareLevel(up(n), n)
    BY <1>1 DEF CompareUpTo
  <1>3. \A n \in Nat : n # 0 => f[n - 1] = up(n)[n - 1]
    <2> TAKE n \in Nat
    <2> HAVE n # 0
    <2>1. n - 1 \in Nat /\ n - 1 \in 0..n - 1 \cap 0..n OBVIOUS
    <2>2. up(n - 1)[n - 1] = up(n)[n - 1]
      BY <1>1, <2>1, CompareUpToAgree
    <2> QED BY <2>1, <2>2
  <1>4. \A n \in Nat : CompareLevel(up(n), n) = CompareLevel(f, n)
    <2> HIDE DEF f
    <2> QED BY <1>3, CompareLevelLocal
  <1>5. f = [n \in Nat |-> CompareLevel(f, n)]
    <2>1. \A n \in Nat : f[n] = CompareLevel(f, n) BY <1>2, <1>4
    <2>2. f = [n \in Nat |-> f[n]] OBVIOUS
    <2> HIDE DEF f
    <2> QED BY <2>1, <2>2
  <1> HIDE DEF f
  <1>6. \E F : F = [n \in Nat |-> CompareLevel(F, n)]
    BY <1>5
  <1> QED BY <1>6 DEF comparing, CompareLevel

LEMMA AcceptedAt ==
  ASSUME NEW n \in Nat, NEW r \in AllNodes, NEW s \in AllNodes, NEW d \in Values
  PROVE  /\ accepting[0][r, s, d] = TRUE
         /\ n # 0 => accepting[n][r, s, d] = AcceptsAt(accepting[n - 1], r, s, d)
  <1>1. <<r, s, d>> \in Questions
    BY DEF Questions
  <1>2. \A m \in Nat : [k \in Nat |-> AcceptLevel(accepting, k)][m] = AcceptLevel(accepting, m)
    OBVIOUS
  <1>3. accepting[0] = AcceptLevel(accepting, 0) /\ accepting[n] = AcceptLevel(accepting, n)
    BY <1>2, AcceptingEquation
  <1> DEFINE x == <<r, s, d>>
  <1>4. x[1] = r /\ x[2] = s /\ x[3] = d
    OBVIOUS
  <1>5. AcceptLevel(accepting, 0)[x] = TRUE
    BY <1>1 DEF AcceptLevel
  <1>6. n # 0 => AcceptLevel(accepting, n)[x] = AcceptsAt(accepting[n - 1], r, s, d)
    BY <1>1, <1>4 DEF AcceptLevel
  <1> QED BY <1>3, <1>5, <1>6

LEMMA ComparedAt ==
  ASSUME NEW n \in Nat, NEW o \in AllNodes, NEW c \in AllNodes
  PROVE  /\ comparing[0][o, c] = {"<depth>"}
         /\ n # 0 => comparing[n][o, c] = CompareAt(comparing[n - 1], o, c)
  <1>1. <<o, c>> \in Pairs
    BY DEF Pairs
  <1>2. \A m \in Nat : [k \in Nat |-> CompareLevel(comparing, k)][m] = CompareLevel(comparing, m)
    OBVIOUS
  <1>3. comparing[0] = CompareLevel(comparing, 0) /\ comparing[n] = CompareLevel(comparing, n)
    BY <1>2, ComparingEquation
  <1> DEFINE x == <<o, c>>
  <1>4. x[1] = o /\ x[2] = c
    OBVIOUS
  <1>5. CompareLevel(comparing, 0)[x] = {"<depth>"}
    BY <1>1 DEF CompareLevel
  <1>6. n # 0 => CompareLevel(comparing, n)[x] = CompareAt(comparing[n - 1], o, c)
    BY <1>1, <1>4 DEF CompareLevel
  <1> QED BY <1>3, <1>5, <1>6

\* What the comparator says of two schemas when it flags nothing, and of a keyword
\* they share.
Passes(o, c) == o = c \/ \E m \in Nat : comparing[m][o, c] = {}

Open(o) == LET additional == o["additionalProperties"]
           IN  Has(o, "additionalProperties") => additional = True \/ EmptySchema(additional)
Closed(o) == Has(o, "additionalProperties") /\ o["additionalProperties"] = False

NamedPass(ov, nv) == \A x \in DOMAIN ov \cap DOMAIN nv : Passes(ov[x], nv[x])
FieldsPass(o, ov, nv) ==
  /\ NamedPass(ov, nv)
  /\ Open(o) \/ DOMAIN nv \subseteq DOMAIN ov
  /\ Closed(o) \/ DOMAIN ov \subseteq DOMAIN nv
ItemsPass(ov, nv) ==
  \/ Has(ov, "each") /\ Has(nv, "each") /\ Passes(ov["each"], nv["each"])
  \/ /\ ~ Has(ov, "each") /\ ~ Has(nv, "each") /\ Len(ov["tuple"]) = Len(nv["tuple"])
     /\ \A i \in DOMAIN ov["tuple"] : Passes(ov["tuple"][i], nv["tuple"][i])
AdditionalPass(ov, nv) ==
  \/ Rank(nv) < Rank(ov)
  \/ ~ Boolean(ov) /\ Passes(ov, nv)

KeyPasses(key, o, ov, nv) ==
  \/ ov = nv
  \/ key \in UPPER /\ nv <= ov
  \/ key \in LOWER /\ nv >= ov
  \/ key = "multipleOf" /\ Divides(ov, nv)
  \/ key = "enum" /\ ToSet(nv) \subseteq ToSet(ov)
  \/ key = "required" /\ ToSet(ov) \subseteq ToSet(nv)
  \/ key = "properties" /\ FieldsPass(o, ov, nv)
  \/ key = "$defs" /\ NamedPass(ov, nv)
  \/ key = "items" /\ ItemsPass(ov, nv)
  \/ key = "additionalProperties" /\ AdditionalPass(ov, nv)

LEMMA ScalarPasses ==
  ASSUME NEW key, NEW o, NEW ov, NEW nv, key \in UPPER \cup LOWER => ov \in Int /\ nv \in Int,
         ~ ScalarWidens(key, ov, nv)
  PROVE  KeyPasses(key, o, ov, nv)
  <1>1. CASE key \in UPPER
    <2>1. key \notin LOWER \cup {"multipleOf", "enum", "required"} BY <1>1 DEF UPPER, LOWER
    <2>2. nv <= ov BY <1>1, <2>1 DEF ScalarWidens
    <2> QED BY <1>1, <2>2 DEF KeyPasses
  <1>2. CASE key \in LOWER
    <2>1. key \notin UPPER \cup {"multipleOf", "enum", "required"} BY <1>2 DEF UPPER, LOWER
    <2>2. nv >= ov BY <1>2, <2>1 DEF ScalarWidens
    <2> QED BY <1>2, <2>2 DEF KeyPasses
  <1>3. CASE key \notin UPPER \cup LOWER
    <2>1. \/ key = "multipleOf" /\ Divides(ov, nv)
          \/ key = "enum" /\ ToSet(nv) \subseteq ToSet(ov)
          \/ key = "required" /\ ToSet(ov) \ ToSet(nv) = {}
      BY <1>3 DEF ScalarWidens, ValueSet
    <2> QED BY <2>1 DEF KeyPasses
  <1> QED BY <1>1, <1>2, <1>3

\* The schemas within a schema, of a set that holds those right below it.
LEMMA BelowWithin ==
  ASSUME NEW S, NEW s, Below(s) \subseteq S
  PROVE  /\ \A key \in DOMAIN s \cap NAMED : \A x \in DOMAIN s[key] : s[key][x] \in S
         /\ \A key \in DOMAIN s \cap SINGLE : s[key] \in S
         /\ Has(s, "items") /\ Has(s["items"], "each") => s["items"]["each"] \in S
         /\ Has(s, "items") /\ ~ Has(s["items"], "each") =>
              \A i \in DOMAIN s["items"]["tuple"] : s["items"]["tuple"][i] \in S
  <1> DEFINE inside(key) == {s[key][x] : x \in DOMAIN s[key]}
             A == UNION {inside(key) : key \in DOMAIN s \cap NAMED}
             B == UNION {Elements(s[key]) : key \in DOMAIN s \cap {"items"}}
             C == {s[key] : key \in DOMAIN s \cap SINGLE}
  <1>0. Below(s) = (A \cup B) \cup C
    BY DEF Below
  <1>1. A \subseteq S /\ B \subseteq S /\ C \subseteq S
    <2> HIDE DEF A, B, C
    <2> QED BY <1>0
  <1>2. ASSUME NEW key \in DOMAIN s \cap NAMED, NEW x \in DOMAIN s[key]
        PROVE  s[key][x] \in S
    <2>1. s[key][x] \in inside(key) OBVIOUS
    <2> HIDE DEF inside
    <2>2. s[key][x] \in A BY <2>1
    <2> HIDE DEF A, B, C
    <2> QED BY <2>2, <1>1
  <1>3. ASSUME NEW key \in DOMAIN s \cap SINGLE PROVE s[key] \in S
    <2>1. s[key] \in C OBVIOUS
    <2> HIDE DEF A, B, C
    <2> QED BY <2>1, <1>1
  <1>4. ASSUME Has(s, "items") PROVE Elements(s["items"]) \subseteq S
    <2>1. Elements(s["items"]) \subseteq B
      BY <1>4 DEF Has
    <2> HIDE DEF A, B, C
    <2> QED BY <2>1, <1>1
  <1>5. ASSUME Has(s, "items"), Has(s["items"], "each") PROVE s["items"]["each"] \in S
    BY <1>4, <1>5 DEF Elements
  <1>6. ASSUME Has(s, "items"), ~ Has(s["items"], "each"), NEW i \in DOMAIN s["items"]["tuple"]
        PROVE  s["items"]["tuple"][i] \in S
    <2>1. ToSet(s["items"]["tuple"]) \subseteq S
      BY <1>4, <1>6 DEF Elements
    <2> QED BY <1>6, <2>1 DEF ToSet
  <1> QED BY <1>2, <1>3, <1>5, <1>6

\* Schemas within a schema of a family belong to the family.
LEMMA NodesWithin ==
  ASSUME NEW f \in DOMAIN Schemas, NEW s \in Nodes[f], ~ Boolean(s)
  PROVE  /\ s \in AllNodes /\ Nodes[f] \subseteq AllNodes
         /\ \A key \in DOMAIN s \cap NAMED : \A x \in DOMAIN s[key] : s[key][x] \in Nodes[f]
         /\ \A key \in DOMAIN s \cap SINGLE : s[key] \in Nodes[f]
         /\ Has(s, "prefixItems") => s["prefixItems"] \in Seq(Nodes[f])
         /\ Has(s, "items") /\ Has(s["items"], "each") => s["items"]["each"] \in Nodes[f]
         /\ Has(s, "items") /\ ~ Has(s["items"], "each") =>
              /\ s["items"]["tuple"] \in Seq(Nodes[f])
              /\ \A i \in DOMAIN s["items"]["tuple"] : s["items"]["tuple"][i] \in Nodes[f]
  <1>1. Nodes[f] \subseteq AllNodes
    BY SchemaAssumption DEF AllNodes
  <1>2. Below(s) \subseteq Nodes[f]
    BY SchemaAssumption
  <1>3. /\ Has(s, "prefixItems") => s["prefixItems"] \in Seq(Nodes[f])
        /\ Has(s, "items") /\ ~ Has(s["items"], "each") =>
             s["items"]["tuple"] \in Seq(Nodes[f])
    BY SchemaAssumption
  <1> QED BY <1>1, <1>2, <1>3, BelowWithin

\* No keyword that differs is flagged, one level down, unless it passes.
LEMMA ChangedPasses ==
  ASSUME NEW f \in DOMAIN Schemas, Distinct(f), NEW o \in Nodes[f], NEW c \in Nodes[f],
         ~ Boolean(o), ~ Boolean(c), NEW m \in Nat, NEW key \in DOMAIN o \cap DOMAIN c,
         CompareChanged(comparing[m], key, o[key], c[key], o) = {}
  PROVE  KeyPasses(key, o, o[key], c[key])
  <1> DEFINE ov == o[key]
             nv == c[key]
             cmp == comparing[m]
  <1>1. \A a, b : cmp[a, b] = {} => Passes(a, b)
    BY DEF Passes
  <1> HIDE DEF cmp
  <1>2. CASE key \in {"properties", "$defs"}
    <2>1. \A x \in DOMAIN ov \cap DOMAIN nv : ov[x] \in Nodes[f] /\ nv[x] \in Nodes[f]
      BY <1>2, NodesWithin DEF NAMED
    <2>2. CASE key = "properties"
      <3>1. CompareProperties(cmp, ov, nv, o) = {}
        BY <2>2 DEF CompareChanged, cmp
      <3> DEFINE inner(n) == cmp[ov[n], nv[n]]
      <3>2. /\ UNION {inner(n) : n \in DOMAIN ov \cap DOMAIN nv} = {}
            /\ Open(o) \/ DOMAIN nv \subseteq DOMAIN ov
            /\ Closed(o) \/ DOMAIN ov \subseteq DOMAIN nv
        <4> DEFINE Inner == UNION {inner(n) : n \in DOMAIN ov \cap DOMAIN nv}
                   Added == FlagIf(~ Open(o) /\ DOMAIN nv \ DOMAIN ov # {}, "properties")
                   Removed == FlagIf(~ Closed(o) /\ DOMAIN ov \ DOMAIN nv # {}, "properties")
        <4>1. (Inner \cup Added) \cup Removed = {}
          BY <3>1 DEF CompareProperties, Open, Closed
        <4> HIDE DEF Inner
        <4>2. Inner = {} /\ Added = {} /\ Removed = {}
          <5> HIDE DEF Added, Removed
          <5> QED BY <4>1
        <4>3. (Open(o) \/ DOMAIN nv \ DOMAIN ov = {}) /\ (Closed(o) \/ DOMAIN ov \ DOMAIN nv = {})
          BY <4>2 DEF FlagIf
        <4> QED BY <4>2, <4>3 DEF Inner
      <3>3. \A n \in DOMAIN ov \cap DOMAIN nv : inner(n) = {}
        <4> HIDE DEF inner
        <4> QED BY <3>2
      <3>4. NamedPass(ov, nv)
        BY <1>1, <3>3 DEF NamedPass
      <3> QED BY <2>2, <3>2, <3>4 DEF KeyPasses, FieldsPass
    <2>3. CASE key = "$defs"
      <3>1. CompareDefs(cmp, ov, nv) = {}
        BY <2>3 DEF CompareChanged, cmp
      <3> DEFINE inner(n) == cmp[ov[n], nv[n]]
                 Others == {n \in DOMAIN ov \cap DOMAIN nv : ~ EqualNode(ov[n], nv[n])}
      <3>2. UNION {inner(n) : n \in Others} = {}
        BY <3>1 DEF CompareDefs
      <3>3. \A n \in Others : inner(n) = {}
        <4> HIDE DEF inner, Others
        <4> QED BY <3>2
      <3>4. \A n \in DOMAIN ov \cap DOMAIN nv : Passes(ov[n], nv[n])
        <4> TAKE n \in DOMAIN ov \cap DOMAIN nv
        <4>1. CASE EqualNode(ov[n], nv[n])
          BY <2>1, <4>1 DEF Distinct, Passes
        <4>2. CASE ~ EqualNode(ov[n], nv[n])
          BY <1>1, <3>3, <4>2
        <4> QED BY <4>1, <4>2
      <3> QED BY <2>3, <3>4 DEF KeyPasses, NamedPass
    <2> QED BY <1>2, <2>2, <2>3
  <1>3. CASE key = "items"
    <2>1. CompareItems(cmp, ov, nv) = {}
      BY <1>3 DEF CompareChanged, cmp
    <2>2. CASE Has(ov, "each") /\ Has(nv, "each")
      <3>1. cmp[ov["each"], nv["each"]] = {} BY <2>1, <2>2 DEF CompareItems
      <3> QED BY <1>1, <1>3, <2>2, <3>1 DEF KeyPasses, ItemsPass
    <2>3. CASE ~ (Has(ov, "each") /\ Has(nv, "each"))
      <3> DEFINE inner(i) == cmp[ov["tuple"][i], nv["tuple"][i]]
                 Others == {i \in DOMAIN ov["tuple"] : ~ EqualNode(ov["tuple"][i], nv["tuple"][i])}
      <3>1. /\ ~ Has(ov, "each") /\ ~ Has(nv, "each")
            /\ Len(ov["tuple"]) = Len(nv["tuple"])
            /\ UNION {inner(i) : i \in Others} = {}
        BY <2>1, <2>3 DEF CompareItems
      <3>2. \A i \in Others : inner(i) = {}
        <4> HIDE DEF inner, Others
        <4> QED BY <3>1
      <3>3. \A i \in DOMAIN ov["tuple"] :
              i \in DOMAIN nv["tuple"] /\ ov["tuple"][i] \in Nodes[f] /\ nv["tuple"][i] \in Nodes[f]
        <4>1. /\ ov["tuple"] \in Seq(Nodes[f]) /\ nv["tuple"] \in Seq(Nodes[f])
          BY <1>3, <3>1, NodesWithin DEF Has
        <4> DEFINE a == ov["tuple"]
                   b == nv["tuple"]
        <4>2. DOMAIN a = DOMAIN b
          <5>1. a \in Seq(Nodes[f]) /\ b \in Seq(Nodes[f]) /\ Len(a) = Len(b)
            BY <3>1, <4>1
          <5> HIDE DEF a, b
          <5> QED BY <5>1
        <4> QED BY <4>1, <4>2
      <3>4. \A i \in DOMAIN ov["tuple"] : Passes(ov["tuple"][i], nv["tuple"][i])
        <4> TAKE i \in DOMAIN ov["tuple"]
        <4>1. CASE EqualNode(ov["tuple"][i], nv["tuple"][i])
          BY <3>3, <4>1 DEF Distinct, Passes
        <4>2. CASE ~ EqualNode(ov["tuple"][i], nv["tuple"][i])
          BY <1>1, <3>2, <4>2
        <4> QED BY <4>1, <4>2
      <3> QED BY <1>3, <3>1, <3>4 DEF KeyPasses, ItemsPass
    <2> QED BY <2>2, <2>3
  <1>4. CASE key = "additionalProperties"
    <2>1. CompareAdditionalProperties(cmp, ov, nv) = {}
      BY <1>4 DEF CompareChanged, cmp
    <2>2. Rank(ov) \in 0..2 /\ Rank(nv) \in 0..2
      BY DEF Rank
    <2>3. ~ (Rank(nv) > Rank(ov))
      <3>1. SUFFICES ASSUME Rank(nv) > Rank(ov) PROVE FALSE
        OBVIOUS
      <3>2. ~ (Rank(nv) < Rank(ov))
        BY <2>2, <3>1
      <3>3. CompareAdditionalProperties(cmp, ov, nv) = {"additionalProperties"}
        BY <3>1, <3>2 DEF CompareAdditionalProperties
      <3> QED BY <2>1, <3>3
    <2>4. CASE Rank(nv) < Rank(ov)
      BY <1>4, <2>4 DEF KeyPasses, AdditionalPass
    <2>5. CASE Rank(nv) = Rank(ov)
      <3>1. CASE Boolean(ov)
        <4>1. ov = nv BY <2>5, <3>1 DEF Rank, Boolean
        <4> QED BY <4>1 DEF KeyPasses
      <3>2. CASE ~ Boolean(ov)
        <4>1. ~ (Rank(nv) > Rank(ov)) /\ ~ (Rank(nv) < Rank(ov)) BY <2>2, <2>5
        <4>2. cmp[ov, nv] = {} BY <2>1, <3>2, <4>1 DEF CompareAdditionalProperties
        <4> QED BY <1>1, <1>4, <3>2, <4>2 DEF KeyPasses, AdditionalPass
      <3> QED BY <3>1, <3>2
    <2> QED BY <2>2, <2>3, <2>4, <2>5
  <1>5. CASE key \notin {"properties", "$defs", "items", "additionalProperties"}
    <2>1. FlagIf(ScalarWidens(key, ov, nv), key) = {}
      BY <1>5 DEF CompareChanged
    <2>2. ~ ScalarWidens(key, ov, nv)
      BY <2>1 DEF FlagIf
    <2>3. key \in UPPER \cup LOWER => ov \in Int /\ nv \in Int
      BY SchemaAssumption
    <2> QED BY <2>2, <2>3, ScalarPasses
  <1> QED BY <1>2, <1>3, <1>4, <1>5

\* A schema that passes shows every constraint of the old one, as wide or narrower.
LEMMA PassesKeys ==
  ASSUME NEW f \in DOMAIN Schemas, Distinct(f), NEW o \in Nodes[f], NEW c \in Nodes[f],
         Passes(o, c)
  PROVE  /\ Boolean(o) \/ Boolean(c) => o = c
         /\ ~ Boolean(o) /\ ~ Boolean(c) => \A key \in DOMAIN o \ METADATA :
              key \in DOMAIN c /\ KeyPasses(key, o, o[key], c[key])
  <1>1. CASE o = c
    BY <1>1 DEF KeyPasses
  <1>2. CASE o # c
    <2>1. PICK m \in Nat : comparing[m][o, c] = {}
      BY <1>2 DEF Passes
    <2>2. o \in AllNodes /\ c \in AllNodes
      BY SchemaAssumption DEF AllNodes
    <2>3. m # 0
      BY <2>1, <2>2, ComparedAt
    <2>4. m - 1 \in Nat
      BY <2>3
    <2>5. CompareAt(comparing[m - 1], o, c) = {}
      BY <2>1, <2>2, <2>3, ComparedAt
    <2>6. CASE Boolean(o) \/ Boolean(c)
      <3>1. EqualNode(o, c) BY <2>5, <2>6 DEF CompareAt, FlagIf
      <3> QED BY <1>2, <3>1 DEF Distinct
    <2>7. CASE ~ Boolean(o) /\ ~ Boolean(c)
      <3> DEFINE flags(key) == CompareChanged(comparing[m - 1], key, o[key], c[key], o)
      <3>1. /\ UNION {flags(key) : key \in Changed(o, c)} = {}
            /\ (DOMAIN o \ DOMAIN c) \ METADATA = {}
        <4> DEFINE Flags == UNION {flags(key) : key \in Changed(o, c)}
                   Removed == (DOMAIN o \ DOMAIN c) \ METADATA
        <4>1. Flags \cup Removed = {}
          BY <2>5, <2>7 DEF CompareAt
        <4> HIDE DEF Flags, Removed
        <4>2. Flags = {} /\ Removed = {}
          BY <4>1
        <4> QED BY <4>2 DEF Flags, Removed
      <3>2. \A key \in Changed(o, c) : flags(key) = {}
        <4> HIDE DEF flags
        <4> QED BY <3>1
      <3>3. ASSUME NEW key \in DOMAIN o \ METADATA
            PROVE  key \in DOMAIN c /\ KeyPasses(key, o, o[key], c[key])
        <4>1. key \in DOMAIN o \cap DOMAIN c BY <3>1
        <4>2. CASE key \in Changed(o, c)
          BY <2>4, <2>7, <3>2, <4>1, <4>2, ChangedPasses
        <4>3. CASE key \notin Changed(o, c)
          <5>1. Equal(key, o[key], c[key]) BY <4>1, <4>3 DEF Changed
          <5>2. o[key] = c[key] BY <2>7, <4>1, <5>1 DEF Distinct
          <5> QED BY <4>1, <5>2 DEF KeyPasses
        <4> QED BY <4>1, <4>2, <4>3
      <3> QED BY <2>7, <3>3
    <2> QED BY <2>6, <2>7
  <1> QED BY <1>1, <1>2

LEMMA Multiple ==
  ASSUME NEW x \in Int, NEW y \in Nat \ {0}, x % y = 0
  PROVE  \E q \in Int : x = y * q
  OBVIOUS

LEMMA MultipleOfMultiple ==
  ASSUME NEW a \in Nat \ {0}, NEW b \in Nat \ {0}, NEW v \in Int, v % b = 0, b % a = 0
  PROVE  v % a = 0
  <1>2. PICK p \in Int : v = b * p
    BY Multiple
  <1>3. PICK q \in Int : b = a * q
    BY Multiple
  <1>4. v = a * (q * p) /\ q * p \in Int
    BY <1>2, <1>3
  <1>5. \A x \in Int : (a * x) % a = 0
    OBVIOUS
  <1> QED BY <1>4, <1>5

\* Small divisors are told exactly: a float is near an integer only if it is one.
LEMMA ExactDivides ==
  ASSUME NEW a \in Nat \ {0}, NEW b \in Nat \ {0}, 2 * a <= TOLERANCE
  PROVE  Divides(a, b) <=> b % a = 0
  <1>1. TOLERANCE \in Nat \ {0}
    BY SMT DEF TOLERANCE
  <1>2. (a - 1) \div TOLERANCE = 0
    BY <1>1, SMT
  <1>3. b % a \in 0 .. (a - 1)
    OBVIOUS
  <1> DEFINE r == b % a
  <1>4. (IF r <= a - r THEN r ELSE a - r) <= 0 <=> r = 0
    <2> HIDE DEF r
    <2>1. r \in 0 .. (a - 1)
      BY <1>3 DEF r
    <2> QED BY <2>1
  <1> QED BY <1>2, <1>4 DEF Divides

LEMMA SizeIsNumber ==
  ASSUME NEW key, NEW d \in Values, d.t = Bounded(key)
  PROVE  Size(d) \in Int
  <1>1. d.t \in {"string", "array", "object", "integer"}
    BY DEF Bounded
  <1>2. CASE d.t = "array"
    BY <1>2, DocumentAssumption DEF Size
  <1>3. CASE d.t = "object"
    <2>1. Cardinality(DOMAIN d.v) \in Nat
      BY <1>3, DocumentAssumption, FS_CardinalityType
    <2> QED BY <1>3, <2>1 DEF Size
  <1>4. CASE d.t \in {"string", "integer"}
    BY <1>4, DocumentAssumption DEF Size
  <1> QED BY <1>1, <1>2, <1>3, <1>4

LEMMA WithinCarries ==
  ASSUME NEW key \in UPPER \cup LOWER, NEW d \in Values, NEW ov \in Int, NEW nv \in Int,
         key \in UPPER => nv <= ov, key \in LOWER => nv >= ov, Within(key, nv, d)
  PROVE  Within(key, ov, d)
  <1>1. SUFFICES ASSUME d.t = Bounded(key)
                 PROVE  /\ key \in UPPER =>
                             IF key = "exclusiveMaximum" THEN Size(d) < ov ELSE Size(d) <= ov
                        /\ key \in LOWER =>
                             IF key = "exclusiveMinimum" THEN Size(d) > ov ELSE Size(d) >= ov
    BY DEF Within
  <1>2. Size(d) \in Int
    BY <1>1, SizeIsNumber
  <1>3. /\ key \in UPPER => IF key = "exclusiveMaximum" THEN Size(d) < nv ELSE Size(d) <= nv
        /\ key \in LOWER => IF key = "exclusiveMinimum" THEN Size(d) > nv ELSE Size(d) >= nv
    BY <1>1 DEF Within
  <1> QED BY <1>2, <1>3

AllPass(o, c) ==
  \A key \in DOMAIN o \ METADATA : key \in DOMAIN c /\ KeyPasses(key, o, o[key], c[key])

LEMMA FlatCarries ==
  ASSUME NEW f \in DOMAIN Schemas, NEW o \in Nodes[f], NEW c \in Nodes[f],
         Exact(f), ~ Boolean(o), ~ Boolean(c), AllPass(o, c), NEW d \in Values, FlatAccepts(c, d)
  PROVE  FlatAccepts(o, d)
  <1>1. Has(o, "type") => d.t = o["type"]
    <2> HAVE Has(o, "type")
    <2>1. "type" \in DOMAIN o \ METADATA /\ "type" \notin UPPER \cup LOWER
      BY DEF Has, METADATA, UPPER, LOWER
    <2>2. Has(c, "type") /\ o["type"] = c["type"]
      BY <2>1 DEF AllPass, KeyPasses, Has
    <2> QED BY <2>2 DEF FlatAccepts
  <1>2. \A key \in DOMAIN o \cap (UPPER \cup LOWER) : Within(key, o[key], d)
    <2> TAKE key \in DOMAIN o \cap (UPPER \cup LOWER)
    <2>1. /\ key \notin METADATA
          /\ key \notin {"multipleOf", "enum", "required", "properties", "$defs", "items",
                         "additionalProperties"}
          /\ ~ (key \in UPPER /\ key \in LOWER)
      BY DEF METADATA, UPPER, LOWER
    <2>2. key \in DOMAIN c /\ KeyPasses(key, o, o[key], c[key])
      BY <2>1 DEF AllPass
    <2>3. o[key] \in Int /\ c[key] \in Int
      BY <2>2, SchemaAssumption
    <2>4. (key \in UPPER => c[key] <= o[key]) /\ (key \in LOWER => c[key] >= o[key])
      BY <2>1, <2>2, <2>3 DEF KeyPasses
    <2>5. Within(key, c[key], d)
      BY <2>2 DEF FlatAccepts
    <2> QED BY <2>3, <2>4, <2>5, WithinCarries
  <1>3. Has(o, "multipleOf") /\ d.t = "integer" => d.v % o["multipleOf"] = 0
    <2> HAVE Has(o, "multipleOf") /\ d.t = "integer"
    <2>1. "multipleOf" \in DOMAIN o \ METADATA /\ "multipleOf" \notin UPPER \cup LOWER
      BY DEF Has, METADATA, UPPER, LOWER
    <2>2. /\ Has(c, "multipleOf")
          /\ o["multipleOf"] = c["multipleOf"] \/ Divides(o["multipleOf"], c["multipleOf"])
      BY <2>1 DEF AllPass, KeyPasses, Has
    <2>3. o["multipleOf"] \in Nat \ {0} /\ c["multipleOf"] \in Nat \ {0} /\ d.v \in Int
      BY <2>2, SchemaAssumption, DocumentAssumption
    <2>4. d.v % c["multipleOf"] = 0
      BY <2>2 DEF FlatAccepts
    <2>5. o["multipleOf"] = c["multipleOf"] \/ c["multipleOf"] % o["multipleOf"] = 0
      BY <2>2, <2>3, ExactDivides DEF Exact
    <2> QED BY <2>3, <2>4, <2>5, MultipleOfMultiple
  <1>4. Has(o, "enum") => d \in ToSet(o["enum"])
    <2> HAVE Has(o, "enum")
    <2>1. "enum" \in DOMAIN o \ METADATA /\ "enum" \notin UPPER \cup LOWER
      BY DEF Has, METADATA, UPPER, LOWER
    <2>2. Has(c, "enum") /\ ToSet(c["enum"]) \subseteq ToSet(o["enum"])
      BY <2>1 DEF AllPass, KeyPasses, Has
    <2> QED BY <2>2 DEF FlatAccepts
  <1>5. Has(o, "const") => d = o["const"]
    <2> HAVE Has(o, "const")
    <2>1. "const" \in DOMAIN o \ METADATA /\ "const" \notin UPPER \cup LOWER
      BY DEF Has, METADATA, UPPER, LOWER
    <2>2. Has(c, "const") /\ o["const"] = c["const"]
      BY <2>1 DEF AllPass, KeyPasses, Has
    <2> QED BY <2>2 DEF FlatAccepts
  <1>6. Has(o, "required") /\ d.t = "object" => ToSet(o["required"]) \subseteq DOMAIN d.v
    <2> HAVE Has(o, "required") /\ d.t = "object"
    <2>1. "required" \in DOMAIN o \ METADATA /\ "required" \notin UPPER \cup LOWER
      BY DEF Has, METADATA, UPPER, LOWER
    <2>2. Has(c, "required") /\ ToSet(o["required"]) \subseteq ToSet(c["required"])
      BY <2>1 DEF AllPass, KeyPasses, Has
    <2> QED BY <2>2 DEF FlatAccepts
  <1> QED BY <1>1, <1>2, <1>3, <1>4, <1>5, <1>6 DEF FlatAccepts

\* Two root schemas of a family whose conditions hold, the newer one passed.
Roots(f, old, new) ==
  /\ f \in DOMAIN Schemas /\ Sound(f) /\ Exact(f) /\ Distinct(f)
  /\ old \in Schemas[f] /\ new \in Schemas[f] /\ Passes(old, new)

\* At a level, what the newer of two schemas accepts the older one accepts too.
Carries(f, old, new, k) ==
  \A o, c \in Nodes[f] : Passes(o, c) =>
    \A d \in Values : accepting[k][new, c, d] => accepting[k][old, o, d]

LEMMA AllowAllAccepts ==
  ASSUME NEW k \in Nat, NEW r \in AllNodes, NEW s \in AllNodes, NEW d \in Values,
         k = 0 \/ s = True \/ EmptySchema(s)
  PROVE  accepting[k][r, s, d]
  <1>1. CASE k = 0
    BY <1>1, AcceptedAt
  <1>2. CASE k # 0 /\ (s = True \/ EmptySchema(s))
    <2>2. accepting[k][r, s, d] = AcceptsAt(accepting[k - 1], r, s, d)
      BY <1>2, AcceptedAt
    <2>3. AcceptsAt(accepting[k - 1], r, s, d)
      <3>1. CASE s = True
        BY <3>1 DEF AcceptsAt, Boolean
      <3>2. CASE EmptySchema(s)
        <4>1. ~ Boolean(s) /\ \A key : ~ Has(s, key)
          BY <3>2 DEF EmptySchema, Has
        <4>2. FlatAccepts(s, d)
          BY <3>2, <4>1 DEF FlatAccepts, EmptySchema
        <4>3. UnionAccepts(accepting[k - 1], r, s, d) /\ ArrayAccepts(accepting[k - 1], r, s, d)
          BY <4>1 DEF UnionAccepts, ArrayAccepts
        <4>4. \A name : FieldAccepts(accepting[k - 1], r, s, name, d.v[name])
          BY <4>1 DEF FieldAccepts, Named, Matching
        <4> QED BY <4>1, <4>2, <4>3, <4>4 DEF AcceptsAt
      <3> QED BY <1>2, <3>1, <3>2
    <2> QED BY <2>2, <2>3
  <1> QED BY <1>1, <1>2

LEMMA FalseRefuses ==
  ASSUME NEW k \in Nat, NEW r \in AllNodes, NEW d \in Values, False \in AllNodes,
         accepting[k][r, False, d]
  PROVE  k = 0
  <1>1. SUFFICES ASSUME k # 0 PROVE FALSE
    OBVIOUS
  <1>2. accepting[k][r, False, d] = AcceptsAt(accepting[k - 1], r, False, d)
    BY <1>1, AcceptedAt
  <1>3. \A acc : ~ AcceptsAt(acc, r, False, d)
    BY SchemaAssumption DEF AcceptsAt, Boolean
  <1> QED BY <1>2, <1>3

\* The definitions a reference may name pass with their roots.
LEMMA DefinitionsPass ==
  ASSUME NEW f, NEW old, NEW new, Roots(f, old, new),
         NEW s \in Nodes[f], ~ Boolean(s), Has(s, "$ref")
  PROVE  LET name == s["$ref"] IN
         /\ old["$defs"][name] \in Nodes[f] /\ new["$defs"][name] \in Nodes[f]
         /\ Passes(old["$defs"][name], new["$defs"][name])
  <1> DEFINE name == s["$ref"]
  <1>1. /\ f \in DOMAIN Schemas /\ old \in Nodes[f] /\ new \in Nodes[f] /\ Passes(old, new)
        /\ Distinct(f) /\ Sound(f) /\ old \in Schemas[f] /\ new \in Schemas[f]
    BY SchemaAssumption DEF Roots
  <1>2. \A r \in {old, new} : ~ Boolean(r) /\ Has(r, "$defs") /\ name \in DOMAIN r["$defs"]
    BY <1>1 DEF Sound
  <1>3. old["$defs"][name] \in Nodes[f] /\ new["$defs"][name] \in Nodes[f]
    BY <1>1, <1>2, NodesWithin DEF Has, NAMED
  <1>4. "$defs" \in DOMAIN old \ METADATA /\ "$defs" \notin UPPER \cup LOWER
    BY <1>2 DEF Has, METADATA, UPPER, LOWER
  <1>5. KeyPasses("$defs", old, old["$defs"], new["$defs"])
    BY <1>1, <1>2, <1>4, PassesKeys
  <1>6. old["$defs"] = new["$defs"] \/ NamedPass(old["$defs"], new["$defs"])
    BY <1>4, <1>5 DEF KeyPasses
  <1>7. Passes(old["$defs"][name], new["$defs"][name])
    <2>1. CASE old["$defs"] = new["$defs"]
      BY <2>1 DEF Passes
    <2>2. CASE NamedPass(old["$defs"], new["$defs"])
      BY <1>2, <2>2 DEF NamedPass
    <2> QED BY <1>6, <2>1, <2>2
  <1> QED BY <1>3, <1>7

\* What a schema without references accepts is the same under every root.
SameUnder(f, r, q, k) ==
  \A s \in Plain[f], d \in Values : accepting[k][r, s, d] = accepting[k][q, s, d]

LEMMA PlainWithin ==
  ASSUME NEW f \in DOMAIN Schemas, NEW s \in Plain[f], ~ Boolean(s)
  PROVE  /\ ~ Has(s, "$ref")
         /\ \A key \in DOMAIN s \cap NAMED : \A x \in DOMAIN s[key] : s[key][x] \in Plain[f]
         /\ \A key \in DOMAIN s \cap SINGLE : s[key] \in Plain[f]
         /\ Has(s, "items") /\ Has(s["items"], "each") => s["items"]["each"] \in Plain[f]
         /\ Has(s, "items") /\ ~ Has(s["items"], "each") =>
              \A i \in DOMAIN s["items"]["tuple"] : s["items"]["tuple"][i] \in Plain[f]
         /\ Has(s, "prefixItems") => s["prefixItems"] \in Seq(Nodes[f])
         /\ Has(s, "items") /\ ~ Has(s["items"], "each") =>
              s["items"]["tuple"] \in Seq(Nodes[f])
  <1>1. s \in Nodes[f] /\ ~ Has(s, "$ref") /\ Below(s) \subseteq Plain[f]
    BY PlainAssumption
  <1> QED BY <1>1, BelowWithin, NodesWithin

\* The elements of an array of documents, and their positions in a shorter list.
LEMMA ElementsAreValues ==
  ASSUME NEW d \in Values, d.t = "array"
  PROVE  /\ \A i \in DOMAIN d.v : i \in Nat \ {0} /\ d.v[i] \in Values
         /\ \A S : \A q \in Seq(S) : \A i \in DOMAIN d.v :
              i <= Len(q) => i \in DOMAIN q /\ q[i] \in S
  <1>1. d.v \in Seq(Values)
    BY DocumentAssumption
  <1>2. \A i \in DOMAIN d.v : i \in Nat \ {0} /\ d.v[i] \in Values
    BY <1>1
  <1>3. ASSUME NEW S, NEW q \in Seq(S), NEW i \in DOMAIN d.v, i <= Len(q)
        PROVE  i \in DOMAIN q /\ q[i] \in S
    <2>1. i \in 1 .. Len(q)
      BY <1>2, <1>3
    <2> QED BY <2>1
  <1> QED BY <1>2, <1>3

LEMMA PlainUnion ==
  ASSUME NEW f \in DOMAIN Schemas, NEW r, NEW q, NEW k, SameUnder(f, r, q, k),
         NEW s \in Plain[f], ~ Boolean(s), NEW d \in Values
  PROVE  UnionAccepts(accepting[k], r, s, d) <=> UnionAccepts(accepting[k], q, s, d)
  <1> DEFINE acc == accepting[k]
             at(p, x) == acc[p, x, d]
  <1>1. \A x \in Plain[f] : at(r, x) = at(q, x)
    BY DEF SameUnder
  <1>2. \A key \in {"anyOf", "allOf", "oneOf"} : Has(s, key) =>
          \A i \in DOMAIN s[key] : at(r, s[key][i]) = at(q, s[key][i])
    <2> TAKE key \in {"anyOf", "allOf", "oneOf"}
    <2> HAVE Has(s, key)
    <2>1. \A i \in DOMAIN s[key] : s[key][i] \in Plain[f]
      BY PlainWithin DEF Has, NAMED
    <2> HIDE DEF at
    <2> QED BY <1>1, <2>1
  <1>3. \A key \in {"not", "if", "then", "else"} : Has(s, key) => at(r, s[key]) = at(q, s[key])
    <2> TAKE key \in {"not", "if", "then", "else"}
    <2> HAVE Has(s, key)
    <2>1. s[key] \in Plain[f]
      BY PlainWithin DEF Has, SINGLE
    <2> HIDE DEF at
    <2> QED BY <1>1, <2>1
  <1>4. Has(s, "oneOf") =>
          {i \in DOMAIN s["oneOf"] : at(r, s["oneOf"][i])}
            = {i \in DOMAIN s["oneOf"] : at(q, s["oneOf"][i])}
    <2> HAVE Has(s, "oneOf")
    <2>1. \A i \in DOMAIN s["oneOf"] : at(r, s["oneOf"][i]) = at(q, s["oneOf"][i])
      BY <1>2
    <2> HIDE DEF at
    <2> QED BY <2>1
  <1>5. /\ Has(s, "anyOf") => ((\E i \in DOMAIN s["anyOf"] : at(r, s["anyOf"][i]))
                               <=> \E i \in DOMAIN s["anyOf"] : at(q, s["anyOf"][i]))
        /\ Has(s, "allOf") => ((\A i \in DOMAIN s["allOf"] : at(r, s["allOf"][i]))
                               <=> \A i \in DOMAIN s["allOf"] : at(q, s["allOf"][i]))
    <2>1. \A key \in {"anyOf", "allOf"} : Has(s, key) =>
            \A i \in DOMAIN s[key] : at(r, s[key][i]) = at(q, s[key][i])
      BY <1>2
    <2> HIDE DEF at
    <2> QED BY <2>1
  <1>6. ~ Has(s, "$ref")
    BY PlainWithin
  <1> DEFINE Tested(p) == LET branch == IF at(p, s["if"]) THEN "then" ELSE "else"
                          IN  Has(s, branch) => at(p, s[branch])
  <1>7. (Has(s, "if") => Tested(r)) <=> (Has(s, "if") => Tested(q))
    <2> HIDE DEF at
    <2> QED BY <1>3
  <1>8. Has(s, "not") => at(r, s["not"]) = at(q, s["not"])
    BY <1>3
  <1> QED BY <1>4, <1>5, <1>6, <1>7, <1>8 DEF UnionAccepts

LEMMA PlainArray ==
  ASSUME NEW f \in DOMAIN Schemas, NEW r, NEW q, NEW k, SameUnder(f, r, q, k),
         NEW s \in Plain[f], ~ Boolean(s), NEW d \in Values, d.t = "array"
  PROVE  ArrayAccepts(accepting[k], r, s, d) <=> ArrayAccepts(accepting[k], q, s, d)
  <1> DEFINE at(p, x, i) == accepting[k][p, x, d.v[i]]
  <1>1. \A x \in Plain[f], i \in DOMAIN d.v : at(r, x, i) = at(q, x, i)
    BY ElementsAreValues DEF SameUnder
  <1> DEFINE starts(p, list) == \A i \in DOMAIN d.v : i <= Len(list) => at(p, list[i], i)
  <1>2. ASSUME NEW list \in Seq(Nodes[f]), \A i \in DOMAIN list : list[i] \in Plain[f]
        PROVE  starts(r, list) <=> starts(q, list)
    <2>1. \A i \in DOMAIN d.v : i <= Len(list) => list[i] \in Plain[f]
      BY <1>2, ElementsAreValues
    <2> HIDE DEF at
    <2> QED BY <1>1, <2>1
  <1>3. Has(s, "prefixItems") => (starts(r, s["prefixItems"]) <=> starts(q, s["prefixItems"]))
    <2> HAVE Has(s, "prefixItems")
    <2>1. s["prefixItems"] \in Seq(Nodes[f])
          /\ \A i \in DOMAIN s["prefixItems"] : s["prefixItems"][i] \in Plain[f]
      BY PlainWithin DEF Has, NAMED
    <2> HIDE DEF starts
    <2> QED BY <1>2, <2>1
  <1>4. Has(s, "items") /\ ~ Has(s["items"], "each") =>
          (starts(r, s["items"]["tuple"]) <=> starts(q, s["items"]["tuple"]))
    <2> HAVE Has(s, "items") /\ ~ Has(s["items"], "each")
    <2>1. s["items"]["tuple"] \in Seq(Nodes[f])
          /\ \A i \in DOMAIN s["items"]["tuple"] : s["items"]["tuple"][i] \in Plain[f]
      BY PlainWithin
    <2> HIDE DEF starts
    <2> QED BY <1>2, <2>1
  <1> DEFINE goes(p, x) == \A i \in DOMAIN d.v : i > Rest(s) => at(p, x, i)
  <1>5. Has(s, "items") /\ Has(s["items"], "each") =>
          (goes(r, s["items"]["each"]) <=> goes(q, s["items"]["each"]))
    <2> HAVE Has(s, "items") /\ Has(s["items"], "each")
    <2>1. s["items"]["each"] \in Plain[f]
      BY PlainWithin
    <2> HIDE DEF at
    <2> QED BY <1>1, <2>1
  <1> QED BY <1>3, <1>4, <1>5 DEF ArrayAccepts, PrefixAccepts, ItemsAccept

LEMMA PlainField ==
  ASSUME NEW f \in DOMAIN Schemas, NEW r, NEW q, NEW k, SameUnder(f, r, q, k),
         NEW s \in Plain[f], ~ Boolean(s), NEW name, NEW v \in Values
  PROVE  FieldAccepts(accepting[k], r, s, name, v) <=> FieldAccepts(accepting[k], q, s, name, v)
  <1> DEFINE at(p, x) == accepting[k][p, x, v]
  <1>1. \A x \in Plain[f] : at(r, x) = at(q, x)
    BY DEF SameUnder
  <1>2. Named(s, name) => s["properties"][name] \in Plain[f]
    BY PlainWithin DEF Named, Has, NAMED
  <1>3. \A p \in Matching(s, name) : s["patternProperties"][p] \in Plain[f]
    BY PlainWithin DEF Matching, Has, NAMED
  <1>4. Has(s, "additionalProperties") => s["additionalProperties"] \in Plain[f]
    BY PlainWithin DEF Has, SINGLE
  <1>5. Named(s, name) => at(r, s["properties"][name]) = at(q, s["properties"][name])
    <2> HIDE DEF at
    <2> QED BY <1>1, <1>2
  <1>6. \A p \in Matching(s, name) :
          at(r, s["patternProperties"][p]) = at(q, s["patternProperties"][p])
    <2> HIDE DEF at
    <2> QED BY <1>1, <1>3
  <1>7. Has(s, "additionalProperties") =>
          at(r, s["additionalProperties"]) = at(q, s["additionalProperties"])
    <2> HIDE DEF at
    <2> QED BY <1>1, <1>4
  <1> QED BY <1>5, <1>6, <1>7 DEF FieldAccepts

LEMMA PlainLevel ==
  ASSUME NEW f \in DOMAIN Schemas, NEW r \in AllNodes, NEW q \in AllNodes,
         NEW k \in Nat, k # 0, SameUnder(f, r, q, k - 1)
  PROVE  SameUnder(f, r, q, k)
  <1>1. SUFFICES ASSUME NEW s \in Plain[f], NEW d \in Values
                 PROVE  accepting[k][r, s, d] = accepting[k][q, s, d]
    BY DEF SameUnder
  <1> DEFINE acc == accepting[k - 1]
  <1>2. s \in AllNodes
    BY PlainAssumption, SchemaAssumption DEF AllNodes
  <1>3. /\ accepting[k][r, s, d] = AcceptsAt(acc, r, s, d)
        /\ accepting[k][q, s, d] = AcceptsAt(acc, q, s, d)
    BY <1>2, AcceptedAt
  <1>4. AcceptsAt(acc, r, s, d) <=> AcceptsAt(acc, q, s, d)
    <2>1. CASE Boolean(s)
      BY <2>1 DEF AcceptsAt
    <2>2. CASE ~ Boolean(s)
      <3>1. UnionAccepts(acc, r, s, d) <=> UnionAccepts(acc, q, s, d)
        BY <2>2, PlainUnion
      <3>2. d.t = "array" => (ArrayAccepts(acc, r, s, d) <=> ArrayAccepts(acc, q, s, d))
        BY <2>2, PlainArray
      <3>3. d.t = "object" =>
              \A name \in DOMAIN d.v : FieldAccepts(acc, r, s, name, d.v[name])
                                         <=> FieldAccepts(acc, q, s, name, d.v[name])
        <4> SUFFICES ASSUME d.t = "object", NEW name \in DOMAIN d.v
                     PROVE  FieldAccepts(acc, r, s, name, d.v[name])
                              <=> FieldAccepts(acc, q, s, name, d.v[name])
          OBVIOUS
        <4>1. d.v[name] \in Values
          BY DocumentAssumption
        <4> QED BY <2>2, <4>1, PlainField
      <3> QED BY <2>2, <3>1, <3>2, <3>3 DEF AcceptsAt
    <2> QED BY <2>1, <2>2
  <1>5. AcceptsAt(acc, r, s, d) \in BOOLEAN /\ AcceptsAt(acc, q, s, d) \in BOOLEAN
    BY DEF AcceptsAt
  <1> QED BY <1>3, <1>4, <1>5

LEMMA PlainSame ==
  ASSUME NEW f \in DOMAIN Schemas, NEW r \in AllNodes, NEW q \in AllNodes
  PROVE  \A k \in Nat : SameUnder(f, r, q, k)
  <1> DEFINE Failing == {k \in Nat : ~ SameUnder(f, r, q, k)}
  <1>1. SUFFICES ASSUME Failing # {} PROVE FALSE
    OBVIOUS
  <1>2. PICK k \in Failing : \A j \in Failing : k <= j
    BY <1>1, Least
  <1>3. CASE k = 0
    <2>1. SameUnder(f, r, q, 0)
      <3>1. Plain[f] \subseteq AllNodes
        BY PlainAssumption, SchemaAssumption DEF AllNodes
      <3>2. \A s \in Plain[f], d \in Values :
              accepting[0][r, s, d] = TRUE /\ accepting[0][q, s, d] = TRUE
        BY <3>1, AcceptedAt
      <3> QED BY <3>2 DEF SameUnder
    <2> QED BY <1>2, <1>3, <2>1
  <1>4. CASE k # 0
    <2>1. k - 1 \in Nat /\ k - 1 \notin Failing
      BY <1>2, <1>4
    <2>2. SameUnder(f, r, q, k)
      BY <1>2, <1>4, <2>1, PlainLevel
    <2> QED BY <1>2, <2>2
  <1> QED BY <1>3, <1>4

\* One keyword at a time, a schema that passes carries over what the level below does.
LEMMA UnionCarries ==
  ASSUME NEW f, NEW old, NEW new, Roots(f, old, new), NEW k \in Nat, Carries(f, old, new, k),
         NEW o \in Nodes[f], NEW c \in Nodes[f], ~ Boolean(o), ~ Boolean(c), AllPass(o, c),
         NEW d \in Values, UnionAccepts(accepting[k], new, c, d)
  PROVE  UnionAccepts(accepting[k], old, o, d)
  <1>1. f \in DOMAIN Schemas /\ old \in AllNodes /\ new \in AllNodes /\ Sound(f)
    BY SchemaAssumption DEF Roots, AllNodes
  <1>2. \A key \in {"$ref", "anyOf", "allOf", "oneOf", "not", "if", "then", "else"} :
          Has(o, key) => Has(c, key) /\ o[key] = c[key]
    <2> TAKE key \in {"$ref", "anyOf", "allOf", "oneOf", "not", "if", "then", "else"}
    <2> HAVE Has(o, key)
    <2>1. key \in DOMAIN o \ METADATA /\ key \notin UPPER \cup LOWER
      BY DEF Has, METADATA, UPPER, LOWER
    <2> QED BY <2>1 DEF AllPass, KeyPasses, Has
  <1>3. \A s \in Nodes[f] : accepting[k][new, s, d] => accepting[k][old, s, d]
    BY DEF Carries, Passes
  <1>4. Has(o, "$ref") => accepting[k][old, old["$defs"][o["$ref"]], d]
    <2> HAVE Has(o, "$ref")
    <2>1. accepting[k][new, new["$defs"][o["$ref"]], d]
      BY <1>2 DEF UnionAccepts
    <2> QED BY <2>1, DefinitionsPass DEF Carries
  <1>5. Has(o, "anyOf") => \E i \in DOMAIN o["anyOf"] : accepting[k][old, o["anyOf"][i], d]
    <2> HAVE Has(o, "anyOf")
    <2>1. \A i \in DOMAIN o["anyOf"] : o["anyOf"][i] \in Nodes[f]
      BY <1>1, NodesWithin DEF Has, NAMED
    <2>2. \E i \in DOMAIN o["anyOf"] : accepting[k][new, o["anyOf"][i], d]
      BY <1>2 DEF UnionAccepts
    <2> QED BY <1>3, <2>1, <2>2
  <1>6. Has(o, "allOf") => \A i \in DOMAIN o["allOf"] : accepting[k][old, o["allOf"][i], d]
    <2> HAVE Has(o, "allOf")
    <2>1. \A i \in DOMAIN o["allOf"] : o["allOf"][i] \in Nodes[f]
      BY <1>1, NodesWithin DEF Has, NAMED
    <2>2. \A i \in DOMAIN o["allOf"] : accepting[k][new, o["allOf"][i], d]
      BY <1>2 DEF UnionAccepts
    <2> QED BY <1>3, <2>1, <2>2
  \* Where a document may be refused for a match, the root makes no difference.
  <1> DEFINE at(r, s) == accepting[k][r, s, d]
  <1>7. \A s \in Plain[f] : at(old, s) = at(new, s)
    BY <1>1, PlainSame DEF SameUnder
  <1>8. Has(o, "oneOf") =>
          Cardinality({i \in DOMAIN o["oneOf"] : at(old, o["oneOf"][i])}) = 1
    <2> HAVE Has(o, "oneOf")
    <2>1. \A i \in DOMAIN o["oneOf"] : o["oneOf"][i] \in Plain[f]
      BY <1>1 DEF Sound
    <2>2. {i \in DOMAIN o["oneOf"] : at(old, o["oneOf"][i])}
            = {i \in DOMAIN o["oneOf"] : at(new, o["oneOf"][i])}
      <3> HIDE DEF at
      <3> QED BY <1>7, <2>1
    <2>3. Cardinality({i \in DOMAIN o["oneOf"] : at(new, o["oneOf"][i])}) = 1
      BY <1>2 DEF UnionAccepts
    <2> QED BY <2>2, <2>3
  <1>9. Has(o, "not") => ~ at(old, o["not"])
    <2> HAVE Has(o, "not")
    <2>1. o["not"] \in Plain[f]
      BY <1>1 DEF Sound, Has
    <2>2. ~ at(new, o["not"])
      BY <1>2 DEF UnionAccepts
    <2> HIDE DEF at
    <2> QED BY <1>7, <2>1, <2>2
  <1>10. Has(o, "if") =>
           LET branch == IF at(old, o["if"]) THEN "then" ELSE "else"
           IN  Has(o, branch) => at(old, o[branch])
    <2> HAVE Has(o, "if")
    <2> DEFINE branch == IF at(old, o["if"]) THEN "then" ELSE "else"
    <2>1. SUFFICES ASSUME Has(o, branch) PROVE at(old, o[branch])
      OBVIOUS
    <2>2. o["if"] \in Plain[f] /\ o[branch] \in Nodes[f]
      BY <1>1, <2>1, NodesWithin DEF Sound, Has, SINGLE
    <2>3. at(old, o["if"]) = at(new, o["if"])
      <3> HIDE DEF at, branch
      <3> QED BY <1>7, <2>2
    <2>4. branch = IF at(new, c["if"]) THEN "then" ELSE "else"
      <3>1. o["if"] = c["if"]
        BY <1>2
      <3> HIDE DEF at
      <3> QED BY <2>3, <3>1
    <2>5. Has(c, branch) /\ Has(c, "if") /\ o[branch] = c[branch]
      BY <1>2, <2>1
    <2>6. at(new, c[branch])
      <3> HIDE DEF branch
      <3> QED BY <2>4, <2>5 DEF UnionAccepts
    <2> HIDE DEF branch
    <2> QED BY <1>3, <2>2, <2>5, <2>6
  <1> QED BY <1>4, <1>5, <1>6, <1>8, <1>9, <1>10 DEF UnionAccepts

LEMMA PrefixCarries ==
  ASSUME NEW f, NEW old, NEW new, NEW k \in Nat, Carries(f, old, new, k),
         NEW a \in Seq(Nodes[f]), NEW b \in Seq(Nodes[f]), Len(a) = Len(b),
         \A i \in DOMAIN a : Passes(a[i], b[i]),
         NEW d \in Values, d.t = "array", PrefixAccepts(accepting[k], new, b, d)
  PROVE  PrefixAccepts(accepting[k], old, a, d)
  <1>1. SUFFICES ASSUME NEW i \in DOMAIN d.v, i <= Len(a)
                 PROVE  accepting[k][old, a[i], d.v[i]]
    BY DEF PrefixAccepts
  <1>2. /\ i \in DOMAIN a /\ a[i] \in Nodes[f] /\ b[i] \in Nodes[f] /\ d.v[i] \in Values
        /\ i <= Len(b)
    BY <1>1, ElementsAreValues
  <1>3. accepting[k][new, b[i], d.v[i]]
    BY <1>2 DEF PrefixAccepts
  <1> QED BY <1>2, <1>3 DEF Carries

LEMMA ItemsCarry ==
  ASSUME NEW f, NEW old, NEW new, Roots(f, old, new), NEW k \in Nat, Carries(f, old, new, k),
         NEW o \in Nodes[f], NEW c \in Nodes[f], ~ Boolean(o), ~ Boolean(c), AllPass(o, c),
         NEW d \in Values, d.t = "array", ArrayAccepts(accepting[k], new, c, d)
  PROVE  ArrayAccepts(accepting[k], old, o, d)
  <1> DEFINE ov == o["items"]
             nv == c["items"]
  <1>1. f \in DOMAIN Schemas /\ Sound(f)
    BY DEF Roots
  <1>2. Has(o, "prefixItems") => Has(c, "prefixItems") /\ o["prefixItems"] = c["prefixItems"]
    <2> HAVE Has(o, "prefixItems")
    <2>1. "prefixItems" \in DOMAIN o \ METADATA /\ "prefixItems" \notin UPPER \cup LOWER
      BY DEF Has, METADATA, UPPER, LOWER
    <2> QED BY <2>1 DEF AllPass, KeyPasses, Has
  <1>3. Has(o, "prefixItems") => PrefixAccepts(accepting[k], old, o["prefixItems"], d)
    <2> HAVE Has(o, "prefixItems")
    <2>1. o["prefixItems"] \in Seq(Nodes[f])
      BY <1>1, NodesWithin
    <2>2. PrefixAccepts(accepting[k], new, o["prefixItems"], d)
      BY <1>2 DEF ArrayAccepts
    <2>3. \A i \in DOMAIN o["prefixItems"] : Passes(o["prefixItems"][i], o["prefixItems"][i])
      BY DEF Passes
    <2> QED BY <2>1, <2>2, <2>3, PrefixCarries
  <1>4. SUFFICES ASSUME Has(o, "items")
                 PROVE  ItemsAccept(accepting[k], old, ov, Rest(o), d)
    BY <1>3 DEF ArrayAccepts
  <1>5. "items" \in DOMAIN o \ METADATA /\ "items" \notin UPPER \cup LOWER
    BY <1>4 DEF Has, METADATA, UPPER, LOWER
  <1>6. Has(c, "items") /\ (ov = nv \/ ItemsPass(ov, nv))
    BY <1>5 DEF AllPass, KeyPasses, Has
  <1>7. Rest(o) = Rest(c)
    BY <1>1, <1>2, <1>4, <1>6 DEF Sound, Rest
  <1>8. ItemsAccept(accepting[k], new, nv, Rest(o), d)
    BY <1>6, <1>7 DEF ArrayAccepts
  <1>9. CASE Has(ov, "each")
    <2>1. Has(nv, "each") /\ Passes(ov["each"], nv["each"])
      BY <1>6, <1>9 DEF ItemsPass, Passes
    <2>2. ov["each"] \in Nodes[f] /\ nv["each"] \in Nodes[f]
      BY <1>1, <1>4, <1>6, <1>9, <2>1, NodesWithin
    <2>3. SUFFICES ASSUME NEW i \in DOMAIN d.v, i > Rest(o)
                   PROVE  accepting[k][old, ov["each"], d.v[i]]
      BY <1>9 DEF ItemsAccept
    <2>4. accepting[k][new, nv["each"], d.v[i]] /\ d.v[i] \in Values
      BY <1>8, <2>1, <2>3, ElementsAreValues DEF ItemsAccept
    <2> QED BY <2>1, <2>2, <2>4 DEF Carries
  <1>10. CASE ~ Has(ov, "each")
    <2>1. ~ Has(nv, "each") /\ Len(ov["tuple"]) = Len(nv["tuple"])
      BY <1>6, <1>10 DEF ItemsPass
    <2>2. ov["tuple"] \in Seq(Nodes[f]) /\ nv["tuple"] \in Seq(Nodes[f])
      BY <1>1, <1>4, <1>6, <1>10, <2>1, NodesWithin
    <2>3. \A i \in DOMAIN ov["tuple"] : Passes(ov["tuple"][i], nv["tuple"][i])
      BY <1>6, <1>10 DEF ItemsPass, Passes
    <2>4. PrefixAccepts(accepting[k], new, nv["tuple"], d)
      BY <1>8, <2>1 DEF ItemsAccept
    <2>5. PrefixAccepts(accepting[k], old, ov["tuple"], d)
      BY <2>1, <2>2, <2>3, <2>4, PrefixCarries
    <2> QED BY <1>10, <2>5 DEF ItemsAccept
  <1> QED BY <1>9, <1>10

LEMMA FieldsCarry ==
  ASSUME NEW f, NEW old, NEW new, Roots(f, old, new), NEW k \in Nat, Carries(f, old, new, k),
         NEW o \in Nodes[f], NEW c \in Nodes[f], ~ Boolean(o), ~ Boolean(c), AllPass(o, c),
         NEW name, NEW v \in Values, FieldAccepts(accepting[k], new, c, name, v)
  PROVE  FieldAccepts(accepting[k], old, o, name, v)
  <1>1. /\ f \in DOMAIN Schemas /\ Sound(f) /\ Nodes[f] \subseteq AllNodes
        /\ old \in AllNodes /\ new \in AllNodes
    BY SchemaAssumption DEF Roots, AllNodes
  <1>2. Has(o, "properties") =>
          /\ Has(c, "properties")
          /\ o["properties"] = c["properties"] \/ FieldsPass(o, o["properties"], c["properties"])
    <2> HAVE Has(o, "properties")
    <2>1. "properties" \in DOMAIN o \ METADATA /\ "properties" \notin UPPER \cup LOWER
      BY DEF Has, METADATA, UPPER, LOWER
    <2> QED BY <2>1 DEF AllPass, KeyPasses, Has
  <1>3. Has(o, "patternProperties") =>
          Has(c, "patternProperties") /\ o["patternProperties"] = c["patternProperties"]
    <2> HAVE Has(o, "patternProperties")
    <2>1. "patternProperties" \in DOMAIN o \ METADATA /\ "patternProperties" \notin UPPER \cup LOWER
      BY DEF Has, METADATA, UPPER, LOWER
    <2> QED BY <2>1 DEF AllPass, KeyPasses, Has
  <1>4. ASSUME Has(o, "additionalProperties")
        PROVE  /\ Has(c, "additionalProperties")
               /\ \/ o["additionalProperties"] = c["additionalProperties"]
                  \/ AdditionalPass(o["additionalProperties"], c["additionalProperties"])
               /\ o["additionalProperties"] \in Nodes[f] /\ c["additionalProperties"] \in Nodes[f]
               /\ Has(o, "properties") <=> Has(c, "properties")
               /\ Matching(o, name) = {} /\ Matching(c, name) = {}
    <2>1. /\ "additionalProperties" \in DOMAIN o \ METADATA
          /\ "additionalProperties" \notin UPPER \cup LOWER
      BY <1>4 DEF Has, METADATA, UPPER, LOWER
    <2>2. Has(c, "additionalProperties")
      BY <2>1 DEF AllPass, Has
    <2>3. o["additionalProperties"] \in Nodes[f] /\ c["additionalProperties"] \in Nodes[f]
      BY <1>1, <1>4, <2>2, NodesWithin DEF Has, SINGLE
    <2>4. /\ ~ Has(o, "patternProperties") /\ ~ Has(c, "patternProperties")
          /\ Has(o, "properties") <=> Has(c, "properties")
      BY <1>1, <1>4, <2>2 DEF Sound
    <2>5. \/ o["additionalProperties"] = c["additionalProperties"]
          \/ AdditionalPass(o["additionalProperties"], c["additionalProperties"])
      BY <2>1 DEF AllPass, KeyPasses
    <2> QED BY <2>2, <2>3, <2>4, <2>5 DEF Matching
  <1>5. ASSUME Named(o, name) PROVE accepting[k][old, o["properties"][name], v]
    <2> DEFINE a == o["properties"][name]
    <2>1. Has(o, "properties") /\ Has(c, "properties") /\ name \in DOMAIN o["properties"]
      BY <1>2, <1>5 DEF Named
    <2>2. a \in Nodes[f]
      BY <1>1, <2>1, NodesWithin DEF Has, NAMED
    <2>3. CASE name \in DOMAIN c["properties"]
      <3>1. Passes(a, c["properties"][name])
        BY <1>2, <2>1, <2>3 DEF FieldsPass, NamedPass, Passes
      <3>2. c["properties"][name] \in Nodes[f]
        BY <1>1, <2>1, <2>3, NodesWithin DEF Has, NAMED
      <3>3. accepting[k][new, c["properties"][name], v]
        BY <2>1, <2>3 DEF FieldAccepts, Named
      <3> QED BY <2>2, <3>1, <3>2, <3>3 DEF Carries
    <2>4. CASE name \notin DOMAIN c["properties"]
      <3>1. Closed(o)
        BY <1>2, <2>1, <2>4 DEF FieldsPass
      <3>2. Has(o, "additionalProperties")
        BY <3>1 DEF Closed
      <3>3. c["additionalProperties"] = False
        BY <1>4, <3>1, <3>2, SchemaAssumption DEF Closed, AdditionalPass, Rank, Boolean
      <3>4. False \in AllNodes
        BY <1>1, <1>4, <3>2, <3>3
      <3>5. accepting[k][new, False, v]
        BY <1>4, <2>4, <3>2, <3>3 DEF FieldAccepts, Named
      <3>6. k = 0
        BY <1>1, <3>4, <3>5, FalseRefuses
      <3> QED BY <1>1, <2>2, <3>6, AllowAllAccepts
    <2> QED BY <2>3, <2>4
  <1>6. ASSUME NEW q \in Matching(o, name) PROVE accepting[k][old, o["patternProperties"][q], v]
    <2>1. Has(o, "patternProperties") /\ q \in DOMAIN o["patternProperties"]
      BY <1>6 DEF Matching
    <2>2. q \in Matching(c, name) /\ o["patternProperties"] = c["patternProperties"]
      BY <1>3, <1>6, <2>1 DEF Matching
    <2>3. accepting[k][new, c["patternProperties"][q], v]
      BY <2>2 DEF FieldAccepts
    <2>4. o["patternProperties"][q] \in Nodes[f]
      BY <1>1, <2>1, NodesWithin DEF Has, NAMED
    <2>5. Passes(o["patternProperties"][q], c["patternProperties"][q])
      BY <2>2 DEF Passes
    <2> QED BY <2>2, <2>3, <2>4, <2>5 DEF Carries
  <1>7. ASSUME Has(o, "additionalProperties"), ~ Named(o, name)
        PROVE  accepting[k][old, o["additionalProperties"], v]
    <2> DEFINE a == o["additionalProperties"]
               b == c["additionalProperties"]
    <2>1. a \in Nodes[f] /\ b \in Nodes[f]
      BY <1>4, <1>7
    <2>2. CASE Named(c, name)
      <3>1. Open(o)
        BY <1>2, <1>4, <1>7, <2>2 DEF FieldsPass, Named
      <3>2. a = True \/ EmptySchema(a)
        BY <1>7, <3>1 DEF Open
      <3> QED BY <1>1, <2>1, <3>2, AllowAllAccepts
    <2>3. CASE ~ Named(c, name)
      <3>1. accepting[k][new, b, v]
        BY <1>4, <1>7, <2>3 DEF FieldAccepts
      <3>2. CASE Passes(a, b)
        BY <2>1, <3>1, <3>2 DEF Carries
      <3>3. CASE Rank(b) < Rank(a)
        <4>1. a = True \/ b = False
          BY <3>3 DEF Rank
        <4>2. CASE a = True
          BY <1>1, <2>1, <4>2, AllowAllAccepts
        <4>3. CASE b = False
          <5>1. k = 0
            BY <1>1, <2>1, <3>1, <4>3, FalseRefuses
          <5> QED BY <1>1, <2>1, <5>1, AllowAllAccepts
        <4> QED BY <4>1, <4>2, <4>3
      <3> QED BY <1>4, <1>7, <3>2, <3>3 DEF AdditionalPass, Passes
    <2> QED BY <2>2, <2>3
  <1> QED BY <1>5, <1>6, <1>7 DEF FieldAccepts

\* A level carries over what the level below it does.
LEMMA LevelCarries ==
  ASSUME NEW f, NEW old, NEW new, Roots(f, old, new),
         NEW k \in Nat, k # 0, Carries(f, old, new, k - 1)
  PROVE  Carries(f, old, new, k)
  <1>1. SUFFICES ASSUME NEW o \in Nodes[f], NEW c \in Nodes[f], Passes(o, c),
                        NEW d \in Values, accepting[k][new, c, d]
                 PROVE  accepting[k][old, o, d]
    BY DEF Carries
  <1> DEFINE acc == accepting[k - 1]
  <1>2. /\ f \in DOMAIN Schemas /\ Exact(f) /\ Distinct(f) /\ k - 1 \in Nat
        /\ old \in AllNodes /\ new \in AllNodes /\ o \in AllNodes /\ c \in AllNodes
    BY SchemaAssumption DEF Roots, AllNodes
  <1>3. /\ accepting[k][new, c, d] = AcceptsAt(acc, new, c, d)
        /\ accepting[k][old, o, d] = AcceptsAt(acc, old, o, d)
    BY <1>2, AcceptedAt
  <1>4. AcceptsAt(acc, new, c, d)
    BY <1>1, <1>3
  <1>5. AcceptsAt(acc, old, o, d)
    <2>1. CASE Boolean(o) \/ Boolean(c)
      <3>1. o = c
        BY <1>1, <1>2, <2>1, PassesKeys
      <3> QED BY <1>4, <2>1, <3>1 DEF AcceptsAt
    <2>2. CASE ~ Boolean(o) /\ ~ Boolean(c)
      <3>1. AllPass(o, c)
        BY <1>1, <1>2, <2>2, PassesKeys DEF AllPass
      <3>2. /\ FlatAccepts(c, d) /\ UnionAccepts(acc, new, c, d)
            /\ d.t = "array" => ArrayAccepts(acc, new, c, d)
            /\ d.t = "object" =>
                 \A name \in DOMAIN d.v : FieldAccepts(acc, new, c, name, d.v[name])
        BY <1>4, <2>2 DEF AcceptsAt
      <3>3. FlatAccepts(o, d)
        BY <1>2, <2>2, <3>1, <3>2, FlatCarries
      <3>4. UnionAccepts(acc, old, o, d)
        BY <1>2, <2>2, <3>1, <3>2, UnionCarries
      <3>5. d.t = "array" => ArrayAccepts(acc, old, o, d)
        BY <1>2, <2>2, <3>1, <3>2, ItemsCarry
      <3>6. d.t = "object" =>
              \A name \in DOMAIN d.v : FieldAccepts(acc, old, o, name, d.v[name])
        <4> SUFFICES ASSUME d.t = "object", NEW name \in DOMAIN d.v
                     PROVE  FieldAccepts(acc, old, o, name, d.v[name])
          OBVIOUS
        <4>1. d.v[name] \in Values
          BY DocumentAssumption
        <4>2. FieldAccepts(acc, new, c, name, d.v[name])
          BY <3>2
        <4> QED BY <1>2, <2>2, <3>1, <4>1, <4>2, FieldsCarry
      <3> QED BY <2>2, <3>3, <3>4, <3>5, <3>6 DEF AcceptsAt
    <2> QED BY <2>1, <2>2
  <1> QED BY <1>3, <1>5

LEMMA EveryLevelCarries ==
  ASSUME NEW f, NEW old, NEW new, Roots(f, old, new)
  PROVE  \A k \in Nat : Carries(f, old, new, k)
  <1> DEFINE Failing == {k \in Nat : ~ Carries(f, old, new, k)}
  <1>1. SUFFICES ASSUME Failing # {} PROVE FALSE
    OBVIOUS
  <1>2. PICK k \in Failing : \A j \in Failing : k <= j
    BY <1>1, Least
  <1>3. CASE k = 0
    <2>1. Carries(f, old, new, 0)
      <3>1. old \in AllNodes /\ Nodes[f] \subseteq AllNodes
        BY SchemaAssumption DEF Roots, AllNodes
      <3>2. \A o \in Nodes[f], d \in Values : accepting[0][old, o, d]
        BY <3>1, AllowAllAccepts
      <3> QED BY <3>2 DEF Carries
    <2> QED BY <1>2, <1>3, <2>1
  <1>4. CASE k # 0
    <2>1. k - 1 \in Nat /\ k - 1 \notin Failing
      BY <1>2, <1>4
    <2>2. Carries(f, old, new, k)
      BY <1>2, <1>4, <2>1, LevelCarries
    <2> QED BY <1>2, <2>2
  <1> QED BY <1>3, <1>4

\* The keywords flagged are those of the proposal being compared.
OracleInv ==
  /\ family \in DOMAIN Schemas /\ deployed \in Schemas[family]
  /\ proposed # Nothing =>
       proposed \in Schemas[family] /\ relaxations = Compare(deployed, proposed)

LEMMA OracleInvAlways == OracleSpec => []OracleInv
  <1>1. OracleInit => OracleInv
    BY DEF OracleInit, OracleInv
  <1>2. OracleInv /\ [OracleNext]_oracleVars => OracleInv'
    <2> SUFFICES ASSUME OracleInv, [OracleNext]_oracleVars PROVE OracleInv'
      OBVIOUS
    <2>1. CASE Diff
      BY <2>1 DEF OracleInv, Diff, Compare
    <2>2. CASE Promote
      BY <2>2 DEF OracleInv, Promote
    <2>3. CASE Refuse
      BY <2>3 DEF OracleInv, Refuse
    <2>4. CASE UNCHANGED oracleVars
      BY <2>4 DEF OracleInv, oracleVars, Compare
    <2> QED BY <2>1, <2>2, <2>3, <2>4 DEF OracleNext
  <1> QED BY <1>1, <1>2, PTL DEF OracleSpec

\* What the comparator passes accepts no document the old schema refuses, in every
\* family whose schemas meet the three conditions: no relaxation among them is promoted
\* through the CI gate of config/schema_oracle.py.
THEOREM NoRelaxationPasses ==
  ASSUME \A f \in DOMAIN Schemas : Sound(f) /\ Exact(f) /\ Distinct(f)
  PROVE  OracleSpec => []PassesNoRelaxation
  <1>1. OracleInv => PassesNoRelaxation
    <2> SUFFICES ASSUME OracleInv, proposed # Nothing, relaxations = {}
                 PROVE  Accepted(proposed) \subseteq Accepted(deployed)
      BY DEF PassesNoRelaxation
    <2>1. comparing[Depth][deployed, proposed] = {} /\ Depth \in Nat
      BY SchemaAssumption DEF OracleInv, Compare
    <2>2. Roots(family, deployed, proposed)
      BY <2>1 DEF OracleInv, Roots, Passes
    <2>3. Carries(family, deployed, proposed, Depth)
      BY <2>1, <2>2, EveryLevelCarries
    <2>4. deployed \in Nodes[family] /\ proposed \in Nodes[family]
      BY SchemaAssumption DEF OracleInv
    <2>5. Documents[family] \subseteq Values
      BY DocumentAssumption DEF OracleInv
    <2>6. \A d \in Documents[family] :
            accepting[Depth][proposed, proposed, d] => accepting[Depth][deployed, deployed, d]
      BY <2>2, <2>3, <2>4, <2>5 DEF Carries, Roots
    <2> QED BY <2>6 DEF Accepted, Accepts
  <1> QED BY <1>1, OracleInvAlways, PTL

LEMMA DivisorsOfEachOther ==
  ASSUME NEW a \in Nat \ {0}, NEW b \in Nat \ {0}, a % b = 0, b % a = 0
  PROVE  a = b
  <1>1. PICK p \in Int : a = b * p
    BY Multiple
  <1>2. PICK q \in Int : b = a * q
    BY Multiple
  <1>3. p > 0 /\ q > 0
    BY <1>1, <1>2
  <1>4. a >= b /\ b >= a
    BY <1>1, <1>2, <1>3
  <1> QED BY <1>4

\* What one keyword says of a document.
Says(key, v, d) ==
  /\ key = "type" => d.t = v
  /\ key \in UPPER \cup LOWER => Within(key, v, d)
  /\ key = "multipleOf" /\ d.t = "integer" => d.v % v = 0
  /\ key = "enum" => d \in ToSet(v)
  /\ key = "const" => d = v
  /\ key = "required" /\ d.t = "object" => ToSet(v) \subseteq DOMAIN d.v

LEMMA AloneSays ==
  ASSUME NEW key, NEW v, NEW d
  PROVE  FlatAccepts([x \in {key} |-> v], d) <=> Says(key, v, d)
  <1> DEFINE s == [x \in {key} |-> v]
  <1>1. DOMAIN s = {key} /\ s[key] = v
    OBVIOUS
  <1> HIDE DEF s
  <1>2. \A k : Has(s, k) <=> k = key
    BY <1>1 DEF Has
  <1>3. (\A k \in DOMAIN s \cap (UPPER \cup LOWER) : Within(k, s[k], d))
          <=> (key \in UPPER \cup LOWER => Within(key, v, d))
    BY <1>1
  <1>4. FlatAccepts(s, d) <=> Says(key, v, d)
    BY <1>1, <1>2, <1>3 DEF FlatAccepts, Says
  <1> QED BY <1>4 DEF s

\* A keyword that differs and narrows by itself is not one the comparator flags.
LEMMA NarrowerNotWidened ==
  ASSUME NEW f \in DOMAIN Schemas, Exact(f), DocumentsTell, NEW o \in Schemas[f], NEW c \in Schemas[f],
         ~ Boolean(o), ~ Boolean(c), NEW key \in DOMAIN o \cap DOMAIN c,
         key \in Decided \ METADATA, o[key] # c[key],
         \A d \in Documents[f] : FlatAccepts([x \in {key} |-> c[key]], d)
                                   => FlatAccepts([x \in {key} |-> o[key]], d)
  PROVE  ~ ScalarWidens(key, o[key], c[key])
  <1> DEFINE ov == o[key]
             nv == c[key]
  <1>1. Told(f, c, key)
    BY DEF DocumentsTell
  <1>2. Documents[f] \subseteq Values /\ o \in Nodes[f] /\ c \in Nodes[f]
    BY SchemaAssumption, DocumentAssumption
  <1>0. \A d \in Documents[f] : Says(key, nv, d) => Says(key, ov, d)
    <2>1. \A v, d : FlatAccepts([x \in {key} |-> v], d) <=> Says(key, v, d)
      BY AloneSays
    <2> QED BY <2>1, Zenon
  <1>3. CASE key \in UPPER \cup LOWER
    <2>1. ov \in Int /\ nv \in Int
      BY <1>2, <1>3, SchemaAssumption
    <2>2. key \notin {"type", "multipleOf", "enum", "const", "required"}
      BY <1>3 DEF UPPER, LOWER
    <2>3. PICK d \in Documents[f] :
            d.t = Bounded(key) /\ Size(d) = CASE key = "exclusiveMaximum" -> nv - 1
                                              [] key = "exclusiveMinimum" -> nv + 1
                                              [] OTHER -> nv
      BY <1>1, <1>3 DEF Told
    <2>4. /\ key = "exclusiveMaximum" => Size(d) = nv - 1
          /\ key = "exclusiveMinimum" => Size(d) = nv + 1
          /\ key \notin {"exclusiveMaximum", "exclusiveMinimum"} => Size(d) = nv
          /\ Size(d) \in Int
      BY <2>1, <2>3
    <2>5. /\ key \in UPPER => key # "exclusiveMinimum" /\ key \notin LOWER
          /\ key \in LOWER => key # "exclusiveMaximum" /\ key \notin UPPER
      BY DEF UPPER, LOWER
    <2>6. Within(key, nv, d)
      BY <2>1, <2>4, <2>5 DEF Within
    <2>7. Within(key, ov, d)
      BY <1>0, <1>3, <2>2, <2>6 DEF Says
    <2>8. (key \in UPPER => nv <= ov) /\ (key \in LOWER => nv >= ov)
      BY <2>1, <2>3, <2>4, <2>5, <2>7 DEF Within
    <2> QED BY <1>3, <2>1, <2>2, <2>5, <2>8 DEF ScalarWidens
  <1>4. CASE key = "multipleOf"
    <2>1. ov \in Nat \ {0} /\ nv \in Nat \ {0} /\ key \notin UPPER \cup LOWER
      BY <1>2, <1>4, SchemaAssumption DEF Has, UPPER, LOWER
    <2>2. PICK d \in Documents[f] : d.t = "integer" /\ d.v = nv
      BY <1>1, <1>4 DEF Told
    <2>3. nv % nv = 0
      BY <2>1
    <2>4. Says(key, nv, d)
      BY <1>4, <2>1, <2>2, <2>3 DEF Says
    <2>5. nv % ov = 0
      BY <1>0, <1>4, <2>2, <2>4 DEF Says
    <2>6. ~ (ov % nv = 0)
      BY <2>1, <2>5, DivisorsOfEachOther
    <2>7. ~ Divides(nv, ov) /\ Divides(ov, nv)
      <3>1. 2 * ov <= TOLERANCE /\ 2 * nv <= TOLERANCE
        BY <1>2, <1>4 DEF Exact, Has
      <3> QED BY <2>1, <2>5, <2>6, <3>1, ExactDivides
    <2> QED BY <1>4, <2>1, <2>7 DEF ScalarWidens
  <1>5. CASE key = "enum"
    <2>1. key \notin UPPER \cup LOWER
      BY <1>5 DEF UPPER, LOWER
    <2>2. ToSet(nv) \subseteq Documents[f]
      BY <1>1, <1>5 DEF Told
    <2>3. \A d \in ToSet(nv) : d \in ToSet(ov)
      BY <1>0, <1>5, <2>1, <2>2 DEF Says
    <2> QED BY <1>5, <2>1, <2>3 DEF ScalarWidens, ValueSet
  <1>6. CASE key = "required"
    <2>1. key \notin UPPER \cup LOWER
      BY <1>6 DEF UPPER, LOWER
    <2>2. PICK d \in Documents[f] : d.t = "object" /\ DOMAIN d.v = ToSet(nv)
      BY <1>1, <1>6 DEF Told
    <2>3. ToSet(ov) \subseteq ToSet(nv)
      BY <1>0, <1>6, <2>1, <2>2 DEF Says
    <2> QED BY <1>6, <2>1, <2>3 DEF ScalarWidens
  <1>7. CASE key = "type"
    <2>1. key \notin UPPER \cup LOWER
      BY <1>7 DEF UPPER, LOWER
    <2>2. PICK d \in Documents[f] : d.t = nv
      BY <1>1, <1>7 DEF Told
    <2>3. d.t = ov
      BY <1>0, <1>7, <2>1, <2>2 DEF Says
    <2> QED BY <2>2, <2>3
  <1> QED BY <1>3, <1>4, <1>5, <1>6, <1>7 DEF Decided

\* A proposal whose every keyword narrows by itself is not refused, whatever the
\* schemas: check_no_schema_relaxation returns on a pure tightening.  The documents must
\* be able to show that a keyword does not narrow, and divisors be within what floats
\* tell apart.
THEOREM TighteningNeverRefused ==
  ASSUME DocumentsTell, \A f \in DOMAIN Schemas : Exact(f)
  PROVE  OracleSpec => []TighteningPasses
  <1>1. OracleInv => TighteningPasses
    <2> DEFINE constraints(s) == DOMAIN s \ METADATA
    <2> SUFFICES ASSUME OracleInv, proposed # Nothing, ~ Boolean(deployed), ~ Boolean(proposed),
                        constraints(deployed) \subseteq constraints(proposed) \cap Decided,
                        \A key \in constraints(deployed) :
                          Alone(proposed, key) \subseteq Alone(deployed, key)
                 PROVE  relaxations = {}
      BY DEF TighteningPasses
    <2>1. /\ family \in DOMAIN Schemas
          /\ deployed \in Schemas[family] /\ proposed \in Schemas[family]
          /\ deployed \in AllNodes /\ proposed \in AllNodes
          /\ relaxations = comparing[Depth][deployed, proposed]
          /\ Depth \in Nat /\ Depth # 0
      BY SchemaAssumption DEF OracleInv, Compare, AllNodes
    <2> DEFINE cmp == comparing[Depth - 1]
               flags(key) == CompareChanged(cmp, key, deployed[key], proposed[key], deployed)
    <2>2. relaxations = CompareAt(cmp, deployed, proposed)
      BY <2>1, ComparedAt
    <2>3. ASSUME NEW key \in Changed(deployed, proposed) PROVE flags(key) = {}
      <3>1. /\ key \in DOMAIN deployed \cap DOMAIN proposed /\ key \in Decided \ METADATA
            /\ key \in constraints(deployed) /\ deployed[key] # proposed[key]
        BY DEF Changed, Equal
      <3>2. \A d \in Documents[family] :
              FlatAccepts([x \in {key} |-> proposed[key]], d)
                => FlatAccepts([x \in {key} |-> deployed[key]], d)
        BY <3>1 DEF Alone
      <3>3. ~ ScalarWidens(key, deployed[key], proposed[key])
        BY <2>1, <3>1, <3>2, NarrowerNotWidened
      <3>4. key \notin {"properties", "$defs", "items", "additionalProperties"}
        BY <3>1 DEF Decided, METADATA, UPPER, LOWER
      <3> QED BY <3>3, <3>4 DEF CompareChanged, FlagIf
    <2>4. (DOMAIN deployed \ DOMAIN proposed) \ METADATA = {}
      OBVIOUS
    <2>5. UNION {flags(key) : key \in Changed(deployed, proposed)} = {}
      <3> HIDE DEF flags
      <3> QED BY <2>3
    <2> QED BY <2>2, <2>4, <2>5 DEF CompareAt
  <1> QED BY <1>1, OracleInvAlways, PTL
=============================================================================
