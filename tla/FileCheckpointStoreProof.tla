---------------------- MODULE FileCheckpointStoreProof ----------------------
(***************************************************************************)
(* Proofs about the file-backed checkpoint store, for any number of steps, *)
(* processes, failing reads and writes, and crashes: type correctness,     *)
(* wholeness of records, agreement of cache and directory, and that the    *)
(* directory implements CheckpointStore.                                   *)
(***************************************************************************)
EXTENDS FileCheckpointStore, TLAPS

(* What the three record updates produce. *)
LEMMA BlankRecord == Blank \in Records
  BY DEF Blank, Records, Contract!Blank, Contract!Records

LEMMA UpdatesType == \A old \in Records, o \in Outputs, t \in Contract!Labels,
                        l \in Seals \cup {None} :
    /\ Contract!Completed(old, o, t, l) \in Records
    /\ Contract!Skipped(old) \in Records
  BY DEF Records, Contract!Records, Contract!Completed, Contract!Skipped

(* Every call that changes a step puts a typed record, made by one update  *)
(* of the contract from the cached one.                                    *)
LEMMA StepCalls ==
  ASSUME TypeOK, NEW i \in Instances, CommitStep(i) \/ StepSkipped(i)
  PROVE  \E s \in Steps, rec \in Records :
           Updates(cacheRecords[i][s], rec) /\ PutStep(i, s, rec)
<1>1. \A s \in Steps : cacheRecords[i][s] \in Records
  BY DEF TypeOK
<1>2. CASE CommitStep(i)
  <2>1. PICK s \in Steps, o \in Outputs, t \in Contract!Labels,
             l \in Seals \cup {None} :
             PutStep(i, s, Contract!Completed(cacheRecords[i][s], o, t, l))
    BY <1>2 DEF CommitStep
  <2>2. Contract!Completed(cacheRecords[i][s], o, t, l) \in Records
    BY <1>1, UpdatesType
  <2>3. Updates(cacheRecords[i][s], Contract!Completed(cacheRecords[i][s], o, t, l))
    BY DEF Updates, Contract!Updates
  <2> QED BY <2>1, <2>2, <2>3
<1>3. CASE StepSkipped(i)
  <2>1. PICK s \in Steps : PutStep(i, s, Contract!Skipped(cacheRecords[i][s]))
    BY <1>3 DEF StepSkipped
  <2>2. Contract!Skipped(cacheRecords[i][s]) \in Records
    <3>1. cacheRecords[i][s] \in Records
      BY <1>1
    <3> QED BY <3>1 DEF Records, Contract!Records, Contract!Skipped
  <2>3. Updates(cacheRecords[i][s], Contract!Skipped(cacheRecords[i][s]))
    BY DEF Updates, Contract!Updates
  <2> QED BY <2>1, <2>2, <2>3
<1> QED BY <1>2, <1>3

-----------------------------------------------------------------------------
LEMMA InitType == Init => TypeOK
  BY BlankRecord
  DEF Init, TypeOK, Contract!Init, Contract!TypeOK, Records, Blank, Blanks

LEMMA PutType ==
  ASSUME TypeOK, NEW i \in Instances, NEW s \in Steps, NEW rec \in Records,
         PutStep(i, s, rec)
  PROVE  TypeOK'
<1>1. [file |-> "step", step |-> s, data |-> rec] \in Writes
  BY DEF Writes, StepWrites
<1> QED BY <1>1 DEF TypeOK, Contract!TypeOK, PutStep, Ready, disk, cache

LEMMA NextType == TypeOK /\ [Next]_vars => TypeOK'
<1> SUFFICES ASSUME TypeOK, [Next]_vars
             PROVE  TypeOK'
  OBVIOUS
<1>1. CASE UNCHANGED vars
  BY <1>1 DEF TypeOK, Contract!TypeOK, vars
<1>2. ASSUME NEW i \in Instances, Load(i)
      PROVE  TypeOK'
  <2>1. PICK unread \in SUBSET Steps :
          cacheRecords' = [cacheRecords EXCEPT ![i] =
            [s \in Steps |-> IF s \in unread THEN Blank ELSE records[s]]]
    BY <1>2 DEF Load
  <2>2. [s \in Steps |-> IF s \in unread THEN Blank ELSE records[s]]
          \in [Steps -> Records]
    BY BlankRecord DEF TypeOK, Contract!TypeOK, Records
  <2>3. cacheRecords' \in [Instances -> [Steps -> Records]]
    BY <2>1, <2>2 DEF TypeOK
  <2>4. cacheFingerprint' \in [Instances -> Fingerprints \cup {None}]
    BY <1>2 DEF Load, TypeOK, Contract!TypeOK
  <2> QED BY <1>2, <2>3, <2>4 DEF Load, TypeOK, Contract!TypeOK, disk
<1>3. ASSUME NEW i \in Instances, CommitStep(i) \/ StepSkipped(i)
      PROVE  TypeOK'
  BY <1>3, StepCalls, PutType
<1>4. ASSUME NEW i \in Instances, RecordFingerprint(i)
      PROVE  TypeOK'
  <2>1. PICK f \in Fingerprints :
          /\ cacheFingerprint' = [cacheFingerprint EXCEPT ![i] = f]
          /\ writing' = [writing EXCEPT ![i] = [file |-> "run", data |-> f]]
    BY <1>4 DEF RecordFingerprint
  <2>2. [file |-> "run", data |-> f] \in Writes
    BY DEF Writes, RunWrites
  <2> QED BY <1>4, <2>1, <2>2
          DEF RecordFingerprint, TypeOK, Contract!TypeOK, disk
<1>5. ASSUME NEW i \in Instances, RecordApprovalRequest(i)
      PROVE  TypeOK'
  <2>1. PICK r \in Requests :
          writing' = [writing EXCEPT ![i] = [file |-> "approval", data |-> r]]
    BY <1>5 DEF RecordApprovalRequest
  <2>2. [file |-> "approval", data |-> r] \in Writes
    BY DEF Writes, ApprovalWrites
  <2> QED BY <1>5, <2>1, <2>2
          DEF RecordApprovalRequest, TypeOK, Contract!TypeOK, disk, cache
<1>6. ASSUME NEW i \in Instances, ClearApprovalRequest(i)
      PROVE  TypeOK'
  BY <1>6 DEF ClearApprovalRequest, TypeOK, Contract!TypeOK, cache
<1>7. ASSUME NEW i \in Instances, ReplaceStep(i)
      PROVE  TypeOK'
  <2>1. writing[i].step \in Steps /\ writing[i].data \in Records
    BY <1>7 DEF ReplaceStep, StepWrites
  <2>2. records' \in [Steps -> Records]
    BY <1>7, <2>1 DEF ReplaceStep, TypeOK, Contract!TypeOK, Records
  <2> QED BY <1>7, <2>2
          DEF ReplaceStep, TypeOK, Contract!TypeOK, Records, cache
<1>8. ASSUME NEW i \in Instances, ReplaceRun(i)
      PROVE  TypeOK'
  <2>1. writing[i].data \in Fingerprints
    BY <1>8 DEF ReplaceRun, RunWrites
  <2> QED BY <1>8, <2>1 DEF ReplaceRun, TypeOK, Contract!TypeOK, cache
<1>9. ASSUME NEW i \in Instances, ReplaceApproval(i)
      PROVE  TypeOK'
  <2>1. writing[i].data \in Requests
    BY <1>9 DEF ReplaceApproval, ApprovalWrites
  <2> QED BY <1>9, <2>1 DEF ReplaceApproval, TypeOK, Contract!TypeOK, cache
<1>10. ASSUME NEW i \in Instances, WriteFails(i) \/ Crash(i)
       PROVE  TypeOK'
  <2>1. strays' \subseteq StepWrites
    BY <1>10 DEF WriteFails, Crash, Abandoned, TypeOK
  <2>2. Blanks \in [Steps -> Records]
    BY BlankRecord DEF Blanks
  <2>3. /\ cacheRecords' \in [Instances -> [Steps -> Records]]
        /\ cacheFingerprint' \in [Instances -> Fingerprints \cup {None}]
    BY <1>10, <2>2 DEF WriteFails, Crash, TypeOK, cache
  <2> QED BY <1>10, <2>1, <2>3
          DEF WriteFails, Crash, TypeOK, Contract!TypeOK, disk, cache
<1> QED BY <1>1, <1>2, <1>3, <1>4, <1>5, <1>6, <1>7, <1>8, <1>9, <1>10
        DEF Next

(* Every variable has its type, whatever the processes do and whatever     *)
(* reads and writes fail.                                                  *)
THEOREM TypeCorrect == Spec => []TypeOK
  BY InitType, NextType, PTL DEF Spec

-----------------------------------------------------------------------------
(* A completed record has an output and a label wherever it is: on disk,   *)
(* in a cache and in a write.                                              *)
Whole(rec) == Contract!Whole(rec)

WholeInv ==
  /\ TypeOK
  /\ \A s \in Steps : Whole(records[s])
  /\ \A i \in Instances, s \in Steps : Whole(cacheRecords[i][s])
  /\ \A i \in Instances : writing[i] \in StepWrites => Whole(writing[i].data)

LEMMA BlankWhole == Whole(Blank)
  BY DEF Whole, Contract!Whole, Blank, Contract!Blank

LEMMA UpdatesWhole ==
  ASSUME NEW old \in Records, Whole(old), NEW new, Updates(old, new)
  PROVE  Whole(new)
<1>1. CASE new = Contract!Skipped(old)
  BY <1>1 DEF Whole, Contract!Whole, Contract!Skipped, Records, Contract!Records
<1>2. CASE \E o \in Outputs, t \in Contract!Labels, l \in Seals \cup {None} :
             new = Contract!Completed(old, o, t, l)
  BY <1>2, FileStoreAssumption, NoneAssumption
  DEF Whole, Contract!Whole, Contract!Completed, Records, Contract!Records
<1> QED BY <1>1, <1>2 DEF Updates, Contract!Updates

LEMMA NextWhole == WholeInv /\ [Next]_vars => WholeInv'
<1> SUFFICES ASSUME WholeInv, [Next]_vars
             PROVE  WholeInv'
  OBVIOUS
<1>0. TypeOK /\ TypeOK'
  BY NextType DEF WholeInv
<1>1. CASE UNCHANGED vars
  BY <1>0, <1>1 DEF WholeInv, vars, Whole
<1>2. ASSUME NEW i \in Instances, Load(i)
      PROVE  WholeInv'
  <2>1. PICK unread \in SUBSET Steps :
          cacheRecords' = [cacheRecords EXCEPT ![i] =
            [s \in Steps |-> IF s \in unread THEN Blank ELSE records[s]]]
    BY <1>2 DEF Load
  <2>2. \A j \in Instances, s \in Steps : Whole(cacheRecords'[j][s])
    BY <1>0, <2>1, BlankWhole DEF WholeInv, TypeOK
  <2> QED BY <1>0, <1>2, <2>2 DEF WholeInv, Load, disk
<1>3. ASSUME NEW i \in Instances, CommitStep(i) \/ StepSkipped(i)
      PROVE  WholeInv'
  <2>1. PICK s \in Steps, rec \in Records :
          Updates(cacheRecords[i][s], rec) /\ PutStep(i, s, rec)
    BY <1>0, <1>3, StepCalls
  <2>2. Whole(rec)
    <3>1. cacheRecords[i][s] \in Records /\ Whole(cacheRecords[i][s])
      BY <1>0 DEF WholeInv, TypeOK
    <3> QED BY <2>1, <3>1, UpdatesWhole
  <2>3. \A j \in Instances, r \in Steps : Whole(cacheRecords'[j][r])
    BY <1>0, <2>1, <2>2 DEF WholeInv, TypeOK, PutStep
  <2>4. \A j \in Instances : writing'[j] \in StepWrites => Whole(writing'[j].data)
    BY <1>0, <2>1, <2>2 DEF WholeInv, TypeOK, PutStep
  <2> QED BY <1>0, <2>1, <2>3, <2>4 DEF WholeInv, PutStep, disk
<1>4. ASSUME NEW i \in Instances,
             RecordFingerprint(i) \/ RecordApprovalRequest(i)
      PROVE  WholeInv'
  <2>1. \E w : writing' = [writing EXCEPT ![i] = w] /\ w \notin StepWrites
    <3>1. CASE RecordFingerprint(i)
      <4>1. PICK f \in Fingerprints :
              writing' = [writing EXCEPT ![i] = [file |-> "run", data |-> f]]
        BY <3>1 DEF RecordFingerprint
      <4>2. [file |-> "run", data |-> f] \notin StepWrites
        BY DEF StepWrites
      <4> QED BY <4>1, <4>2
    <3>2. CASE RecordApprovalRequest(i)
      <4>1. PICK r \in Requests :
              writing' = [writing EXCEPT ![i] = [file |-> "approval", data |-> r]]
        BY <3>2 DEF RecordApprovalRequest
      <4>2. [file |-> "approval", data |-> r] \notin StepWrites
        BY DEF StepWrites
      <4> QED BY <4>1, <4>2
    <3> QED BY <1>4, <3>1, <3>2
  <2>2. \A j \in Instances : writing'[j] \in StepWrites => Whole(writing'[j].data)
    BY <1>0, <2>1 DEF WholeInv, TypeOK
  <2> QED BY <1>0, <1>4, <2>2
          DEF WholeInv, RecordFingerprint, RecordApprovalRequest, disk, cache
<1>5. ASSUME NEW i \in Instances, ClearApprovalRequest(i)
      PROVE  WholeInv'
  BY <1>0, <1>5 DEF WholeInv, ClearApprovalRequest, cache, Whole
<1>6. ASSUME NEW i \in Instances, ReplaceStep(i)
      PROVE  WholeInv'
  <2>1. \A s \in Steps : Whole(records'[s])
    BY <1>0, <1>6 DEF WholeInv, ReplaceStep, TypeOK, Contract!TypeOK, StepWrites
  <2>2. \A j \in Instances : writing'[j] \in StepWrites => Whole(writing'[j].data)
    BY <1>0, <1>6, NoneAssumption DEF WholeInv, ReplaceStep, TypeOK, Writes
  <2> QED BY <1>0, <1>6, <2>1, <2>2 DEF WholeInv, ReplaceStep, cache
<1>7. ASSUME NEW i \in Instances,
             ReplaceRun(i) \/ ReplaceApproval(i) \/ WriteFails(i) \/ Crash(i)
      PROVE  WholeInv'
  <2>1. /\ writing' = [writing EXCEPT ![i] = None]
        /\ UNCHANGED records
        /\ \/ UNCHANGED cacheRecords
           \/ cacheRecords' = [cacheRecords EXCEPT ![i] = Blanks]
    BY <1>7 DEF ReplaceRun, ReplaceApproval, WriteFails, Crash, disk, cache
  <2>2. \A j \in Instances : writing'[j] \in StepWrites => Whole(writing'[j].data)
    BY <1>0, <2>1, NoneAssumption DEF WholeInv, TypeOK, Writes
  <2>3. \A j \in Instances, s \in Steps : Whole(cacheRecords'[j][s])
    BY <1>0, <2>1, BlankWhole DEF WholeInv, TypeOK, Blanks
  <2> QED BY <1>0, <2>1, <2>2, <2>3 DEF WholeInv
<1> QED BY <1>1, <1>2, <1>3, <1>4, <1>5, <1>6, <1>7 DEF Next

LEMMA InitWhole == Init => WholeInv
<1> SUFFICES ASSUME Init PROVE WholeInv
  OBVIOUS
<1>1. \A j \in Instances : writing[j] \notin StepWrites
  BY NoneAssumption DEF Init, Writes
<1>2. \A s \in Steps : records[s] = Blank
  BY DEF Init, Contract!Init, Blank
<1>3. \A j \in Instances, s \in Steps : cacheRecords[j][s] = Blank
  BY DEF Init, Blanks
<1> QED BY <1>1, <1>2, <1>3, InitType, BlankWhole DEF WholeInv

(* No completed record on disk lacks its output or its trust label, for    *)
(* any number of processes, failing reads and writes, and crashes.         *)
THEOREM RecordsWhole == Spec => []RecordsAreWhole
<1>1. WholeInv => RecordsAreWhole
  BY DEF WholeInv, Whole, RecordsAreWhole, Contract!CompletedIsWhole
<1> QED BY <1>1, InitWhole, NextWhole, PTL DEF Spec

-----------------------------------------------------------------------------
(* While nothing is faulty, at most one instance has the directory loaded. *)
Alone == faulty \/ \A i, j \in loaded : i = j

Unloaded == \A i \in Instances : i \notin loaded => writing[i] = None

CacheInv == TypeOK /\ CacheMatchesDisk /\ Alone /\ Unloaded

(* What holds of the one open instance of a store that is not faulty.      *)
LEMMA CacheFacts ==
  ASSUME CacheMatchesDisk, ~faulty, NEW i \in loaded
  PROVE  /\ \A s \in Steps :
              IF writing[i] \in StepWrites /\ writing[i].step = s
              THEN /\ cacheRecords[i][s] = writing[i].data
                   /\ Updates(records[s], writing[i].data)
              ELSE cacheRecords[i][s] = records[s]
         /\ cacheFingerprint[i] =
              IF writing[i] \in RunWrites THEN writing[i].data ELSE fingerprint
  BY DEF CacheMatchesDisk

LEMMA NextUnloaded ==
  ASSUME TypeOK, Unloaded, [Next]_vars
  PROVE  Unloaded'
<1>1. CASE UNCHANGED vars
  BY <1>1 DEF Unloaded, vars
<1>2. ASSUME NEW i \in Instances, CommitStep(i) \/ StepSkipped(i)
      PROVE  Unloaded'
  BY <1>2 DEF CommitStep, StepSkipped, PutStep, Ready, Unloaded, TypeOK
<1>3. ASSUME NEW i \in Instances,
             RecordFingerprint(i) \/ RecordApprovalRequest(i)
      PROVE  Unloaded'
  BY <1>3 DEF RecordFingerprint, RecordApprovalRequest, Ready, Unloaded, TypeOK,
              cache
<1>4. ASSUME NEW i \in Instances,
             Load(i) \/ ClearApprovalRequest(i) \/ Crash(i)
      PROVE  Unloaded'
  BY <1>4 DEF Load, ClearApprovalRequest, Crash, Unloaded, TypeOK, cache
<1>5. ASSUME NEW i \in Instances,
             ReplaceStep(i) \/ ReplaceRun(i) \/ ReplaceApproval(i) \/ WriteFails(i)
      PROVE  Unloaded'
  BY <1>5 DEF ReplaceStep, ReplaceRun, ReplaceApproval, WriteFails, Unloaded,
              TypeOK, cache
<1> QED BY <1>1, <1>2, <1>3, <1>4, <1>5 DEF Next

LEMMA NextCache == CacheInv /\ [Next]_vars => CacheInv'
<1> SUFFICES ASSUME CacheInv, [Next]_vars
             PROVE  CacheInv'
  OBVIOUS
<1>0. /\ TypeOK /\ TypeOK' /\ CacheMatchesDisk
      /\ Alone /\ Unloaded /\ Unloaded'
  BY NextType, NextUnloaded DEF CacheInv
<1>a. None \notin StepWrites /\ None \notin RunWrites
  BY NoneAssumption DEF Writes
<1> SUFFICES ASSUME ~faulty'
             PROVE  CacheMatchesDisk' /\ Alone'
  BY <1>0 DEF CacheInv, CacheMatchesDisk, Alone
<1>1. CASE UNCHANGED vars
  BY <1>0, <1>1 DEF CacheMatchesDisk, Alone, vars
<1>2. ASSUME NEW i \in Instances, Load(i)
      PROVE  CacheMatchesDisk' /\ Alone'
  <2>1. /\ i \notin loaded /\ loaded' = {i}
        /\ cacheRecords' = [cacheRecords EXCEPT ![i] = [s \in Steps |-> records[s]]]
        /\ cacheFingerprint' = [cacheFingerprint EXCEPT ![i] = fingerprint]
        /\ UNCHANGED <<disk, writing>>
    BY <1>2 DEF Load
  <2>2. writing'[i] = None
    BY <1>0, <2>1 DEF Unloaded
  <2>3. CacheMatchesDisk'
    BY <1>0, <1>a, <2>1, <2>2 DEF CacheMatchesDisk, TypeOK, disk
  <2> QED BY <2>1, <2>3 DEF Alone
<1>3. ASSUME NEW i \in Instances, CommitStep(i) \/ StepSkipped(i)
      PROVE  CacheMatchesDisk' /\ Alone'
  <2>1. PICK s \in Steps, rec \in Records :
          Updates(cacheRecords[i][s], rec) /\ PutStep(i, s, rec)
    BY <1>0, <1>3, StepCalls
  <2>2. /\ i \in loaded /\ writing[i] = None /\ loaded' = loaded
        /\ ~faulty /\ \A j \in loaded : j = i
    BY <1>0, <2>1 DEF PutStep, Ready, Alone
  <2>3. /\ \A r \in Steps : cacheRecords[i][r] = records[r]
        /\ cacheFingerprint[i] = fingerprint
    BY <1>0, <1>a, <2>2, CacheFacts
  <2>4. /\ cacheRecords'[i] = [cacheRecords[i] EXCEPT ![s] = rec]
        /\ writing'[i] = [file |-> "step", step |-> s, data |-> rec]
        /\ UNCHANGED <<disk, cacheFingerprint>>
    BY <1>0, <2>1 DEF PutStep, TypeOK
  <2>5. writing'[i] \in StepWrites /\ writing'[i] \notin RunWrites
    BY <2>4 DEF StepWrites, RunWrites
  <2>6. Updates(records'[s], rec)
    BY <2>1, <2>3, <2>4 DEF disk
  <2>7. CacheMatchesDisk'
    BY <1>0, <2>2, <2>3, <2>4, <2>5, <2>6
    DEF CacheMatchesDisk, disk, TypeOK
  <2> QED BY <2>2, <2>7 DEF Alone
<1>4. ASSUME NEW i \in Instances, RecordFingerprint(i)
      PROVE  CacheMatchesDisk' /\ Alone'
  <2>1. PICK f \in Fingerprints :
          /\ Ready(i)
          /\ cacheFingerprint' = [cacheFingerprint EXCEPT ![i] = f]
          /\ writing' = [writing EXCEPT ![i] = [file |-> "run", data |-> f]]
          /\ UNCHANGED <<disk, strays, loaded, cacheRecords, faulty>>
    BY <1>4 DEF RecordFingerprint
  <2>2. i \in loaded /\ writing[i] = None /\ ~faulty /\ \A j \in loaded : j = i
    BY <1>0, <2>1 DEF Ready, Alone
  <2>3. \A r \in Steps : cacheRecords[i][r] = records[r]
    BY <1>0, <1>a, <2>2, CacheFacts
  <2>4. /\ writing'[i] = [file |-> "run", data |-> f]
        /\ writing'[i] \in RunWrites /\ writing'[i] \notin StepWrites
        /\ cacheFingerprint'[i] = f
    BY <1>0, <2>1 DEF TypeOK, RunWrites, StepWrites
  <2>5. CacheMatchesDisk'
    BY <2>1, <2>2, <2>3, <2>4 DEF CacheMatchesDisk, disk
  <2> QED BY <2>1, <2>2, <2>5 DEF Alone
<1>5. ASSUME NEW i \in Instances, RecordApprovalRequest(i)
      PROVE  CacheMatchesDisk' /\ Alone'
  <2>1. PICK r \in Requests :
          /\ Ready(i)
          /\ writing' = [writing EXCEPT ![i] = [file |-> "approval", data |-> r]]
          /\ UNCHANGED <<disk, strays, cache, faulty>>
    BY <1>5 DEF RecordApprovalRequest
  <2>2. i \in loaded /\ writing[i] = None /\ ~faulty /\ \A j \in loaded : j = i
    BY <1>0, <2>1 DEF Ready, Alone
  <2>3. /\ \A s \in Steps : cacheRecords[i][s] = records[s]
        /\ cacheFingerprint[i] = fingerprint
    BY <1>0, <1>a, <2>2, CacheFacts
  <2>4. writing'[i] \notin StepWrites /\ writing'[i] \notin RunWrites
    BY <1>0, <2>1 DEF TypeOK, RunWrites, StepWrites
  <2>5. CacheMatchesDisk'
    BY <2>1, <2>2, <2>3, <2>4 DEF CacheMatchesDisk, disk, cache
  <2> QED BY <2>1, <2>2, <2>5 DEF Alone, cache
<1>6. ASSUME NEW i \in Instances, ClearApprovalRequest(i)
      PROVE  CacheMatchesDisk' /\ Alone'
  <2>1. UNCHANGED <<records, fingerprint, loaded, cacheRecords,
                    cacheFingerprint, writing, faulty>>
    BY <1>6 DEF ClearApprovalRequest, cache
  <2> QED BY <1>0, <2>1 DEF CacheMatchesDisk, Alone
<1>7. ASSUME NEW i \in Instances, ReplaceStep(i)
      PROVE  CacheMatchesDisk' /\ Alone'
  <2>1. i \in loaded
    BY <1>7, <1>a, <1>0 DEF ReplaceStep, Unloaded
  <2> DEFINE w == writing[i]
  <2>2. w \in StepWrites /\ w \notin RunWrites
    BY <1>7 DEF ReplaceStep, StepWrites, RunWrites
  <2>3. records' = [records EXCEPT ![w.step] = w.data] /\ ~faulty
    BY <1>7 DEF ReplaceStep
  <2>4. /\ \A s \in Steps : cacheRecords[i][s] = records'[s]
        /\ cacheFingerprint[i] = fingerprint
    <3>1. \A s \in Steps : cacheRecords[i][s] =
            IF w.step = s THEN w.data ELSE records[s]
      BY <1>0, <2>1, <2>2, <2>3, CacheFacts
    <3>2. cacheFingerprint[i] = fingerprint
      BY <1>0, <2>1, <2>2, <2>3, CacheFacts
    <3>3. records \in [Steps -> Records]
      BY <1>0 DEF TypeOK, Contract!TypeOK, Records
    <3> QED BY <2>3, <3>1, <3>2, <3>3
  <2>5. /\ writing'[i] = None
        /\ UNCHANGED <<fingerprint, loaded, cacheRecords, cacheFingerprint>>
    BY <1>0, <1>7 DEF ReplaceStep, cache, TypeOK
  <2>6. \A j \in loaded' : j = i
    BY <1>0, <2>1, <2>3, <2>5 DEF Alone
  <2>7. CacheMatchesDisk'
    <3>2. writing'[i] \notin StepWrites /\ writing'[i] \notin RunWrites
      BY <2>5, <1>a
    <3>3. /\ \A s \in Steps : cacheRecords'[i][s] = records'[s]
          /\ cacheFingerprint'[i] = fingerprint'
      BY <2>4, <2>5
    <3> HIDE DEF w
    <3> QED BY <2>6, <3>2, <3>3 DEF CacheMatchesDisk
  <2> QED BY <2>6, <2>7 DEF Alone
<1>8. ASSUME NEW i \in Instances, ReplaceRun(i) \/ ReplaceApproval(i)
      PROVE  CacheMatchesDisk' /\ Alone'
  <2>1. i \in loaded /\ ~faulty
    BY <1>8, <1>0, NoneAssumption
    DEF ReplaceRun, ReplaceApproval, Writes, Unloaded
  <2>2. writing[i] \notin StepWrites
    BY <1>8 DEF ReplaceRun, ReplaceApproval, StepWrites, RunWrites, ApprovalWrites
  <2>3. \A s \in Steps : cacheRecords[i][s] = records[s]
    BY <1>0, <2>1, <2>2, CacheFacts
  <2>4. cacheFingerprint[i] = fingerprint'
    BY <1>0, <1>8, <2>1, CacheFacts
    DEF ReplaceRun, ReplaceApproval, RunWrites, ApprovalWrites
  <2>5. /\ writing'[i] = None
        /\ UNCHANGED <<records, loaded, cacheRecords, cacheFingerprint>>
    BY <1>0, <1>8 DEF ReplaceRun, ReplaceApproval, cache, TypeOK
  <2>6. \A j \in loaded' : j = i
    BY <1>0, <2>1, <2>5 DEF Alone
  <2>7. CacheMatchesDisk'
    BY <1>a, <2>3, <2>4, <2>5, <2>6 DEF CacheMatchesDisk
  <2> QED BY <2>6, <2>7 DEF Alone
<1>9. ASSUME NEW i \in Instances, WriteFails(i)
      PROVE  CacheMatchesDisk' /\ Alone'
  BY <1>9 DEF WriteFails
<1>10. ASSUME NEW i \in Instances, Crash(i)
       PROVE  CacheMatchesDisk' /\ Alone'
  <2>1. loaded' = {}
    BY <1>0, <1>10 DEF Crash, Alone
  <2> QED BY <2>1 DEF Alone, CacheMatchesDisk
<1> QED BY <1>1, <1>2, <1>3, <1>4, <1>5, <1>6, <1>7, <1>8, <1>9, <1>10
        DEF Next

LEMMA InitCache == Init => CacheInv
  BY InitType DEF Init, CacheInv, CacheMatchesDisk, Alone, Unloaded

(* Unless a read or a write failed, or several processes share the         *)
(* directory, the cache answers what the directory holds.                  *)
THEOREM CacheAgrees == Spec => []CacheMatchesDisk
<1>1. CacheInv => CacheMatchesDisk
  BY DEF CacheInv
<1> QED BY <1>1, InitCache, NextCache, PTL DEF Spec

(* Each step of the directory is one call of the contract, an overwrite by *)
(* a whole record of a store that is not sound, or changes no committed    *)
(* file.                                                                   *)
LEMMA StepRefines ==
  ASSUME CacheInv, WholeInv, [Next]_vars
  PROVE  [Contract!Next]_(Contract!vars)
<1>0. TypeOK /\ TypeOK' /\ CacheMatchesDisk /\ Unloaded /\ WholeInv
  BY NextType DEF CacheInv
<1>1. ASSUME NEW i \in Instances, ReplaceStep(i)
      PROVE  Contract!Next
  <2> DEFINE s == writing[i].step
             new == writing[i].data
  <2>1. writing[i] \in StepWrites /\ i \in loaded
    BY <1>0, <1>1, NoneAssumption DEF ReplaceStep, Unloaded, Writes
  <2>2. s \in Steps /\ new \in Records /\ Whole(new)
    BY <1>0, <2>1 DEF StepWrites, WholeInv
  <2>3. /\ records' = [records EXCEPT ![s] = new]
        /\ UNCHANGED <<fingerprint, approval, faulty>>
    BY <1>1 DEF ReplaceStep
  <2>4. records'[s] = new
    BY <1>0, <2>2, <2>3 DEF TypeOK, Contract!TypeOK
  <2>5. CASE faulty
    <3>1. Contract!Overwrite(s)
      BY <2>2, <2>3, <2>4, <2>5 DEF Contract!Overwrite, Whole, Records
    <3> QED BY <2>2, <3>1 DEF Contract!Next
  <2>6. CASE ~faulty
    <3>1. Updates(records[s], new)
      BY <1>0, <2>1, <2>2, <2>6, CacheFacts
    <3>2. Contract!UpdateStep(s)
      BY <2>3, <2>4, <3>1 DEF Contract!UpdateStep, Updates
    <3> QED BY <2>2, <3>2 DEF Contract!Next
  <2> QED BY <2>5, <2>6
<1>2. ASSUME NEW i \in Instances, ReplaceRun(i)
      PROVE  Contract!Next
  BY <1>2 DEF ReplaceRun, RunWrites, Contract!Next, Contract!RecordFingerprint
<1>3. ASSUME NEW i \in Instances, ReplaceApproval(i)
      PROVE  Contract!Next
  BY <1>3 DEF ReplaceApproval, ApprovalWrites, Contract!Next,
              Contract!RecordApprovalRequest
<1>4. ASSUME NEW i \in Instances, ClearApprovalRequest(i)
      PROVE  Contract!Next
  BY <1>4 DEF ClearApprovalRequest, Contract!Next, Contract!ClearApprovalRequest
<1>5. ASSUME NEW i \in Instances,
             Load(i) \/ WriteFails(i) \/ Crash(i)
      PROVE  Contract!Next
  <2>1. UNCHANGED disk
    BY <1>5 DEF Load, WriteFails, Crash
  <2> QED BY <2>1 DEF disk, Contract!Next, Contract!ChangeSoundness, Contract!files
<1>6. ASSUME NEW i \in Instances,
             \/ RecordFingerprint(i) \/ RecordApprovalRequest(i)
             \/ CommitStep(i) \/ StepSkipped(i)
      PROVE  UNCHANGED Contract!vars
  BY <1>6 DEF RecordFingerprint, RecordApprovalRequest, CommitStep, StepSkipped,
              PutStep, disk, Contract!vars
<1>7. CASE UNCHANGED vars
  BY <1>7 DEF vars, Contract!vars
<1> QED BY <1>1, <1>2, <1>3, <1>4, <1>5, <1>6, <1>7 DEF Next

(* The directory implements the checkpoint contract, whatever crashes      *)
(* happen between a temporary file and its rename; with failed reads or    *)
(* writes, or several processes, it implements the contract's unsound      *)
(* mode until the last of them is gone.                                    *)
THEOREM FileStoreImplements == Spec => Implements
<1>1. Init => Contract!Init
  BY DEF Init
<1>2. CacheInv /\ WholeInv /\ [Next]_vars => [Contract!Next]_(Contract!vars)
  BY StepRefines
<1> QED BY <1>1, <1>2, InitCache, InitWhole, NextCache, NextWhole, PTL
        DEF Spec, Implements, Contract!Spec
=============================================================================
