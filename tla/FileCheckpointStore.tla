------------------------- MODULE FileCheckpointStore -------------------------
(***************************************************************************)
(* FileCheckpointStore: one directory per run_id with run.json, one file   *)
(* per step and approval-request.json.  Each store instance (one per       *)
(* process) reads run.json and the step files once and answers from its    *)
(* cache from then on; the approval request is read from disk every time.  *)
(*                                                                         *)
(* A write puts the new content into the cache, writes a temporary file    *)
(* and renames it over the old one.  The process may die, and a write may  *)
(* raise, before the rename.  The abstract store is CheckpointStore, with  *)
(* the committed files as its state; it is sound as long as no write or    *)
(* read failed and one instance at a time has the directory loaded, and    *)
(* again once no instance is left.                                         *)
(***************************************************************************)
EXTENDS Naturals, FiniteSets

CONSTANTS
  Steps, Outputs, Seals, Fingerprints, Requests, None,
  Instances,    \* the store instances opened on the directory
  MaxStrays     \* bound: temporary step files left behind

ASSUME FileStoreAssumption ==
  /\ None \notin Outputs /\ None \notin Seals
  /\ None \notin Fingerprints /\ None \notin Requests
  /\ MaxStrays \in Nat

VARIABLES
  records, fingerprint, approval,   \* the committed files
  strays,     \* temporary step files a crash or a failed write left behind
  loaded,     \* instances that have read the directory
  cacheRecords, cacheFingerprint,   \* instance |-> what it read or wrote
  writing,    \* instance |-> the write in progress, or None
  faulty      \* an instance may have read less, or written more, than a
              \* file holds (history)

disk == <<records, fingerprint, approval>>
cache == <<loaded, cacheRecords, cacheFingerprint>>
vars == <<records, fingerprint, approval, strays, loaded, cacheRecords,
          cacheFingerprint, writing, faulty>>

Contract == INSTANCE CheckpointStore
  WITH records <- records, fingerprint <- fingerprint, approval <- approval,
       sound <- ~faulty

Records == Contract!Records
Blank == Contract!Blank
Updates(old, new) == Contract!Updates(old, new)

(* A write of a step file, of run.json or of the approval request.         *)
StepWrites == [file : {"step"}, step : Steps, data : Records]
RunWrites == [file : {"run"}, data : Fingerprints]
ApprovalWrites == [file : {"approval"}, data : Requests]
Writes == StepWrites \cup RunWrites \cup ApprovalWrites

ASSUME NoneAssumption == None \notin Writes /\ None \notin Contract!Labels

Blanks == [s \in Steps |-> Blank]

Init ==
  /\ faulty = FALSE /\ Contract!Init
  /\ strays = {} /\ loaded = {}
  /\ cacheRecords = [i \in Instances |-> Blanks]
  /\ cacheFingerprint = [i \in Instances |-> None]
  /\ writing = [i \in Instances |-> None]

LoadStrays(i) ==
  /\ i \notin loaded /\ loaded' = loaded \cup {i}
  /\ cacheRecords' = [cacheRecords EXCEPT ![i] =
       [s \in Steps |-> IF \E w \in strays : w.step = s
                        THEN (CHOOSE w \in strays : w.step = s).data
                        ELSE records[s]]]
  /\ cacheFingerprint' = [cacheFingerprint EXCEPT ![i] = fingerprint]
  /\ faulty' = (faulty \/ loaded # {})
  /\ UNCHANGED <<disk, strays, writing>>

(* _run_cache: the first access reads every committed file; one that       *)
(* _read_json cannot read counts as absent.                                *)
Load(i) == \E unread \in SUBSET Steps, fp \in {fingerprint, None} :
  /\ i \notin loaded /\ loaded' = loaded \cup {i}
  /\ cacheRecords' = [cacheRecords EXCEPT ![i] =
       [s \in Steps |-> IF s \in unread THEN Blank ELSE records[s]]]
  /\ cacheFingerprint' = [cacheFingerprint EXCEPT ![i] = fp]
  /\ faulty' = (faulty \/ loaded # {} \/ unread # {} \/ fp # fingerprint)
  /\ UNCHANGED <<disk, strays, writing>>

Ready(i) == i \in loaded /\ writing[i] = None

PutStepUncached(i, s, rec) ==
  /\ Ready(i)
  /\ writing' = [writing EXCEPT ![i] =
                   [file |-> "step", step |-> s, data |-> rec]]
  /\ UNCHANGED <<disk, strays, cache, faulty>>
(* _merge_step_record and _put_step_record: the cached record, updated, is *)
(* put into the cache and then written.                                    *)
PutStep(i, s, rec) ==
  /\ Ready(i)
  /\ cacheRecords' = [cacheRecords EXCEPT ![i] =
                        [cacheRecords[i] EXCEPT ![s] = rec]]
  /\ writing' = [writing EXCEPT ![i] =
                   [file |-> "step", step |-> s, data |-> rec]]
  /\ UNCHANGED <<disk, strays, loaded, cacheFingerprint, faulty>>

CommitInParts(i) == \E s \in Steps, o \in Outputs, t \in Contract!Labels :
  \/ PutStep(i, s, [cacheRecords[i][s] EXCEPT !.completed = TRUE, !.output = o])
  \/ PutStep(i, s, [cacheRecords[i][s] EXCEPT !.trust = t])
CommitStep(i) == \E s \in Steps, o \in Outputs, t \in Contract!Labels,
                    l \in Seals \cup {None} :
  PutStep(i, s, Contract!Completed(cacheRecords[i][s], o, t, l))

StepSkipped(i) == \E s \in Steps :
  PutStep(i, s, Contract!Skipped(cacheRecords[i][s]))

RecordFingerprint(i) == \E f \in Fingerprints :
  /\ Ready(i)
  /\ cacheFingerprint' = [cacheFingerprint EXCEPT ![i] = f]
  /\ writing' = [writing EXCEPT ![i] = [file |-> "run", data |-> f]]
  /\ UNCHANGED <<disk, strays, loaded, cacheRecords, faulty>>

RecordApprovalRequest(i) == \E r \in Requests :
  /\ Ready(i)
  /\ writing' = [writing EXCEPT ![i] = [file |-> "approval", data |-> r]]
  /\ UNCHANGED <<disk, strays, cache, faulty>>

(* os.remove: no cache, no temporary file. *)
ClearApprovalRequest(i) ==
  /\ Ready(i) /\ approval' = None
  /\ UNCHANGED <<records, fingerprint, strays, cache, writing, faulty>>

(* os.replace of the temporary file.                                       *)
ReplaceStep(i) ==
  /\ writing[i] \in StepWrites
  /\ records' = [records EXCEPT ![writing[i].step] = writing[i].data]
  /\ writing' = [writing EXCEPT ![i] = None]
  /\ UNCHANGED <<fingerprint, approval, strays, cache, faulty>>
ReplaceRun(i) ==
  /\ writing[i] \in RunWrites /\ fingerprint' = writing[i].data
  /\ writing' = [writing EXCEPT ![i] = None]
  /\ UNCHANGED <<records, approval, strays, cache, faulty>>
ReplaceApproval(i) ==
  /\ writing[i] \in ApprovalWrites /\ approval' = writing[i].data
  /\ writing' = [writing EXCEPT ![i] = None]
  /\ UNCHANGED <<records, fingerprint, strays, cache, faulty>>

(* What a write that ends before the rename leaves in the directory.       *)
Abandoned(i) ==
  \/ UNCHANGED strays
  \/ /\ writing[i] \in StepWrites /\ Cardinality(strays) < MaxStrays
     /\ strays' = strays \cup {writing[i]}

(* The write raises; the exception leaves Pipeline.run and the process may *)
(* call run again.                                                         *)
WriteFails(i) ==
  /\ writing[i] # None /\ Abandoned(i)
  /\ writing' = [writing EXCEPT ![i] = None]
  /\ faulty' = TRUE
  /\ UNCHANGED <<disk, cache>>

(* The process ends or dies; a new one starts with an instance of its own. *)
(* What was wrong in caches is gone with the last of them.                 *)
Crash(i) ==
  /\ i \in loaded /\ loaded' = loaded \ {i} /\ Abandoned(i)
  /\ faulty' = (faulty /\ loaded' # {})
  /\ cacheRecords' = [cacheRecords EXCEPT ![i] = Blanks]
  /\ cacheFingerprint' = [cacheFingerprint EXCEPT ![i] = None]
  /\ writing' = [writing EXCEPT ![i] = None]
  /\ UNCHANGED disk

Next == \E i \in Instances :
  \/ Load(i) \/ CommitStep(i) \/ StepSkipped(i) \/ RecordFingerprint(i)
  \/ RecordApprovalRequest(i) \/ ClearApprovalRequest(i)
  \/ ReplaceStep(i) \/ ReplaceRun(i) \/ ReplaceApproval(i)
  \/ WriteFails(i) \/ Crash(i)

Spec == Init /\ [][Next]_vars

-----------------------------------------------------------------------------
(* The files, the caches and the writes in progress have their shapes, and *)
(* only a step write leaves a stray file.                                  *)
TypeOK ==
  /\ Contract!TypeOK
  /\ strays \subseteq StepWrites /\ loaded \subseteq Instances
  /\ cacheRecords \in [Instances -> [Steps -> Records]]
  /\ cacheFingerprint \in [Instances -> Fingerprints \cup {None}]
  /\ writing \in [Instances -> Writes \cup {None}]

(* While no read or write has failed and one instance is open, what it     *)
(* answers from its cache is what the directory holds, up to the one write *)
(* it has in progress, and that write is what one call of the contract     *)
(* makes of the record on disk.                                            *)
CacheMatchesDisk == faulty \/ \A i \in loaded :
  LET w == writing[i]
  IN /\ \A s \in Steps :
          IF w \in StepWrites /\ w.step = s
          THEN cacheRecords[i][s] = w.data /\ Updates(records[s], w.data)
          ELSE cacheRecords[i][s] = records[s]
     /\ cacheFingerprint[i] = IF w \in RunWrites THEN w.data ELSE fingerprint

(* The directory is a CheckpointStore: every committed change is one call  *)
(* of the contract, crashes included; after a failed read or write, or     *)
(* with several processes, a file may be overwritten from a stale cache,   *)
(* but by a whole record, until the last of those processes is gone.       *)
Implements == Contract!Spec

(* Every completed record on disk has an output and a label, even if       *)
(* several processes write, fail and crash at the same time.               *)
RecordsAreWhole == Contract!CompletedIsWhole
=============================================================================
