--------------------------- MODULE CheckpointStore ---------------------------
(***************************************************************************)
(* What a CheckpointStore promises for one run_id, and what                *)
(* InMemoryCheckpointStore does: each call takes effect at once and as a   *)
(* whole, and nothing recorded is lost.  A step's record holds what the    *)
(* calls recorded for it.  A store that outlives its process may be        *)
(* unsound for a while (lost writes, unreadable files, two writers): it    *)
(* then may put an older record back, but still a whole one, and one file  *)
(* at a time.                                                              *)
(***************************************************************************)
CONSTANTS
  Steps, Outputs, Seals, Fingerprints,
  Requests,   \* approval requests
  None        \* Python's None

Labels == {"trusted", "untrusted"}

VARIABLES
  records,      \* step |-> its record
  fingerprint,  \* the run's topology fingerprint, or None
  approval,     \* the pending approval request, or None
  sound         \* every call so far took effect, in order

files == <<records, fingerprint, approval>>
vars == <<records, fingerprint, approval, sound>>

Records == [completed : BOOLEAN, skipped : BOOLEAN, output : Outputs \cup {None},
            trust : Labels \cup {None}, seal : Seals \cup {None}]

Blank == [completed |-> FALSE, skipped |-> FALSE, output |-> None,
          trust |-> None, seal |-> None]

(* What commit_step and step_skipped make of a step's record.  A join is   *)
(* committed without a seal.                                               *)
Completed(rec, o, t, l) ==
  [rec EXCEPT !.completed = TRUE, !.output = o, !.trust = t,
              !.seal = IF l = None THEN rec.seal ELSE l]
Skipped(rec) == [rec EXCEPT !.skipped = TRUE]

(* One of the calls that change a step's record turns `old` into `new`.    *)
Updates(old, new) ==
  \/ new = Skipped(old)
  \/ \E o \in Outputs, t \in Labels, l \in Seals \cup {None} :
       new = Completed(old, o, t, l)

(* Restoring a completed step never fails or loses a label.                *)
Whole(rec) == rec.completed => rec.output # None /\ rec.trust # None

Init == /\ records = [s \in Steps |-> Blank]
        /\ fingerprint = None /\ approval = None /\ sound = TRUE

UpdateStep(s) ==
  /\ Updates(records[s], records'[s])
  /\ records' = [records EXCEPT ![s] = records'[s]]
  /\ UNCHANGED <<fingerprint, approval, sound>>

RecordFingerprint ==
  fingerprint' \in Fingerprints /\ UNCHANGED <<records, approval, sound>>

RecordApprovalRequest ==
  approval' \in Requests /\ UNCHANGED <<records, fingerprint, sound>>

ClearApprovalRequest ==
  approval' = None /\ UNCHANGED <<records, fingerprint, sound>>

(* A fault, and the recovery from it; neither touches a file.              *)
ChangeSoundness == sound' \in BOOLEAN /\ UNCHANGED files

(* An unsound store writes a record made from one that is out of date.     *)
Overwrite(s) ==
  /\ ~sound
  /\ records'[s] \in Records /\ Whole(records'[s])
  /\ records' = [records EXCEPT ![s] = records'[s]]
  /\ UNCHANGED <<fingerprint, approval, sound>>

Next == \/ \E s \in Steps : UpdateStep(s) \/ Overwrite(s)
        \/ RecordFingerprint \/ RecordApprovalRequest \/ ClearApprovalRequest
        \/ ChangeSoundness

Spec == Init /\ [][Next]_vars

TypeOK == /\ records \in [Steps -> Records]
          /\ fingerprint \in Fingerprints \cup {None}
          /\ approval \in Requests \cup {None}
          /\ sound \in BOOLEAN

(* A completed step has an output and a trust label: restoring it never    *)
(* fails or loses a label.                                                 *)
CompletedIsWhole == \A s \in Steps : Whole(records[s])
=============================================================================
