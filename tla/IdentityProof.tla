---------------------------- MODULE IdentityProof ----------------------------
(* Proofs about Identity, for every set of surfaces, sponsors and pipelines.  *)
EXTENDS Identity, TLAPS

Records == [state : {"active", "suspended", "decommissioned"}, attested : Surfaces,
            needs : BOOLEAN, pending : Surfaces \cup {None}]

\* The owner approved what is attested, and an agent needs its sponsor exactly
\* while a change waits.
ApprovedInv ==
  /\ record = None \/ record \in Records
  /\ running \subseteq Pipelines
  /\ record # None => /\ record.attested \in approved
                      /\ record.needs <=> record.pending # None
                      /\ record.state = "decommissioned" => ~ record.needs

\* What the registry knows of the definition it was told last: it is attested, or
\* it is the change that waits.
KnownInv ==
  record # None /\ record.state # "decommissioned" /\ latest # None =>
    IF record.needs THEN record.pending = latest ELSE record.attested = latest

LEMMA ApprovedInvInit == Init => ApprovedInv
  BY DEF Init, ApprovedInv

LEMMA ApprovedInvNext == ApprovedInv /\ [Next]_vars => ApprovedInv'
  <1> SUFFICES ASSUME ApprovedInv, [Next]_vars PROVE ApprovedInv'
    OBVIOUS
  <1> USE NoneAssumption DEF ApprovedInv, Records
  <1>1. ASSUME NEW s \in Surfaces, Register(s) PROVE ApprovedInv'
    BY <1>1 DEF Register, Registrable
  <1>2. CASE Suspend
    BY <1>2 DEF Suspend, Move
  <1>3. CASE Resume
    BY <1>3 DEF Resume, Move
  <1>4. CASE Decommission
    BY <1>4 DEF Decommission
  <1>5. ASSUME NEW s \in Surfaces, Update(s) PROVE ApprovedInv'
    BY <1>5 DEF Update, Updated
  <1>6. ASSUME NEW s \in Surfaces, NEW sponsor \in Sponsors, Reattest(sponsor, s)
        PROVE  ApprovedInv'
    BY <1>6 DEF Reattest, Matches
  <1>7. ASSUME NEW p \in Pipelines, NEW s \in Surfaces, Build(p, s) PROVE ApprovedInv'
    BY <1>7 DEF Build
  <1>8. ASSUME NEW p \in Pipelines, StartStep(p) \/ EndStep(p) PROVE ApprovedInv'
    BY <1>8 DEF StartStep, EndStep
  <1>9. CASE UNCHANGED vars
    BY <1>9 DEF vars
  <1> QED BY <1>1, <1>2, <1>3, <1>4, <1>5, <1>6, <1>7, <1>8, <1>9 DEF Next

LEMMA KnownInvInit == Init => KnownInv
  BY DEF Init, KnownInv

LEMMA KnownInvNext == ApprovedInv /\ KnownInv /\ [Next]_vars => KnownInv'
  <1> SUFFICES ASSUME ApprovedInv, KnownInv, [Next]_vars PROVE KnownInv'
    OBVIOUS
  <1> USE NoneAssumption DEF ApprovedInv, KnownInv, Records
  <1>1. ASSUME NEW s \in Surfaces, Register(s) PROVE KnownInv'
    BY <1>1 DEF Register, Registrable
  <1>2. CASE Suspend
    BY <1>2 DEF Suspend, Move
  <1>3. CASE Resume
    BY <1>3 DEF Resume, Move
  <1>4. CASE Decommission
    BY <1>4 DEF Decommission
  \* A definition other than the attested one waits, in place of any other.  The
  \* attested one changes nothing, and while a change waits it is not known.
  <1>5. ASSUME NEW s \in Surfaces, Update(s) PROVE KnownInv'
    <2>1. CASE s # record.attested
      BY <1>5, <2>1 DEF Update, Updated
    <2>2. CASE s = record.attested
      BY <1>5, <2>2 DEF Update, Updated
    <2> QED BY <2>1, <2>2
  <1>6. ASSUME NEW s \in Surfaces, NEW sponsor \in Sponsors, Reattest(sponsor, s)
        PROVE  KnownInv'
    BY <1>6 DEF Reattest, Matches
  <1>7. ASSUME NEW p \in Pipelines, NEW s \in Surfaces, Build(p, s) PROVE KnownInv'
    BY <1>7 DEF Build
  <1>8. ASSUME NEW p \in Pipelines, StartStep(p) \/ EndStep(p) PROVE KnownInv'
    BY <1>8 DEF StartStep, EndStep
  <1>9. CASE UNCHANGED vars
    BY <1>9 DEF vars
  <1> QED BY <1>1, <1>2, <1>3, <1>4, <1>5, <1>6, <1>7, <1>8, <1>9 DEF Next

(* What is attested was approved by the owner in exactly that form (reattest).  *)
THEOREM OwnerApproves == Spec => []AttestedByOwner
  <1>1. ApprovedInv => AttestedByOwner
    BY DEF ApprovedInv, AttestedByOwner
  <1> QED BY <1>1, ApprovedInvInit, ApprovedInvNext, PTL DEF Spec

\* A step of the pipelines starts in an open gate, with what its pipeline was built
\* from.
LEMMA Started ==
  ASSUME Next, NEW p \in Pipelines, p \in running' \ running
  PROVE  StartStep(p)
  <1>1. PICK q \in Pipelines : StartStep(q) \/ EndStep(q)
    BY DEF Next, Register, Suspend, Resume, Move, Decommission, Update, Reattest, Build
  <1> QED BY <1>1 DEF StartStep, EndStep

StartsAttested ==
  \A p \in Pipelines :
    p \in running' \ running /\ record # None /\ built[p] = latest
      => built[p] = record.attested

(* A pipeline built from the definition announced last starts a step of a         *)
(* registered agent only when that definition is the attested one, in whatever     *)
(* order definitions are announced, replaced, taken back and re-attested and        *)
(* pipelines are built and run (run_block_reason, update, reattest).                *)
THEOREM StepsAttested == Spec => StepsRunAttested
  <1>1. KnownInv /\ ApprovedInv /\ [Next]_vars => [StartsAttested]_vars
    <2> SUFFICES ASSUME KnownInv, ApprovedInv, Next, NEW p \in Pipelines,
                        p \in running' \ running, record # None, built[p] = latest
                 PROVE  built[p] = record.attested
      BY DEF StartsAttested
    <2>1. StartStep(p)
      BY Started
    <2> QED BY <2>1 DEF StartStep, Open, KnownInv
  <1> QED BY <1>1, ApprovedInvInit, ApprovedInvNext, KnownInvInit, KnownInvNext, PTL
     DEF Spec, StepsRunAttested, StartsAttested

Retired ==
  record # None /\ record.state = "decommissioned" =>
    record' = record /\ running' \subseteq running

(* No transition, update, re-attestation or registration brings a decommissioned  *)
(* agent back, and no pipeline, whenever it was built, starts a step of it          *)
(* (decommission, run_block_reason).                                                *)
THEOREM DecommissionFinal == Spec => DecommissionIsFinal
  <1>1. ApprovedInv /\ [Next]_vars => [Retired]_vars
    <2> SUFFICES ASSUME ApprovedInv, Next, record # None, record.state = "decommissioned"
                 PROVE  record' = record /\ running' \subseteq running
      BY DEF Retired
    <2> USE DEF ApprovedInv, Records
    <2>1. record' = record
      <3>1. CASE Decommission
        <4>1. record.needs = FALSE /\ record.pending = None
          OBVIOUS
        <4> QED BY <3>1, <4>1, NoneAssumption DEF Decommission
      <3>2. CASE ~ Decommission
        BY <3>2, NoneAssumption DEF Next, Register, Registrable, Suspend, Resume, Move,
           Update, Reattest, Build, StartStep, EndStep
      <3> QED BY <3>1, <3>2
    <2>2. ASSUME NEW p \in Pipelines, p \in running' \ running PROVE FALSE
      BY <2>2, Started DEF StartStep, Open
    <2>3. running' \subseteq Pipelines
      BY ApprovedInvNext
    <2> QED BY <2>1, <2>2, <2>3
  <1> QED BY <1>1, ApprovedInvInit, ApprovedInvNext, PTL DEF Spec, DecommissionIsFinal, Retired
=============================================================================
