------------------------------- MODULE Identity -------------------------------
(* The identity of one registered agent (identity/registry.py) and the gate of *)
(* the pipeline that asks it before every step (pipeline/pipeline.py).         *)
(*                                                                             *)
(* The registry knows the agent by its name.  A pipeline has the definition it *)
(* was built with, which never changes; the registry is told of definitions by *)
(* whoever calls register, update and reattest, in any order and whatever the  *)
(* pipelines have.  A surface stands for the tools, schemas and risk tier of a *)
(* definition.                                                                 *)
EXTENDS Naturals, FiniteSets

CONSTANTS
  None,
  Surfaces,
  Sponsors,
  Owner,         \* the sponsor of the registration
  Pipelines

ASSUME NoneAssumption == None \notin Surfaces

VARIABLES
  record,      \* None or _Record: [state, attested, needs, pending]
  built,       \* pipeline |-> the surface of the definition added to it, or None
  running,     \* the pipelines that are executing a step of the agent
  approved,    \* the surfaces the owner registered or re-attested (history)
  latest       \* the surface announced last; None if a pending change was taken back (history)

vars == <<record, built, running, approved, latest>>

Init ==
  /\ record = None
  /\ built = [p \in Pipelines |-> None]
  /\ running = {}
  /\ approved = {} /\ latest = None

-----------------------------------------------------------------------------
(* The registry.                                                             *)
Registrable == record = None

Register(s) ==
  /\ Registrable
  /\ record' = [state |-> "active", attested |-> s, needs |-> FALSE, pending |-> None]
  /\ approved' = approved \cup {s} /\ latest' = s
  /\ UNCHANGED <<built, running>>

Move(from, to) ==
  /\ record # None /\ record.state \in from
  /\ record' = [record EXCEPT !.state = to]
  /\ UNCHANGED <<built, running, approved, latest>>

Suspend == Move({"active"}, "suspended")
Resume == Move({"suspended"}, "active")

Decommission ==
  /\ record # None
  /\ record' = [record EXCEPT !.state = "decommissioned", !.needs = FALSE, !.pending = None]
  /\ UNCHANGED <<built, running, approved, latest>>

\* The record after update: a later change replaces one that waits, but the
\* attested definition announced again does not take it back.
Updated(s) ==
  IF s # record.attested
  THEN [record EXCEPT !.needs = TRUE, !.pending = s]
  ELSE record

Update(s) ==
  /\ record # None /\ record.state # "decommissioned"
  /\ record' = Updated(s)
  /\ latest' = IF record.needs /\ s = record.attested THEN None ELSE s
  /\ UNCHANGED <<built, running, approved>>

\* Mutant: any pending change is approved by any spec.
MatchesAnything(sponsor, s) == sponsor = Owner /\ record.pending # None

\* Whoever calls reattest names a sponsor and gives any spec.
Matches(sponsor, s) ==
  /\ sponsor = Owner
  /\ record.pending # None /\ s = record.pending

Reattest(sponsor, s) ==
  /\ record # None /\ record.state # "decommissioned"
  /\ Matches(sponsor, s)
  /\ record' = [record EXCEPT !.attested = record.pending, !.pending = None, !.needs = FALSE]
  /\ approved' = approved \cup (IF sponsor = Owner THEN {s} ELSE {})
  /\ UNCHANGED <<built, running, latest>>

-----------------------------------------------------------------------------
(* The pipelines.                                                            *)
\* Pipeline.add keeps the definition as it is now; a rebuilt pipeline is a new one.
Build(p, s) ==
  /\ p \notin running
  /\ built' = [built EXCEPT ![p] = s]
  /\ UNCHANGED <<record, running, approved, latest>>

\* Mutant: a change that waits for the sponsor does not block.
OpenUnlessStopped == record # None => record.state = "active"

\* The gate, run_block_reason is None: it looks at the name, not at the definition.
Open == record # None => record.state = "active" /\ ~ record.needs

StartStep(p) ==
  /\ p \notin running /\ built[p] # None /\ Open
  /\ running' = running \cup {p}
  /\ UNCHANGED <<record, built, approved, latest>>

EndStep(p) ==
  /\ p \in running
  /\ running' = running \ {p}
  /\ UNCHANGED <<record, built, approved, latest>>

Next ==
  \/ Suspend \/ Resume \/ Decommission
  \/ \E s \in Surfaces :
       \/ Register(s) \/ Update(s) \/ \E sponsor \in Sponsors : Reattest(sponsor, s)
       \/ \E p \in Pipelines : Build(p, s)
  \/ \E p \in Pipelines : StartStep(p) \/ EndStep(p)

Spec == Init /\ [][Next]_vars
-----------------------------------------------------------------------------
(* Properties.                                                               *)
\* A pipeline built from the definition the registry was told last starts a step only
\* when that definition is the one attested last, whatever was announced, replaced,
\* suspended, resumed and re-attested in between.  Pipelines built from an earlier
\* definition, from one never announced, or after a change was taken back have no such
\* guarantee: the gate looks at the name.
StepsRunAttested ==
  [][\A p \in Pipelines :
       p \in running' \ running /\ record # None /\ built[p] = latest
         => built[p] = record.attested]_vars

\* A re-attestation cannot be laundered: what is attested was approved by the owner,
\* in exactly that form.
AttestedByOwner == record # None => record.attested \in approved

\* A decommissioned agent never starts a step again.
DecommissionIsFinal ==
  [][record # None /\ record.state = "decommissioned" =>
       record' = record /\ running' \subseteq running]_vars
=============================================================================
