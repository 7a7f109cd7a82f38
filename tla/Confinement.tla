----------------------------- MODULE Confinement -----------------------------
(***************************************************************************)
(* The confinement receipt of a run, minted from the tool log of the       *)
(* attempt on every path by which Pipeline.run returns (not when the       *)
(* process dies), and checked later by verify against that log.            *)
(*                                                                         *)
(* The log is a list the tool proxy appends to: a call that is still in    *)
(* flight when the run returns is appended after the receipt was minted.   *)
(* The footprint is derivable and every step has its own agent, so that a  *)
(* fact is a step and a tool; fingerprints are compared by their content.  *)
(***************************************************************************)
EXTENDS ToolProxy

VARIABLE receipts    \* the receipts minted so far

Facts == {k \in Steps \X Tools : k[2] \in Declared[k[1]]}

(* Results that count as an executed call. *)
ExecutedLive == {"ok"}
Executed == {"ok", "replay"}

(* _observed_from_log_entry: a call whose tool was not resolved is logged  *)
(* as not exfil-capable.                                                   *)
Observe(e) == [step |-> e.step, tool |-> e.tool, result |-> e.result,
               scope |-> e.scope, exfil |-> e.tool \in Exfil \cap Registered]
ObserveAll(l) == [i \in DOMAIN l |-> Observe(l[i])]

(* The executed calls outside the footprint, and those that could send     *)
(* something out under an untrusted scope.                                 *)
Strays(seen) ==
  {i \in DOMAIN seen : /\ seen[i].result \in Executed
                       /\ <<seen[i].step, seen[i].tool>> \notin Facts}
Leaks(seen) ==
  {i \in DOMAIN seen : /\ seen[i].result \in Executed
                       /\ seen[i].exfil /\ seen[i].scope = "untrusted"}

Evaluate(seen) ==
  IF Strays(seen) \cup Leaks(seen) = {} THEN "confined" ELSE "breached"

Mint(a, status, l) ==
  [att |-> a, status |-> status, observed |-> ObserveAll(l),
   verdict |-> Evaluate(ObserveAll(l))]

(* verify(receipt, proxy_log). *)
Verify(r, l) ==
  IF r.verdict = Evaluate(r.observed) /\ r.observed = ObserveAll(l)
    THEN r.verdict ELSE "unverifiable"
-----------------------------------------------------------------------------
Ended == {"halted", "completed"}

ConfinedInit == Init /\ receipts = {}

(* Every attempt whose run returns in this step gets its receipt. *)
Minting ==
  receipts' = receipts \cup
    {Mint(a, phase'[a], log'[a]) :
       a \in {b \in Attempts : phase[b] \notin Ended /\ phase'[b] \in Ended}}

ConfinedNext == Next /\ Minting

ConfinedSpec == ConfinedInit /\ [][ConfinedNext]_<<vars, receipts>>
-----------------------------------------------------------------------------
(* A receipt stands whenever it is checked again: no call outside the      *)
(* declared tools was executed, and if agents await their calls the        *)
(* receipt still matches the log and no exfil-capable call is reported     *)
(* under an untrusted scope.  The scope is the one at the end of a call,   *)
(* so that a tool which is both exfil-capable and an untrusted source      *)
(* reports itself: such tools are excepted.                                *)
ReceiptStands ==
  \A r \in receipts :
    /\ Strays(r.observed) = {}
    /\ use.awaits =>
         /\ Verify(r, log[r.att]) # "unverifiable"
         /\ \A i \in Leaks(r.observed) : r.observed[i].tool \in UntrustedSource

(* The effects of a step that a list of calls shows, and the number of one *)
(* of them: the position it should have in the effect ledger.              *)
Effects(seen, s) ==
  {i \in DOMAIN seen : /\ seen[i].step = s /\ seen[i].result \in Executed
                       /\ seen[i].tool \notin ReadOnly}
Numbered(seen, s) ==
  {<<Cardinality({j \in Effects(seen, s) : j <= i}), seen[i].tool>> :
     i \in Effects(seen, s)}

(* The receipt of a completed run accounts for the effects of every step   *)
(* this attempt executed: the effect ledger's entries of that step are the *)
(* executed effectful calls of the receipt, in their order, whether fired  *)
(* or replayed, and whatever earlier attempts fired.  Steps restored from  *)
(* a checkpoint are not in it.                                             *)
ReceiptAccounts == HasLedger /\ use.awaits /\ ~use.overlaps /\ Obedient =>
  \A r \in receipts : r.status = "completed" =>
    \A s \in {x.step : x \in audit[r.att]} :
      {<<e.pos, e.key[1]>> : e \in {x \in ledger : x.step = s}}
        = Numbered(r.observed, s)
=============================================================================
