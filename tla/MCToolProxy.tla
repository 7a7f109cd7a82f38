----------------------------- MODULE MCToolProxy -----------------------------
(* Small instances of ToolProxy and its receipts.  Effectful tools: pay,   *)
(* exfil-capable mail, shell, which step 2 does not declare, and wipe,     *)
(* whose operation is denied; web is a read-only untrusted source and      *)
(* ghost is not registered.                                                *)
EXTENDS Confinement, TLC

CONSTANTS a1, a2
TwoAttempts == {a1, a2}

AllTools == {"pay", "mail", "web", "wipe", "shell", "ghost"}
AllArgs == {"x", "y"}
Known == AllTools \ {"ghost"}
MCDeclared == [s \in {1, 2} |-> IF s = 1 THEN AllTools
                               ELSE AllTools \ {"shell"}]

Do(t, x) == [tool |-> t, args |-> x, token |-> "fresh"]
Spent(t, x) == [tool |-> t, args |-> x, token |-> "spent"]

(* An agent that may make its effectful calls in different ways from one   *)
(* attempt to the next: fewer, more, other arguments, another order.       *)
ModelDriven == [s \in {1, 2} |->
  IF s = 2 THEN {<<>>} ELSE
  {<<>>, <<Do("pay", "x")>>, <<Do("pay", "x"), Do("mail", "x")>>,
   <<Do("mail", "x"), Do("pay", "x")>>, <<Do("pay", "y")>>}]

(* Agents that leave their calls to tasks: a call that differs from one    *)
(* attempt to the next, and two that may both be in flight.                *)
OneTask == [s \in {1, 2} |->
  IF s = 2 THEN {<<>>} ELSE {<<Do("pay", "x")>>, <<Do("mail", "x")>>}]
TwoTasks == [s \in {1, 2} |->
  IF s = 2 THEN {<<>>} ELSE {<<Do("pay", "x"), Do("mail", "x")>>}]

(* Two deterministic steps, each firing an effect. *)
Fixed == [s \in {1, 2} |->
  IF s = 1 THEN {<<Do("pay", "x"), Do("mail", "x")>>}
  ELSE {<<Do("pay", "x")>>}]

(* Another topology of the same pipeline: step 1 mails first, or pays only.*)
Redeployed == [s \in {1, 2} |->
  IF s = 1 THEN {<<Do("mail", "x")>>, <<Do("pay", "x")>>}
  ELSE {<<Do("pay", "x")>>}]

(* Steps that may read an untrusted source before or after exfil calls,    *)
(* with refused calls among them.                                          *)
Tainting == [s \in {1, 2} |->
  {<<Do("web", "x"), Do("mail", "x")>>, <<Do("mail", "x"), Do("web", "x")>>,
   <<Spent("web", "x"), Do("mail", "x")>>, <<Do("mail", "x")>>}]

(* A source that step 1 may invoke only after step 2 has begun. *)
TaintingTasks == [s \in {1, 2} |->
  IF s = 2 THEN {<<Do("mail", "x")>>}
  ELSE {<<Do("web", "x")>>, <<Do("mail", "x"), Spent("web", "x")>>}]

(* Calls that every gate refuses, between calls that pass. *)
Refused == [s \in {1, 2} |->
  IF s = 1 THEN {<<Do("pay", "x"), Do("pay", "x"), Do("pay", "y")>>,
                 <<Do("ghost", "x"), Do("wipe", "x"), Spent("pay", "x"),
                   Do("pay", "x")>>}
  ELSE {<<Do("mail", "x"), Do("web", "x"), Do("pay", "x")>>,
        <<Do("shell", "x"), Do("mail", "x"), Do("pay", "x"), Do("mail", "y")>>}]

Use(programs, awaits, overlaps, fails, handles) ==
  [deploys |-> {"v1"}, programs |-> [v \in {"v1", "v2"} |-> programs],
   awaits |-> awaits, overlaps |-> overlaps, fails |-> fails,
   handles |-> handles]
Changing == [Use(Fixed, TRUE, TRUE, FALSE, {})
               EXCEPT !.deploys = {"v1", "v2"}, !.programs["v2"] = Redeployed]
MCUses ==
  {Use(ModelDriven, TRUE, TRUE, TRUE, {}),
   Use(OneTask, FALSE, TRUE, TRUE, {}),
   Use(TwoTasks, FALSE, TRUE, TRUE, {}),
   Use(Fixed, TRUE, FALSE, TRUE, {}),
   Changing,
   Use(Tainting, TRUE, FALSE, FALSE, {"token_violation"}),
   Use(TaintingTasks, FALSE, FALSE, FALSE, {"token_violation"}),
   Use(Refused, TRUE, FALSE, FALSE,
       {"tool_access", "token_violation", "circuit_breaker"})}

(* Nothing tells one attempt from another. *)
Interchangeable == Permutations(TwoAttempts)
=============================================================================
