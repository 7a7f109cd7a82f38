--------------------------- MODULE ToolProxyProof ---------------------------
(***************************************************************************)
(* Proofs about ToolProxy and Confinement, for every set of attempts,      *)
(* every pipeline length and every set of agent programs.                  *)
(***************************************************************************)
EXTENDS Confinement, SequenceTheorems, TLAPS, FiniteSetTheorems

(* A call picked from the program of an attempt is a call. *)
LEMMA ProgramCall ==
  ASSUME TypeOK, NEW a \in Attempts, NEW s \in Steps,
         NEW n \in 1..Len(prog[a][s])
  PROVE  /\ prog[a][s][n] \in Calls /\ n \in Nat
         /\ prog[a][s][n].tool \in Tools
  <1>1. prog[a][s] \in Seq(Calls)
    BY DEF TypeOK
  <1>2. prog[a][s][n] \in Calls /\ n \in Nat
    BY <1>1
  <1> QED BY <1>2 DEF Calls

LEMMA KeyType == \A c \in Calls : Key(c) \in Keys
  BY DEF Calls, Key, Keys

(* Appending to an attempt's log keeps its type. *)
LEMMA LoggedType ==
  ASSUME TypeOK, NEW a \in Attempts, NEW s \in Steps, NEW n \in Nat,
         NEW t \in Tools, NEW r \in Outcomes, Logged(a, s, n, t, r),
         scope' \in [Attempts -> [Steps -> Labels \cup {None}]]
  PROVE  log' \in [Attempts -> Seq(LogEntries)]
  <1> DEFINE e == [step |-> s, n |-> n, tool |-> t, scope |-> ScopeOf(a, s)',
                   result |-> r]
  <1>1. ScopeOf(a, s)' \in Labels
    BY DEF ScopeOf, Labels
  <1>2. e \in LogEntries
    BY <1>1 DEF LogEntries
  <1>3. log[a] \in Seq(LogEntries)
    BY DEF TypeOK
  <1>4. Append(log[a], e) \in Seq(LogEntries)
    BY <1>2, <1>3
  <1>5. log' = [log EXCEPT ![a] = Append(log[a], e)]
    BY DEF Logged
  <1> HIDE DEF e
  <1> QED BY <1>4, <1>5 DEF TypeOK

LEMMA RaisesType ==
  ASSUME TypeOK, NEW a \in Attempts, NEW s \in Steps, NEW w \in Codes,
         Raises(a, s, w)
  PROVE  code' \in [Attempts -> Codes \cup {None}]
  BY DEF TypeOK, Raises

LEMMA CalledType ==
  ASSUME TypeOK, NEW a \in Attempts, NEW s \in Steps, NEW n \in Nat,
         NEW c \in Calls, NEW p \in Nat,
         NEW h \in {"live", "replay", "refused", "denied"},
         Called(a, s, n, c, p, h)
  PROVE  calls' \subseteq [att : Attempts, step : Steps, n : Nat,
                           call : Calls, pos : Nat,
                           how : {"live", "replay", "refused", "denied"},
                           late : BOOLEAN]
  <1> DEFINE l == ~InStep(a, s)
             r == [att |-> a, step |-> s, n |-> n, call |-> c, pos |-> p,
                   how |-> h, late |-> l]
  <1>1. l \in BOOLEAN
    OBVIOUS
  <1>2. calls' = calls \cup {r}
    BY DEF Called
  <1> HIDE DEF l
  <1>3. r \in [att : Attempts, step : Steps, n : Nat, call : Calls, pos : Nat,
               how : {"live", "replay", "refused", "denied"}, late : BOOLEAN]
    BY <1>1
  <1> HIDE DEF r
  <1> QED BY <1>2, <1>3 DEF TypeOK

(* What making a call leaves well typed, whatever becomes of the call. *)
LEMMA CallingType ==
  ASSUME TypeOK, NEW a \in Attempts, NEW s \in Steps,
         NEW n \in 1..Len(prog[a][s]), NEW c \in Calls,
         Calling(a, s, n, c)
  PROVE  /\ checkpoint' \in [Steps -> Labels \cup {None}]
         /\ topology' = topology /\ version' = version
         /\ phase' = phase /\ step' = step /\ upstream' = upstream
         /\ prog' = prog /\ logStart' = logStart /\ audit' = audit
         /\ next' \in [Attempts -> [Steps -> Nat \ {0}]]
         /\ counts' \in [Attempts -> [Steps \X Tools -> Nat]]
         /\ runTotal' \in [Attempts -> Nat]
         /\ runTools' \in [Attempts -> SUBSET Tools]
         /\ scope' \in [Attempts -> [Steps -> Labels \cup {None}]]
  <1>1. c.tool \in Tools
    BY DEF Calls
  <1>2. counts' \in [Attempts -> [Steps \X Tools -> Nat]]
    <2>1. <<s, c.tool>> \in Steps \X Tools
      BY <1>1
    <2>2. counts[a] \in [Steps \X Tools -> Nat]
      BY DEF TypeOK
    <2>3. counts[a][<<s, c.tool>>] + 1 \in Nat
      BY <2>1, <2>2
    <2>4. [counts[a] EXCEPT ![<<s, c.tool>>] = counts[a][<<s, c.tool>>] + 1]
            \in [Steps \X Tools -> Nat]
      BY <2>2, <2>3
    <2>5. \/ counts' = counts
          \/ counts' = [counts EXCEPT ![a] =
               [counts[a] EXCEPT ![<<s, c.tool>>] = counts[a][<<s, c.tool>>] + 1]]
      BY DEF Calling, GateEffects
    <2> QED BY <2>4, <2>5 DEF TypeOK
  <1>3. runTools' \in [Attempts -> SUBSET Tools]
    BY <1>1 DEF TypeOK, Calling, GateEffects
  <1>4. scope' \in [Attempts -> [Steps -> Labels \cup {None}]]
    BY DEF TypeOK, Calling, GateEffects, Labels
  <1>5. runTotal' \in [Attempts -> Nat]
    <2>1. runTotal' = runTotal \/ runTotal' = [runTotal EXCEPT ![a] = runTotal[a] + 1]
      BY DEF Calling, GateEffects
    <2>2. runTotal \in [Attempts -> Nat]
      BY DEF TypeOK
    <2> QED BY <2>1, <2>2
  <1>6. next' \in [Attempts -> [Steps -> Nat \ {0}]]
    BY DEF TypeOK, Calling
  <1>7. checkpoint' \in [Steps -> Labels \cup {None}]
    BY DEF TypeOK, Calling
  <1>8. /\ topology' = topology /\ version' = version
        /\ phase' = phase /\ step' = step /\ upstream' = upstream
        /\ prog' = prog /\ logStart' = logStart /\ audit' = audit
    BY DEF Calling
  <1> QED BY <1>2, <1>3, <1>4, <1>5, <1>6, <1>7, <1>8
-----------------------------------------------------------------------------
LEMMA InitType == Init => TypeOK
  <1> SUFFICES ASSUME Init PROVE TypeOK
    OBVIOUS
  <1>1. /\ << >> \in Seq(Calls) /\ << >> \in Seq(LogEntries)
    OBVIOUS
  <1>2. /\ code \in [Attempts -> Codes \cup {None}]
        /\ prog \in [Attempts -> [Steps -> Seq(Calls)]]
        /\ log \in [Attempts -> Seq(LogEntries)]
    BY <1>1 DEF Init, None, NoCalls
  <1>3. /\ checkpoint \in [Steps -> Labels \cup {None}]
        /\ upstream \in [Attempts -> Labels]
        /\ scope \in [Attempts -> [Steps -> Labels \cup {None}]]
    BY ConstantsAssumption DEF Init
  <1>4. counts \in [Attempts -> [Steps \X Tools -> Nat]]
    BY DEF Init
  <1> QED BY <1>2, <1>3, <1>4 DEF Init, TypeOK

LEMMA ExecuteStepType ==
  ASSUME TypeOK, NEW a \in Attempts, ExecuteStep(a), UNCHANGED use
  PROVE  TypeOK'
  <1> DEFINE s == step[a]
  <1>1. s \in Steps
    BY DEF ExecuteStep
  <1>2. prog' \in [Attempts -> [Steps -> Seq(Calls)]]
    <2>1. IsUse(use)
      BY ConstantsAssumption DEF TypeOK
    <2>2. version[a] \in Versions
      BY DEF ExecuteStep, TypeOK
    <2>3. use.programs[version[a]][s] \subseteq Seq(Calls)
      BY <1>1, <2>1, <2>2 DEF IsUse
    <2>4. PICK p \in use.programs[version[a]][s] :
            prog' = [prog EXCEPT ![a][s] = p]
      BY DEF ExecuteStep
    <2> QED BY <2>3, <2>4 DEF TypeOK
  <1>3. next' \in [Attempts -> [Steps -> Nat \ {0}]]
    BY DEF ExecuteStep, TypeOK
  <1>4. logStart' \in [Attempts -> Nat]
    <2>1. Len(log[a]) \in Nat
      BY DEF TypeOK
    <2> QED BY <2>1 DEF ExecuteStep, TypeOK
  <1>5. scope' \in [Attempts -> [Steps -> Labels \cup {None}]]
    BY <1>1 DEF ExecuteStep, TypeOK, Join, Labels
  <1>6. phase' \in [Attempts -> {"idle", "entering", "running", "halted",
                                 "completed", "crashed"}]
    BY DEF ExecuteStep, TypeOK
  <1> QED BY <1>2, <1>3, <1>4, <1>5, <1>6 DEF ExecuteStep, TypeOK, durable

(* The four actions that take an effect position. *)
LEMMA TakesPositionType ==
  ASSUME TypeOK, NEW a \in Attempts, NEW s \in Steps,
         NEW n \in 1..Len(prog[a][s]), NEW c \in Calls, NEW p,
         TakesPosition(a, s, n, c, p)
  PROVE  /\ p \in Nat \ {0}
         /\ cursor' \in [Attempts -> [Steps -> Nat]]
         /\ Calling(a, s, n, c)
  BY DEF TypeOK, TakesPosition, NextPosition

LEMMA PendingEntryType ==
  ASSUME NEW s \in Steps, NEW p \in Nat \ {0}, NEW c \in Calls
  PROVE  [step |-> s, pos |-> p, key |-> Key(c), status |-> "pending",
          out |-> None] \in Entries
  BY KeyType DEF Entries

LEMMA InvokeType ==
  ASSUME TypeOK, NEW a \in Attempts, Invoke(a), UNCHANGED use
  PROVE  TypeOK'
  <1>1. CASE DenyCall(a)
    <2>1. PICK s \in Steps, n \in Nat :
            /\ n \in 1..Len(prog[a][s])
            /\ Calling(a, s, n, prog[a][s][n])
            /\ Logged(a, s, n, prog[a][s][n].tool,
                      DenialCode(a, s, prog[a][s][n]))
            /\ Raises(a, s, DenialCode(a, s, prog[a][s][n]))
            /\ Called(a, s, n, prog[a][s][n], 0, "denied")
            /\ UNCHANGED <<ledger, cursor, flying, results>>
      BY <1>1 DEF DenyCall
    <2>2. prog[a][s][n] \in Calls /\ n \in Nat /\ prog[a][s][n].tool \in Tools
      BY <2>1, ProgramCall
    <2>3. DenialCode(a, s, prog[a][s][n]) \in Codes \cap Outcomes
      BY DEF DenialCode, Codes, Outcomes
    <2>4. log' \in [Attempts -> Seq(LogEntries)]
      BY <2>1, <2>2, <2>3, LoggedType, CallingType
    <2>5. code' \in [Attempts -> Codes \cup {None}]
      BY <2>1, <2>3, RaisesType
    <2> QED BY <2>1, <2>2, <2>4, <2>5, CallingType, CalledType DEF TypeOK
  <1>2. CASE CallUnledgered(a)
    <2>1. PICK s \in Steps, n \in Nat :
            /\ n \in 1..Len(prog[a][s])
            /\ Calling(a, s, n, prog[a][s][n])
            /\ flying' = flying \cup {[att |-> a, step |-> s, n |-> n,
                                       call |-> prog[a][s][n], pos |-> 0]}
            /\ Called(a, s, n, prog[a][s][n], 0, "live")
            /\ UNCHANGED <<ledger, cursor, log, code, results>>
      BY <1>2 DEF CallUnledgered
    <2>2. prog[a][s][n] \in Calls /\ n \in Nat /\ prog[a][s][n].tool \in Tools
      BY <2>1, ProgramCall
    <2>3. flying' \subseteq Flights
      BY <2>1, <2>2 DEF TypeOK, Flights
    <2> QED BY <2>1, <2>2, <2>3, CallingType, CalledType DEF TypeOK
  <1>3. CASE FireEffect(a)
    <2>1. PICK s \in Steps, n \in Nat :
            /\ n \in 1..Len(prog[a][s])
            /\ TakesPosition(a, s, n, prog[a][s][n], NextPosition(a, s))
            /\ ledger' = ledger \cup
                 {[step |-> s, pos |-> NextPosition(a, s),
                   key |-> Key(prog[a][s][n]), status |-> "pending",
                   out |-> None]}
            /\ flying' = flying \cup
                 {[att |-> a, step |-> s, n |-> n, call |-> prog[a][s][n],
                   pos |-> NextPosition(a, s)]}
            /\ Called(a, s, n, prog[a][s][n], NextPosition(a, s), "live")
            /\ UNCHANGED <<log, code, results>>
      BY <1>3 DEF FireEffect
    <2> DEFINE p == NextPosition(a, s)
    <2>2. prog[a][s][n] \in Calls /\ n \in Nat /\ prog[a][s][n].tool \in Tools
      BY <2>1, ProgramCall
    <2>3. /\ p \in Nat \ {0} /\ cursor' \in [Attempts -> [Steps -> Nat]]
          /\ Calling(a, s, n, prog[a][s][n])
      BY <2>1, <2>2, TakesPositionType
    <2>4. flying' \subseteq Flights
      BY <2>1, <2>2, <2>3 DEF TypeOK, Flights
    <2>5. ledger' \subseteq Entries
      BY <2>1, <2>2, <2>3, PendingEntryType DEF TypeOK
    <2>6. p \in Nat
      BY <2>3
    <2> HIDE DEF p
    <2>7. Called(a, s, n, prog[a][s][n], p, "live")
      BY <2>1 DEF p
    <2> QED BY <2>1, <2>2, <2>3, <2>4, <2>5, <2>6, <2>7, CallingType,
               CalledType DEF TypeOK
  <1>4. CASE PendingWriteFails(a)
    <2>1. PICK s \in Steps, n \in Nat :
            /\ n \in 1..Len(prog[a][s])
            /\ TakesPosition(a, s, n, prog[a][s][n], NextPosition(a, s))
            /\ Logged(a, s, n, prog[a][s][n].tool, "error")
            /\ Raises(a, s, "effect_ledger_error")
            /\ Called(a, s, n, prog[a][s][n], NextPosition(a, s), "refused")
            /\ UNCHANGED <<ledger, flying, results>>
      BY <1>4 DEF PendingWriteFails
    <2> DEFINE p == NextPosition(a, s)
    <2>2. prog[a][s][n] \in Calls /\ n \in Nat /\ prog[a][s][n].tool \in Tools
      BY <2>1, ProgramCall
    <2>3. /\ p \in Nat \ {0} /\ cursor' \in [Attempts -> [Steps -> Nat]]
          /\ Calling(a, s, n, prog[a][s][n])
      BY <2>1, <2>2, TakesPositionType
    <2>4. p \in Nat
      BY <2>3
    <2> HIDE DEF p
    <2>5. Called(a, s, n, prog[a][s][n], p, "refused")
      BY <2>1 DEF p
    <2>6. /\ log' \in [Attempts -> Seq(LogEntries)]
          /\ code' \in [Attempts -> Codes \cup {None}]
      <3>1. /\ "error" \in Outcomes /\ "effect_ledger_error" \in Codes
            /\ "effect_divergence" \in Codes
            /\ "effect_unresolved" \in Codes
        BY DEF Codes, Outcomes
      <3>2. log' \in [Attempts -> Seq(LogEntries)]
        BY <2>1, <2>2, <2>3, <3>1, LoggedType, CallingType
      <3>3. code' \in [Attempts -> Codes \cup {None}]
        BY <2>1, <2>2, <3>1, RaisesType
      <3> QED BY <3>2, <3>3
    <2> QED BY <2>1, <2>2, <2>3, <2>4, <2>5, <2>6, CallingType, CalledType
            DEF TypeOK
  <1>5. CASE ReplayEffect(a)
    <2>1. PICK s \in Steps, n \in Nat :
            /\ n \in 1..Len(prog[a][s])
            /\ TakesPosition(a, s, n, prog[a][s][n], NextPosition(a, s))
            /\ \E e \in EntryAt(s, NextPosition(a, s)) :
                 results' = results \cup
                   {[step |-> s, pos |-> NextPosition(a, s),
                     call |-> prog[a][s][n], out |-> e.out]}
            /\ Logged(a, s, n, prog[a][s][n].tool, "replay")
            /\ Called(a, s, n, prog[a][s][n], NextPosition(a, s), "replay")
            /\ UNCHANGED <<ledger, flying, code>>
      BY <1>5 DEF ReplayEffect
    <2> DEFINE p == NextPosition(a, s)
    <2>2. prog[a][s][n] \in Calls /\ n \in Nat /\ prog[a][s][n].tool \in Tools
      BY <2>1, ProgramCall
    <2>3. /\ p \in Nat \ {0} /\ cursor' \in [Attempts -> [Steps -> Nat]]
          /\ Calling(a, s, n, prog[a][s][n])
      BY <2>1, <2>2, TakesPositionType
    <2>4. p \in Nat
      BY <2>3
    <2>5. \A e \in EntryAt(s, p) : e.out \in Attempts \cup {None}
      BY DEF TypeOK, EntryAt, Entries
    <2>6. results' \subseteq [step : Steps, pos : Nat, call : Calls,
                              out : Attempts \cup {None}]
      BY <2>1, <2>2, <2>4, <2>5 DEF TypeOK
    <2> HIDE DEF p
    <2>7. Called(a, s, n, prog[a][s][n], p, "replay")
      BY <2>1 DEF p
    <2>8. log' \in [Attempts -> Seq(LogEntries)]
      <3>1. "replay" \in Outcomes
        BY DEF Outcomes
      <3> QED BY <2>1, <2>2, <2>3, <3>1, LoggedType, CallingType
    <2> QED BY <2>1, <2>2, <2>3, <2>4, <2>6, <2>7, <2>8, CallingType,
               CalledType DEF TypeOK
  <1>7. CASE RefuseUndeclared(a)
    <2>1. PICK s \in Steps : \E n \in 1..Len(prog[a][s]) :
            /\ next' = [next EXCEPT ![a][s] = next[a][s] + 1]
            /\ Raises(a, s, "tool_access")
            /\ UNCHANGED <<durable, version, phase, step, upstream, prog,
                           logStart, gates, log, audit, flying, calls,
                           results>>
      BY <1>7 DEF RefuseUndeclared
    <2>2. next' \in [Attempts -> [Steps -> Nat \ {0}]]
      BY <2>1 DEF TypeOK
    <2>3. code' \in [Attempts -> Codes \cup {None}]
      <3>1. "tool_access" \in Codes
        BY DEF Codes
      <3> QED BY <2>1, <3>1, RaisesType
    <2> QED BY <2>1, <2>2, <2>3 DEF TypeOK, durable, gates
  <1>6. CASE RefuseEffect(a)
    <2>1. PICK s \in Steps, n \in Nat,
               w \in {"effect_divergence", "effect_unresolved"} :
            /\ n \in 1..Len(prog[a][s])
            /\ TakesPosition(a, s, n, prog[a][s][n], NextPosition(a, s))
            /\ Raises(a, s, w)
            /\ Logged(a, s, n, prog[a][s][n].tool, "error")
            /\ Called(a, s, n, prog[a][s][n], NextPosition(a, s), "refused")
            /\ UNCHANGED <<ledger, flying, results>>
      BY <1>6 DEF RefuseEffect
    <2> DEFINE p == NextPosition(a, s)
    <2>2. prog[a][s][n] \in Calls /\ n \in Nat /\ prog[a][s][n].tool \in Tools
      BY <2>1, ProgramCall
    <2>3. /\ p \in Nat \ {0} /\ cursor' \in [Attempts -> [Steps -> Nat]]
          /\ Calling(a, s, n, prog[a][s][n])
      BY <2>1, <2>2, TakesPositionType
    <2>4. p \in Nat
      BY <2>3
    <2> HIDE DEF p
    <2>5. Called(a, s, n, prog[a][s][n], p, "refused")
      BY <2>1 DEF p
    <2>6. /\ log' \in [Attempts -> Seq(LogEntries)]
          /\ code' \in [Attempts -> Codes \cup {None}]
      <3>1. /\ "error" \in Outcomes /\ "effect_ledger_error" \in Codes
            /\ "effect_divergence" \in Codes
            /\ "effect_unresolved" \in Codes
        BY DEF Codes, Outcomes
      <3>2. log' \in [Attempts -> Seq(LogEntries)]
        BY <2>1, <2>2, <2>3, <3>1, LoggedType, CallingType
      <3>3. code' \in [Attempts -> Codes \cup {None}]
        BY <2>1, <2>2, <3>1, RaisesType
      <3> QED BY <3>2, <3>3
    <2> QED BY <2>1, <2>2, <2>3, <2>4, <2>5, <2>6, CallingType, CalledType
            DEF TypeOK
  <1> QED BY <1>1, <1>2, <1>3, <1>4, <1>5, <1>6, <1>7 DEF Invoke

LEMMA FinishType ==
  ASSUME TypeOK, NEW f \in flying, Finish(f), UNCHANGED use
  PROVE  TypeOK'
  <1>1. /\ f.att \in Attempts /\ f.step \in Steps /\ f.n \in Nat
        /\ f.pos \in Nat /\ f.call \in Calls /\ f.call.tool \in Tools
    BY DEF TypeOK, Flights, Calls
  <1>2. flying' \subseteq Flights
    BY DEF TypeOK, Finish
  <1>0. /\ "ok" \in Outcomes /\ "error" \in Outcomes
        /\ "agent_error" \in Codes /\ "effect_ledger_error" \in Codes
    BY DEF Codes, Outcomes
  <1>3. log' \in [Attempts -> Seq(LogEntries)]
    <2>1. scope' \in [Attempts -> [Steps -> Labels \cup {None}]]
      BY DEF Finish, TypeOK, gates
    <2> QED BY <1>0, <1>1, <2>1, LoggedType
            DEF Finish, FinishUnledgered, FinishEffect, FailEffect
  <1>4. code' \in [Attempts -> Codes \cup {None}]
    <2>1. code' # code => \E w \in Codes : Raises(f.att, f.step, w)
      BY <1>0 DEF Finish, FinishUnledgered, FinishEffect, FailEffect
    <2>2. code \in [Attempts -> Codes \cup {None}]
      BY DEF TypeOK
    <2> QED BY <1>1, <2>1, <2>2, RaisesType
  <1>5. ledger' \subseteq Entries
    <2>1. CASE FinishEffect(f)
      <3> SUFFICES ASSUME NEW e \in ledger
                   PROVE  [e EXCEPT !.status = "succeeded", !.out = f.att]
                            \in Entries
        BY <2>1 DEF FinishEffect, TypeOK
      <3>1. e \in [step : Steps, pos : Nat \ {0}, key : Keys,
                   status : {"pending", "succeeded"},
                   out : Attempts \cup {None}]
        BY DEF TypeOK, Entries
      <3> QED BY <1>1, <3>1 DEF Entries
    <2>2. CASE ~FinishEffect(f)
      BY <2>2 DEF Finish, FinishUnledgered, FailEffect, TypeOK
    <2> QED BY <2>1, <2>2
  <1>6. results' \subseteq [step : Steps, pos : Nat, call : Calls,
                            out : Attempts \cup {None}]
    <2>1. CASE FinishEffect(f)
      <3> DEFINE r == [step |-> f.step, pos |-> f.pos, call |-> f.call,
                       out |-> f.att]
      <3>1. r \in [step : Steps, pos : Nat, call : Calls,
                   out : Attempts \cup {None}]
        BY <1>1
      <3>2. results' = results \cup {r}
        BY <2>1 DEF FinishEffect
      <3> QED BY <3>1, <3>2 DEF TypeOK
    <2>2. CASE ~FinishEffect(f)
      BY <2>2 DEF Finish, FinishUnledgered, FailEffect, TypeOK
    <2> QED BY <2>1, <2>2
  <1> QED BY <1>2, <1>3, <1>4, <1>5, <1>6 DEF Finish, TypeOK, stepVars, gates

LEMMA RunLoopType ==
  ASSUME TypeOK, NEW a \in Attempts, RunLoop(a), UNCHANGED use
  PROVE  TypeOK'
  <1>1. CASE Begin(a)
    <2>1. PICK v \in use.deploys :
            /\ version' = [version EXCEPT ![a] = v]
            /\ topology' = IF HasProgress THEN topology ELSE v
      BY <1>1 DEF Begin
    <2>2. v \in Versions
      BY ConstantsAssumption DEF TypeOK, IsUse
    <2>3. /\ version' \in [Attempts -> Versions \cup {None}]
          /\ topology' \in Versions \cup {None}
          /\ version'[a] \in Versions
          /\ \A b \in Attempts \ {a} : version'[b] = version[b]
      BY <2>1, <2>2 DEF TypeOK
    <2> QED BY <1>1, <2>3 DEF Begin, TypeOK, stepVars, gates
  <1>9. CASE RefuseDrift(a)
    <2>1. PICK v \in use.deploys : version' = [version EXCEPT ![a] = v]
      BY <1>9 DEF RefuseDrift
    <2>2. v \in Versions
      BY ConstantsAssumption DEF TypeOK, IsUse
    <2>3. /\ version' \in [Attempts -> Versions \cup {None}]
          /\ \A b \in Attempts \ {a} : version'[b] = version[b]
      BY <2>1, <2>2 DEF TypeOK
    <2>4. code' \in [Attempts -> Codes \cup {None}]
      BY <1>9 DEF RefuseDrift, TypeOK, Codes
    <2> QED BY <1>9, <2>3, <2>4 DEF RefuseDrift, TypeOK, durable, stepVars, gates
  <1>2. CASE RestoreStep(a)
    <2>1. step[a] \in Steps /\ step[a] \in Nat
      BY <1>2 DEF RestoreStep, TypeOK
    <2>2. checkpoint[step[a]] \in Labels
      BY <1>2, <2>1 DEF RestoreStep, TypeOK
    <2>3. upstream' \in [Attempts -> Labels]
      BY <1>2, <2>2 DEF RestoreStep, TypeOK
    <2>4. step' \in [Attempts -> Nat]
      BY <1>2, <2>1 DEF RestoreStep, TypeOK
    <2> QED BY <1>2, <2>3, <2>4
            DEF RestoreStep, TypeOK, durable, stepVars, gates
  <1>3. CASE ExecuteStep(a)
    BY <1>3, ExecuteStepType
  <1>4. CASE Complete(a)
    BY <1>4 DEF Complete, TypeOK, durable, stepVars, gates
  <1>5. ASSUME phase[a] = "running", step[a] \in Steps, RecordStep(a)
        PROVE  audit' \in [Attempts -> SUBSET [step : Steps,
                                               calls : Seq(LogEntries)]]
    <2>1. log[a] \in Seq(LogEntries) /\ logStart[a] + 1 \in Nat \ {0}
          /\ Len(log[a]) \in Nat
      BY DEF TypeOK
    <2>2. StepCalls(a) \in Seq(LogEntries)
      BY <2>1, SubSeqProperties DEF StepCalls
    <2> DEFINE r == [step |-> step[a], calls |-> StepCalls(a)]
    <2>3. r \in [step : Steps, calls : Seq(LogEntries)]
      BY <1>5, <2>2
    <2>4. audit' = [audit EXCEPT ![a] = audit[a] \cup {r}]
      BY <1>5 DEF RecordStep
    <2> HIDE DEF r
    <2> QED BY <2>3, <2>4 DEF TypeOK
  <1>6. CASE CommitStep(a)
    <2>1. phase[a] = "running" /\ step[a] \in Steps /\ step[a] \in Nat
      BY <1>6 DEF CommitStep, Returning, TypeOK
    <2>2. audit' \in [Attempts -> SUBSET [step : Steps,
                                          calls : Seq(LogEntries)]]
      BY <1>5, <1>6, <2>1 DEF CommitStep
    <2>3. ScopeOf(a, step[a]) \in Labels
      BY <2>1 DEF ScopeOf, TypeOK, Labels
    <2>4. /\ checkpoint' \in [Steps -> Labels \cup {None}]
          /\ upstream' \in [Attempts -> Labels]
      BY <1>6, <2>1, <2>3 DEF CommitStep, TypeOK
    <2>5. /\ step' \in [Attempts -> Nat]
          /\ phase' \in [Attempts -> {"idle", "entering", "running", "halted",
                                      "completed", "crashed"}]
          /\ \A b \in Attempts : phase'[b] = "running" => step'[b] \in Steps
      BY <1>6, <2>1 DEF CommitStep, TypeOK
    <2> QED BY <1>6, <2>2, <2>4, <2>5
            DEF CommitStep, Returning, TypeOK, stepVars, gates
  <1>7. CASE HaltOnOrphan(a)
    BY <1>7 DEF HaltOnOrphan, Returning, TypeOK, stepVars, gates, Codes
  <1>8. CASE FailStep(a)
    <2>1. phase[a] = "running" /\ step[a] \in Steps
      BY <1>8 DEF FailStep, TypeOK
    <2>2. audit' \in [Attempts -> SUBSET [step : Steps,
                                          calls : Seq(LogEntries)]]
      <3>1. CASE RecordStep(a)
        BY <1>5, <2>1, <3>1
      <3>2. CASE UNCHANGED audit
        BY <3>2 DEF TypeOK
      <3> QED BY <1>8, <3>1, <3>2 DEF FailStep
    <2>3. code' \in [Attempts -> Codes \cup {None}]
      BY <1>8 DEF FailStep, TypeOK, Codes
    <2> QED BY <1>8, <2>2, <2>3 DEF FailStep, TypeOK, durable, stepVars, gates
  <1> QED
    BY <1>1, <1>2, <1>3, <1>4, <1>6, <1>7, <1>8, <1>9
    DEF RunLoop

LEMMA CrashingType ==
  ASSUME TypeOK, Crashing
  PROVE  /\ phase' \in [Attempts -> {"idle", "entering", "running", "halted",
                                     "completed", "crashed"}]
         /\ \A a \in Attempts : phase'[a] = "running" => step'[a] \in Steps
         /\ \A a \in Attempts : phase'[a] \notin {"entering", "running"}
         /\ flying' \subseteq Flights
         /\ prog' \in [Attempts -> [Steps -> Seq(Calls)]]
         /\ cursor' = cursor
  BY DEF TypeOK, Crashing, Active, gates, NoCalls

LEMMA CrashType ==
  ASSUME TypeOK, Crash, UNCHANGED use
  PROVE  TypeOK'
  BY CrashingType DEF Crash, Crashing, TypeOK, stepVars, gates

LEMMA CrashBeforeFireType ==
  ASSUME TypeOK, NEW a \in Attempts, CrashBeforeFire(a), UNCHANGED use
  PROVE  TypeOK'
  <1>1. PICK s \in Steps, n \in Nat :
          /\ n \in 1..Len(prog[a][s])
          /\ ledger' = ledger \cup
               {[step |-> s, pos |-> NextPosition(a, s), key |-> Key(prog[a][s][n]),
                 status |-> "pending", out |-> None]}
    BY DEF CrashBeforeFire
  <1>2. Crashing
    BY DEF CrashBeforeFire
  <1>3. prog[a][s][n] \in Calls
    BY <1>1, ProgramCall
  <1>4. NextPosition(a, s) \in Nat \ {0}
    BY DEF TypeOK, NextPosition
  <1>5. ledger' \subseteq Entries
    BY <1>1, <1>3, <1>4, PendingEntryType DEF TypeOK
  <1> QED BY <1>2, <1>5, CrashingType DEF Crashing, TypeOK, stepVars, gates

LEMMA TypeStep == TypeOK /\ [Next]_vars => TypeOK'
  <1> SUFFICES ASSUME TypeOK, [Next]_vars PROVE TypeOK'
    OBVIOUS
  <1>1. CASE UNCHANGED use /\ (\E a \in Attempts : RunLoop(a))
    BY <1>1, RunLoopType
  <1>2. CASE UNCHANGED use /\ (\E a \in Attempts : Invoke(a))
    BY <1>2, InvokeType
  <1>3. CASE UNCHANGED use /\ (\E a \in Attempts : CrashBeforeFire(a))
    BY <1>3, CrashBeforeFireType
  <1>4. CASE UNCHANGED use /\ (\E f \in flying : Finish(f))
    BY <1>4, FinishType
  <1>5. CASE UNCHANGED use /\ Crash
    BY <1>5, CrashType
  <1>6. CASE UNCHANGED vars
    BY <1>6 DEF vars, TypeOK
  <1> QED BY <1>1, <1>2, <1>3, <1>4, <1>5, <1>6 DEF Next, Step

(* Every variable keeps its type: the ledger holds well-formed entries,    *)
(* positions start at one, a running attempt is at a step of the pipeline. *)
THEOREM TypeCorrect == Spec => []TypeOK
  BY InitType, TypeStep, PTL DEF Spec
-----------------------------------------------------------------------------
(* The effect ledger.  A position that was ever fired at has an entry, and *)
(* entries are never removed: that is what keeps it from firing again.     *)
FiredIsRecorded ==
  \A p \in calls : (p.how = "live" /\ p.pos # 0) => EntryAt(p.step, p.pos) # {}

EffectInv == TypeOK /\ FiredIsRecorded /\ AtMostOnceEffect

Pending(s, p, k) ==
  [step |-> s, pos |-> p, key |-> k, status |-> "pending", out |-> None]

(* A step leaves the ledger alone, adds a pending entry at a position that *)
(* has none, or confirms the entry of a handler in flight.                 *)
LEMMA LedgerSteps ==
  ASSUME TypeOK, [Next]_vars
  PROVE  \/ ledger' = ledger
         \/ \E s \in Steps, p \in Nat \ {0}, k \in Keys :
              EntryAt(s, p) = {} /\ ledger' = ledger \cup {Pending(s, p, k)}
         \/ \E f \in flying : FinishEffect(f)
  <1>1. CASE \E a \in Attempts : RunLoop(a)
    BY <1>1 DEF RunLoop, Begin, RefuseDrift, RestoreStep, ExecuteStep,
                Complete, CommitStep,
                HaltOnOrphan, FailStep, Returning, durable
  <1>2. ASSUME NEW a \in Attempts, NEW s \in Steps, NEW n \in 1..Len(prog[a][s]),
               EntryAt(s, NextPosition(a, s)) = {},
               ledger' = ledger \cup
                 {Pending(s, NextPosition(a, s), Key(prog[a][s][n]))}
        PROVE  \E t \in Steps, p \in Nat \ {0}, k \in Keys :
                 EntryAt(t, p) = {} /\ ledger' = ledger \cup {Pending(t, p, k)}
    <2>1. prog[a][s][n] \in Calls
      BY ProgramCall
    <2>2. NextPosition(a, s) \in Nat \ {0}
      BY DEF TypeOK, NextPosition
    <2>3. Key(prog[a][s][n]) \in Keys
      BY <2>1, KeyType
    <2> QED BY <1>2, <2>2, <2>3
  <1>3. CASE \E a \in Attempts : FireEffect(a)
    BY <1>2, <1>3 DEF FireEffect, Pending
  <1>4. CASE \E a \in Attempts : CrashBeforeFire(a)
    BY <1>2, <1>4 DEF CrashBeforeFire, Pending
  <1>5. CASE \E a \in Attempts : Invoke(a) /\ ~FireEffect(a)
    BY <1>5 DEF Invoke, DenyCall, CallUnledgered, PendingWriteFails,
                ReplayEffect, RefuseEffect, RefuseUndeclared, durable
  <1>6. CASE \E f \in flying : Finish(f)
    BY <1>6 DEF Finish, FinishUnledgered, FailEffect
  <1>7. CASE Crash
    BY <1>7 DEF Crash
  <1>8. CASE UNCHANGED vars
    BY <1>8 DEF vars
  <1> QED BY <1>1, <1>3, <1>4, <1>5, <1>6, <1>7, <1>8 DEF Next, Step

(* Entries are never removed. *)
LEMMA EntriesStay ==
  ASSUME TypeOK, [Next]_vars, NEW s \in Steps, NEW p \in Nat,
         EntryAt(s, p) # {}
  PROVE  EntryAt(s, p)' # {}
  <1>1. CASE ledger' = ledger
    BY <1>1 DEF EntryAt
  <1>2. ASSUME NEW t \in Steps, NEW q \in Nat \ {0}, NEW k \in Keys,
               ledger' = ledger \cup {Pending(t, q, k)}
        PROVE  EntryAt(s, p)' # {}
    BY <1>2 DEF EntryAt
  <1>3. ASSUME NEW f \in flying, FinishEffect(f)
        PROVE  EntryAt(s, p)' # {}
    <2>1. PICK e \in ledger : e.step = s /\ e.pos = p
      BY DEF EntryAt
    <2> DEFINE g(x) == IF x.step = f.step /\ x.pos = f.pos
                         THEN [x EXCEPT !.status = "succeeded", !.out = f.att]
                         ELSE x
    <2>2. e \in [step : Steps, pos : Nat \ {0}, key : Keys,
                 status : {"pending", "succeeded"},
                 out : Attempts \cup {None}]
      BY DEF TypeOK, Entries
    <2>3. g(e).step = s /\ g(e).pos = p
      BY <2>1, <2>2
    <2>4. g(e) \in ledger'
      BY <1>3 DEF FinishEffect
    <2> HIDE DEF g
    <2> QED BY <2>3, <2>4 DEF EntryAt
  <1> QED BY <1>1, <1>2, <1>3, LedgerSteps

(* A step adds at most one call; a live call with a position is one that   *)
(* found no entry there and recorded one.                                  *)
LEMMA CallsGrow ==
  ASSUME TypeOK, [Next]_vars
  PROVE  \/ calls' = calls
         \/ \E p : /\ calls' = calls \cup {p}
                   /\ (p.how = "live" /\ p.pos # 0) =>
                        /\ EntryAt(p.step, p.pos) = {}
                        /\ EntryAt(p.step, p.pos)' # {}
  <1>1. CASE \E a \in Attempts : RunLoop(a)
    BY <1>1 DEF RunLoop, Begin, RefuseDrift, RestoreStep, ExecuteStep,
                Complete, CommitStep,
                HaltOnOrphan, FailStep, Returning
  <1>2. CASE \E a \in Attempts : FireEffect(a)
    <2>0. PICK a \in Attempts : FireEffect(a)
      BY <1>2
    <2>1. PICK s \in Steps, n \in Nat :
            /\ n \in 1..Len(prog[a][s])
            /\ EntryAt(s, NextPosition(a, s)) = {}
            /\ ledger' = ledger \cup
                 {Pending(s, NextPosition(a, s), Key(prog[a][s][n]))}
            /\ Called(a, s, n, prog[a][s][n], NextPosition(a, s), "live")
      BY <2>0 DEF FireEffect, Pending
    <2> DEFINE p == [att |-> a, step |-> s, n |-> n, call |-> prog[a][s][n],
                     pos |-> NextPosition(a, s), how |-> "live",
                     late |-> ~InStep(a, s)]
    <2>2. calls' = calls \cup {p}
      BY <2>1 DEF Called
    <2>3. EntryAt(s, NextPosition(a, s)) = {}
      BY <2>1
    <2>4. \A q : q = NextPosition(a, s) => EntryAt(s, q)' # {}
      <3> SUFFICES ASSUME NEW q, q = NextPosition(a, s)
                   PROVE  EntryAt(s, q)' # {}
        OBVIOUS
      <3>1. Pending(s, q, Key(prog[a][s][n])) \in ledger'
        BY <2>1
      <3>2. \A k : Pending(s, q, k).step = s /\ Pending(s, q, k).pos = q
        BY DEF Pending
      <3> QED BY <3>1, <3>2 DEF EntryAt
    <2>5. p.step = s /\ p.pos = NextPosition(a, s)
      OBVIOUS
    <2> QED BY <2>2, <2>3, <2>4, <2>5
  <1>3. CASE \E a \in Attempts : CallUnledgered(a)
    <2>1. PICK a \in Attempts : \E s \in Steps : \E n \in 1..Len(prog[a][s]) :
            Called(a, s, n, prog[a][s][n], 0, "live")
      BY <1>3 DEF CallUnledgered
    <2> QED BY <2>1 DEF Called
  <1>4. ASSUME NEW a \in Attempts, NEW s \in Steps, NEW n \in Nat, NEW c,
               NEW q, NEW h \in {"replay", "refused", "denied"},
               Called(a, s, n, c, q, h)
        PROVE  \E p : calls' = calls \cup {p} /\ p.how # "live"
    <2> DEFINE p == [att |-> a, step |-> s, n |-> n, call |-> c, pos |-> q,
                     how |-> h, late |-> ~InStep(a, s)]
    <2>1. calls' = calls \cup {p}
      BY <1>4 DEF Called
    <2>2. p.how # "live"
      OBVIOUS
    <2> QED BY <2>1, <2>2
  <1>5. CASE \E a \in Attempts : \/ DenyCall(a) \/ PendingWriteFails(a)
                                 \/ ReplayEffect(a) \/ RefuseEffect(a)
    <2>1. PICK a \in Attempts, s \in Steps :
            \E n \in 1..Len(prog[a][s]), h \in {"replay", "refused", "denied"} :
              \/ Called(a, s, n, prog[a][s][n], 0, h)
              \/ Called(a, s, n, prog[a][s][n], NextPosition(a, s), h)
      BY <1>5 DEF DenyCall, PendingWriteFails, ReplayEffect, RefuseEffect
    <2>2. \A n \in 1..Len(prog[a][s]) : n \in Nat
      BY ProgramCall
    <2> QED BY <1>4, <2>1, <2>2
  <1>10. CASE \E a \in Attempts : RefuseUndeclared(a)
    BY <1>10 DEF RefuseUndeclared
  <1>6. CASE \E a \in Attempts : CrashBeforeFire(a)
    BY <1>6 DEF CrashBeforeFire, Crashing
  <1>7. CASE \E f \in flying : Finish(f)
    BY <1>7 DEF Finish
  <1>8. CASE Crash
    BY <1>8 DEF Crash, Crashing
  <1>9. CASE UNCHANGED vars
    BY <1>9 DEF vars
  <1> QED BY <1>1, <1>2, <1>3, <1>5, <1>6, <1>7, <1>8, <1>9, <1>10
          DEF Next, Step, Invoke

(* No effect position is fired twice. *)
THEOREM AtMostOnce == Spec => []AtMostOnceEffect
  <1>1. Init => EffectInv
    BY InitType DEF Init, EffectInv, FiredIsRecorded, AtMostOnceEffect
  <1>2. EffectInv /\ [Next]_vars => EffectInv'
    <2> SUFFICES ASSUME EffectInv, [Next]_vars PROVE EffectInv'
      OBVIOUS
    <2>1. TypeOK /\ FiredIsRecorded /\ AtMostOnceEffect
      BY DEF EffectInv
    <2>2. TypeOK'
      BY <2>1, TypeStep
    <2>3. \A p \in calls : (p.how = "live" /\ p.pos # 0) =>
            EntryAt(p.step, p.pos) # {} /\ EntryAt(p.step, p.pos)' # {}
      <3> SUFFICES ASSUME NEW p \in calls, p.how = "live", p.pos # 0
                   PROVE  EntryAt(p.step, p.pos) # {}
                          /\ EntryAt(p.step, p.pos)' # {}
        OBVIOUS
      <3>1. p.step \in Steps /\ p.pos \in Nat
        BY <2>1 DEF TypeOK
      <3>2. EntryAt(p.step, p.pos) # {}
        BY <2>1 DEF FiredIsRecorded
      <3> QED BY <2>1, <3>1, <3>2, EntriesStay
    <2>4. FiredIsRecorded'
      BY <2>1, <2>3, CallsGrow DEF FiredIsRecorded
    <2>5. AtMostOnceEffect'
      BY <2>1, <2>3, CallsGrow DEF AtMostOnceEffect
    <2> QED BY <2>2, <2>4, <2>5 DEF EffectInv
  <1>3. EffectInv => AtMostOnceEffect
    BY DEF EffectInv
  <1> QED BY <1>1, <1>2, <1>3, PTL DEF Spec
-----------------------------------------------------------------------------
(* Replay.  A position has one entry; a handler in flight is the only one  *)
(* for its entry, which is pending; a result handed back is the recorded   *)
(* output of a confirmed entry for the same call.                          *)
OneEntryEach ==
  \A e, f \in ledger : (e.step = f.step /\ e.pos = f.pos) => e = f

FlightIsPending ==
  \A f \in flying : f.pos # 0 =>
    \E e \in ledger : /\ e.step = f.step /\ e.pos = f.pos
                      /\ e.status = "pending" /\ e.key = Key(f.call)

OneFlightEach ==
  \A f, g \in flying : (f.pos # 0 /\ f.step = g.step /\ f.pos = g.pos) => f = g

ResultIsRecorded ==
  \A r \in results :
    \E e \in ledger : /\ e.step = r.step /\ e.pos = r.pos
                      /\ e.status = "succeeded" /\ e.key = Key(r.call)
                      /\ e.out = r.out

ReplayInv ==
  TypeOK /\ OneEntryEach /\ FlightIsPending /\ OneFlightEach /\ ResultIsRecorded

(* What a step does to the ledger, the handlers in flight and the results. *)
Idles ==
  /\ ledger' = ledger /\ results' = results
  /\ \A f \in flying' : f \in flying \/ f.pos = 0
Fires(s, p, c) ==
  /\ EntryAt(s, p) = {}
  /\ ledger' = ledger \cup {Pending(s, p, Key(c))}
  /\ results' = results
  /\ \A f \in flying' : \/ f \in flying
                        \/ f.step = s /\ f.pos = p /\ f.call = c
  /\ \A f, g \in flying' : f \notin flying /\ g \notin flying => f = g
Replays(s, p, c, e) ==
  /\ e \in EntryAt(s, p) /\ e.status = "succeeded" /\ e.key = Key(c)
  /\ results' = results \cup
       {[step |-> s, pos |-> p, call |-> c, out |-> e.out]}
  /\ ledger' = ledger /\ flying' = flying

LEMMA EffectSteps ==
  ASSUME TypeOK, [Next]_vars
  PROVE  \/ Idles
         \/ \E s \in Steps, p \in Nat \ {0}, c \in Calls : Fires(s, p, c)
         \/ \E s \in Steps, p \in Nat \ {0}, c \in Calls, e \in ledger :
              Replays(s, p, c, e)
         \/ \E f \in flying : FinishEffect(f) /\ flying' = flying \ {f}
  <1>1. CASE \E a \in Attempts : RunLoop(a)
    BY <1>1 DEF Idles, RunLoop, Begin, RefuseDrift, RestoreStep, ExecuteStep,
                Complete,
                CommitStep, HaltOnOrphan, FailStep, Returning, durable
  <1>2. ASSUME NEW a \in Attempts, NEW s \in Steps, NEW n \in 1..Len(prog[a][s])
        PROVE  /\ prog[a][s][n] \in Calls
               /\ NextPosition(a, s) \in Nat \ {0}
    <2>1. prog[a][s][n] \in Calls
      BY ProgramCall
    <2>2. NextPosition(a, s) \in Nat \ {0}
      BY DEF TypeOK, NextPosition
    <2> QED BY <2>1, <2>2
  <1>3. ASSUME NEW a \in Attempts, FireEffect(a) \/ CrashBeforeFire(a)
        PROVE  \E s \in Steps, p \in Nat \ {0}, c \in Calls : Fires(s, p, c)
    <2>1. PICK s \in Steps, n \in Nat :
            /\ n \in 1..Len(prog[a][s])
            /\ EntryAt(s, NextPosition(a, s)) = {}
            /\ ledger' = ledger \cup
                 {Pending(s, NextPosition(a, s), Key(prog[a][s][n]))}
            /\ results' = results
            /\ \/ flying' = flying \cup
                    {[att |-> a, step |-> s, n |-> n, call |-> prog[a][s][n],
                      pos |-> NextPosition(a, s)]}
               \/ flying' = {}
      BY <1>3 DEF FireEffect, CrashBeforeFire, Crashing, Pending
    <2>2. Fires(s, NextPosition(a, s), prog[a][s][n])
      BY <2>1 DEF Fires
    <2> QED BY <1>2, <2>1, <2>2
  <1>4. ASSUME NEW a \in Attempts, ReplayEffect(a)
        PROVE  \E s \in Steps, p \in Nat \ {0}, c \in Calls, e \in ledger :
                 Replays(s, p, c, e)
    <2>1. PICK s \in Steps, n \in Nat :
            /\ n \in 1..Len(prog[a][s])
            /\ \E e \in EntryAt(s, NextPosition(a, s)) :
                 Replays(s, NextPosition(a, s), prog[a][s][n], e)
      BY <1>4 DEF ReplayEffect, Replays
    <2>2. PICK e \in EntryAt(s, NextPosition(a, s)) :
            Replays(s, NextPosition(a, s), prog[a][s][n], e)
      BY <2>1
    <2>3. e \in ledger
      BY <2>2 DEF EntryAt
    <2> QED BY <1>2, <2>1, <2>2, <2>3
  <1>5. CASE \E a \in Attempts : CallUnledgered(a)
    BY <1>5 DEF CallUnledgered, Idles
  <1>6. CASE \E a \in Attempts :
               \/ DenyCall(a) \/ PendingWriteFails(a) \/ RefuseEffect(a)
               \/ RefuseUndeclared(a)
    BY <1>6 DEF DenyCall, PendingWriteFails, RefuseEffect, RefuseUndeclared,
                durable, Idles
  <1>7. CASE \E f \in flying : Finish(f)
    BY <1>7 DEF Finish, FinishUnledgered, FailEffect, Idles
  <1>8. CASE Crash
    BY <1>8 DEF Crash, Crashing, Idles
  <1>9. CASE UNCHANGED vars
    BY <1>9 DEF vars, Idles
  <1> QED BY <1>1, <1>3, <1>4, <1>5, <1>6, <1>7, <1>8, <1>9 DEF Next, Step, Invoke

LEMMA FiresKeeps ==
  ASSUME ReplayInv, NEW s \in Steps, NEW p \in Nat \ {0}, NEW c \in Calls,
         Fires(s, p, c)
  PROVE  OneEntryEach' /\ FlightIsPending' /\ OneFlightEach' /\ ResultIsRecorded'
  <1>1. /\ Pending(s, p, Key(c)).step = s /\ Pending(s, p, Key(c)).pos = p
        /\ Pending(s, p, Key(c)).status = "pending"
        /\ Pending(s, p, Key(c)).key = Key(c)
    BY DEF Pending
  <1>2. \A e \in ledger : ~(e.step = s /\ e.pos = p)
    BY DEF Fires, EntryAt
  <1>3. ledger' = ledger \cup {Pending(s, p, Key(c))} /\ results' = results
    BY DEF Fires
  <1>4. OneEntryEach'
    BY <1>1, <1>2, <1>3 DEF ReplayInv, OneEntryEach
  <1>5. FlightIsPending'
    BY <1>1, <1>3 DEF ReplayInv, FlightIsPending, Fires
  <1>6. \A f \in flying : f.pos # 0 => ~(f.step = s /\ f.pos = p)
    BY <1>2 DEF ReplayInv, FlightIsPending
  <1>7. OneFlightEach'
    BY <1>6 DEF ReplayInv, OneFlightEach, Fires
  <1>8. ResultIsRecorded'
    BY <1>3 DEF ReplayInv, ResultIsRecorded
  <1> QED BY <1>4, <1>5, <1>7, <1>8

LEMMA FinishKeeps ==
  ASSUME ReplayInv, NEW f \in flying, FinishEffect(f), flying' = flying \ {f}
  PROVE  OneEntryEach' /\ FlightIsPending' /\ OneFlightEach' /\ ResultIsRecorded'
  <1> DEFINE g(e) == IF e.step = f.step /\ e.pos = f.pos
                       THEN [e EXCEPT !.status = "succeeded", !.out = f.att]
                       ELSE e
  <1>1. ledger' = {g(e) : e \in ledger}
    BY DEF FinishEffect
  <1>2. \A e \in ledger : /\ g(e).step = e.step /\ g(e).pos = e.pos
                          /\ g(e).key = e.key
                          /\ ~(e.step = f.step /\ e.pos = f.pos) => g(e) = e
                          /\ (e.step = f.step /\ e.pos = f.pos)
                             => /\ g(e).status = "succeeded"
                                /\ g(e).out = f.att
    <2> SUFFICES ASSUME NEW e \in ledger
                 PROVE  /\ g(e).step = e.step /\ g(e).pos = e.pos
                        /\ g(e).key = e.key
                        /\ ~(e.step = f.step /\ e.pos = f.pos) => g(e) = e
                        /\ (e.step = f.step /\ e.pos = f.pos)
                           => /\ g(e).status = "succeeded"
                              /\ g(e).out = f.att
      OBVIOUS
    <2>1. e \in [step : Steps, pos : Nat \ {0}, key : Keys,
                 status : {"pending", "succeeded"},
                 out : Attempts \cup {None}]
      BY DEF ReplayInv, TypeOK, Entries
    <2> QED BY <2>1
  <1> HIDE DEF g
  <1>3. f.pos # 0
    BY DEF FinishEffect
  <1>4. PICK e0 \in ledger : /\ e0.step = f.step /\ e0.pos = f.pos
                             /\ e0.status = "pending" /\ e0.key = Key(f.call)
    BY <1>3 DEF ReplayInv, FlightIsPending
  <1>5. OneEntryEach'
    BY <1>1, <1>2 DEF ReplayInv, OneEntryEach
  <1>6. OneFlightEach'
    BY DEF ReplayInv, OneFlightEach
  <1>7. FlightIsPending'
    <2> SUFFICES ASSUME NEW h \in flying', h.pos # 0
                 PROVE  \E e \in ledger' :
                          /\ e.step = h.step /\ e.pos = h.pos
                          /\ e.status = "pending" /\ e.key = Key(h.call)
      BY DEF FlightIsPending
    <2>1. h \in flying /\ h # f
      OBVIOUS
    <2>2. ~(h.step = f.step /\ h.pos = f.pos)
      BY <2>1 DEF ReplayInv, OneFlightEach
    <2>3. PICK e \in ledger : /\ e.step = h.step /\ e.pos = h.pos
                              /\ e.status = "pending" /\ e.key = Key(h.call)
      BY <2>1 DEF ReplayInv, FlightIsPending
    <2>4. g(e) = e /\ g(e) \in ledger'
      BY <1>1, <1>2, <2>2, <2>3
    <2> QED BY <2>3, <2>4
  <1>8. ResultIsRecorded'
    <2> SUFFICES ASSUME NEW r \in results'
                 PROVE  \E e \in ledger' :
                          /\ e.step = r.step /\ e.pos = r.pos
                          /\ e.status = "succeeded" /\ e.key = Key(r.call)
                          /\ e.out = r.out
      BY DEF ResultIsRecorded
    <2>1. CASE r \in results
      <3>1. PICK e \in ledger : /\ e.step = r.step /\ e.pos = r.pos
                                /\ e.status = "succeeded"
                                /\ e.key = Key(r.call) /\ e.out = r.out
        BY <2>1 DEF ReplayInv, ResultIsRecorded
      <3>2. ~(e.step = f.step /\ e.pos = f.pos)
        BY <1>4, <3>1 DEF ReplayInv, OneEntryEach
      <3>3. g(e) = e /\ g(e) \in ledger'
        BY <1>1, <1>2, <3>1, <3>2
      <3> QED BY <3>1, <3>3
    <2>2. CASE r \notin results
      <3>1. r = [step |-> f.step, pos |-> f.pos, call |-> f.call,
                 out |-> f.att]
        BY <2>2 DEF FinishEffect
      <3>2. /\ r.step = f.step /\ r.pos = f.pos /\ r.call = f.call
            /\ r.out = f.att
        BY <3>1
      <3>3. g(e0) \in ledger'
        BY <1>1
      <3> QED BY <1>2, <1>4, <3>2, <3>3
    <2> QED BY <2>1, <2>2
  <1> QED BY <1>5, <1>6, <1>7, <1>8

LEMMA ReplayInvariant == Spec => []ReplayInv
  <1>1. Init => ReplayInv
    BY InitType DEF Init, ReplayInv, OneEntryEach, FlightIsPending,
                    OneFlightEach, ResultIsRecorded
  <1>2. ReplayInv /\ [Next]_vars => ReplayInv'
    <2> SUFFICES ASSUME ReplayInv, [Next]_vars PROVE ReplayInv'
      OBVIOUS
    <2>1. TypeOK /\ TypeOK'
      BY TypeStep DEF ReplayInv
    <2>2. CASE Idles
      BY <2>1, <2>2 DEF Idles, ReplayInv, OneEntryEach, FlightIsPending,
                        OneFlightEach, ResultIsRecorded
    <2>3. ASSUME NEW s \in Steps, NEW p \in Nat \ {0}, NEW c \in Calls,
                 NEW e \in ledger, Replays(s, p, c, e)
          PROVE  ReplayInv'
      <3>1. /\ OneEntryEach' /\ FlightIsPending' /\ OneFlightEach'
        BY <2>3 DEF Replays, ReplayInv, OneEntryEach, FlightIsPending,
                    OneFlightEach
      <3>2. e.step = s /\ e.pos = p
        BY <2>3 DEF Replays, EntryAt
      <3>3. ResultIsRecorded'
        BY <2>3, <3>2 DEF Replays, ReplayInv, ResultIsRecorded
      <3> QED BY <2>1, <3>1, <3>3 DEF ReplayInv
    <2>4. CASE \E s \in Steps, p \in Nat \ {0}, c \in Calls : Fires(s, p, c)
      BY <2>1, <2>4, FiresKeeps DEF ReplayInv
    <2>5. CASE \E f \in flying : FinishEffect(f) /\ flying' = flying \ {f}
      BY <2>1, <2>5, FinishKeeps DEF ReplayInv
    <2> QED BY <2>1, <2>2, <2>3, <2>4, <2>5, EffectSteps
  <1> QED BY <1>1, <1>2, PTL DEF Spec

(* Whatever attempts ask for an effect position, those that get a result   *)
(* get the recorded output of the call that fired there.                   *)
THEOREM ReplaysAgree == Spec => []ReplayAgreement
  <1>1. ReplayInv => ReplayAgreement
    <2> SUFFICES ASSUME ReplayInv, NEW r \in results, NEW q \in results,
                        r.step = q.step, r.pos = q.pos
                 PROVE  /\ r.call.tool = q.call.tool
                        /\ r.call.args = q.call.args /\ r.out = q.out
      BY DEF ReplayAgreement
    <2>1. Key(r.call) = Key(q.call) /\ r.out = q.out
      BY DEF ReplayInv, ResultIsRecorded, OneEntryEach
    <2> QED BY <2>1 DEF Key
  <1> QED BY <1>1, ReplayInvariant, PTL
-----------------------------------------------------------------------------
(* Taint.  Without overlap one attempt at a time walks the line: the steps *)
(* behind it are checkpointed and, once it has executed one, those ahead   *)
(* are not.  A scope that is trusted has no untrusted source behind it,    *)
(* other than those invoked when their step was over; that stays so after  *)
(* the step and the attempt have ended.                                    *)
Live(a) == phase[a] \in {"entering", "running"}

Untrusts(q) == q.call.tool \in UntrustedSource \cap Registered

Behind(s, l) == \A t \in Steps : t < s => checkpoint[t] = l

Walks(a) ==
  /\ step[a] # 0
  /\ \A s \in Steps : s < step[a] => checkpoint[s] # None
  /\ phase[a] = "running" => checkpoint[step[a]] = None
  /\ \A s \in Steps : scope[a][s] # None =>
       /\ s < step[a] \/ (s = step[a] /\ phase[a] = "running")
       /\ \A t \in Steps : t >= step[a] => checkpoint[t] = None
  /\ phase[a] = "entering" /\ upstream[a] = "trusted" =>
       /\ InitialTrust = "trusted" /\ Behind(step[a], "trusted")
       /\ \A q \in calls : q.att = a /\ Untrusts(q) => q.late

CheckpointsInLine == \A s \in Steps :
  /\ checkpoint[s] # None => \A t \in Steps : t < s => checkpoint[t] # None
  /\ checkpoint[s] = "trusted" => InitialTrust = "trusted" /\ Behind(s, "trusted")

\* A step has calls to make, and has made some, only if it was executed.
Started ==
  /\ \A a \in Attempts, s \in Steps : prog[a][s] # <<>> => scope[a][s] # None
  /\ \A q \in calls : scope[q.att][q.step] # None /\ q.n < next[q.att][q.step]

Clean(a, s) == scope[a][s] = "trusted" =>
  /\ InitialTrust = "trusted" /\ Behind(s, "trusted")
  /\ \A q \in calls : q.att = a /\ Untrusts(q) => q.step # s /\ (q.step < s => q.late)

LineInv ==
  /\ \A a, b \in Attempts : Live(a) /\ Live(b) => a = b
  /\ CheckpointsInLine
  /\ \A a \in Attempts : phase[a] = "idle" =>
       upstream[a] = InitialTrust /\ \A s \in Steps : scope[a][s] = None
  /\ \A a \in Attempts : Live(a) => Walks(a)
  /\ Started
  /\ \A a \in Attempts, s \in Steps : Clean(a, s)

Untainted(p) ==
  /\ InitialTrust = "trusted"
  /\ \A s \in Steps : s < p.step => checkpoint[s] = "trusted"
  /\ ~\E q \in calls : /\ q.call.tool \in UntrustedSource \cap Registered
                       /\ InvokedBefore(q, p)

ExfilClean == \A p \in calls :
  p.call.tool \in Exfil /\ p.how # "denied" => Untainted(p)

TaintInv == TypeOK /\ (~use.overlaps => LineInv /\ ExfilClean)

\* Steps that only end attempts, or pass over a call that reached no proxy.
Settles ==
  /\ UNCHANGED <<checkpoint, upstream, scope, counts, runTotal, runTools, calls, step>>
  /\ \A a \in Attempts, s \in Steps :
       /\ next'[a][s] \in Nat /\ next[a][s] <= next'[a][s]
       /\ prog'[a][s] = prog[a][s] \/ prog'[a][s] = <<>>
  /\ \A a \in Attempts : phase'[a] = phase[a] \/ phase'[a] \in {"halted", "completed", "crashed"}

Invokes(a, s, n, c, pos, how) ==
  /\ Calling(a, s, n, c) /\ Called(a, s, n, c, pos, how)
  /\ how # "denied" <=> ClearsGates(a, s, c)

LEMMA GatesInOrder ==
  ASSUME NEW a, NEW s, NEW c, ClearsGates(a, s, c)
  PROVE  /\ ClearsBreaker(a, s, c) /\ ClearsOperation(a, s, c)
         /\ ClearsTaint(a, s, c)
  BY DEF ClearsGates, ClearsBreaker, ClearsOperation, ClearsToken

LEMMA TaintSteps ==
  ASSUME TypeOK, [Next]_vars
  PROVE  \/ Settles
         \/ \E a \in Attempts : Begin(a) \/ RestoreStep(a) \/ ExecuteStep(a) \/ CommitStep(a)
         \/ \E a \in Attempts, s \in Steps : \E n \in 1..Len(prog[a][s]) :
              \E pos \in Nat, how \in {"live", "replay", "refused", "denied"} :
                Invokes(a, s, n, prog[a][s][n], pos, how)
  <1>0. \A a \in Attempts, s \in Steps : next[a][s] \in Nat /\ next[a][s] <= next[a][s]
    <2>1. \A a \in Attempts, s \in Steps : next[a][s] \in Nat
      BY DEF TypeOK
    <2> QED BY <2>1
  <1>1. ASSUME NEW a \in Attempts, RunLoop(a)
        PROVE  Settles \/ Begin(a) \/ RestoreStep(a) \/ ExecuteStep(a) \/ CommitStep(a)
    <2>1. CASE RefuseDrift(a)
      BY <1>0, <2>1 DEF RefuseDrift, Settles, gates, stepVars, durable, TypeOK
    <2>2. CASE Complete(a)
      BY <1>0, <2>2 DEF Complete, Settles, gates, stepVars, durable, TypeOK
    <2>3. CASE HaltOnOrphan(a)
      BY <1>0, <2>3 DEF HaltOnOrphan, Returning, Settles, gates, stepVars, TypeOK
    <2>4. CASE FailStep(a)
      BY <1>0, <2>4 DEF FailStep, Settles, gates, stepVars, durable, TypeOK
    <2> QED BY <1>1, <2>1, <2>2, <2>3, <2>4 DEF RunLoop
  <1>2. ASSUME NEW a \in Attempts, Invoke(a)
        PROVE  \/ Settles
               \/ \E s \in Steps : \E n \in 1..Len(prog[a][s]) :
                    \E pos \in Nat, how \in {"live", "replay", "refused", "denied"} :
                      Invokes(a, s, n, prog[a][s][n], pos, how)
    <2>b. \A s \in Steps : NextPosition(a, s) \in Nat
      BY DEF TypeOK, NextPosition
    <2>1. CASE DenyCall(a)
      BY <2>1 DEF DenyCall, Invokes
    <2>2. CASE CallUnledgered(a)
      BY <2>2 DEF CallUnledgered, Invokes
    <2>3. CASE FireEffect(a)
      BY <2>3, <2>b DEF FireEffect, TakesPosition, Invokes
    <2>4. CASE PendingWriteFails(a)
      BY <2>4, <2>b DEF PendingWriteFails, TakesPosition, Invokes
    <2>5. CASE ReplayEffect(a)
      BY <2>5, <2>b DEF ReplayEffect, TakesPosition, Invokes
    <2>6. CASE RefuseEffect(a)
      BY <2>6, <2>b DEF RefuseEffect, TakesPosition, Invokes
    <2>7. CASE RefuseUndeclared(a)
      <3>1. PICK s \in Steps : \E n \in 1..Len(prog[a][s]) :
              /\ next' = [next EXCEPT ![a][s] = next[a][s] + 1]
              /\ UNCHANGED <<checkpoint, upstream, scope, counts, runTotal, runTools, calls,
                             step, phase, prog>>
        BY <2>7 DEF RefuseUndeclared, gates, durable
      <3>2. \A b \in Attempts, t \in Steps :
              next'[b][t] = next[b][t] \/ next'[b][t] = next[b][t] + 1
        BY <3>1 DEF TypeOK
      <3>3. \A b \in Attempts, t \in Steps :
              next'[b][t] \in Nat /\ next[b][t] <= next'[b][t]
        BY <1>0, <3>2
      <3> QED BY <3>1, <3>3 DEF Settles
    <2> QED BY <1>2, <2>1, <2>2, <2>3, <2>4, <2>5, <2>6, <2>7 DEF Invoke
  <1>3. ASSUME Crashing, scope' = scope PROVE Settles
    BY <1>0, <1>3 DEF Crashing, Settles, gates, stepVars, TypeOK, NoCalls
  <1>4. ASSUME NEW f \in flying, Finish(f) PROVE Settles
    BY <1>0, <1>4 DEF Finish, Settles, gates, stepVars
  <1>5. Crash \/ (\E a \in Attempts : CrashBeforeFire(a)) => Crashing /\ scope' = scope
    BY DEF Crash, CrashBeforeFire, Crashing, gates
  <1>6. CASE UNCHANGED vars
    BY <1>0, <1>6 DEF vars, Settles
  <1> QED BY <1>1, <1>2, <1>3, <1>4, <1>5, <1>6 DEF Next, Step

LEMMA WalkTypes ==
  ASSUME TypeOK, NEW a \in Attempts
  PROVE  /\ step[a] \in Nat /\ upstream[a] \in Labels
         /\ Steps \subseteq Nat \ {0}
         /\ \A s \in Steps : /\ ScopeOf(a, s) \in Labels /\ checkpoint[s] \in Labels \cup {None}
                             /\ next[a][s] \in Nat /\ scope[a][s] \in Labels \cup {None}
                             /\ ScopeOf(a, s) = "trusted" <=> scope[a][s] = "trusted"
         /\ phase[a] = "running" => step[a] \in Steps
         /\ \A q \in calls : q.step \in Steps /\ q.n \in Nat /\ q.att \in Attempts
         /\ None \notin Labels
  <1>1. \A s \in Steps : scope[a][s] \in Labels \cup {None} /\ next[a][s] \in Nat
    BY DEF TypeOK
  <1>2. \A s \in Steps : ScopeOf(a, s) \in Labels /\ (ScopeOf(a, s) = "trusted" <=> scope[a][s] = "trusted")
    BY <1>1 DEF ScopeOf, Labels, None
  <1>3. Steps \subseteq Nat \ {0}
    BY ConstantsAssumption DEF Steps
  <1> QED BY <1>1, <1>2, <1>3 DEF TypeOK, None, Labels

\* Labels that are given to steps are not taken back or replaced.
LEMMA LabelsStay ==
  ASSUME \A t \in Steps : checkpoint[t] # None => checkpoint'[t] = checkpoint[t],
         NEW s
  PROVE  Behind(s, "trusted") => Behind(s, "trusted")'
  BY DEF Behind, None

LEMMA SettlesKeeps ==
  ASSUME TypeOK, TypeOK', LineInv, ExfilClean, Settles
  PROVE  LineInv' /\ ExfilClean'
  <1>1. \A a \in Attempts : /\ Live(a)' => Live(a) /\ phase'[a] = phase[a]
                            /\ phase'[a] = "idle" => phase[a] = "idle"
    BY DEF Settles, Live
  <1>2. ASSUME NEW a \in Attempts, Live(a)' PROVE Walks(a)'
    <2>1. Walks(a) /\ Live(a) /\ phase'[a] = phase[a]
      BY <1>1, <1>2 DEF LineInv
    <2> QED BY <2>1 DEF Walks, Behind, Settles
  <1>3. CheckpointsInLine'
    BY DEF LineInv, CheckpointsInLine, Behind, Settles
  <1>4. Started'
    <2>1. ASSUME NEW q \in calls PROVE scope'[q.att][q.step] # None /\ q.n < next'[q.att][q.step]
      <3>1. q.att \in Attempts /\ q.step \in Steps /\ q.n \in Nat
        BY DEF TypeOK
      <3>2. /\ next[q.att][q.step] \in Nat /\ next'[q.att][q.step] \in Nat
            /\ next[q.att][q.step] <= next'[q.att][q.step]
        BY <3>1, WalkTypes DEF Settles
      <3>3. q.n < next[q.att][q.step] /\ scope[q.att][q.step] # None
        BY DEF LineInv, Started
      <3>4. q.n < next'[q.att][q.step]
        BY <3>1, <3>2, <3>3
      <3> QED BY <3>3, <3>4 DEF Settles
    <2> QED BY <2>1 DEF LineInv, Started, Settles
  <1>5. \A a \in Attempts, s \in Steps : Clean(a, s)'
    BY DEF LineInv, Clean, Behind, Settles
  <1>6. LineInv'
    BY <1>1, <1>2, <1>3, <1>4, <1>5 DEF LineInv, Settles
  <1>7. ExfilClean'
    BY DEF ExfilClean, Untainted, Settles
  <1> QED BY <1>6, <1>7

\* An attempt that has executed no step has made no call.
LEMMA NoneWithoutScope ==
  ASSUME LineInv, NEW a \in Attempts, \A s \in Steps : scope[a][s] = None, TypeOK
  PROVE  \A q \in calls : q.att # a
  <1>1. \A q \in calls : scope[q.att][q.step] # None /\ q.step \in Steps
    BY DEF LineInv, Started, TypeOK
  <1> QED BY <1>1

LEMMA BeginKeeps ==
  ASSUME TypeOK, TypeOK', ~use.overlaps, LineInv, ExfilClean, NEW a \in Attempts, Begin(a)
  PROVE  LineInv' /\ ExfilClean'
  <1>1. /\ UNCHANGED <<checkpoint, upstream, scope, calls, next, prog>>
        /\ phase[a] = "idle" /\ Active = {}
        /\ phase' = [phase EXCEPT ![a] = "entering"] /\ step' = [step EXCEPT ![a] = 1]
    BY DEF Begin, gates, stepVars
  <1>2. \A b \in Attempts : ~ Live(b)
    BY <1>1 DEF Active, Live
  <1>3. \A b \in Attempts : /\ Live(b)' => b = a
                            /\ phase'[b] = "idle" => phase[b] = "idle"
    BY <1>1, <1>2 DEF Live, TypeOK
  <1>4. phase'[a] = "entering" /\ step'[a] = 1
    BY <1>1 DEF TypeOK
  <1>5. \A s \in Steps : ~ (s < 1)
    BY WalkTypes
  <1>6. Walks(a)'
    <2>1. upstream[a] = InitialTrust /\ \A s \in Steps : scope[a][s] = None
      BY <1>1 DEF LineInv
    <2>2. \A q \in calls : q.att # a
      BY <2>1, NoneWithoutScope
    <2> QED BY <1>1, <1>4, <1>5, <2>1, <2>2 DEF Walks, Behind
  <1>7. LineInv'
    BY <1>1, <1>3, <1>6 DEF LineInv, CheckpointsInLine, Started, Clean, Behind
  <1>8. ExfilClean'
    BY <1>1 DEF ExfilClean, Untainted
  <1> QED BY <1>7, <1>8

\* When attempt a moves, the others are not live and stay so.
LEMMA OneWalks ==
  ASSUME TypeOK, LineInv, NEW a \in Attempts, Live(a),
         NEW p, phase' = phase \/ phase' = [phase EXCEPT ![a] = p], p \in {"entering", "running"},
         \A b \in Attempts : b # a => upstream'[b] = upstream[b],
         \A b \in Attempts, s \in Steps : b # a => scope'[b][s] = scope[b][s],
         Walks(a)', CheckpointsInLine', Started', \A b \in Attempts, s \in Steps : Clean(b, s)'
  PROVE  LineInv'
  <1>1. \A b \in Attempts : b # a => phase'[b] = phase[b] /\ ~ Live(b)
    BY DEF LineInv, TypeOK
  <1>2. \A b \in Attempts : Live(b)' => b = a
    BY <1>1 DEF Live
  <1>3. phase'[a] # "idle"
    BY DEF Live, TypeOK
  <1>4. \A b \in Attempts : phase'[b] = "idle" =>
          upstream'[b] = InitialTrust /\ \A s \in Steps : scope'[b][s] = None
    BY <1>1, <1>3 DEF LineInv
  <1> QED BY <1>2, <1>4 DEF LineInv

LEMMA RestoreKeeps ==
  ASSUME TypeOK, TypeOK', LineInv, ExfilClean, NEW a \in Attempts, RestoreStep(a)
  PROVE  LineInv' /\ ExfilClean'
  <1> DEFINE s == step[a]
  <1>1. /\ UNCHANGED <<checkpoint, scope, calls, next, prog, phase>>
        /\ phase[a] = "entering" /\ s \in Steps /\ checkpoint[s] # None
        /\ upstream' = [upstream EXCEPT ![a] = checkpoint[s]]
        /\ step' = [step EXCEPT ![a] = s + 1]
    BY DEF RestoreStep, gates, stepVars, durable
  <1>2. Live(a) /\ Walks(a)
    BY <1>1 DEF Live, LineInv
  <1>3. step'[a] = s + 1 /\ upstream'[a] = checkpoint[s]
    BY <1>1 DEF TypeOK
  <1>4. \A t \in Steps : t < s + 1 => t = s \/ t < s
    BY <1>1, WalkTypes
  <1>5. \A t \in Steps : scope[a][t] = None
    <2>1. s >= s
      BY <1>1, WalkTypes
    <2> QED BY <1>1, <1>2, <2>1 DEF Walks
  <1>a. \A q \in calls : q.att # a
    BY <1>5, NoneWithoutScope
  <1>6. Walks(a)'
    <2>1. \A t \in Steps : t < s + 1 => checkpoint[t] # None
      BY <1>1, <1>2, <1>4 DEF Walks
    <2>2. checkpoint[s] = "trusted" =>
            InitialTrust = "trusted" /\ \A t \in Steps : t < s + 1 => checkpoint[t] = "trusted"
      BY <1>1, <1>4 DEF LineInv, CheckpointsInLine, Behind
    <2>3. s + 1 # 0
      BY <1>1, WalkTypes
    <2> QED BY <1>1, <1>3, <1>5, <1>a, <2>1, <2>2, <2>3 DEF Walks, Behind
  <1>7. CheckpointsInLine' /\ Started' /\ \A b \in Attempts, t \in Steps : Clean(b, t)'
    BY <1>1 DEF LineInv, CheckpointsInLine, Started, Clean, Behind
  <1>8. LineInv'
    <2>1. \A b \in Attempts : b # a => upstream'[b] = upstream[b]
      BY <1>1 DEF TypeOK
    <2> QED BY <1>1, <1>2, <1>6, <1>7, <2>1, OneWalks
  <1>9. ExfilClean'
    BY <1>1 DEF ExfilClean, Untainted
  <1> QED BY <1>8, <1>9

LEMMA ExecuteKeeps ==
  ASSUME TypeOK, TypeOK', LineInv, ExfilClean, NEW a \in Attempts, ExecuteStep(a)
  PROVE  LineInv' /\ ExfilClean'
  <1> DEFINE s == step[a]
  <1>1. /\ UNCHANGED <<checkpoint, upstream, calls, step, next>>
        /\ phase[a] = "entering" /\ s \in Steps /\ checkpoint[s] = None
        /\ phase' = [phase EXCEPT ![a] = "running"]
        /\ \E p \in use.programs[version[a]][s] : prog' = [prog EXCEPT ![a][s] = p]
        /\ scope' = [scope EXCEPT ![a][s] =
              IF scope[a][s] = None THEN upstream[a] ELSE Join(scope[a][s], upstream[a])]
    BY DEF ExecuteStep, durable
  <1>2. Live(a) /\ Walks(a) /\ phase'[a] = "running"
    BY <1>1 DEF Live, LineInv, TypeOK
  <1>3. scope[a][s] = None
    BY <1>1, <1>2, WalkTypes DEF Walks
  <1>4. /\ scope'[a][s] = upstream[a] /\ scope'[a][s] # None
        /\ \A b \in Attempts, t \in Steps : b # a \/ t # s =>
             scope'[b][t] = scope[b][t] /\ prog'[b][t] = prog[b][t]
    <2>1. scope' = [scope EXCEPT ![a][s] = upstream[a]]
      BY <1>1, <1>3
    <2>2. upstream[a] # None
      BY WalkTypes
    <2>3. \A b \in Attempts, t \in Steps : b # a \/ t # s => prog'[b][t] = prog[b][t]
      BY <1>1 DEF TypeOK
    <2>4. \A b \in Attempts, t \in Steps : b # a \/ t # s => scope'[b][t] = scope[b][t]
      BY <1>1, <2>1 DEF TypeOK
    <2>5. scope'[a][s] = upstream[a]
      BY <1>1, <2>1 DEF TypeOK
    <2> QED BY <2>2, <2>3, <2>4, <2>5
  <1>5. \A t \in Steps : t >= s => checkpoint[t] = None
    <2> TAKE t \in Steps
    <2>1. t >= s => t = s \/ s < t
      <3>1. s \in Nat /\ t \in Nat
        BY <1>1, WalkTypes
      <3> HIDE DEF s
      <3> QED BY <3>1
    <2>2. CheckpointsInLine
      BY DEF LineInv
    <2>3. s < t => checkpoint[t] = None
      BY <1>1, <2>2 DEF CheckpointsInLine, Behind
    <2> QED BY <1>1, <2>1, <2>3
  <1>6. Walks(a)'
    BY <1>1, <1>2, <1>4, <1>5 DEF Walks
  <1>7. CheckpointsInLine'
    BY <1>1 DEF LineInv, CheckpointsInLine, Behind
  <1>8. Started'
    <2>1. ASSUME NEW b \in Attempts, NEW t \in Steps, prog'[b][t] # <<>> PROVE scope'[b][t] # None
      BY <1>4, <2>1 DEF LineInv, Started
    <2>2. ASSUME NEW q \in calls PROVE scope'[q.att][q.step] # None
      <3>1. q.att \in Attempts /\ q.step \in Steps /\ scope[q.att][q.step] # None
        BY DEF TypeOK, LineInv, Started
      <3> QED BY <1>4, <3>1
    <2> QED BY <1>1, <2>1, <2>2 DEF LineInv, Started
  <1>9. \A b \in Attempts, t \in Steps : Clean(b, t)'
    <2> TAKE b \in Attempts, t \in Steps
    <2>1. CASE b = a /\ t = s
      <3>1. ASSUME NEW q \in calls, q.att = a, Untrusts(q), upstream[a] = "trusted"
            PROVE  q.late /\ q.step # s
        <4>1. scope[a][q.step] # None
          BY <3>1 DEF LineInv, Started
        <4> QED BY <1>1, <1>2, <1>3, <3>1, <4>1 DEF Walks
      <3>2. upstream[a] = "trusted" => InitialTrust = "trusted" /\ Behind(s, "trusted")
        BY <1>1, <1>2 DEF Walks
      <3> QED BY <1>1, <1>4, <2>1, <3>1, <3>2 DEF Clean, Behind, Untrusts
    <2>2. CASE b # a \/ t # s
      BY <1>1, <1>4, <2>2 DEF LineInv, Clean, Behind, Untrusts
    <2> QED BY <2>1, <2>2
  <1>10. LineInv'
    <2>1. \A b \in Attempts, t \in Steps : b # a => scope'[b][t] = scope[b][t]
      BY <1>4
    <2> QED BY <1>1, <1>2, <1>6, <1>7, <1>8, <1>9, <2>1, OneWalks
  <1>11. ExfilClean'
    BY <1>1 DEF ExfilClean, Untainted
  <1> QED BY <1>10, <1>11

LEMMA CommitKeeps ==
  ASSUME TypeOK, TypeOK', LineInv, ExfilClean, NEW a \in Attempts, CommitStep(a)
  PROVE  LineInv' /\ ExfilClean'
  <1> DEFINE s == step[a]
  <1>1. /\ UNCHANGED <<calls, scope, next, prog>>
        /\ phase[a] = "running" /\ s \in Steps
        /\ checkpoint' = [checkpoint EXCEPT ![s] = ScopeOf(a, s)]
        /\ upstream' = [upstream EXCEPT ![a] = ScopeOf(a, s)]
        /\ step' = [step EXCEPT ![a] = s + 1]
        /\ phase' = [phase EXCEPT ![a] = "entering"]
    BY WalkTypes DEF CommitStep, Returning, gates, stepVars
  <1>2. Live(a) /\ Walks(a) /\ checkpoint[s] = None
    BY <1>1 DEF Live, LineInv, Walks
  <1>a. ScopeOf(a, s) \in Labels /\ ScopeOf(a, s) # None
    BY <1>1, WalkTypes
  <1>3. /\ step'[a] = s + 1 /\ upstream'[a] = ScopeOf(a, s) /\ phase'[a] = "entering"
        /\ checkpoint'[s] = ScopeOf(a, s) /\ checkpoint'[s] # None
        /\ \A t \in Steps : t # s => checkpoint'[t] = checkpoint[t]
        /\ ScopeOf(a, s) \in Labels
    BY <1>1, <1>a DEF TypeOK
  <1>4. \A t \in Steps : /\ t < s + 1 <=> t = s \/ t < s
                         /\ t < s => t # s
                         /\ t >= s + 1 => t >= s /\ t # s /\ s < t
                         /\ t < s \/ t = s \/ s < t
    <2>1. s \in Nat /\ Steps \subseteq Nat
      BY <1>1, WalkTypes
    <2> HIDE DEF s
    <2> QED BY <2>1
  <1>5. \A t \in Steps : s < t => checkpoint[t] = None
    <2>1. CheckpointsInLine
      BY DEF LineInv
    <2> QED BY <1>1, <1>2, <2>1 DEF CheckpointsInLine, Behind
  <1>6. ScopeOf(a, s) = "trusted" =>
          /\ InitialTrust = "trusted" /\ \A t \in Steps : t < s => checkpoint[t] = "trusted"
          /\ \A q \in calls : q.att = a /\ Untrusts(q) => q.step # s /\ (q.step < s => q.late)
    <2>1. ScopeOf(a, s) = "trusted" => scope[a][s] = "trusted"
      BY <1>1, WalkTypes
    <2>2. Clean(a, s)
      BY <1>1 DEF LineInv
    <2> QED BY <2>1, <2>2 DEF Clean, Behind
  <1>7. CheckpointsInLine'
    <2> SUFFICES ASSUME NEW u \in Steps
        PROVE  /\ checkpoint'[u] # None => \A t \in Steps : t < u => checkpoint'[t] # None
               /\ checkpoint'[u] = "trusted" => /\ InitialTrust = "trusted"
                                               /\ \A t \in Steps : t < u => checkpoint'[t] = "trusted"
      BY DEF CheckpointsInLine, Behind
    <2>1. CASE u = s
      BY <1>2, <1>3, <1>4, <1>6, <2>1 DEF Walks
    <2>2. CASE s < u
      <3>1. checkpoint'[u] = None
        BY <1>3, <1>4, <1>5, <2>2, WalkTypes
      <3> QED BY <3>1 DEF None
    <2>3. CASE u < s
      <3>1. \A t \in Steps : t < u => t # s
        BY <1>1, <2>3, WalkTypes
      <3> QED BY <1>3, <1>4, <2>3, <3>1 DEF LineInv, CheckpointsInLine, Behind
    <2> QED BY <1>4, <2>1, <2>2, <2>3
  <1>8. \A t \in Steps : checkpoint[t] # None => checkpoint'[t] = checkpoint[t]
    BY <1>2, <1>3
  <1>9. Walks(a)'
    <2>1. s + 1 # 0
      BY <1>1, WalkTypes
    <2>2. \A t \in Steps : t < s + 1 => checkpoint'[t] # None
      BY <1>2, <1>3, <1>4 DEF Walks
    <2>3. ScopeOf(a, s) = "trusted" => \A t \in Steps : t < s + 1 => checkpoint'[t] = "trusted"
      BY <1>3, <1>4, <1>6
    <2>4. \A t \in Steps : scope[a][t] # None => t < s + 1
      BY <1>2, <1>4 DEF Walks
    <2>5. \A t \in Steps : t >= s + 1 => checkpoint'[t] = None
      BY <1>3, <1>4, <1>5
    <2>6. ASSUME ScopeOf(a, s) = "trusted", NEW q \in calls, q.att = a, Untrusts(q) PROVE q.late
      <3>1. scope[a][q.step] # None /\ q.step \in Steps
        BY <2>6, WalkTypes DEF LineInv, Started
      <3>2. q.step < s + 1
        BY <2>4, <3>1
      <3> QED BY <1>4, <1>6, <2>6, <3>1, <3>2
    <2> QED BY <1>1, <1>3, <1>6, <2>1, <2>2, <2>3, <2>4, <2>5, <2>6 DEF Walks, Behind, Untrusts
  <1>10. Started' /\ \A b \in Attempts, t \in Steps : Clean(b, t)'
    <2>1. Started'
      BY <1>1 DEF LineInv, Started
    <2>2. ASSUME NEW b \in Attempts, NEW t \in Steps PROVE Clean(b, t)'
      BY <1>1, <1>8, LabelsStay DEF LineInv, Clean, Untrusts
    <2> QED BY <2>1, <2>2
  <1>11. LineInv'
    <2>1. \A b \in Attempts : b # a => upstream'[b] = upstream[b]
      BY <1>1 DEF TypeOK
    <2> QED BY <1>1, <1>2, <1>7, <1>9, <1>10, <2>1, OneWalks
  <1>12. ExfilClean'
    <2>1. \A t \in Steps : checkpoint[t] = "trusted" => checkpoint'[t] = "trusted"
      BY <1>8 DEF None
    <2> QED BY <1>1, <2>1 DEF ExfilClean, Untainted
  <1> QED BY <1>11, <1>12

\* A call, of a live attempt or of one that has ended.
LEMMA InvokesKeeps ==
  ASSUME TypeOK, TypeOK', LineInv, ExfilClean, NEW a \in Attempts, NEW s \in Steps,
         NEW n \in 1..Len(prog[a][s]), NEW c \in Calls, c = prog[a][s][n], NEW pos, NEW how,
         Invokes(a, s, n, c, pos, how)
  PROVE  LineInv' /\ ExfilClean'
  <1>0. PICK p : p = [att |-> a, step |-> s, n |-> n, call |-> c, pos |-> pos, how |-> how,
                      late |-> ~InStep(a, s)]
    OBVIOUS
  <1>1. /\ UNCHANGED <<checkpoint, upstream, step, phase, prog>>
        /\ n = next[a][s]
        /\ next' = [next EXCEPT ![a][s] = next[a][s] + 1]
        /\ calls' = calls \cup {p}
        /\ scope' = IF ClearsTaint(a, s, c) /\ c.tool \in UntrustedSource
                      THEN [scope EXCEPT ![a][s] = "untrusted"] ELSE scope
        /\ how # "denied" => ClearsTaint(a, s, c)
    BY <1>0, GatesInOrder DEF Invokes, Calling, Called, Wants, GateEffects
  <1>2. /\ p.att = a /\ p.step = s /\ p.n = n /\ p.call = c /\ p.how = how
        /\ p.late = ~InStep(a, s)
    BY <1>0
  <1>3. /\ n \in Nat /\ next'[a][s] = n + 1
        /\ \A b \in Attempts, t \in Steps : b # a \/ t # s => next'[b][t] = next[b][t]
    BY <1>1, WalkTypes DEF TypeOK
  <1>4. scope[a][s] # None
    <2>1. prog[a][s] # <<>>
      OBVIOUS
    <2> QED BY <2>1 DEF LineInv, Started
  <1>5. /\ \A b \in Attempts, t \in Steps : b # a \/ t # s => scope'[b][t] = scope[b][t]
        /\ scope'[a][s] = "trusted" =>
             scope[a][s] = "trusted" /\ ~(c.tool \in UntrustedSource \cap Registered)
        /\ \A b \in Attempts, t \in Steps : scope'[b][t] = None <=> scope[b][t] = None
    <2>1. scope'[a][s] = IF ClearsTaint(a, s, c) /\ c.tool \in UntrustedSource
                           THEN "untrusted" ELSE scope[a][s]
      BY <1>1 DEF TypeOK
    <2>2. \A b \in Attempts, t \in Steps : b # a \/ t # s => scope'[b][t] = scope[b][t]
      BY <1>1 DEF TypeOK
    <2>3. c.tool \in Registered /\ ~ClearsTaint(a, s, c) => ScopeOf(a, s) = "untrusted"
      BY DEF ClearsTaint, Resolves
    <2>4. ScopeOf(a, s) = "trusted" <=> scope[a][s] = "trusted"
      BY WalkTypes
    <2>5. ASSUME scope'[a][s] = "trusted"
          PROVE  scope[a][s] = "trusted" /\ ~(c.tool \in UntrustedSource \cap Registered)
      BY <2>1, <2>3, <2>4, <2>5
    <2>6. scope'[a][s] # None
      BY <1>4, <2>1 DEF None
    <2> QED BY <1>4, <2>2, <2>5, <2>6
  <1>6. InStep(a, s) => Live(a) /\ Walks(a) /\ step[a] = s
    BY DEF InStep, Live, LineInv
  \* Made in its step, the call is of the last step the attempt has executed.
  <1>7. InStep(a, s) => \A t \in Steps : scope[a][t] # None => ~(s < t)
    <2>1. \A t \in Steps : t < s \/ t = s => ~(s < t)
      BY WalkTypes
    <2> QED BY <1>6, <2>1 DEF Walks
  <1>8. Started'
    <2>1. ASSUME NEW q \in calls'
          PROVE  scope'[q.att][q.step] # None /\ q.n < next'[q.att][q.step]
      <3>1. CASE q = p
        BY <1>2, <1>3, <1>4, <1>5, <3>1
      <3>2. CASE q \in calls
        <4>1. /\ q.att \in Attempts /\ q.step \in Steps /\ q.n \in Nat
              /\ scope[q.att][q.step] # None /\ q.n < next[q.att][q.step]
          BY <3>2, WalkTypes DEF LineInv, Started
        <4>2. q.att = a /\ q.step = s => q.n < n + 1
          BY <1>1, <1>3, <4>1
        <4> QED BY <1>3, <1>5, <4>1, <4>2
      <3> QED BY <1>1, <3>1, <3>2
    <2>2. ASSUME NEW b \in Attempts, NEW t \in Steps, prog'[b][t] # <<>> PROVE scope'[b][t] # None
      BY <1>1, <1>5, <2>2 DEF LineInv, Started
    <2> QED BY <2>1, <2>2 DEF Started
  <1>9. ASSUME NEW b \in Attempts, NEW t \in Steps PROVE Clean(b, t)'
    <2> SUFFICES ASSUME scope'[b][t] = "trusted"
                 PROVE  /\ InitialTrust = "trusted" /\ Behind(t, "trusted")
                        /\ \A q \in calls' : q.att = b /\ Untrusts(q) =>
                             q.step # t /\ (q.step < t => q.late)
      BY <1>1 DEF Clean, Behind, Untrusts
    <2>1. scope[b][t] = "trusted"
      BY <1>5
    <2>2. Clean(b, t)
      BY DEF LineInv
    <2>3. ASSUME Untrusts(p), b = a PROVE s # t /\ (s < t => p.late)
      <3>1. s # t
        BY <1>2, <1>5, <2>3 DEF Untrusts
      <3>2. scope[a][t] # None
        BY <2>1, <2>3 DEF None
      <3> QED BY <1>2, <1>7, <3>1, <3>2
    <2> QED BY <1>1, <1>2, <2>1, <2>2, <2>3 DEF Clean
  <1>10. ASSUME Live(a) PROVE Walks(a)'
    <2>1. Walks(a)
      BY <1>10 DEF LineInv
    <2>2. phase[a] = "entering" => p.late
      BY <1>2 DEF InStep
    <2> QED BY <1>1, <1>2, <1>5, <2>1, <2>2 DEF Walks, Behind, Untrusts
  <1>11. ASSUME NEW b \in Attempts, b # a, Live(b) PROVE Walks(b)'
    <2>1. Walks(b)
      BY <1>11 DEF LineInv
    <2> QED BY <1>1, <1>2, <1>5, <1>11, <2>1 DEF Walks, Behind, Untrusts
  <1>12. LineInv'
    <2>1. CheckpointsInLine'
      BY <1>1 DEF LineInv, CheckpointsInLine, Behind
    <2>2. \A b \in Attempts : phase'[b] = "idle" =>
            upstream'[b] = InitialTrust /\ \A t \in Steps : scope'[b][t] = None
      BY <1>1, <1>5 DEF LineInv
    <2>3. \A b \in Attempts : Live(b)' <=> Live(b)
      BY <1>1 DEF Live
    <2> QED BY <1>8, <1>9, <1>10, <1>11, <2>1, <2>2, <2>3 DEF LineInv
  <1>13. ASSUME p.call.tool \in Exfil, p.how # "denied" PROVE Untainted(p)'
    <2>1. scope[a][s] = "trusted"
      <3>1. ScopeOf(a, s) # "untrusted"
        BY <1>1, <1>2, <1>13 DEF ClearsTaint
      <3> QED BY <3>1, WalkTypes DEF Labels
    <2>2. Clean(a, s)
      BY DEF LineInv
    <2>3. ~ InvokedBefore(p, p)
      BY <1>2, <1>3, WalkTypes DEF InvokedBefore
    <2>4. \A q \in calls : Untrusts(q) => ~ InvokedBefore(q, p)
      BY <1>2, <2>1, <2>2 DEF InvokedBefore, Clean
    <2>5. \A q \in calls' : Untrusts(q) => ~ InvokedBefore(q, p)
      BY <1>1, <2>3, <2>4
    <2>6. InitialTrust = "trusted" /\ \A t \in Steps : t < p.step => checkpoint'[t] = "trusted"
      BY <1>1, <1>2, <2>1, <2>2 DEF Clean, Behind
    <2> QED BY <2>5, <2>6 DEF Untainted, Untrusts
  <1>14. ASSUME NEW r \in calls, Untainted(r) PROVE Untainted(r)'
    <2>1. ~ InvokedBefore(p, r)
      <3>1. r.step \in Steps /\ r.n \in Nat /\ scope[r.att][r.step] # None
        BY WalkTypes DEF LineInv, Started
      <3>2. CASE r.att = a /\ r.step = s
        <4>1. r.n < n
          BY <1>1, <3>2 DEF LineInv, Started
        <4>2. ~(n < r.n)
          BY <1>3, <3>1, <4>1
        <4>3. ~(s < s)
          BY WalkTypes
        <4> QED BY <1>2, <3>2, <4>2, <4>3 DEF InvokedBefore
      <3>3. CASE r.att = a /\ r.step # s
        BY <1>2, <1>7, <3>1, <3>3 DEF InvokedBefore
      <3>4. CASE r.att # a
        BY <1>2, <3>4 DEF InvokedBefore
      <3> QED BY <3>2, <3>3, <3>4
    <2> QED BY <1>1, <1>14, <2>1 DEF Untainted
  <1>15. ExfilClean'
    <2> SUFFICES ASSUME NEW q \in calls', q.call.tool \in Exfil, q.how # "denied"
                 PROVE  Untainted(q)'
      BY DEF ExfilClean
    <2>1. CASE q = p
      BY <1>13, <2>1
    <2>2. CASE q \in calls
      BY <1>14, <2>2 DEF ExfilClean
    <2> QED BY <1>1, <2>1, <2>2
  <1> QED BY <1>12, <1>15

LEMMA TaintInvariant == Spec => []TaintInv
  <1>1. Init => TaintInv
    <2> SUFFICES ASSUME Init PROVE TaintInv
      OBVIOUS
    <2>1. TypeOK
      BY InitType
    <2>2. ExfilClean
      BY DEF Init, ExfilClean
    <2>3. CheckpointsInLine
      BY DEF Init, CheckpointsInLine, None
    <2>4. /\ \A a \in Attempts, s \in Steps : scope[a][s] = None /\ prog[a][s] = <<>>
          /\ calls = {}
      BY DEF Init, NoCalls
    <2>5. LineInv
      BY <2>3, <2>4 DEF Init, LineInv, Live, Started, Clean, None
    <2> QED BY <2>1, <2>2, <2>5 DEF TaintInv
  <1>2. TaintInv /\ [Next]_vars => TaintInv'
    <2> SUFFICES ASSUME TaintInv, [Next]_vars PROVE TaintInv'
      OBVIOUS
    <2>1. TypeOK /\ TypeOK' /\ use' = use
      BY TypeStep DEF TaintInv, Next, vars
    <2>2. SUFFICES ASSUME ~ use.overlaps PROVE LineInv' /\ ExfilClean'
      BY <2>1 DEF TaintInv
    <2>3. LineInv /\ ExfilClean
      BY <2>2 DEF TaintInv
    <2>4. CASE Settles
      BY <2>1, <2>3, <2>4, SettlesKeeps
    <2>5. ASSUME NEW a \in Attempts, NEW s \in Steps, NEW n \in 1..Len(prog[a][s]),
                 NEW pos, NEW how, Invokes(a, s, n, prog[a][s][n], pos, how)
          PROVE  LineInv' /\ ExfilClean'
      BY <2>1, <2>3, <2>5, ProgramCall, InvokesKeeps
    <2> QED BY <2>1, <2>2, <2>3, <2>4, <2>5, TaintSteps,
               BeginKeeps, RestoreKeeps, ExecuteKeeps, CommitKeeps
  <1> QED BY <1>1, <1>2, PTL DEF Spec

(* Without overlapping attempts no exfil-capable tool is reached after an  *)
(* untrusted source that was invoked before its step ended, awaited or     *)
(* not, for any pipelines, agents, gates, crashes and failures.            *)
THEOREM NothingLeaks == Spec => []NoExfil
  <1>1. TaintInv => NoExfil
    BY DEF TaintInv, NoExfil, ExfilClean, Untainted
  <1> QED BY <1>1, TaintInvariant, PTL
-----------------------------------------------------------------------------
(* The breaker and the caps count every call that passed the gates, and a  *)
(* call that is made now is none of those made before.                     *)
Mine(a) == {p \in calls : p.att = a /\ p.how # "denied"}
OfTool(a, s, t) == {p \in Mine(a) : p.step = s /\ p.call.tool = t}

Counted(a) ==
  /\ IsFiniteSet(Mine(a))
  /\ runTotal[a] = Cardinality(Mine(a)) /\ runTotal[a] <= MaxToolCalls
  /\ runTools[a] = {p.call.tool : p \in Mine(a)} /\ IsFiniteSet(runTools[a])
  /\ Cardinality(runTools[a]) <= MaxDistinctTools
  /\ \A s \in Steps, t \in Tools :
       /\ Cardinality(OfTool(a, s, t)) <= counts[a][<<s, t>>]
       /\ Cardinality(OfTool(a, s, t)) <= MaxCallsPerTool

\* The attempt has begun to execute the step.
HasBegun(a, s) ==
  phase[a] # "idle" /\ s <= step[a] /\ (phase[a] = "entering" => s < step[a])

CallsInPast ==
  /\ \A q \in calls : q.n < next[q.att][q.step] /\ HasBegun(q.att, q.step)
  /\ \A a \in Attempts, s \in Steps : prog[a][s] # <<>> => HasBegun(a, s)

CapsInv == TypeOK /\ CallsInPast /\ \A a \in Attempts : Counted(a)

LEMMA CallIsNew ==
  ASSUME TypeOK, CallsInPast, NEW a \in Attempts, NEW s \in Steps,
         NEW n \in 1..Len(prog[a][s]), NEW c \in Calls, NEW pos, NEW how,
         Invokes(a, s, n, c, pos, how)
  PROVE  [att |-> a, step |-> s, n |-> n, call |-> c, pos |-> pos, how |-> how,
          late |-> ~InStep(a, s)] \notin calls
  <1> DEFINE p == [att |-> a, step |-> s, n |-> n, call |-> c, pos |-> pos, how |-> how,
                   late |-> ~InStep(a, s)]
  <1>1. p.att = a /\ p.step = s /\ p.n = next[a][s]
    BY DEF Invokes, Calling, Wants
  <1>2. next[a][s] \in Nat
    BY WalkTypes
  <1>3. ~(next[a][s] < next[a][s])
    BY <1>2
  <1> HIDE DEF p
  <1>4. p \notin calls
    BY <1>1, <1>3 DEF CallsInPast
  <1> QED BY <1>4 DEF p

LEMMA InvokesCounts ==
  ASSUME CapsInv, TypeOK', NEW a \in Attempts, NEW s \in Steps,
         NEW n \in 1..Len(prog[a][s]), NEW c \in Calls, NEW pos, NEW how,
         Invokes(a, s, n, c, pos, how)
  PROVE  \A b \in Attempts : Counted(b)'
  <1>0. PICK p : p = [att |-> a, step |-> s, n |-> n, call |-> c, pos |-> pos, how |-> how,
                      late |-> ~InStep(a, s)]
    OBVIOUS
  <1>1. p \notin calls
    BY <1>0, CallIsNew DEF CapsInv
  <1>2. /\ calls' = calls \cup {p}
        /\ p.att = a /\ p.step = s /\ p.call = c /\ p.how = how
    BY <1>0 DEF Invokes, Called
  <1>t. /\ c.tool \in Tools /\ runTotal[a] \in Nat
        /\ counts[a] \in [Steps \X Tools -> Nat]
        /\ \A b \in Attempts : runTotal[b] \in Nat /\ counts[b] \in [Steps \X Tools -> Nat]
        /\ MaxCallsPerTool \in Nat /\ MaxToolCalls \in Nat /\ MaxDistinctTools \in Nat
    BY ConstantsAssumption DEF CapsInv, TypeOK, Calls
  <1>c. \A b \in Attempts, t \in Steps, u \in Tools :
          counts[b][<<t, u>>] \in Nat /\ counts'[b][<<t, u>>] \in Nat
    <2>1. /\ counts \in [Attempts -> [Steps \X Tools -> Nat]]
          /\ counts' \in [Attempts -> [Steps \X Tools -> Nat]]
      BY DEF CapsInv, TypeOK
    <2>2. \A t \in Steps, u \in Tools : <<t, u>> \in Steps \X Tools
      OBVIOUS
    <2> QED BY <2>1, <2>2
  <1>3. /\ \A b \in Attempts : b # a =>
             runTotal'[b] = runTotal[b] /\ runTools'[b] = runTools[b] /\ counts'[b] = counts[b]
        /\ how = "denied" => runTotal'[a] = runTotal[a] /\ runTools'[a] = runTools[a]
        /\ how # "denied" =>
             /\ runTotal'[a] = runTotal[a] + 1 /\ runTools'[a] = runTools[a] \cup {c.tool}
    <2>1. /\ how = "denied" => runTotal' = runTotal /\ runTools' = runTools
          /\ how # "denied" =>
               /\ runTotal' = [runTotal EXCEPT ![a] = runTotal[a] + 1]
               /\ runTools' = [runTools EXCEPT ![a] = runTools[a] \cup {c.tool}]
      BY DEF Invokes, Calling, GateEffects
    <2>2. \/ counts' = counts
          \/ \E e : counts' = [counts EXCEPT ![a] = e]
      BY DEF Invokes, Calling, GateEffects
    <2>3. /\ runTotal \in [Attempts -> Nat] /\ runTools \in [Attempts -> SUBSET Tools]
          /\ counts \in [Attempts -> [Steps \X Tools -> Nat]]
      BY DEF CapsInv, TypeOK
    <2>4. /\ \A b \in Attempts : b # a =>
               runTotal'[b] = runTotal[b] /\ runTools'[b] = runTools[b]
          /\ how = "denied" => runTotal'[a] = runTotal[a] /\ runTools'[a] = runTools[a]
          /\ how # "denied" =>
               /\ runTotal'[a] = runTotal[a] + 1 /\ runTools'[a] = runTools[a] \cup {c.tool}
      BY <2>1, <2>3
    <2>5. \A b \in Attempts : b # a => counts'[b] = counts[b]
      BY <2>2, <2>3
    <2> QED BY <2>4, <2>5
  <1>4. /\ \A t \in Steps, u \in Tools : counts[a][<<t, u>>] <= counts'[a][<<t, u>>]
        /\ how # "denied" => counts'[a][<<s, c.tool>>] = counts[a][<<s, c.tool>>] + 1
    <2>1. \/ counts' = counts
          \/ counts' = [counts EXCEPT ![a] =
               [counts[a] EXCEPT ![<<s, c.tool>>] = counts[a][<<s, c.tool>>] + 1]]
      BY DEF Invokes, Calling, GateEffects
    <2>2. how # "denied" => counts' = [counts EXCEPT ![a] =
               [counts[a] EXCEPT ![<<s, c.tool>>] = counts[a][<<s, c.tool>>] + 1]]
      BY GatesInOrder DEF Invokes, Calling, GateEffects
    <2>3. counts \in [Attempts -> [Steps \X Tools -> Nat]] /\ <<s, c.tool>> \in Steps \X Tools
      BY <1>t DEF CapsInv, TypeOK
    <2> DEFINE k == <<s, c.tool>>
               more == [counts[a] EXCEPT ![k] = counts[a][k] + 1]
    <2>4. counts[a] \in [Steps \X Tools -> Nat] /\ counts[a][k] \in Nat /\ k \in Steps \X Tools
      BY <2>3
    <2>5. /\ more[k] = counts[a][k] + 1
          /\ \A l \in Steps \X Tools : counts[a][l] \in Nat /\ counts[a][l] <= more[l]
      BY <2>4
    <2>6. \/ counts'[a] = counts[a] /\ how = "denied"
          \/ counts'[a] = more
      BY <2>1, <2>2, <2>3
    <2>7. \A t \in Steps, u \in Tools : <<t, u>> \in Steps \X Tools
      OBVIOUS
    <2> HIDE DEF k, more
    <2>8. /\ \A l \in Steps \X Tools : counts[a][l] <= counts'[a][l]
          /\ how # "denied" => counts'[a][k] = counts[a][k] + 1
      BY <2>5, <2>6
    <2> QED BY <2>7, <2>8 DEF k
  <1>5. ASSUME NEW b \in Attempts, b # a \/ how = "denied" PROVE Counted(b)'
    <2>1. Mine(b)' = Mine(b)
      BY <1>2, <1>5 DEF Mine
    <2>2. \A t \in Steps, u \in Tools : OfTool(b, t, u)' = OfTool(b, t, u)
      BY <2>1 DEF OfTool
    <2>3. runTotal'[b] = runTotal[b] /\ runTools'[b] = runTools[b]
      BY <1>3, <1>5
    <2>4. Counted(b)
      BY DEF CapsInv
    <2>5. \A t \in Steps, u \in Tools :
            /\ Cardinality(OfTool(b, t, u)) \in Nat
            /\ counts[b][<<t, u>>] \in Nat /\ counts'[b][<<t, u>>] \in Nat
            /\ counts[b][<<t, u>>] <= counts'[b][<<t, u>>]
      <3> TAKE t \in Steps, u \in Tools
      <3>1. OfTool(b, t, u) \in SUBSET Mine(b)
        BY DEF OfTool
      <3>2. Cardinality(OfTool(b, t, u)) \in Nat
        BY <2>4, <3>1, FS_Subset, FS_CardinalityType DEF Counted
      <3>3. counts[b][<<t, u>>] \in Nat /\ counts'[b][<<t, u>>] \in Nat
        BY <1>c
      <3>4. counts[b][<<t, u>>] <= counts'[b][<<t, u>>]
        BY <1>3, <1>4, <3>3
      <3> QED BY <3>2, <3>3, <3>4
    <2>6. \A t \in Steps, u \in Tools :
            /\ Cardinality(OfTool(b, t, u)') <= counts'[b][<<t, u>>]
            /\ Cardinality(OfTool(b, t, u)') <= MaxCallsPerTool
      <3> TAKE t \in Steps, u \in Tools
      <3>1. Cardinality(OfTool(b, t, u)) <= counts[b][<<t, u>>]
        BY <2>4 DEF Counted
      <3>2. Cardinality(OfTool(b, t, u)) <= MaxCallsPerTool
        BY <2>4 DEF Counted
      <3>3. Cardinality(OfTool(b, t, u)) <= counts'[b][<<t, u>>]
        BY <2>5, <3>1
      <3> QED BY <2>2, <3>2, <3>3
    <2> QED BY <2>1, <2>3, <2>4, <2>6 DEF Counted
  <1>6. ASSUME how # "denied" PROVE Counted(a)'
    <2>1. Counted(a) /\ p \notin Mine(a)
      BY <1>1 DEF CapsInv, Mine
    <2>2. Mine(a)' = Mine(a) \cup {p}
      BY <1>2, <1>6 DEF Mine
    <2>3. IsFiniteSet(Mine(a)') /\ Cardinality(Mine(a)') = Cardinality(Mine(a)) + 1
      BY <2>1, <2>2, FS_AddElement DEF Counted
    <2>4. ClearsGates(a, s, c) /\ counts[a][<<s, c.tool>>] + 1 <= MaxCallsPerTool
      BY <1>6, GatesInOrder DEF Invokes, ClearsBreaker
    <2>5. runTotal'[a] = Cardinality(Mine(a)') /\ runTotal'[a] <= MaxToolCalls
      BY <1>3, <1>6, <2>1, <2>3, <2>4 DEF Counted, ClearsGates
    <2>6. runTools'[a] = {q.call.tool : q \in Mine(a)'}
      BY <1>2, <1>3, <1>6, <2>1, <2>2 DEF Counted
    <2>7. IsFiniteSet(runTools'[a]) /\ Cardinality(runTools'[a]) <= MaxDistinctTools
      <3>1. /\ IsFiniteSet(runTools[a]) /\ Cardinality(runTools[a]) \in Nat
            /\ runTools'[a] = runTools[a] \cup {c.tool}
        BY <1>3, <1>6, <2>1, FS_CardinalityType DEF Counted
      <3>2. CASE c.tool \in runTools[a]
        <4>1. runTools'[a] = runTools[a]
          BY <3>1, <3>2
        <4> QED BY <2>1, <4>1 DEF Counted
      <3>3. CASE c.tool \notin runTools[a]
        <4>1. /\ IsFiniteSet(runTools'[a])
              /\ Cardinality(runTools'[a]) = Cardinality(runTools[a]) + 1
          <5>1. /\ IsFiniteSet(runTools[a] \cup {c.tool})
                /\ Cardinality(runTools[a] \cup {c.tool}) = Cardinality(runTools[a]) + 1
            BY <3>1, <3>3, FS_AddElement
          <5> QED BY <3>1, <5>1
        <4> QED BY <2>4, <3>3, <4>1 DEF ClearsGates
      <3> QED BY <3>2, <3>3
    <2>8. ASSUME NEW t \in Steps, NEW u \in Tools
          PROVE  /\ Cardinality(OfTool(a, t, u)') <= counts'[a][<<t, u>>]
                 /\ Cardinality(OfTool(a, t, u)') <= MaxCallsPerTool
      <3>1. OfTool(a, t, u) \in SUBSET Mine(a)
        BY DEF OfTool
      <3>2. IsFiniteSet(OfTool(a, t, u)) /\ Cardinality(OfTool(a, t, u)) \in Nat
        BY <2>1, <3>1, FS_Subset, FS_CardinalityType DEF Counted
      <3>3. counts[a][<<t, u>>] \in Nat /\ counts'[a][<<t, u>>] \in Nat
        BY <1>c
      <3>4. /\ Cardinality(OfTool(a, t, u)) <= counts[a][<<t, u>>]
            /\ Cardinality(OfTool(a, t, u)) <= MaxCallsPerTool
        BY <2>1 DEF Counted
      <3>5. CASE t = s /\ u = c.tool
        <4>1. OfTool(a, t, u)' = OfTool(a, t, u) \cup {p}
          BY <1>2, <2>2, <3>5 DEF OfTool
        <4>2. p \notin OfTool(a, t, u)
          BY <2>1, <3>1
        <4>3. Cardinality(OfTool(a, t, u)') = Cardinality(OfTool(a, t, u)) + 1
          BY <3>2, <4>1, <4>2, FS_AddElement
        <4>4. counts'[a][<<t, u>>] = counts[a][<<t, u>>] + 1
          BY <1>4, <1>6, <3>5
        <4>5. counts[a][<<t, u>>] + 1 <= MaxCallsPerTool
          BY <2>4, <3>5
        <4> QED BY <1>t, <3>2, <3>3, <3>4, <4>3, <4>4, <4>5
      <3>6. CASE ~(t = s /\ u = c.tool)
        <4>1. OfTool(a, t, u)' = OfTool(a, t, u)
          BY <1>2, <2>2, <3>6 DEF OfTool
        <4>2. counts[a][<<t, u>>] <= counts'[a][<<t, u>>]
          BY <1>4
        <4>3. Cardinality(OfTool(a, t, u)) <= counts'[a][<<t, u>>]
          BY <3>2, <3>3, <3>4, <4>2
        <4> QED BY <3>4, <4>1, <4>3
      <3> QED BY <3>5, <3>6
    <2> QED BY <2>3, <2>5, <2>6, <2>7, <2>8 DEF Counted
  <1> QED BY <1>5, <1>6

LEMMA BegunStays ==
  ASSUME TypeOK, [Next]_vars, NEW a \in Attempts, NEW s \in Steps, HasBegun(a, s)
  PROVE  HasBegun(a, s)'
  <1>0. s \in Nat /\ step[a] \in Nat
    BY WalkTypes
  <1>1. CASE Settles
    BY <1>1 DEF Settles, HasBegun
  <1>2. ASSUME NEW b \in Attempts, b # a,
               Begin(b) \/ RestoreStep(b) \/ ExecuteStep(b) \/ CommitStep(b)
        PROVE  phase'[a] = phase[a] /\ step'[a] = step[a]
    BY <1>2 DEF Begin, RestoreStep, ExecuteStep, CommitStep, Returning, TypeOK
  <1>3. ~Begin(a)
    BY DEF Begin, HasBegun
  <1>4. CASE RestoreStep(a)
    <2>1. phase[a] = "entering" /\ phase' = phase /\ step'[a] = step[a] + 1
      BY <1>4 DEF RestoreStep, TypeOK
    <2>2. s < step[a]
      BY <2>1 DEF HasBegun
    <2>3. s <= step[a] + 1 /\ s < step[a] + 1
      BY <1>0, <2>2
    <2> QED BY <2>1, <2>3 DEF HasBegun
  <1>5. CASE ExecuteStep(a)
    <2>1. phase'[a] = "running" /\ step' = step
      BY <1>5 DEF ExecuteStep, TypeOK
    <2> QED BY <2>1 DEF HasBegun
  <1>6. CASE CommitStep(a)
    <2>1. phase'[a] = "entering" /\ step'[a] = step[a] + 1
      BY <1>6 DEF CommitStep, TypeOK
    <2>2. s <= step[a] + 1 /\ s < step[a] + 1
      BY <1>0 DEF HasBegun
    <2> QED BY <2>1, <2>2 DEF HasBegun
  <1>7. ASSUME NEW b, NEW t, NEW n, NEW c, NEW pos, NEW how, Invokes(b, t, n, c, pos, how)
        PROVE  phase' = phase /\ step' = step
    BY <1>7 DEF Invokes, Calling
  <1> QED BY <1>1, <1>2, <1>3, <1>4, <1>5, <1>6, <1>7, TaintSteps DEF HasBegun

LEMMA CallsStayPast == TypeOK /\ CallsInPast /\ [Next]_vars => CallsInPast'
  <1> SUFFICES ASSUME TypeOK, CallsInPast, [Next]_vars PROVE CallsInPast'
    OBVIOUS
  <1>1. \A q \in calls : /\ q.att \in Attempts /\ q.step \in Steps /\ q.n \in Nat
                         /\ next[q.att][q.step] \in Nat /\ q.n < next[q.att][q.step]
    <2>1. \A q \in calls : q.att \in Attempts /\ q.step \in Steps /\ q.n \in Nat
      BY DEF TypeOK
    <2> QED BY <2>1 DEF TypeOK, CallsInPast
  <1>2. \A q \in calls : HasBegun(q.att, q.step)'
    BY <1>1, BegunStays DEF CallsInPast
  <1>3. CASE Settles
    <2>1. \A q \in calls : /\ next'[q.att][q.step] \in Nat
                           /\ next[q.att][q.step] <= next'[q.att][q.step]
      BY <1>1, <1>3 DEF Settles
    <2>2. \A q \in calls : q.n < next'[q.att][q.step]
      BY <1>1, <2>1
    <2>3. \A a \in Attempts, s \in Steps : prog'[a][s] # <<>> => HasBegun(a, s)'
      BY <1>3, BegunStays DEF Settles, CallsInPast
    <2> QED BY <1>2, <1>3, <2>2, <2>3 DEF CallsInPast, Settles
  <1>4. ASSUME NEW a \in Attempts, Begin(a) \/ RestoreStep(a) \/ CommitStep(a)
        PROVE  CallsInPast'
    <2>1. UNCHANGED <<calls, next, prog>>
      BY <1>4 DEF Begin, RestoreStep, CommitStep, Returning, stepVars
    <2> QED BY <1>2, <2>1, BegunStays DEF CallsInPast
  <1>5. ASSUME NEW a \in Attempts, ExecuteStep(a) PROVE CallsInPast'
    <2>1. /\ UNCHANGED <<calls, next, step>> /\ phase'[a] = "running"
          /\ \E e : prog' = [prog EXCEPT ![a][step[a]] = e]
      BY <1>5 DEF ExecuteStep, TypeOK
    <2>2. ASSUME NEW b \in Attempts, NEW s \in Steps, prog'[b][s] # <<>>
          PROVE  HasBegun(b, s)'
      <3>1. CASE b = a /\ s = step[a]
        <4>1. s <= s
          BY WalkTypes
        <4> QED BY <2>1, <3>1, <4>1 DEF HasBegun
      <3>2. CASE ~(b = a /\ s = step[a])
        <4>1. prog'[b][s] = prog[b][s]
          BY <2>1, <3>2 DEF TypeOK
        <4> QED BY <2>2, <4>1, BegunStays DEF CallsInPast
      <3> QED BY <3>1, <3>2
    <2> QED BY <1>2, <2>1, <2>2 DEF CallsInPast
  <1>6. ASSUME NEW a \in Attempts, NEW s \in Steps, NEW n \in 1..Len(prog[a][s]), NEW c,
               NEW pos, NEW how, Invokes(a, s, n, c, pos, how)
        PROVE  CallsInPast'
    <2>0. PICK p : p = [att |-> a, step |-> s, n |-> n, call |-> c, pos |-> pos, how |-> how,
                        late |-> ~InStep(a, s)]
      OBVIOUS
    <2>1. /\ calls' = calls \cup {p} /\ prog' = prog
          /\ p.att = a /\ p.step = s /\ p.n = next[a][s]
          /\ next' = [next EXCEPT ![a][s] = next[a][s] + 1]
      BY <1>6, <2>0 DEF Invokes, Calling, Called, Wants
    <2>2. next \in [Attempts -> [Steps -> Nat \ {0}]]
      BY DEF TypeOK
    <2>3. /\ next[a][s] \in Nat /\ next'[a][s] = next[a][s] + 1
          /\ \A b \in Attempts, t \in Steps : b # a \/ t # s => next'[b][t] = next[b][t]
      BY <2>1, <2>2
    <2>4. next[a][s] < next'[a][s]
      BY <2>3
    <2>5. ASSUME NEW q \in calls PROVE q.n < next'[q.att][q.step]
      <3>1. q.n < next[a][s] => q.n < next'[a][s]
        BY <1>1, <2>3
      <3> QED BY <1>1, <2>3, <3>1
    <2>6. \A b \in Attempts, t \in Steps : prog'[b][t] # <<>> => HasBegun(b, t)'
      BY <2>1, BegunStays DEF CallsInPast
    <2>7. prog[a][s] # <<>>
      OBVIOUS
    <2>8. HasBegun(a, s)'
      BY <2>1, <2>6, <2>7
    <2>9. \A q \in calls' : q.n < next'[q.att][q.step]
      BY <2>1, <2>4, <2>5
    <2>10. \A q \in calls' : HasBegun(q.att, q.step)'
      BY <1>2, <2>1, <2>8
    <2> QED BY <2>6, <2>9, <2>10 DEF CallsInPast
  <1> QED BY <1>3, <1>4, <1>5, <1>6, TaintSteps

LEMMA PastInvariant == Spec => []CallsInPast
  <1>1. Init => CallsInPast
    BY DEF Init, CallsInPast, NoCalls
  <1>2. TypeOK /\ CallsInPast /\ [Next]_vars => CallsInPast'
    BY CallsStayPast
  <1> QED BY <1>1, <1>2, TypeCorrect, PTL DEF Spec

(* The breaker and the run caps bind, for any bounds, agents, failures and *)
(* overlapping attempts.                                                   *)
THEOREM CapsHold == Spec => []CapsBind
  <1>1. Init => CapsInv
    <2> SUFFICES ASSUME Init PROVE CapsInv
      OBVIOUS
    <2>1. /\ TypeOK /\ CallsInPast
      BY InitType DEF Init, CallsInPast, NoCalls
    <2>2. \A a \in Attempts : Mine(a) = {} /\ \A s \in Steps, t \in Tools : OfTool(a, s, t) = {}
      BY DEF Init, Mine, OfTool
    <2>3. ASSUME NEW a \in Attempts, NEW s \in Steps, NEW t \in Tools
          PROVE  counts[a][<<s, t>>] = 0
      <3>1. <<s, t>> \in Steps \X Tools
        OBVIOUS
      <3>2. counts[a] = [k \in Steps \X Tools |-> 0]
        BY DEF Init
      <3>3. \A k \in Steps \X Tools : counts[a][k] = 0
        BY <3>2
      <3> QED BY <3>1, <3>3
    <2>4. ASSUME NEW a \in Attempts PROVE Counted(a)
      <3>1. runTotal[a] = 0 /\ runTools[a] = {}
        BY DEF Init
      <3>2. MaxCallsPerTool \in Nat /\ MaxToolCalls \in Nat /\ MaxDistinctTools \in Nat
        BY ConstantsAssumption
      <3>3. IsFiniteSet({}) /\ Cardinality({}) = 0
        BY FS_EmptySet
      <3>4. {p.call.tool : p \in Mine(a)} = {}
        BY <2>2
      <3>5. ASSUME NEW s \in Steps, NEW t \in Tools
            PROVE  /\ Cardinality(OfTool(a, s, t)) <= counts[a][<<s, t>>]
                   /\ Cardinality(OfTool(a, s, t)) <= MaxCallsPerTool
        <4>1. OfTool(a, s, t) = {}
          BY <2>2
        <4>2. Cardinality(OfTool(a, s, t)) = 0
          BY <4>1, <3>3
        <4>3. counts[a][<<s, t>>] = 0
          BY <2>3
        <4> QED BY <4>2, <4>3, <3>2
      <3>6. Mine(a) = {}
        BY <2>2
      <3>7. Cardinality(Mine(a)) = 0 /\ Cardinality(runTools[a]) = 0 /\ IsFiniteSet(Mine(a))
        BY <3>1, <3>3, <3>6
      <3> QED BY <3>1, <3>2, <3>4, <3>5, <3>6, <3>7 DEF Counted
    <2> QED BY <2>1, <2>4 DEF CapsInv
  <1>2. CapsInv /\ [Next]_vars => CapsInv'
    <2> SUFFICES ASSUME CapsInv, [Next]_vars PROVE CapsInv'
      OBVIOUS
    <2>1. TypeOK /\ TypeOK' /\ CallsInPast'
      BY TypeStep, CallsStayPast DEF CapsInv
    <2>2. ASSUME UNCHANGED <<counts, runTotal, runTools, calls>>
          PROVE  \A b \in Attempts : Counted(b)'
      BY <2>2 DEF CapsInv, Counted, Mine, OfTool
    <2>3. ASSUME NEW a \in Attempts, NEW s \in Steps, NEW n \in 1..Len(prog[a][s]),
                 NEW pos, NEW how, Invokes(a, s, n, prog[a][s][n], pos, how)
          PROVE  \A b \in Attempts : Counted(b)'
      BY <2>1, <2>3, ProgramCall, InvokesCounts
    <2>4. \/ UNCHANGED <<counts, runTotal, runTools, calls>>
          \/ \E a \in Attempts, s \in Steps : \E n \in 1..Len(prog[a][s]) :
               \E pos \in Nat, how \in {"live", "replay", "refused", "denied"} :
                 Invokes(a, s, n, prog[a][s][n], pos, how)
      <3>1. ASSUME NEW a \in Attempts,
                   Begin(a) \/ RestoreStep(a) \/ ExecuteStep(a) \/ CommitStep(a)
            PROVE  UNCHANGED <<counts, runTotal, runTools, calls>>
        BY <3>1 DEF Begin, RestoreStep, ExecuteStep, CommitStep, Returning, gates
      <3>2. Settles => UNCHANGED <<counts, runTotal, runTools, calls>>
        BY DEF Settles
      <3> QED BY <2>1, <3>1, <3>2, TaintSteps
    <2> QED BY <2>1, <2>2, <2>3, <2>4 DEF CapsInv
  <1>3. CapsInv => CapsBind
    <2> SUFFICES ASSUME CapsInv, NEW a \in Attempts
        PROVE LET mine == {p \in calls : p.att = a /\ p.how # "denied"} IN
          /\ runTotal[a] = Cardinality(mine) /\ runTotal[a] <= MaxToolCalls
          /\ runTools[a] = {p.call.tool : p \in mine}
          /\ Cardinality(runTools[a]) <= MaxDistinctTools
          /\ \A s \in Steps, t \in Tools :
               Cardinality({p \in mine : p.step = s /\ p.call.tool = t}) <= MaxCallsPerTool
      BY DEF CapsBind
    <2> QED BY DEF CapsInv, Counted, Mine, OfTool
  <1> QED BY <1>1, <1>2, <1>3, PTL DEF Spec
-----------------------------------------------------------------------------
(* Commits and the ledger.  While an attempt runs a step and no exception  *)
(* is pending, the positions it has taken are those of the calls it made,  *)
(* and each has the entry of that call, unless a refusal was lost.         *)
Recorded(q) ==
  \E e \in ledger : e.step = q.step /\ e.pos = q.pos /\ e.key = Key(q.call)

Matches(a) ==
  /\ \A q \in calls : q.att = a /\ q.step = step[a] /\ q.pos # 0 =>
       q.pos <= cursor[a][step[a]] /\ Recorded(q)
  /\ \A p \in 1..cursor[a][step[a]] :
       \E q \in calls : q.att = a /\ q.step = step[a] /\ q.pos = p

\* The cursor of a step the attempt has not reached is still at zero.
CursorAhead(a) == \A s \in Steps :
  /\ phase[a] = "idle" => cursor[a][s] = 0
  /\ phase[a] = "entering" /\ step[a] <= s => cursor[a][s] = 0
  /\ phase[a] = "running" /\ step[a] < s => cursor[a][s] = 0

Abides == use.handles \cap LedgerCodes = {}

MatchInv ==
  /\ IsFiniteSet(ledger)
  /\ ~HasLedger => ledger = {} /\ \A q \in calls : q.pos = 0
  /\ \A a \in Attempts :
       /\ CursorAhead(a)
       /\ phase[a] = "running" /\ code[a] = None /\ Abides =>
            Matches(a) \/ LosesRefusal(a, step[a])

\* Steps that take no position and make no call.
Rests ==
  /\ UNCHANGED <<cursor, calls>>
  /\ \A a \in Attempts : \/ phase'[a] = phase[a] /\ step'[a] = step[a]
                         \/ phase'[a] \in {"halted", "completed", "crashed"}

\* A call that takes no position, and one that takes the next.
Bypasses(a, s, n, c, how) ==
  Invokes(a, s, n, c, 0, how) /\ cursor' = cursor
Takes(a, s, n, c, how) ==
  /\ Invokes(a, s, n, c, NextPosition(a, s), how) /\ HasLedger
  /\ cursor' = [cursor EXCEPT ![a] = [cursor[a] EXCEPT ![s] = NextPosition(a, s)]]
  /\ how # "refused" =>
       \E e \in ledger' : /\ e.step = s /\ e.pos = NextPosition(a, s) /\ e.key = Key(c)
                          /\ \/ e.status = "succeeded"
                             \/ \E f \in flying' : f.att = a /\ f.step = s /\ f.pos = e.pos
  /\ (how = "refused" /\ InStep(a, s) /\ code[a] = None /\ code'[a] = None /\ Abides) =>
       ~use.awaits

LEMMA CodeStays ==
  ASSUME TypeOK, [Next]_vars, NEW a \in Attempts, code[a] # None
  PROVE  code'[a] # None
  <1>1. \A w : w \in Codes => w # None
    BY DEF Codes, None
  <1>2. ASSUME NEW b \in Attempts, RunLoop(b) PROVE code'[a] # None
    BY <1>2 DEF RunLoop, Begin, RefuseDrift, RestoreStep, ExecuteStep, Complete, CommitStep,
                HaltOnOrphan, FailStep, TypeOK, None
  <1>3. ASSUME NEW b \in Attempts, NEW s, NEW w, Raises(b, s, w) PROVE code'[a] # None
    BY <1>3 DEF Raises, TypeOK
  <1>4. ASSUME NEW b \in Attempts, Invoke(b) PROVE code'[a] # None
    BY <1>3, <1>4 DEF Invoke, DenyCall, CallUnledgered, FireEffect, PendingWriteFails,
                ReplayEffect, RefuseEffect, RefuseUndeclared
  <1>5. ASSUME NEW b \in Attempts, CrashBeforeFire(b) PROVE code'[a] # None
    BY <1>5 DEF CrashBeforeFire, Crashing
  <1>6. ASSUME NEW f \in flying, Finish(f) PROVE code'[a] # None
    <2>1. f.att \in Attempts
      BY DEF TypeOK, Flights
    <2> QED BY <1>3, <1>6, <2>1 DEF Finish, FinishUnledgered, FinishEffect, FailEffect
  <1>7. CASE Crash
    BY <1>7 DEF Crash, Crashing
  <1>8. CASE UNCHANGED vars
    BY <1>8 DEF vars
  <1> QED BY <1>2, <1>4, <1>5, <1>6, <1>7, <1>8 DEF Next, Step

LEMMA PositionSteps ==
  ASSUME TypeOK, [Next]_vars
  PROVE  \/ Rests
         \/ \E a \in Attempts : Begin(a) \/ RestoreStep(a) \/ ExecuteStep(a) \/ CommitStep(a)
         \/ \E a \in Attempts, s \in Steps : \E n \in 1..Len(prog[a][s]) :
              \E how \in {"live", "replay", "refused", "denied"} :
                Bypasses(a, s, n, prog[a][s][n], how) \/ Takes(a, s, n, prog[a][s][n], how)
  <1>1. ASSUME NEW a \in Attempts, RunLoop(a)
        PROVE  Rests \/ Begin(a) \/ RestoreStep(a) \/ ExecuteStep(a) \/ CommitStep(a)
    <2>1. CASE RefuseDrift(a)
      BY <2>1 DEF RefuseDrift, Rests, gates, TypeOK
    <2>2. CASE Complete(a)
      BY <2>2 DEF Complete, Rests, gates, TypeOK
    <2>3. CASE HaltOnOrphan(a)
      BY <2>3 DEF HaltOnOrphan, Returning, Rests, gates, TypeOK
    <2>4. CASE FailStep(a)
      BY <2>4 DEF FailStep, Rests, gates, TypeOK
    <2> QED BY <1>1, <2>1, <2>2, <2>3, <2>4 DEF RunLoop
  <1>2. ASSUME NEW a \in Attempts, Invoke(a)
        PROVE  \/ Rests
               \/ \E s \in Steps : \E n \in 1..Len(prog[a][s]) :
                    \E how \in {"live", "replay", "refused", "denied"} :
                      Bypasses(a, s, n, prog[a][s][n], how) \/ Takes(a, s, n, prog[a][s][n], how)
    <2>0. ASSUME NEW s \in Steps, NEW n \in 1..Len(prog[a][s]), NEW c, NEW how,
                 TakesPosition(a, s, n, c, NextPosition(a, s)),
                 Called(a, s, n, c, NextPosition(a, s), how), how # "denied",
                 (how = "refused" /\ InStep(a, s) /\ code[a] = None /\ code'[a] = None
                  /\ Abides) => ~use.awaits,
                 how # "refused" =>
                   \E e \in ledger' :
                     /\ e.step = s /\ e.pos = NextPosition(a, s) /\ e.key = Key(c)
                     /\ \/ e.status = "succeeded"
                        \/ \E f \in flying' : f.att = a /\ f.step = s /\ f.pos = e.pos
          PROVE  Takes(a, s, n, c, how)
      <3>1. Invokes(a, s, n, c, NextPosition(a, s), how)
        BY <2>0 DEF TakesPosition, Invokes
      <3>2. HasLedger
        BY <2>0 DEF TakesPosition, Ledgered
      <3>3. cursor' = [cursor EXCEPT ![a] = [cursor[a] EXCEPT ![s] = NextPosition(a, s)]]
        BY <2>0 DEF TakesPosition
      <3> QED BY <2>0, <3>1, <3>2, <3>3 DEF Takes
    <2>1. CASE DenyCall(a)
      BY <2>1 DEF DenyCall, Invokes, Bypasses
    <2>2. CASE CallUnledgered(a)
      BY <2>2 DEF CallUnledgered, Invokes, Bypasses
    <2>3. CASE FireEffect(a)
      <3>1. PICK s \in Steps, n \in Nat :
              /\ n \in 1..Len(prog[a][s])
              /\ TakesPosition(a, s, n, prog[a][s][n], NextPosition(a, s))
              /\ ledger' = ledger \cup {Pending(s, NextPosition(a, s), Key(prog[a][s][n]))}
              /\ flying' = flying \cup
                   {[att |-> a, step |-> s, n |-> n, call |-> prog[a][s][n],
                     pos |-> NextPosition(a, s)]}
              /\ Called(a, s, n, prog[a][s][n], NextPosition(a, s), "live")
        BY <2>3 DEF FireEffect, Pending
      <3>2. \A p, k : /\ Pending(s, p, k).step = s /\ Pending(s, p, k).pos = p
                      /\ Pending(s, p, k).key = k
        BY DEF Pending
      <3> DEFINE f == [att |-> a, step |-> s, n |-> n, call |-> prog[a][s][n],
                       pos |-> NextPosition(a, s)]
      <3>3. f \in flying' /\ f.att = a /\ f.step = s /\ f.pos = NextPosition(a, s)
        BY <3>1
      <3> HIDE DEF f
      <3>4. \E e \in ledger' :
              /\ e.step = s /\ e.pos = NextPosition(a, s) /\ e.key = Key(prog[a][s][n])
              /\ \/ e.status = "succeeded"
                 \/ \E h \in flying' : h.att = a /\ h.step = s /\ h.pos = e.pos
        BY <3>1, <3>2, <3>3
      <3>5. Takes(a, s, n, prog[a][s][n], "live")
        BY <2>0, <3>1, <3>4
      <3> QED BY <3>1, <3>5
    <2>r. ASSUME NEW s, NEW w \in LedgerCodes, Raises(a, s, w), InStep(a, s),
                 code[a] = None, Abides, use.awaits
          PROVE  code'[a] # None
      BY <2>r DEF Raises, TypeOK, Abides, LedgerCodes, None
    <2>4. CASE PendingWriteFails(a)
      <3>1. PICK s \in Steps, n \in Nat :
              /\ n \in 1..Len(prog[a][s])
              /\ TakesPosition(a, s, n, prog[a][s][n], NextPosition(a, s))
              /\ Raises(a, s, "effect_ledger_error")
              /\ Called(a, s, n, prog[a][s][n], NextPosition(a, s), "refused")
        BY <2>4 DEF PendingWriteFails
      <3>3. "effect_ledger_error" \in LedgerCodes
        BY DEF LedgerCodes
      <3>4. Takes(a, s, n, prog[a][s][n], "refused")
        BY <2>0, <2>r, <3>1, <3>3
      <3> QED BY <3>1, <3>4
    <2>5. CASE ReplayEffect(a)
      <3>1. PICK s \in Steps, n \in Nat :
              /\ n \in 1..Len(prog[a][s])
              /\ TakesPosition(a, s, n, prog[a][s][n], NextPosition(a, s))
              /\ \E e \in EntryAt(s, NextPosition(a, s)) :
                   e.key = Key(prog[a][s][n]) /\ e.status = "succeeded"
              /\ ledger' = ledger
              /\ Called(a, s, n, prog[a][s][n], NextPosition(a, s), "replay")
        BY <2>5 DEF ReplayEffect
      <3>2. \E e \in ledger' : /\ e.step = s /\ e.pos = NextPosition(a, s)
                               /\ e.key = Key(prog[a][s][n]) /\ e.status = "succeeded"
        BY <3>1 DEF EntryAt
      <3>3. Takes(a, s, n, prog[a][s][n], "replay")
        BY <2>0, <3>1, <3>2
      <3> QED BY <3>1, <3>3
    <2>6. CASE RefuseEffect(a)
      <3>1. PICK s \in Steps, n \in Nat :
              /\ n \in 1..Len(prog[a][s])
              /\ TakesPosition(a, s, n, prog[a][s][n], NextPosition(a, s))
              /\ \E w \in {"effect_divergence", "effect_unresolved"} : Raises(a, s, w)
              /\ Called(a, s, n, prog[a][s][n], NextPosition(a, s), "refused")
        BY <2>6 DEF RefuseEffect
      <3>3. \A w \in {"effect_divergence", "effect_unresolved"} : w \in LedgerCodes
        BY DEF LedgerCodes
      <3>4. Takes(a, s, n, prog[a][s][n], "refused")
        BY <2>0, <2>r, <3>1, <3>3
      <3> QED BY <3>1, <3>4
    <2>7. CASE RefuseUndeclared(a)
      BY <2>7 DEF RefuseUndeclared, Rests, gates
    <2> QED BY <1>2, <2>1, <2>2, <2>3, <2>4, <2>5, <2>6, <2>7 DEF Invoke
  <1>3. ASSUME NEW a \in Attempts, CrashBeforeFire(a) PROVE Rests
    BY <1>3 DEF CrashBeforeFire, Crashing, Rests, gates, TypeOK
  <1>4. ASSUME NEW f \in flying, Finish(f) PROVE Rests
    BY <1>4 DEF Finish, Rests, gates
  <1>5. CASE Crash
    BY <1>5 DEF Crash, Crashing, Rests, gates, TypeOK
  <1>6. CASE UNCHANGED vars
    BY <1>6 DEF vars, Rests
  <1> QED BY <1>1, <1>2, <1>3, <1>4, <1>5, <1>6 DEF Next, Step

\* Confirming an effect changes the status and output of its entry only.
LEMMA FinishEntries ==
  ASSUME TypeOK, NEW f, FinishEffect(f)
  PROVE  /\ \A e \in ledger : \E d \in ledger' :
              /\ d.step = e.step /\ d.pos = e.pos /\ d.key = e.key
              /\ e.status = "succeeded" => d.status = "succeeded"
              /\ (e.step = f.step /\ e.pos = f.pos) => d.status = "succeeded"
         /\ \A d \in ledger' : \E e \in ledger :
              d.step = e.step /\ d.pos = e.pos /\ d.key = e.key
  <1> DEFINE g(x) == IF x.step = f.step /\ x.pos = f.pos
                       THEN [x EXCEPT !.status = "succeeded", !.out = f.att]
                       ELSE x
  <1>1. ledger' = {g(e) : e \in ledger}
    BY DEF FinishEffect
  <1>2. ASSUME NEW e \in ledger
        PROVE  /\ g(e).step = e.step /\ g(e).pos = e.pos /\ g(e).key = e.key
               /\ e.status = "succeeded" => g(e).status = "succeeded"
               /\ (e.step = f.step /\ e.pos = f.pos) => g(e).status = "succeeded"
    <2>1. e \in [step : Steps, pos : Nat \ {0}, key : Keys,
                 status : {"pending", "succeeded"}, out : Attempts \cup {None}]
      BY DEF TypeOK, Entries
    <2> QED BY <2>1
  <1> HIDE DEF g
  <1> QED BY <1>1, <1>2

\* An entry keeps its step, position and key, and stays confirmed.
LEMMA EntriesKeep ==
  ASSUME TypeOK, [Next]_vars, NEW e \in ledger
  PROVE  \E d \in ledger' : /\ d.step = e.step /\ d.pos = e.pos /\ d.key = e.key
                            /\ e.status = "succeeded" => d.status = "succeeded"
  BY FinishEntries, LedgerSteps

LEMMA LedgerStaysFinite ==
  ASSUME TypeOK, [Next]_vars, IsFiniteSet(ledger)
  PROVE  IsFiniteSet(ledger')
  <1>1. ASSUME NEW x, ledger' = ledger \cup {x} PROVE IsFiniteSet(ledger')
    <2>1. IsFiniteSet(ledger \cup {x})
      BY FS_AddElement
    <2> QED BY <1>1, <2>1
  <1>2. ASSUME NEW f \in flying, FinishEffect(f) PROVE IsFiniteSet(ledger')
    <2> DEFINE g == [e \in ledger |-> IF e.step = f.step /\ e.pos = f.pos
                         THEN [e EXCEPT !.status = "succeeded", !.out = f.att] ELSE e]
    <2>1. ledger' = {g[e] : e \in ledger}
      BY <1>2 DEF FinishEffect
    <2>2. g \in Surjection(ledger, ledger')
      BY <2>1 DEF Surjection
    <2> QED BY <2>2, FS_Surjection
  <1> QED BY <1>1, <1>2, LedgerSteps

LEMMA NoLedgerNoEntry ==
  ASSUME TypeOK, [Next]_vars, ~HasLedger, ledger = {}
  PROVE  ledger' = {}
  <1>1. CASE \E a \in Attempts : RunLoop(a)
    BY <1>1 DEF RunLoop, Begin, RefuseDrift, RestoreStep, ExecuteStep, Complete, CommitStep,
                HaltOnOrphan, FailStep, Returning, durable
  <1>2. CASE \E a \in Attempts : Invoke(a)
    BY <1>2 DEF Invoke, DenyCall, CallUnledgered, FireEffect, PendingWriteFails, TakesPosition,
                Ledgered, ReplayEffect, RefuseEffect, RefuseUndeclared, durable
  <1>3. CASE \E a \in Attempts : CrashBeforeFire(a)
    BY <1>3 DEF CrashBeforeFire, Ledgered
  <1>4. CASE \E f \in flying : Finish(f)
    BY <1>4 DEF Finish, FinishUnledgered, FinishEffect, FailEffect
  <1>5. CASE Crash
    BY <1>5 DEF Crash
  <1>6. CASE UNCHANGED vars
    BY <1>6 DEF vars
  <1> QED BY <1>1, <1>2, <1>3, <1>4, <1>5, <1>6 DEF Next, Step

LEMMA RecordedStays ==
  ASSUME TypeOK, [Next]_vars, NEW q, Recorded(q)
  PROVE  \E e \in ledger' : e.step = q.step /\ e.pos = q.pos /\ e.key = Key(q.call)
  BY EntriesKeep DEF Recorded

\* What an attempt has matched in a step stays matched when only others
\* move, and late calls of its earlier steps.
LEMMA MatchesStays ==
  ASSUME TypeOK, [Next]_vars, NEW a \in Attempts, Matches(a),
         step'[a] = step[a], cursor'[a][step[a]] = cursor[a][step[a]],
         calls \subseteq calls',
         \A q \in calls' : q \in calls \/ q.att # a \/ q.pos = 0 \/ q.step # step[a]
  PROVE  Matches(a)'
  BY RecordedStays DEF Matches, Recorded

LEMMA PositionTypes ==
  ASSUME TypeOK
  PROVE  /\ \A a \in Attempts, s \in Steps : cursor[a][s] \in Nat
         /\ \A a \in Attempts : cursor[a] \in [Steps -> Nat] /\ step[a] \in Nat
         /\ \A q \in calls : q.pos \in Nat /\ q.step \in Steps /\ q.att \in Attempts
         /\ \A s \in Steps : s \in Nat
  <1>1. Steps \subseteq Nat
    BY ConstantsAssumption DEF Steps
  <1>2. \A a \in Attempts : cursor[a] \in [Steps -> Nat] /\ step[a] \in Nat
    BY DEF TypeOK
  <1>3. \A q \in calls : q.pos \in Nat /\ q.step \in Steps /\ q.att \in Attempts
    BY DEF TypeOK
  <1> QED BY <1>1, <1>2, <1>3

LEMMA TakesMatches ==
  ASSUME TypeOK, [Next]_vars, NEW a \in Attempts, NEW s \in Steps,
         NEW n \in 1..Len(prog[a][s]), NEW c \in Calls, NEW how,
         Takes(a, s, n, c, how), Matches(a), how # "refused", s = step[a]
  PROVE  Matches(a)'
  <1> DEFINE pos == NextPosition(a, s)
             p == [att |-> a, step |-> s, n |-> n, call |-> c, pos |-> pos, how |-> how,
                   late |-> ~InStep(a, s)]
  <1>1. /\ s = step[a] /\ step' = step
        /\ calls' = calls \cup {p}
        /\ cursor' = [cursor EXCEPT ![a] = [cursor[a] EXCEPT ![s] = pos]]
        /\ \E e \in ledger' : e.step = s /\ e.pos = pos /\ e.key = Key(c)
    BY DEF Takes, Invokes, Calling, Wants, Called
  <1>2. pos = cursor[a][s] + 1 /\ cursor[a][s] \in Nat
    BY PositionTypes DEF NextPosition
  <1>3. cursor'[a][s] = pos
    BY <1>1, PositionTypes DEF TypeOK
  <1>4. p.att = a /\ p.step = s /\ p.pos = pos /\ p.call = c
    OBVIOUS
  <1> HIDE DEF pos, p
  <1>5. ASSUME NEW q \in calls', q.att = a, q.step = s, q.pos # 0
        PROVE  q.pos <= pos /\ Recorded(q)'
    <2>1. CASE q \in calls
      <3>1. q.pos <= cursor[a][s] /\ Recorded(q) /\ q.pos \in Nat
        BY <1>1, <1>5, <2>1, PositionTypes DEF Matches
      <3>2. Recorded(q)'
        BY <3>1, RecordedStays DEF Recorded
      <3> QED BY <1>2, <3>1, <3>2
    <2>2. CASE q = p
      BY <1>1, <1>2, <1>4, <2>2 DEF Recorded
    <2> QED BY <1>1, <2>1, <2>2
  <1>6. ASSUME NEW i \in 1..pos
        PROVE  \E q \in calls' : q.att = a /\ q.step = s /\ q.pos = i
    <2>1. CASE i = pos
      BY <1>1, <1>4, <2>1
    <2>2. CASE i # pos
      <3>1. i \in 1..cursor[a][s]
        BY <1>2, <2>2
      <3> QED BY <1>1, <3>1 DEF Matches
    <2> QED BY <2>1, <2>2
  <1> QED BY <1>1, <1>3, <1>5, <1>6 DEF Matches

LEMMA CursorStaysAhead ==
  ASSUME TypeOK, TypeOK', CallsInPast, [Next]_vars, \A b \in Attempts : CursorAhead(b),
         NEW a \in Attempts
  PROVE  CursorAhead(a)'
  <1>1. CASE Rests
    BY <1>1 DEF Rests, CursorAhead
  <1>2. ASSUME NEW b \in Attempts, b # a,
               Begin(b) \/ RestoreStep(b) \/ ExecuteStep(b) \/ CommitStep(b)
        PROVE  CursorAhead(a)'
    <2>1. cursor' = cursor /\ phase'[a] = phase[a] /\ step'[a] = step[a]
      BY <1>2 DEF Begin, RestoreStep, ExecuteStep, CommitStep, Returning, gates, TypeOK
    <2> QED BY <2>1 DEF CursorAhead
  <1>3. CASE Begin(a)
    BY <1>3 DEF Begin, gates, CursorAhead, TypeOK
  <1>4. ASSUME NEW s \in Steps, step[a] + 1 <= s PROVE step[a] <= s /\ step[a] < s
    BY <1>4, PositionTypes
  <1>5. CASE RestoreStep(a)
    <2>1. /\ cursor' = cursor /\ phase'[a] = "entering" /\ phase[a] = "entering"
          /\ step'[a] = step[a] + 1
      BY <1>5 DEF RestoreStep, gates, TypeOK
    <2> QED BY <1>4, <2>1 DEF CursorAhead
  <1>6. CASE ExecuteStep(a)
    <2>1. /\ cursor' = cursor /\ phase'[a] = "running" /\ phase[a] = "entering"
          /\ step'[a] = step[a]
      BY <1>6 DEF ExecuteStep, TypeOK
    <2>2. \A s \in Steps : step[a] < s => step[a] <= s
      BY PositionTypes
    <2> QED BY <2>1, <2>2 DEF CursorAhead
  <1>7. CASE CommitStep(a)
    <2>1. /\ cursor' = cursor /\ phase'[a] = "entering" /\ phase[a] = "running"
          /\ step'[a] = step[a] + 1
      BY <1>7 DEF CommitStep, Returning, gates, TypeOK
    <2> QED BY <1>4, <2>1 DEF CursorAhead
  <1>8. ASSUME NEW b \in Attempts, NEW s \in Steps, NEW n \in 1..Len(prog[b][s]), NEW how,
               \/ Bypasses(b, s, n, prog[b][s][n], how)
               \/ Takes(b, s, n, prog[b][s][n], how)
        PROVE  CursorAhead(a)'
    <2>0. HasBegun(b, s)
      <3>1. prog[b][s] # <<>>
        OBVIOUS
      <3> QED BY <3>1 DEF CallsInPast
    <2>1. /\ phase' = phase /\ step' = step
          /\ \/ cursor' = cursor
             \/ cursor' = [cursor EXCEPT ![b] = [cursor[b] EXCEPT ![s] = NextPosition(b, s)]]
      BY <1>8 DEF Bypasses, Takes, Invokes, Calling, Wants
    <2>2. cursor \in [Attempts -> [Steps -> Nat]]
      BY DEF TypeOK
    <2>3. \A t \in Steps : /\ step[a] < t => ~(t <= step[a])
                           /\ step[a] <= t => ~(t < step[a])
      BY PositionTypes
    <2>4. \A t \in Steps : cursor'[a][t] = cursor[a][t] \/ (a = b /\ t = s)
      BY <2>1, <2>2
    <2> QED BY <2>0, <2>1, <2>3, <2>4 DEF CursorAhead, HasBegun
  <1> QED BY <1>1, <1>2, <1>3, <1>5, <1>6, <1>7, <1>8, PositionSteps

LEMMA MatchStep ==
  ASSUME TypeOK, TypeOK', CallsInPast, MatchInv, [Next]_vars
  PROVE  MatchInv'
  <1>1. IsFiniteSet(ledger')
    BY LedgerStaysFinite DEF MatchInv
  <1>2. ~HasLedger => ledger' = {} /\ \A q \in calls' : q.pos = 0
    <2> SUFFICES ASSUME ~HasLedger PROVE ledger' = {} /\ \A q \in calls' : q.pos = 0
      OBVIOUS
    <2>1. ledger' = {}
      BY NoLedgerNoEntry DEF MatchInv
    <2>2. \A q \in calls : q.pos = 0
      BY DEF MatchInv
    <2>3. ASSUME NEW a \in Attempts,
                 Begin(a) \/ RestoreStep(a) \/ ExecuteStep(a) \/ CommitStep(a)
          PROVE  calls' = calls
      BY <2>3 DEF Begin, RestoreStep, ExecuteStep, CommitStep, Returning
    <2>4. ASSUME NEW a, NEW s, NEW n, NEW c, NEW how, Bypasses(a, s, n, c, how)
          PROVE  \A q \in calls' : q \in calls \/ q.pos = 0
      BY <2>4 DEF Bypasses, Invokes, Called
    <2>5. \A q \in calls' : q \in calls \/ q.pos = 0
      BY <2>3, <2>4, PositionSteps DEF Rests, Takes
    <2> QED BY <2>1, <2>2, <2>5
  <1>3. \A a \in Attempts : CursorAhead(a)'
    BY CursorStaysAhead DEF MatchInv
  <1>4. ASSUME NEW a \in Attempts, phase'[a] = "running", code'[a] = None, Abides'
        PROVE  Matches(a)' \/ LosesRefusal(a, step[a])'
    <2>1. code[a] = None /\ Abides
      BY <1>4, CodeStays DEF Abides, Next, vars
    <2>r. ASSUME LosesRefusal(a, step[a]), step'[a] = step[a], calls \subseteq calls'
          PROVE  LosesRefusal(a, step[a])'
      BY <2>r DEF LosesRefusal, Next, vars
    <2>2. CASE Rests
      <3>1. phase[a] = "running" /\ step'[a] = step[a] /\ cursor' = cursor /\ calls' = calls
        BY <1>4, <2>2 DEF Rests
      <3>2. Matches(a) \/ LosesRefusal(a, step[a])
        BY <2>1, <3>1 DEF MatchInv
      <3> QED BY <2>r, <3>1, <3>2, MatchesStays
    <2>3. ASSUME NEW b \in Attempts, b # a,
                 Begin(b) \/ RestoreStep(b) \/ ExecuteStep(b) \/ CommitStep(b)
          PROVE  Matches(a)' \/ LosesRefusal(a, step[a])'
      <3>1. cursor' = cursor /\ phase'[a] = phase[a] /\ step'[a] = step[a] /\ calls' = calls
        BY <2>3 DEF Begin, RestoreStep, ExecuteStep, CommitStep, Returning, gates, TypeOK
      <3>2. Matches(a) \/ LosesRefusal(a, step[a])
        BY <1>4, <2>1, <3>1 DEF MatchInv
      <3> QED BY <2>r, <3>1, <3>2, MatchesStays
    <2>4. ASSUME Begin(a) \/ RestoreStep(a) \/ CommitStep(a) PROVE FALSE
      BY <1>4, <2>4 DEF Begin, RestoreStep, CommitStep, TypeOK
    <2>5. CASE ExecuteStep(a)
      <3>1. /\ cursor' = cursor /\ calls' = calls /\ step' = step
            /\ phase[a] = "entering" /\ step[a] \in Steps
        BY <2>5 DEF ExecuteStep
      <3>2. cursor[a][step[a]] = 0
        BY <3>1, PositionTypes DEF MatchInv, CursorAhead
      <3>3. \A q \in calls : q.att = a => q.step # step[a]
        <4>1. \A q \in calls : q.att = a => q.step < step[a]
          BY <3>1 DEF CallsInPast, HasBegun
        <4>2. ~(step[a] < step[a])
          BY PositionTypes
        <4> QED BY <4>1, <4>2
      <3>4. 1..0 = {}
        OBVIOUS
      <3> QED BY <3>1, <3>2, <3>3, <3>4 DEF Matches
    <2>6. ASSUME NEW b \in Attempts, NEW s \in Steps, NEW n \in 1..Len(prog[b][s]), NEW how,
                 Bypasses(b, s, n, prog[b][s][n], how)
          PROVE  Matches(a)' \/ LosesRefusal(a, step[a])'
      <3>0. PICK p : p = [att |-> b, step |-> s, n |-> n, call |-> prog[b][s][n], pos |-> 0,
                          how |-> how, late |-> ~InStep(b, s)]
        OBVIOUS
      <3>1. /\ cursor' = cursor /\ phase' = phase /\ step' = step /\ calls' = calls \cup {p}
            /\ p.pos = 0
        BY <2>6, <3>0 DEF Bypasses, Invokes, Calling, Called
      <3>2. Matches(a) \/ LosesRefusal(a, step[a])
        BY <1>4, <2>1, <3>1 DEF MatchInv
      <3> QED BY <2>r, <3>1, <3>2, MatchesStays
    <2>7. ASSUME NEW b \in Attempts, NEW s \in Steps, NEW n \in 1..Len(prog[b][s]), NEW how,
                 Takes(b, s, n, prog[b][s][n], how)
          PROVE  Matches(a)' \/ LosesRefusal(a, step[a])'
      <3>0. PICK p : p = [att |-> b, step |-> s, n |-> n, call |-> prog[b][s][n],
                          pos |-> NextPosition(b, s), how |-> how, late |-> ~InStep(b, s)]
        OBVIOUS
      <3>1. /\ phase' = phase /\ step' = step /\ calls' = calls \cup {p} /\ use' = use
            /\ p.att = b /\ p.step = s /\ p.how = how
        BY <2>7, <3>0 DEF Takes, Invokes, Calling, Called, Next, vars
      <3>2. Matches(a) \/ LosesRefusal(a, step[a])
        BY <1>4, <2>1, <3>1 DEF MatchInv
      <3>3. CASE Matches(a) /\ b = a /\ s = step[a] /\ how # "refused"
        BY <2>7, <3>3, ProgramCall, TakesMatches
      <3>4. CASE b = a /\ s = step[a] /\ how = "refused"
        <4>1. InStep(a, s)
          BY <1>4, <3>1, <3>4 DEF InStep
        <4>2. ~use.awaits
          BY <1>4, <2>1, <2>7, <3>4, <4>1 DEF Takes
        <4> QED BY <3>1, <3>4, <4>2 DEF LosesRefusal
      <3>5. CASE Matches(a) /\ ~(b = a /\ s = step[a])
        <4>1. step[a] \in Steps
          BY <1>4, <3>1 DEF TypeOK
        <4>2. cursor'[a][step[a]] = cursor[a][step[a]]
          BY <2>7, <3>5, <4>1 DEF Takes, TypeOK
        <4> QED BY <3>1, <3>5, <4>2, MatchesStays
      <3> QED BY <2>r, <3>1, <3>2, <3>3, <3>4, <3>5
    <2> QED BY <2>2, <2>3, <2>4, <2>5, <2>6, <2>7, PositionSteps
  <1> QED BY <1>1, <1>2, <1>3, <1>4 DEF MatchInv

LEMMA MatchInvariant == Spec => []MatchInv
  <1>1. Init => MatchInv
    <2> SUFFICES ASSUME Init PROVE MatchInv
      OBVIOUS
    <2>1. \A a \in Attempts : CursorAhead(a)
      BY DEF Init, CursorAhead
    <2> QED BY <2>1, FS_EmptySet DEF Init, MatchInv
  <1>2. TypeOK /\ TypeOK' /\ CallsInPast /\ MatchInv /\ [Next]_vars => MatchInv'
    BY MatchStep
  <1> QED BY <1>1, <1>2, TypeCorrect, PastInvariant, PTL DEF Spec

(* If the ledger holds no more entries of the step than positions taken,   *)
(* it holds the entries of the calls made and no other.                    *)
LEMMA CountedAreTaken ==
  ASSUME TypeOK, OneEntryEach, MatchInv, NEW a \in Attempts, Matches(a), step[a] \in Steps,
         ~Orphans(a)
  PROVE  \A e \in ledger : e.step = step[a] => e.pos \in 1..cursor[a][step[a]]
  <1> DEFINE s == step[a]
             n == cursor[a][s]
             S == {e \in ledger : e.step = s}
             T == {e \in S : e.pos \in 1..n}
  <1>0. CASE ~HasLedger
    BY <1>0 DEF MatchInv
  <1>1. CASE HasLedger
    <2>1. n \in Nat
      BY PositionTypes
    <2>2. IsFiniteSet(S)
      BY FS_Subset DEF MatchInv
    <2>3. Cardinality(S) <= n
      <3>1. Cardinality(S) \in Nat
        BY <2>2, FS_CardinalityType
      <3>2. ~(Cardinality(S) > n)
        BY <1>1 DEF Orphans, RecordedCount, Consumed
      <3> QED BY <2>1, <3>1, <3>2
    <2>4. \A p \in 1..n : \E e \in T : e.pos = p
      <3> SUFFICES ASSUME NEW p \in 1..n PROVE \E e \in T : e.pos = p
        OBVIOUS
      <3>1. PICK q \in calls : q.att = a /\ q.step = s /\ q.pos = p
        BY DEF Matches
      <3>2. q.pos # 0
        BY <2>1, <3>1
      <3>3. Recorded(q)
        BY <3>1, <3>2 DEF Matches
      <3> QED BY <3>1, <3>3 DEF Recorded
    <2>5. IsFiniteSet(T) /\ Cardinality(T) <= Cardinality(S) /\ (Cardinality(S) = Cardinality(T) => S = T)
      <3>1. T \in SUBSET S
        OBVIOUS
      <3> QED BY <2>2, <3>1, FS_Subset
    <2>6. n <= Cardinality(T)
      <3> DEFINE f == [p \in 1..n |-> CHOOSE e \in T : e.pos = p]
      <3>1. \A p \in 1..n : f[p] \in T /\ f[p].pos = p
        BY <2>4
      <3>2. f \in [1..n -> T]
        BY <3>1
      <3>3. f \in Injection(1..n, T)
        BY <3>1, <3>2 DEF Injection, IsInjective
      <3>4. Cardinality(1..n) <= Cardinality(T)
        BY <2>5, <3>3, FS_Injection
      <3>5. Cardinality(1..n) = n
        <4>1. n \in Int /\ 1 \in Int
          BY <2>1
        <4>2. Cardinality(1..n) = IF 1 > n THEN 0 ELSE n - 1 + 1
          BY <4>1, FS_Interval
        <4> QED BY <2>1, <4>2
      <3> QED BY <3>4, <3>5
    <2>7. S = T
      <3>1. Cardinality(S) \in Nat /\ Cardinality(T) \in Nat
        BY <2>2, <2>5, FS_CardinalityType
      <3> HIDE DEF S, T
      <3> QED BY <2>1, <2>3, <2>5, <2>6, <3>1
    <2> QED BY <2>7
  <1> QED BY <1>0, <1>1

\* Only the attempt that runs a step writes its checkpoint.
LEMMA CommitsOwn ==
  ASSUME TypeOK, [Next]_vars, NEW s \in Steps, checkpoint'[s] # checkpoint[s]
  PROVE  \E a \in Attempts : CommitStep(a) /\ step[a] = s
  <1>1. ASSUME NEW b, Begin(b) \/ RestoreStep(b) \/ ExecuteStep(b)
        PROVE  checkpoint' = checkpoint
    BY <1>1 DEF Begin, RestoreStep, ExecuteStep, durable
  <1>2. ASSUME NEW b, NEW t, NEW m, NEW c, NEW pos, NEW how, Invokes(b, t, m, c, pos, how)
        PROVE  checkpoint' = checkpoint
    BY <1>2 DEF Invokes, Calling
  <1>3. PICK a \in Attempts : CommitStep(a)
    BY <1>1, <1>2, TaintSteps DEF Settles
  <1>4. step[a] = s
    BY <1>3 DEF CommitStep, TypeOK
  <1> QED BY <1>3, <1>4

(* A step is committed only by an attempt whose ledgered calls are exactly *)
(* the recorded ones, at the same positions, or whose agent lost a refusal *)
(* of the ledger, for any agents, overlaps, crashes and failing writes.    *)
THEOREM CommitsMatch == Spec => CommitsMatchLedger
  <1>1. ReplayInv /\ MatchInv /\ [Next]_vars =>
          [\A s \in Steps :
             use.handles \cap LedgerCodes = {} /\ checkpoint'[s] # checkpoint[s] =>
               \E a \in Attempts : /\ phase[a] = "running" /\ step[a] = s
                                   /\ step'[a] = s + 1
                                   /\ MatchesLedger(a, s) \/ LosesRefusal(a, s)]_vars
    <2> SUFFICES ASSUME ReplayInv, MatchInv, [Next]_vars,
                        NEW s \in Steps, Abides, checkpoint'[s] # checkpoint[s]
                 PROVE  \E a \in Attempts : /\ phase[a] = "running" /\ step[a] = s
                                            /\ step'[a] = s + 1
                                            /\ MatchesLedger(a, s) \/ LosesRefusal(a, s)
      BY DEF Abides
    <2>1. TypeOK /\ OneEntryEach
      BY DEF ReplayInv
    <2>2. PICK a \in Attempts : CommitStep(a) /\ step[a] = s
      BY <2>1, CommitsOwn
    <2>3. /\ phase[a] = "running" /\ code[a] = None /\ ~Orphans(a)
          /\ checkpoint' = [checkpoint EXCEPT ![step[a]] = ScopeOf(a, step[a])]
          /\ step' = [step EXCEPT ![a] = step[a] + 1]
      BY <2>2 DEF CommitStep, Returning
    <2>4. step[a] = s /\ step'[a] = s + 1
      BY <2>1, <2>3 DEF TypeOK
    <2>l. CASE LosesRefusal(a, s)
      BY <2>3, <2>4, <2>l
    <2>5. SUFFICES ASSUME Matches(a) PROVE MatchesLedger(a, s)
      BY <2>3, <2>4, <2>l DEF MatchInv
    <2>6. \A e \in ledger : e.step = s => e.pos \in 1..cursor[a][s]
      BY <2>1, <2>3, <2>4, <2>5, CountedAreTaken
    <2>7. \A q \in calls : (q.att = a /\ q.step = s /\ q.pos # 0) =>
            \E e \in ledger : e.step = s /\ e.pos = q.pos /\ e.key = Key(q.call)
      BY <2>4, <2>5 DEF Matches, Recorded
    <2>8. \A e \in ledger : e.step = s =>
            \E q \in calls : /\ q.att = a /\ q.step = s /\ q.pos # 0
                             /\ e.pos = q.pos /\ e.key = Key(q.call)
      <3> SUFFICES ASSUME NEW e \in ledger, e.step = s
                   PROVE  \E q \in calls : /\ q.att = a /\ q.step = s /\ q.pos # 0
                                           /\ e.pos = q.pos /\ e.key = Key(q.call)
        OBVIOUS
      <3>1. PICK q \in calls : q.att = a /\ q.step = s /\ q.pos = e.pos
        BY <2>4, <2>5, <2>6 DEF Matches
      <3>2. q.pos # 0
        BY <2>1, <3>1 DEF TypeOK, Entries
      <3>3. PICK d \in ledger : d.step = s /\ d.pos = q.pos /\ d.key = Key(q.call)
        BY <2>7, <3>1, <3>2
      <3>4. d = e
        BY <2>1, <3>1, <3>3 DEF OneEntryEach
      <3> QED BY <3>1, <3>2, <3>3, <3>4
    <2> QED BY <2>7, <2>8 DEF MatchesLedger
  <1> QED BY <1>1, ReplayInvariant, MatchInvariant, PTL DEF Spec, CommitsMatchLedger
-----------------------------------------------------------------------------
(* Outcomes.  With agents that await their calls and let failures end the  *)
(* step, every position taken so far has a confirmed effect or a handler   *)
(* in flight.                                                              *)
Careful == use.awaits /\ ~use.overlaps /\ Obedient

Answered(a, p) ==
  \/ \E e \in ledger : e.step = step[a] /\ e.pos = p /\ e.status = "succeeded"
  \/ \E f \in flying : f.att = a /\ f.step = step[a] /\ f.pos = p

TakenAreAnswered == \A a \in Attempts :
  phase[a] = "running" /\ code[a] = None =>
    \A p \in 1..cursor[a][step[a]] : Answered(a, p)

CommittedSucceeded ==
  \A e \in ledger : checkpoint[e.step] # None => e.status = "succeeded"

ResolvedInv == Careful => TakenAreAnswered /\ CommittedSucceeded

\* An entry at a new position is the pending one of a running step.
LEMMA EntriesCome ==
  ASSUME TypeOK, [Next]_vars, NEW d \in ledger',
         \A e \in ledger : ~(d.step = e.step /\ d.pos = e.pos /\ d.key = e.key)
  PROVE  \E a \in Attempts : \E s \in Steps : \E n \in 1..Len(prog[a][s]) :
           /\ FireEffect(a) \/ CrashBeforeFire(a)
           /\ Wants(a, s, n, prog[a][s][n]) /\ Ledgered(prog[a][s][n])
           /\ d = Pending(s, NextPosition(a, s), Key(prog[a][s][n]))
  <1>1. ASSUME NEW a \in Attempts, RunLoop(a) PROVE ledger' = ledger
    BY <1>1 DEF RunLoop, Begin, RefuseDrift, RestoreStep, ExecuteStep, Complete, CommitStep,
                HaltOnOrphan, FailStep, Returning, durable
  <1>2. ASSUME NEW a \in Attempts, Invoke(a) PROVE ledger' = ledger \/ FireEffect(a)
    BY <1>2 DEF Invoke, DenyCall, CallUnledgered, PendingWriteFails, ReplayEffect,
                RefuseEffect, RefuseUndeclared, durable
  <1>3. ASSUME NEW f \in flying, Finish(f) PROVE ledger' = ledger \/ FinishEffect(f)
    BY <1>3 DEF Finish, FinishUnledgered, FailEffect
  <1>4. ASSUME NEW f \in flying, FinishEffect(f) PROVE FALSE
    BY <1>4, FinishEntries
  <1>5. Crash => ledger' = ledger
    BY DEF Crash
  <1>6. UNCHANGED vars => ledger' = ledger
    BY DEF vars
  <1>7. PICK a \in Attempts : FireEffect(a) \/ CrashBeforeFire(a)
    BY <1>1, <1>2, <1>3, <1>4, <1>5, <1>6 DEF Next, Step
  <1>8. PICK s \in Steps, n \in Nat :
          /\ n \in 1..Len(prog[a][s])
          /\ Wants(a, s, n, prog[a][s][n]) /\ Ledgered(prog[a][s][n])
          /\ ledger' = ledger \cup {Pending(s, NextPosition(a, s), Key(prog[a][s][n]))}
    BY <1>7 DEF FireEffect, CrashBeforeFire, TakesPosition, Calling, Pending
  <1>9. d \notin ledger
    OBVIOUS
  <1>10. d = Pending(s, NextPosition(a, s), Key(prog[a][s][n]))
    BY <1>8, <1>9
  <1> QED BY <1>7, <1>8, <1>10

LEMMA FlightsEnd ==
  ASSUME TypeOK, FlightIsPending, [Next]_vars, NEW f \in flying, f.pos # 0, Obedient,
         use.awaits, phase[f.att] = "running", phase'[f.att] = "running", step[f.att] = f.step,
         code[f.att] = None, code'[f.att] = None
  PROVE  \/ f \in flying'
         \/ \E e \in ledger' : e.step = f.step /\ e.pos = f.pos /\ e.status = "succeeded"
  <1>0. f.att \in Attempts
    BY DEF TypeOK, Flights
  <1>1. ASSUME NEW a \in Attempts, RunLoop(a) \/ Invoke(a) PROVE f \in flying'
    BY <1>1 DEF RunLoop, Begin, RefuseDrift, RestoreStep, ExecuteStep, Complete, CommitStep,
                HaltOnOrphan, FailStep, Returning, Invoke, DenyCall, CallUnledgered,
                FireEffect, PendingWriteFails, ReplayEffect, RefuseEffect, RefuseUndeclared
  <1>2. ~Crashing
    BY <1>0 DEF Crashing, Active, TypeOK
  <1>3. ASSUME NEW h \in flying, Finish(h), h # f PROVE f \in flying'
    BY <1>3 DEF Finish
  <1>4. CASE FinishEffect(f)
    BY <1>4, FinishEntries DEF FlightIsPending
  <1>5. ~FailEffect(f)
    <2>1. ASSUME NEW w \in LedgerCodes \cup {"agent_error"}, Raises(f.att, f.step, w)
          PROVE  FALSE
      BY <1>0, <2>1 DEF Raises, InStep, TypeOK, Obedient, LedgerCodes, None
    <2>2. \A w \in {"agent_error", "effect_ledger_error"} : w \in LedgerCodes \cup {"agent_error"}
      BY DEF LedgerCodes
    <2> QED BY <2>1, <2>2 DEF FailEffect
  <1>6. CASE UNCHANGED vars
    BY <1>6 DEF vars
  <1> QED BY <1>1, <1>2, <1>3, <1>4, <1>5, <1>6
          DEF Next, Step, Finish, FinishUnledgered, Crash, CrashBeforeFire

LEMMA AnsweredStays ==
  ASSUME TypeOK, FlightIsPending, [Next]_vars, Careful, NEW a \in Attempts,
         phase[a] = "running", phase'[a] = "running", step'[a] = step[a],
         code[a] = None, code'[a] = None, NEW p \in Nat \ {0}, Answered(a, p)
  PROVE  Answered(a, p)'
  <1>1. CASE \E e \in ledger : e.step = step[a] /\ e.pos = p /\ e.status = "succeeded"
    BY <1>1, EntriesKeep DEF Answered
  <1>2. CASE \E f \in flying : f.att = a /\ f.step = step[a] /\ f.pos = p
    BY <1>2, FlightsEnd DEF Answered, Careful
  <1> QED BY <1>1, <1>2 DEF Answered

LEMMA TakenStayAnswered ==
  ASSUME TypeOK, ReplayInv, CallsInPast, MatchInv, TakenAreAnswered, Careful, [Next]_vars
  PROVE  TakenAreAnswered'
  <1> SUFFICES ASSUME NEW a \in Attempts, phase'[a] = "running", code'[a] = None,
                      NEW p \in 1..cursor'[a][step'[a]]
               PROVE  Answered(a, p)'
    BY DEF TakenAreAnswered
  <1>1. code[a] = None /\ Abides /\ FlightIsPending /\ use.awaits
    BY CodeStays DEF Abides, Careful, Obedient, ReplayInv
  <1>2. CASE /\ phase[a] = "running" /\ step'[a] = step[a]
             /\ p \in 1..cursor[a][step[a]]
    <2>1. p \in Nat \ {0}
      BY <1>2
    <2>2. Answered(a, p)
      BY <1>1, <1>2 DEF TakenAreAnswered
    <2> QED BY <1>1, <1>2, <2>1, <2>2, AnsweredStays
  <1>3. CASE Rests
    BY <1>2, <1>3 DEF Rests
  <1>4. ASSUME NEW b \in Attempts, b # a,
               Begin(b) \/ RestoreStep(b) \/ ExecuteStep(b) \/ CommitStep(b)
        PROVE  Answered(a, p)'
    <2>1. cursor' = cursor /\ phase'[a] = phase[a] /\ step'[a] = step[a]
      BY <1>4 DEF Begin, RestoreStep, ExecuteStep, CommitStep, Returning, gates, TypeOK
    <2> QED BY <1>2, <2>1
  <1>5. ASSUME Begin(a) \/ RestoreStep(a) \/ CommitStep(a) PROVE FALSE
    BY <1>5 DEF Begin, RestoreStep, CommitStep, TypeOK
  <1>6. ASSUME ExecuteStep(a) PROVE FALSE
    <2>1. /\ cursor' = cursor /\ step' = step
          /\ phase[a] = "entering" /\ step[a] \in Steps
      BY <1>6 DEF ExecuteStep
    <2>2. cursor[a][step[a]] = 0
      BY <2>1, PositionTypes DEF MatchInv, CursorAhead
    <2> QED BY <2>1, <2>2
  <1>7. ASSUME NEW b \in Attempts, NEW s \in Steps, NEW n \in 1..Len(prog[b][s]), NEW how,
               Bypasses(b, s, n, prog[b][s][n], how)
        PROVE  Answered(a, p)'
    BY <1>2, <1>7 DEF Bypasses, Invokes, Calling
  <1>8. ASSUME NEW b \in Attempts, NEW s \in Steps, NEW n \in 1..Len(prog[b][s]), NEW how,
               Takes(b, s, n, prog[b][s][n], how)
        PROVE  Answered(a, p)'
    <2>1. /\ phase' = phase /\ step' = step /\ s = step[b] /\ InStep(b, s)
          /\ cursor' = [cursor EXCEPT ![b] = [cursor[b] EXCEPT ![s] = NextPosition(b, s)]]
      BY <1>1, <1>8 DEF Takes, Invokes, Calling, Wants, InStep
    <2>2. CASE b # a
      <3>1. cursor'[a] = cursor[a]
        BY <2>1, <2>2 DEF TypeOK
      <3> QED BY <1>2, <2>1, <3>1
    <2>3. CASE b = a
      <3>1. cursor'[a][step[a]] = cursor[a][step[a]] + 1 /\ cursor[a][step[a]] \in Nat
        BY <2>1, <2>3, PositionTypes DEF TypeOK, NextPosition
      <3>2. p \in 1..cursor[a][step[a]] \/ p = NextPosition(a, s)
        BY <2>1, <2>3, <3>1 DEF NextPosition
      <3>3. CASE p = NextPosition(a, s)
        <4>1. how # "refused"
          BY <1>1, <1>8, <2>1, <2>3 DEF Takes
        <4> QED BY <1>8, <2>1, <2>3, <3>3, <4>1 DEF Takes, Answered
      <3> QED BY <1>2, <2>1, <3>2, <3>3
    <2> QED BY <2>2, <2>3
  <1> QED BY <1>3, <1>4, <1>5, <1>6, <1>7, <1>8, PositionSteps

LEMMA CommittedStaySucceeded ==
  ASSUME TypeOK, TypeOK', ReplayInv, ReplayInv', LineInv, MatchInv, Careful,
         TakenAreAnswered, CommittedSucceeded, [Next]_vars
  PROVE  CommittedSucceeded'
  <1> SUFFICES ASSUME NEW d \in ledger', checkpoint'[d.step] # None
               PROVE  d.status = "succeeded"
    BY DEF CommittedSucceeded
  <1>0. d.step \in Steps /\ OneEntryEach /\ OneEntryEach'
    BY DEF TypeOK, Entries, ReplayInv
  <1>1. CASE checkpoint'[d.step] = checkpoint[d.step]
    <2>1. CASE \E e \in ledger : d.step = e.step /\ d.pos = e.pos
      <3>1. PICK e \in ledger : d.step = e.step /\ d.pos = e.pos
        BY <2>1
      <3>2. e.status = "succeeded"
        BY <1>1, <3>1 DEF CommittedSucceeded
      <3>3. PICK c \in ledger' : c.step = e.step /\ c.pos = e.pos /\ c.status = "succeeded"
        BY <3>2, EntriesKeep
      <3> QED BY <1>0, <3>1, <3>3 DEF OneEntryEach
    <2>2. CASE ~\E e \in ledger : d.step = e.step /\ d.pos = e.pos
      <3>1. PICK a \in Attempts, s \in Steps : \E n \in 1..Len(prog[a][s]) :
              Wants(a, s, n, prog[a][s][n]) /\ d.step = s
        BY <2>2, EntriesCome DEF Pending
      <3>2. phase[a] = "running" /\ d.step = step[a]
        BY <3>1 DEF Wants, InStep, Careful
      <3>3. checkpoint[step[a]] = None
        BY <3>2 DEF LineInv, Live, Walks
      <3> QED BY <1>1, <3>2, <3>3
    <2> QED BY <2>1, <2>2
  <1>2. CASE checkpoint'[d.step] # checkpoint[d.step]
    <2>1. PICK a \in Attempts : CommitStep(a) /\ step[a] = d.step
      BY <1>0, <1>2, CommitsOwn
    <2>2. /\ phase[a] = "running" /\ code[a] = None /\ ~Orphans(a) /\ ledger' = ledger
          /\ InFlight(a) = {}
      BY <2>1 DEF CommitStep, Returning, Careful
    <2>3. Matches(a)
      BY <2>2 DEF MatchInv, Abides, Careful, Obedient, LosesRefusal
    <2>4. d.pos \in 1..cursor[a][step[a]]
      BY <1>0, <2>1, <2>2, <2>3, CountedAreTaken
    <2>5. Answered(a, d.pos)
      BY <2>2, <2>4 DEF TakenAreAnswered
    <2> QED BY <1>0, <2>1, <2>2, <2>5 DEF Answered, OneEntryEach, InFlight
  <1> QED BY <1>1, <1>2

(* A checkpointed step has no effect of unknown outcome, for any pipeline, *)
(* crash or failing write, when agents await their calls, let failures end *)
(* their step, and attempts follow one another.                            *)
THEOREM CommittedResolved == Spec => []CommittedIsResolved
  <1>1. Init => ResolvedInv
    BY DEF Init, ResolvedInv, TakenAreAnswered, CommittedSucceeded
  <1>2. /\ ReplayInv /\ ReplayInv' /\ TaintInv /\ CallsInPast /\ MatchInv
        /\ ResolvedInv /\ [Next]_vars
        => ResolvedInv'
    <2> SUFFICES ASSUME ReplayInv, ReplayInv', TaintInv, CallsInPast, MatchInv,
                        ResolvedInv, [Next]_vars, Careful'
                 PROVE  TakenAreAnswered' /\ CommittedSucceeded'
      BY DEF ResolvedInv
    <2>1. TypeOK /\ TypeOK' /\ Careful
      BY DEF ReplayInv, Careful, Obedient, Next, vars
    <2>2. LineInv /\ TakenAreAnswered /\ CommittedSucceeded
      BY <2>1 DEF Careful, TaintInv, ResolvedInv
    <2> QED BY <2>1, <2>2, TakenStayAnswered, CommittedStaySucceeded DEF Careful
  <1>3. ResolvedInv => CommittedIsResolved
    BY DEF ResolvedInv, CommittedIsResolved, CommittedSucceeded, Careful
  <1> QED BY <1>1, <1>2, <1>3, ReplayInvariant, TaintInvariant, PastInvariant, MatchInvariant,
             PTL DEF Spec
-----------------------------------------------------------------------------
(* Deterministic steps.  The place of a call is the number of ledgered     *)
(* calls up to it; an attempt's cursor is the place it has reached, and    *)
(* the entry at a position is that of the call in this place.              *)
LedgeredIn(p, n) == {j \in 1..n : Ledgered(p[j])}
Place(p, n) == Cardinality(LedgeredIn(p, n))

LEMMA PlaceTypes ==
  ASSUME NEW p, NEW n \in Nat
  PROVE  IsFiniteSet(LedgeredIn(p, n)) /\ Place(p, n) \in Nat
  <1>1. IsFiniteSet(1..n)
    BY FS_Interval
  <1>2. LedgeredIn(p, n) \in SUBSET (1..n)
    BY DEF LedgeredIn
  <1> QED BY <1>1, <1>2, FS_Subset, FS_CardinalityType DEF Place

LEMMA PlaceOfNone ==
  ASSUME NEW p PROVE Place(p, 0) = 0
  <1>1. LedgeredIn(p, 0) = {}
    BY DEF LedgeredIn
  <1> QED BY <1>1, FS_EmptySet DEF Place

LEMMA PlaceNext ==
  ASSUME NEW p, NEW n \in Nat \ {0}
  PROVE  Place(p, n) = IF Ledgered(p[n]) THEN Place(p, n - 1) + 1 ELSE Place(p, n - 1)
  <1>1. n - 1 \in Nat /\ n \notin LedgeredIn(p, n - 1)
    BY DEF LedgeredIn
  <1>2. IsFiniteSet(LedgeredIn(p, n - 1))
    BY <1>1, PlaceTypes
  <1>3. CASE Ledgered(p[n])
    <2>1. LedgeredIn(p, n) = LedgeredIn(p, n - 1) \cup {n}
      BY <1>3 DEF LedgeredIn
    <2> QED BY <1>1, <1>2, <1>3, <2>1, FS_AddElement DEF Place
  <1>4. CASE ~Ledgered(p[n])
    <2>1. LedgeredIn(p, n) = LedgeredIn(p, n - 1)
      BY <1>4 DEF LedgeredIn
    <2> QED BY <1>4, <2>1 DEF Place
  <1> QED BY <1>3, <1>4

LEMMA PlacesGrow ==
  ASSUME NEW p, NEW m \in Nat, NEW n \in Nat, m <= n
  PROVE  /\ Place(p, m) <= Place(p, n)
         /\ m < n /\ Ledgered(p[n]) => Place(p, m) < Place(p, n)
  <1>1. LedgeredIn(p, m) \in SUBSET LedgeredIn(p, n)
    BY DEF LedgeredIn
  <1>2. IsFiniteSet(LedgeredIn(p, n)) /\ Place(p, m) \in Nat /\ Place(p, n) \in Nat
    BY PlaceTypes
  <1>3. /\ Place(p, m) <= Place(p, n)
        /\ Place(p, m) = Place(p, n) => LedgeredIn(p, m) = LedgeredIn(p, n)
    BY <1>1, <1>2, FS_Subset DEF Place
  <1>4. ASSUME m < n, Ledgered(p[n]) PROVE LedgeredIn(p, m) # LedgeredIn(p, n)
    <2>1. n \in LedgeredIn(p, n) /\ n \notin LedgeredIn(p, m)
      BY <1>4 DEF LedgeredIn
    <2> QED BY <2>1
  <1> QED BY <1>2, <1>3, <1>4

LEMMA PlaceIsOfOne ==
  ASSUME NEW p, NEW m \in Nat \ {0}, NEW n \in Nat \ {0}, Ledgered(p[m]), Ledgered(p[n]),
         Place(p, m) = Place(p, n)
  PROVE  m = n
  <1>1. Place(p, m) \in Nat /\ Place(p, n) \in Nat
    BY PlaceTypes
  <1>2. ~(m < n)
    BY <1>1, PlacesGrow
  <1>3. ~(n < m)
    BY <1>1, PlacesGrow
  <1> QED BY <1>2, <1>3

\* The calls of the step an attempt runs, and the next one of them.
Program(a) == prog[a][step[a]]
Upcoming(a) == next[a][step[a]]

OnProgram(a) ==
  /\ phase[a] = "entering" => version[a] \in use.deploys
  /\ phase[a] = "running" =>
       /\ version[a] \in use.deploys
       /\ Program(a) \in use.programs[version[a]][step[a]]
       /\ Upcoming(a) <= Len(Program(a)) + 1

\* No call of a step the attempt has not begun has been made.
Untouched(a) == \A s \in Steps : ~HasBegun(a, s) => next[a][s] = 1

InPlace(a) == phase[a] = "running" /\ code[a] = None =>
  cursor[a][step[a]] = Place(Program(a), Upcoming(a) - 1)

Placed(e) == \E v \in use.deploys : \E p \in use.programs[v][e.step] : \E n \in 1..Len(p) :
  Ledgered(p[n]) /\ e.pos = Place(p, n) /\ e.key = Key(p[n])

Undiverged(a) == code[a] # "effect_divergence"

CleanInv == Deterministic =>
  /\ \A a \in Attempts : OnProgram(a) /\ Untouched(a) /\ InPlace(a) /\ Undiverged(a)
  /\ \A e \in ledger : Placed(e)

LEMMA OneProgram ==
  ASSUME Deterministic, NEW v \in use.deploys, NEW w \in use.deploys, NEW s \in Steps,
         NEW p \in use.programs[v][s], NEW q \in use.programs[w][s]
  PROVE  p = q
  BY DEF Deterministic

LEMMA ProgramIsCalls ==
  ASSUME TypeOK, NEW a \in Attempts, phase[a] = "running"
  PROVE  /\ Program(a) \in Seq(Calls) /\ Len(Program(a)) \in Nat
         /\ Upcoming(a) \in Nat \ {0} /\ step[a] \in Steps
  <1>1. Program(a) \in Seq(Calls) /\ Upcoming(a) \in Nat \ {0} /\ step[a] \in Steps
    BY DEF TypeOK, Program, Upcoming
  <1> QED BY <1>1

LEMMA StaysUntouched ==
  ASSUME TypeOK, CallsInPast, [Next]_vars, NEW a \in Attempts, Untouched(a)
  PROVE  Untouched(a)'
  <1> SUFFICES ASSUME NEW s \in Steps, ~HasBegun(a, s)' PROVE next'[a][s] = 1
    BY DEF Untouched
  <1>1. ~HasBegun(a, s) /\ next[a][s] = 1 /\ Len(prog[a][s]) = 0
    <2>1. ~HasBegun(a, s)
      BY BegunStays
    <2>2. prog[a][s] = <<>>
      BY <2>1 DEF CallsInPast
    <2> QED BY <2>1, <2>2 DEF Untouched
  <1>2. ASSUME NEW b \in Attempts, NEW t \in Steps, NEW n \in 1..Len(prog[b][t]),
               next' = [next EXCEPT ![b][t] = next[b][t] + 1]
        PROVE  next'[a][s] = next[a][s]
    <2>1. b # a \/ t # s
      BY <1>1
    <2> QED BY <1>2, <2>1 DEF TypeOK
  <1>3. ASSUME NEW b \in Attempts, Invoke(b) PROVE next'[a][s] = next[a][s]
    <2>1. PICK t \in Steps : \E n \in 1..Len(prog[b][t]) :
            next' = [next EXCEPT ![b][t] = next[b][t] + 1]
      BY <1>3 DEF Invoke, DenyCall, CallUnledgered, FireEffect, PendingWriteFails, ReplayEffect,
                  RefuseEffect, RefuseUndeclared, TakesPosition, Calling
    <2> QED BY <1>2, <2>1
  <1>4. ASSUME NEW b \in Attempts, RunLoop(b) PROVE next' = next
    BY <1>4 DEF RunLoop, Begin, RefuseDrift, RestoreStep, ExecuteStep, Complete, CommitStep,
                HaltOnOrphan, FailStep, Returning, stepVars
  <1>5. Crashing => next' = next
    BY DEF Crashing
  <1>6. ASSUME NEW f \in flying, Finish(f) PROVE next' = next
    BY <1>6 DEF Finish, stepVars
  <1>7. UNCHANGED vars => next' = next
    BY DEF vars
  <1> QED BY <1>1, <1>3, <1>4, <1>5, <1>6, <1>7 DEF Next, Step, Crash, CrashBeforeFire

LEMMA StaysOnProgram ==
  ASSUME TypeOK, CallsInPast, [Next]_vars, NEW a \in Attempts, OnProgram(a), Untouched(a)
  PROVE  OnProgram(a)'
  <1>0. use' = use
    BY DEF Next, vars
  <1>1. ASSUME phase'[a] = phase[a], step'[a] = step[a], version'[a] = version[a],
               phase[a] = "running" => Program(a)' = Program(a),
               phase[a] = "running" =>
                 \/ Upcoming(a)' = Upcoming(a)
                 \/ Upcoming(a)' = Upcoming(a) + 1 /\ Upcoming(a) <= Len(Program(a))
        PROVE  OnProgram(a)'
    <2>1. CASE phase[a] # "running"
      BY <1>0, <1>1, <2>1 DEF OnProgram
    <2>2. CASE phase[a] = "running"
      <3>1. Upcoming(a) <= Len(Program(a)) + 1
        BY <2>2 DEF OnProgram
      <3>2. Len(Program(a)) \in Nat /\ Upcoming(a) \in Nat
        BY <2>2, ProgramIsCalls
      <3>3. Upcoming(a)' <= Len(Program(a)) + 1
        BY <1>1, <2>2, <3>1, <3>2
      <3> QED BY <1>0, <1>1, <2>2, <3>3 DEF OnProgram
    <2> QED BY <2>1, <2>2
  <1>2. ASSUME phase'[a] \notin {"entering", "running"} PROVE OnProgram(a)'
    BY <1>2 DEF OnProgram
  <1>3. ASSUME NEW b \in Attempts, b # a, RunLoop(b) PROVE OnProgram(a)'
    <2>1. /\ phase'[a] = phase[a] /\ step'[a] = step[a] /\ version'[a] = version[a]
          /\ prog'[a] = prog[a] /\ next'[a] = next[a]
      BY <1>3 DEF RunLoop, Begin, RefuseDrift, RestoreStep, ExecuteStep, Complete, CommitStep,
                  HaltOnOrphan, FailStep, Returning, stepVars, TypeOK
    <2> QED BY <1>1, <2>1 DEF Program, Upcoming
  <1>4. CASE Begin(a)
    BY <1>0, <1>4 DEF Begin, OnProgram, TypeOK
  <1>5. CASE RestoreStep(a) \/ CommitStep(a)
    BY <1>0, <1>5 DEF RestoreStep, CommitStep, Returning, OnProgram, TypeOK
  <1>6. CASE ExecuteStep(a)
    <2>1. /\ step' = step /\ version' = version /\ phase[a] = "entering" /\ next' = next
          /\ phase'[a] = "running" /\ step[a] \in Steps
      BY <1>6 DEF ExecuteStep, TypeOK
    <2>2. PICK p \in use.programs[version[a]][step[a]] :
            prog' = [prog EXCEPT ![a][step[a]] = p]
      BY <1>6 DEF ExecuteStep
    <2>3. Program(a)' = p /\ Upcoming(a)' = next[a][step[a]]
      BY <2>1, <2>2 DEF Program, Upcoming, TypeOK
    <2>4. Upcoming(a)' = 1
      BY <2>1, <2>3, WalkTypes DEF Untouched, HasBegun
    <2>5. Len(Program(a)') \in Nat
      <3>1. prog' \in [Attempts -> [Steps -> Seq(Calls)]]
        BY ExecuteStepType, <1>0, <1>6 DEF TypeOK
      <3> QED BY <2>1, <3>1 DEF Program
    <2> QED BY <1>0, <2>1, <2>2, <2>3, <2>4, <2>5 DEF OnProgram
  <1>7. ASSUME RefuseDrift(a) \/ Complete(a) \/ HaltOnOrphan(a) \/ FailStep(a)
        PROVE  OnProgram(a)'
    <2>1. phase'[a] \in {"halted", "completed"}
      BY <1>7 DEF RefuseDrift, Complete, HaltOnOrphan, FailStep, TypeOK
    <2> QED BY <1>2, <2>1
  <1>8. ASSUME NEW b \in Attempts, Invoke(b) PROVE OnProgram(a)'
    <2>1. PICK s \in Steps : \E n \in 1..Len(prog[b][s]) :
            /\ Wants(b, s, n, prog[b][s][n])
            /\ next' = [next EXCEPT ![b][s] = next[b][s] + 1]
            /\ UNCHANGED <<phase, step, version, prog>>
      BY <1>8 DEF Invoke, DenyCall, CallUnledgered, FireEffect, PendingWriteFails, ReplayEffect,
                  RefuseEffect, RefuseUndeclared, TakesPosition, Calling
    <2>2. next[b][s] <= Len(prog[b][s])
      BY <2>1 DEF Wants
    <2>3. ASSUME phase[a] = "running"
          PROVE  \/ Upcoming(a)' = Upcoming(a)
                 \/ Upcoming(a)' = Upcoming(a) + 1 /\ Upcoming(a) <= Len(Program(a))
      <3>1. step' = step /\ step[a] \in Steps
        BY <2>1, <2>3, ProgramIsCalls
      <3>2. CASE b = a /\ s = step[a]
        BY <2>1, <2>2, <3>1, <3>2 DEF TypeOK, Upcoming, Program
      <3>3. CASE b # a \/ s # step[a]
        BY <2>1, <3>1, <3>3 DEF TypeOK, Upcoming
      <3> QED BY <3>2, <3>3
    <2> QED BY <1>1, <2>1, <2>3 DEF Program
  <1>9. ASSUME Crashing PROVE OnProgram(a)'
    BY <1>2, <1>9, CrashingType
  <1>10. ASSUME NEW f \in flying, Finish(f) PROVE OnProgram(a)'
    BY <1>1, <1>10 DEF Finish, stepVars, Program, Upcoming
  <1>11. CASE UNCHANGED vars
    BY <1>1, <1>11 DEF vars, Program, Upcoming
  <1> QED BY <1>3, <1>4, <1>5, <1>6, <1>7, <1>8, <1>9, <1>10, <1>11
          DEF Next, Step, RunLoop, Crash, CrashBeforeFire

\* Agents that handle no exception: whatever is raised ends the step.
LEMMA RaisedIsPending ==
  ASSUME TypeOK, NEW a \in Attempts, NEW s, NEW w \in Codes, Raises(a, s, w),
         use.handles = {}, use.awaits, InStep(a, s)
  PROVE  code'[a] # None
  BY DEF Raises, TypeOK, Codes, None

LEMMA DenialIsCode ==
  ASSUME NEW a, NEW s, NEW c
  PROVE  DenialCode(a, s, c) \in Codes /\ DenialCode(a, s, c) # "effect_divergence"
  BY DEF DenialCode, Codes

LEMMA StaysInPlace ==
  ASSUME TypeOK, MatchInv, [Next]_vars, Deterministic, NEW a \in Attempts, Untouched(a),
         InPlace(a)
  PROVE  InPlace(a)'
  <1> SUFFICES ASSUME phase'[a] = "running", code'[a] = None
               PROVE  cursor'[a][step'[a]] = Place(Program(a)', Upcoming(a)' - 1)
    BY DEF InPlace
  <1>0. code[a] = None /\ use.handles = {} /\ use.awaits
    BY CodeStays DEF Deterministic
  <1>1. ASSUME phase[a] = "running", step'[a] = step[a], cursor'[a] = cursor[a],
               prog'[a] = prog[a], next'[a] = next[a]
        PROVE  cursor'[a][step'[a]] = Place(Program(a)', Upcoming(a)' - 1)
    BY <1>0, <1>1 DEF InPlace, Program, Upcoming
  <1>2. ASSUME NEW b \in Attempts, b # a, RunLoop(b)
        PROVE  cursor'[a][step'[a]] = Place(Program(a)', Upcoming(a)' - 1)
    <2>1. /\ phase'[a] = phase[a] /\ step'[a] = step[a] /\ cursor'[a] = cursor[a]
          /\ prog'[a] = prog[a] /\ next'[a] = next[a]
      BY <1>2 DEF RunLoop, Begin, RefuseDrift, RestoreStep, ExecuteStep, Complete, CommitStep,
                  HaltOnOrphan, FailStep, Returning, stepVars, gates, TypeOK
    <2> QED BY <1>1, <2>1
  <1>3. ASSUME RunLoop(a), ~ExecuteStep(a) PROVE FALSE
    BY <1>3 DEF RunLoop, Begin, RefuseDrift, RestoreStep, Complete, CommitStep,
                HaltOnOrphan, FailStep, TypeOK
  <1>4. CASE ExecuteStep(a)
    <2>1. /\ cursor' = cursor /\ step' = step /\ next' = next
          /\ phase[a] = "entering" /\ step[a] \in Steps
      BY <1>4 DEF ExecuteStep, TypeOK
    <2>2. cursor[a][step[a]] = 0
      BY <2>1, PositionTypes DEF MatchInv, CursorAhead
    <2>3. next[a][step[a]] = 1
      BY <2>1, WalkTypes DEF Untouched, HasBegun
    <2>4. Upcoming(a)' - 1 = 0
      BY <2>1, <2>3 DEF Upcoming
    <2> QED BY <2>1, <2>2, <2>4, PlaceOfNone
  <1>5. ASSUME NEW b \in Attempts, b # a, Invoke(b)
        PROVE  cursor'[a][step'[a]] = Place(Program(a)', Upcoming(a)' - 1)
    <2>1. /\ phase' = phase /\ step' = step /\ prog' = prog
          /\ \/ cursor' = cursor
             \/ \E x : cursor' = [cursor EXCEPT ![b] = x]
          /\ \E x : next' = [next EXCEPT ![b] = x]
      BY <1>5 DEF Invoke, DenyCall, CallUnledgered, FireEffect, PendingWriteFails, ReplayEffect,
                  RefuseEffect, RefuseUndeclared, TakesPosition, Calling, gates
    <2>2. cursor'[a] = cursor[a] /\ next'[a] = next[a]
      BY <1>5, <2>1 DEF TypeOK
    <2> QED BY <1>1, <2>1, <2>2
  <1>6. ASSUME DenyCall(a) \/ RefuseUndeclared(a) PROVE FALSE
    <2>1. PICK s \in Steps, w \in Codes : Raises(a, s, w) /\ InStep(a, s)
      <3>1. "tool_access" \in Codes
        BY DEF Codes
      <3>2. CASE DenyCall(a)
        <4>1. PICK s \in Steps, n \in Nat :
                /\ n \in 1..Len(prog[a][s])
                /\ InStep(a, s)
                /\ Raises(a, s, DenialCode(a, s, prog[a][s][n]))
          BY <1>0, <3>2 DEF DenyCall, Calling, Wants
        <4> QED BY <4>1, DenialIsCode
      <3>3. CASE RefuseUndeclared(a)
        BY <1>0, <3>1, <3>3 DEF RefuseUndeclared, Wants
      <3> QED BY <1>6, <3>2, <3>3
    <2> QED BY <1>0, <2>1, RaisedIsPending
  <1>7. ASSUME NEW s \in Steps, NEW n \in 1..Len(prog[a][s]), Calling(a, s, n, prog[a][s][n]),
               cursor'[a][s] = IF Ledgered(prog[a][s][n]) THEN cursor[a][s] + 1 ELSE cursor[a][s]
        PROVE  cursor'[a][step'[a]] = Place(Program(a)', Upcoming(a)' - 1)
    <2>1. /\ phase[a] = "running" /\ s = step[a] /\ step' = step /\ prog' = prog
          /\ n = next[a][s] /\ next' = [next EXCEPT ![a][s] = next[a][s] + 1]
      BY <1>0, <1>7 DEF Calling, Wants, InStep
    <2>2. n = Upcoming(a) /\ Upcoming(a)' = n + 1 /\ Program(a)' = prog[a][s]
      BY <2>1 DEF TypeOK, Upcoming, Program
    <2>3. cursor[a][s] = Place(prog[a][s], n - 1)
      BY <1>0, <2>1, <2>2 DEF InPlace, Program
    <2>4. n \in Nat \ {0} /\ n + 1 - 1 = n
      BY <2>1, <2>2, ProgramIsCalls
    <2> QED BY <1>7, <2>1, <2>2, <2>3, <2>4, PlaceNext
  <1>8. CASE CallUnledgered(a)
    <2>1. PICK s \in Steps, n \in Nat :
            /\ n \in 1..Len(prog[a][s])
            /\ Calling(a, s, n, prog[a][s][n]) /\ ~Ledgered(prog[a][s][n])
            /\ cursor' = cursor
      BY <1>8 DEF CallUnledgered
    <2> QED BY <1>7, <2>1
  <1>9. CASE FireEffect(a) \/ PendingWriteFails(a) \/ ReplayEffect(a) \/ RefuseEffect(a)
    <2>1. PICK s \in Steps, n \in Nat :
            /\ n \in 1..Len(prog[a][s])
            /\ TakesPosition(a, s, n, prog[a][s][n], NextPosition(a, s))
      BY <1>9 DEF FireEffect, PendingWriteFails, ReplayEffect, RefuseEffect
    <2>2. cursor' = [cursor EXCEPT ![a] = [cursor[a] EXCEPT ![s] = cursor[a][s] + 1]]
      BY <2>1 DEF TakesPosition, NextPosition
    <2>3. cursor'[a][s] = cursor[a][s] + 1
      BY <2>2, PositionTypes DEF TypeOK
    <2>4. Calling(a, s, n, prog[a][s][n]) /\ Ledgered(prog[a][s][n])
      BY <2>1 DEF TakesPosition
    <2> QED BY <1>7, <2>1, <2>3, <2>4
  <1>10. ~Crashing
    BY CrashingType
  <1>11. ASSUME NEW f \in flying, Finish(f)
         PROVE  cursor'[a][step'[a]] = Place(Program(a)', Upcoming(a)' - 1)
    BY <1>1, <1>11 DEF Finish, stepVars, gates
  <1>12. CASE UNCHANGED vars
    BY <1>1, <1>12 DEF vars
  <1> QED BY <1>2, <1>3, <1>4, <1>5, <1>6, <1>8, <1>9, <1>10, <1>11, <1>12
          DEF Next, Step, Invoke, Crash, CrashBeforeFire

LEMMA EntriesInPlace ==
  ASSUME TypeOK, [Next]_vars, Deterministic, \A a \in Attempts : OnProgram(a) /\ InPlace(a),
         \A e \in ledger : Placed(e), NEW d \in ledger'
  PROVE  Placed(d)'
  <1>1. use' = use
    BY DEF Next, vars
  <1>2. CASE \E e \in ledger : d.step = e.step /\ d.pos = e.pos /\ d.key = e.key
    BY <1>1, <1>2 DEF Placed
  <1>3. ASSUME NEW a \in Attempts, NEW s \in Steps, NEW n \in 1..Len(prog[a][s]),
               Wants(a, s, n, prog[a][s][n]), Ledgered(prog[a][s][n]),
               d = Pending(s, NextPosition(a, s), Key(prog[a][s][n]))
        PROVE  Placed(d)'
    <2>1. /\ phase[a] = "running" /\ s = step[a] /\ code[a] = None
          /\ n = Upcoming(a) /\ Program(a) = prog[a][s]
      BY <1>3 DEF Wants, Deterministic, InStep, Upcoming, Program
    <2>2. n \in Nat \ {0}
      BY <2>1, ProgramIsCalls
    <2>3. NextPosition(a, s) = Place(Program(a), n)
      BY <1>3, <2>1, <2>2, PlaceNext DEF InPlace, NextPosition
    <2>4. d.step = s /\ d.pos = Place(Program(a), n) /\ d.key = Key(Program(a)[n])
      BY <1>3, <2>1, <2>3 DEF Pending
    <2>5. /\ version[a] \in use.deploys /\ Program(a) \in use.programs[version[a]][d.step]
          /\ n \in 1..Len(Program(a)) /\ Ledgered(Program(a)[n])
      BY <1>3, <2>1, <2>4 DEF OnProgram
    <2> QED BY <1>1, <2>4, <2>5 DEF Placed
  <1> QED BY <1>2, <1>3, EntriesCome

LEMMA NoDivergence ==
  ASSUME TypeOK, [Next]_vars, Deterministic, OneEntryEach, MatchInv,
         \A a \in Attempts : OnProgram(a) /\ InPlace(a) /\ Undiverged(a),
         \A e \in ledger : Placed(e), NEW a \in Attempts
  PROVE  Undiverged(a)'
  <1>0. Undiverged(a) /\ use.handles = {} /\ use.awaits
    BY DEF Deterministic
  <1>1. ASSUME NEW b \in Attempts, NEW s, NEW w, Raises(b, s, w), w # "effect_divergence"
        PROVE  Undiverged(a)'
    BY <1>0, <1>1 DEF Raises, Undiverged, TypeOK
  \* What is recorded in a step is at the place of one of its calls.
  <1>2. ASSUME NEW b \in Attempts, phase[b] = "running", NEW e \in ledger, e.step = step[b]
        PROVE  \E n \in 1..Len(Program(b)) :
                 /\ Ledgered(Program(b)[n]) /\ e.pos = Place(Program(b), n)
                 /\ e.key = Key(Program(b)[n])
    <2>1. PICK v \in use.deploys : \E p \in use.programs[v][e.step] : \E n \in 1..Len(p) :
            Ledgered(p[n]) /\ e.pos = Place(p, n) /\ e.key = Key(p[n])
      BY DEF Placed
    <2>2. PICK p \in use.programs[v][e.step] : \E n \in 1..Len(p) :
            Ledgered(p[n]) /\ e.pos = Place(p, n) /\ e.key = Key(p[n])
      BY <2>1
    <2>3. version[b] \in use.deploys /\ Program(b) \in use.programs[version[b]][step[b]]
      BY <1>2 DEF OnProgram
    <2>4. step[b] \in Steps
      BY <1>2, WalkTypes
    <2>5. p = Program(b)
      BY <1>2, <2>3, <2>4, OneProgram
    <2> QED BY <2>2, <2>5
  <1>3. ASSUME NEW b \in Attempts, RefuseEffect(b) PROVE Undiverged(a)'
    <2>1. PICK s \in Steps, n \in Nat :
            /\ n \in 1..Len(prog[b][s])
            /\ TakesPosition(b, s, n, prog[b][s][n], NextPosition(b, s))
            /\ \E e \in EntryAt(s, NextPosition(b, s)) :
                 /\ ~(e.status = "succeeded" /\ e.key = Key(prog[b][s][n]))
                 /\ Raises(b, s, IF e.status = "succeeded" THEN "effect_divergence"
                                 ELSE "effect_unresolved")
      BY <1>3 DEF RefuseEffect
    <2>2. PICK e \in EntryAt(s, NextPosition(b, s)) :
            /\ ~(e.status = "succeeded" /\ e.key = Key(prog[b][s][n]))
            /\ Raises(b, s, IF e.status = "succeeded" THEN "effect_divergence"
                            ELSE "effect_unresolved")
      BY <2>1
    <2>3. /\ phase[b] = "running" /\ s = step[b] /\ code[b] = None
          /\ n = Upcoming(b) /\ Program(b) = prog[b][s] /\ Ledgered(Program(b)[n])
      BY <1>0, <2>1 DEF TakesPosition, Calling, Wants, InStep, Upcoming, Program
    <2>4. e \in ledger /\ e.step = s /\ e.pos = NextPosition(b, s)
      BY <2>2 DEF EntryAt
    <2>5. PICK m \in 1..Len(Program(b)) :
            /\ Ledgered(Program(b)[m]) /\ e.pos = Place(Program(b), m)
            /\ e.key = Key(Program(b)[m])
      BY <1>2, <2>3, <2>4
    <2>6. n \in Nat \ {0} /\ m \in Nat \ {0}
      BY <2>3, ProgramIsCalls
    <2>7. e.pos = Place(Program(b), n)
      BY <2>3, <2>4, <2>6, PlaceNext DEF InPlace, NextPosition
    <2>8. m = n
      BY <2>3, <2>5, <2>6, <2>7, PlaceIsOfOne
    <2>9. e.status # "succeeded"
      BY <2>2, <2>3, <2>5, <2>8
    <2> QED BY <1>1, <2>2, <2>9
  <1>4. ASSUME NEW b \in Attempts, HaltOnOrphan(b) PROVE FALSE
    <2>1. /\ phase[b] = "running" /\ code[b] = None /\ Upcoming(b) > Len(Program(b))
          /\ HasLedger /\ RecordedCount(step[b]) > cursor[b][step[b]]
      BY <1>0, <1>4 DEF HaltOnOrphan, Returning, Orphans, Consumed, Upcoming, Program
    <2> DEFINE s == step[b]
               k == Len(Program(b))
               S == {e \in ledger : e.step = s}
    <2>2. k \in Nat /\ Upcoming(b) - 1 = k
      BY <2>1, ProgramIsCalls DEF OnProgram
    <2>3. cursor[b][s] = Place(Program(b), k) /\ Place(Program(b), k) \in Nat
      BY <2>1, <2>2, PlaceTypes DEF InPlace
    <2>4. \A e \in S : e.pos \in 1..Place(Program(b), k)
      <3> SUFFICES ASSUME NEW e \in S PROVE e.pos \in 1..Place(Program(b), k)
        OBVIOUS
      <3>1. PICK n \in 1..k : e.pos = Place(Program(b), n)
        BY <1>2, <2>1
      <3>2. n \in Nat /\ n <= k /\ Place(Program(b), n) \in Nat
        BY <2>2, PlaceTypes
      <3>3. e.pos \in Nat \ {0}
        BY DEF TypeOK, Entries
      <3>4. Place(Program(b), n) <= Place(Program(b), k)
        BY <2>2, <3>2, PlacesGrow
      <3> QED BY <2>3, <3>1, <3>2, <3>3, <3>4
    <2>5. IsFiniteSet(S)
      BY FS_Subset DEF MatchInv
    <2> DEFINE f == [e \in S |-> e.pos]
               T == 1..Place(Program(b), k)
    <2>6. f \in Injection(S, T)
      <3>1. f \in [S -> T]
        BY <2>4
      <3>2. \A d, e \in S : f[d] = f[e] => d = e
        BY DEF OneEntryEach
      <3> QED BY <3>1, <3>2 DEF Injection, IsInjective
    <2>7. IsFiniteSet(T) /\ Cardinality(T) = Place(Program(b), k)
      <3>1. 1 \in Int /\ Place(Program(b), k) \in Int
        BY <2>3
      <3>2. /\ IsFiniteSet(T)
            /\ Cardinality(T) = IF 1 > Place(Program(b), k) THEN 0 ELSE Place(Program(b), k) - 1 + 1
        BY <3>1, FS_Interval
      <3> QED BY <2>3, <3>2
    <2>8. Cardinality(S) <= Place(Program(b), k)
      BY <2>6, <2>7, FS_Injection
    <2>9. Cardinality(S) \in Nat /\ RecordedCount(s) = Cardinality(S)
      BY <2>5, FS_CardinalityType DEF RecordedCount
    <2> QED BY <2>1, <2>3, <2>8, <2>9
  <1>5. ASSUME NEW b \in Attempts, RunLoop(b) PROVE Undiverged(a)'
    BY <1>0, <1>4, <1>5 DEF RunLoop, Begin, RefuseDrift, RestoreStep, ExecuteStep, Complete,
                CommitStep, FailStep, Undiverged, TypeOK
  <1>6. ASSUME NEW b \in Attempts, Invoke(b) PROVE Undiverged(a)'
    BY <1>0, <1>1, <1>3, <1>6, DenialIsCode
       DEF Invoke, DenyCall, CallUnledgered, FireEffect, PendingWriteFails, ReplayEffect,
           RefuseUndeclared, Undiverged
  <1>7. Crashing => Undiverged(a)'
    BY <1>0 DEF Crashing, Undiverged
  <1>8. ASSUME NEW f \in flying, Finish(f) PROVE Undiverged(a)'
    <2>1. f.att \in Attempts
      BY DEF TypeOK, Flights
    <2> QED BY <1>0, <1>1, <1>8, <2>1
            DEF Finish, FinishUnledgered, FinishEffect, FailEffect, Undiverged
  <1>9. UNCHANGED vars => Undiverged(a)'
    BY <1>0 DEF vars, Undiverged
  <1> QED BY <1>5, <1>6, <1>7, <1>8, <1>9 DEF Next, Step, Crash, CrashBeforeFire

(* A deterministic step never diverges from what earlier attempts          *)
(* recorded, for any programs, crashes and failing writes.                 *)
THEOREM CleanReplay == Spec => []ReplaysCleanly
  <1>1. Init => CleanInv
    <2>1. "effect_divergence" # None
      BY DEF None
    <2> QED BY <2>1 DEF Init, CleanInv, OnProgram, Untouched, InPlace, Undiverged
  <1>2. ReplayInv /\ CallsInPast /\ MatchInv /\ CleanInv /\ [Next]_vars => CleanInv'
    <2> SUFFICES ASSUME ReplayInv, CallsInPast, MatchInv, CleanInv, [Next]_vars, Deterministic'
                 PROVE  /\ \A a \in Attempts :
                           (OnProgram(a) /\ Untouched(a) /\ InPlace(a) /\ Undiverged(a))'
                        /\ \A e \in ledger' : Placed(e)'
      BY DEF CleanInv
    <2>1. TypeOK /\ OneEntryEach /\ Deterministic
      BY DEF ReplayInv, Deterministic, Next, vars
    <2>2. /\ \A a \in Attempts :
               OnProgram(a) /\ Untouched(a) /\ InPlace(a) /\ Undiverged(a)
          /\ \A e \in ledger : Placed(e)
      BY <2>1 DEF CleanInv
    <2> QED BY <2>1, <2>2, StaysOnProgram, StaysUntouched, StaysInPlace, EntriesInPlace, NoDivergence
  <1>3. CleanInv => ReplaysCleanly
    BY DEF CleanInv, Undiverged, ReplaysCleanly
  <1> QED BY <1>1, <1>2, <1>3, ReplayInvariant, PastInvariant, MatchInvariant, PTL DEF Spec
-----------------------------------------------------------------------------
(* The log.  A call that was executed is of a declared tool.  If agents    *)
(* await their calls, a handler in flight belongs to the step its attempt  *)
(* is running, and what was logged since that step began is of this step.  *)
Done == {"ok", "replay"}

ShimmedCalls ==
  /\ \A f \in flying : HasShim(f.step, f.call.tool)
  /\ \A a \in Attempts : \A i \in 1..Len(log[a]) :
       log[a][i].result \in Done => HasShim(log[a][i].step, log[a][i].tool)

\* A pure exfil tool: its call does not taint its own scope.
Sends(t) == t \in Exfil /\ t \notin UntrustedSource

OwnFlights == \A f \in flying :
  /\ phase[f.att] = "running" /\ f.step = step[f.att]
  /\ Sends(f.call.tool) => ScopeOf(f.att, f.step) = "trusted"

SentTrusted == \A a \in Attempts : \A i \in 1..Len(log[a]) :
  log[a][i].result \in Done /\ Sends(log[a][i].tool) => log[a][i].scope = "trusted"

OwnLog == \A a \in Attempts : phase[a] = "running" =>
  /\ logStart[a] <= Len(log[a])
  /\ \A i \in logStart[a] + 1..Len(log[a]) : log[a][i].step = step[a]

OwnAudit == \A a \in Attempts : \A r \in audit[a] :
  \A i \in 1..Len(r.calls) : r.calls[i].step = r.step

LogInv == ShimmedCalls /\ (use.awaits => OwnFlights /\ SentTrusted /\ OwnLog /\ OwnAudit)

\* What a step does to the log and the handlers in flight.
Starts(a, s, n, c) ==
  /\ Calling(a, s, n, c) /\ ClearsGates(a, s, c) /\ log' = log
  /\ \E p \in Nat :
       flying' = flying \cup {[att |-> a, step |-> s, n |-> n, call |-> c, pos |-> p]}
Answers(a, s, n, c, r) ==
  /\ Calling(a, s, n, c) /\ Logged(a, s, n, c.tool, r) /\ flying' = flying
  /\ r \in Done => ClearsGates(a, s, c)
Ends(f, r) ==
  /\ Logged(f.att, f.step, f.n, f.call.tool, r) /\ flying' = flying \ {f}
  /\ UNCHANGED <<phase, step, scope, logStart, audit>>
Silent ==
  /\ UNCHANGED <<log, step, scope, logStart, audit>>
  /\ \/ flying' = flying /\ phase' = phase
     \/ Crashing

LEMMA LogSteps ==
  ASSUME TypeOK, [Next]_vars
  PROVE  \/ Silent
         \/ \E a \in Attempts : RunLoop(a)
         \/ \E a \in Attempts, s \in Steps : \E n \in 1..Len(prog[a][s]) :
              \/ Starts(a, s, n, prog[a][s][n])
              \/ \E r \in Outcomes : Answers(a, s, n, prog[a][s][n], r)
         \/ \E f \in flying, r \in Outcomes : Ends(f, r)
  <1>1. ASSUME NEW a \in Attempts, Invoke(a)
        PROVE  \/ Silent
               \/ \E s \in Steps : \E n \in 1..Len(prog[a][s]) :
                    \/ Starts(a, s, n, prog[a][s][n])
                    \/ \E r \in Outcomes : Answers(a, s, n, prog[a][s][n], r)
    <2>0. \A s \in Steps : NextPosition(a, s) \in Nat
      BY PositionTypes DEF NextPosition
    <2>1. /\ "error" \in Outcomes /\ "error" \notin Done /\ "replay" \in Outcomes
          /\ \A w \in Codes : w \in Outcomes /\ w \notin Done
      BY DEF Outcomes, Codes, Done
    <2>2. CASE DenyCall(a)
      <3>1. PICK s \in Steps, n \in Nat :
              /\ n \in 1..Len(prog[a][s])
              /\ Calling(a, s, n, prog[a][s][n]) /\ flying' = flying
              /\ Logged(a, s, n, prog[a][s][n].tool, DenialCode(a, s, prog[a][s][n]))
        BY <2>2 DEF DenyCall
      <3>2. Answers(a, s, n, prog[a][s][n], DenialCode(a, s, prog[a][s][n]))
        BY <2>1, <3>1, DenialIsCode DEF Answers
      <3>3. DenialCode(a, s, prog[a][s][n]) \in Outcomes
        BY <2>1, DenialIsCode
      <3> QED BY <3>1, <3>2, <3>3
    <2>3. CASE CallUnledgered(a)
      BY <2>3 DEF CallUnledgered, Starts
    <2>4. CASE FireEffect(a)
      BY <2>0, <2>4 DEF FireEffect, TakesPosition, Starts
    <2>5. CASE PendingWriteFails(a)
      BY <2>1, <2>5 DEF PendingWriteFails, TakesPosition, Answers
    <2>6. CASE ReplayEffect(a)
      BY <2>1, <2>6 DEF ReplayEffect, TakesPosition, Answers
    <2>7. CASE RefuseEffect(a)
      BY <2>1, <2>7 DEF RefuseEffect, TakesPosition, Answers
    <2>8. CASE RefuseUndeclared(a)
      BY <2>8 DEF RefuseUndeclared, Silent, gates
    <2> QED BY <1>1, <2>2, <2>3, <2>4, <2>5, <2>6, <2>7, <2>8 DEF Invoke
  <1>2. ASSUME NEW f \in flying, Finish(f) PROVE \E r \in Outcomes : Ends(f, r)
    BY <1>2 DEF Finish, FinishUnledgered, FinishEffect, FailEffect, Ends, Outcomes, gates, stepVars
  <1>3. Crashing => Silent
    BY DEF Crashing, Silent, gates, stepVars
  <1>4. UNCHANGED vars => Silent
    BY DEF vars, Silent
  <1> QED BY <1>1, <1>2, <1>3, <1>4 DEF Next, Step, Crash, CrashBeforeFire

\* An attempt's log after an entry was appended to one.
LEMMA LogGrows ==
  ASSUME TypeOK, NEW a \in Attempts, NEW s, NEW n, NEW t, NEW r, Logged(a, s, n, t, r)
  PROVE  /\ \A b \in Attempts : b # a => log'[b] = log[b]
         /\ Len(log[a]) \in Nat /\ Len(log'[a]) = Len(log[a]) + 1
         /\ \A i \in 1..Len(log[a]) : log'[a][i] = log[a][i]
         /\ log'[a][Len(log[a]) + 1].step = s /\ log'[a][Len(log[a]) + 1].tool = t
         /\ log'[a][Len(log[a]) + 1].result = r
         /\ log'[a][Len(log[a]) + 1].scope = ScopeOf(a, s)'
         /\ \A i \in 1..Len(log'[a]) : i \in 1..Len(log[a]) \/ i = Len(log[a]) + 1
  <1> DEFINE e == [step |-> s, n |-> n, tool |-> t, scope |-> ScopeOf(a, s)', result |-> r]
  <1>1. log[a] \in Seq(LogEntries) /\ log \in [Attempts -> Seq(LogEntries)]
    BY DEF TypeOK
  <1>2. log' = [log EXCEPT ![a] = Append(log[a], e)]
    BY DEF Logged
  <1>3. e.step = s /\ e.tool = t /\ e.result = r /\ e.scope = ScopeOf(a, s)'
    OBVIOUS
  <1> HIDE DEF e
  <1>4. log'[a] = Append(log[a], e) /\ \A b \in Attempts : b # a => log'[b] = log[b]
    BY <1>1, <1>2
  <1>5. /\ Len(log[a]) \in Nat /\ Len(Append(log[a], e)) = Len(log[a]) + 1
        /\ \A i \in 1..Len(log[a]) : Append(log[a], e)[i] = log[a][i]
        /\ Append(log[a], e)[Len(log[a]) + 1] = e
    BY <1>1
  <1> QED BY <1>3, <1>4, <1>5

LEMMA RunLoopQuiet ==
  ASSUME TypeOK, NEW a \in Attempts, RunLoop(a)
  PROVE  /\ log' = log /\ flying' = flying
         /\ \A b \in Attempts : b # a =>
              /\ phase'[b] = phase[b] /\ step'[b] = step[b] /\ scope'[b] = scope[b]
              /\ logStart'[b] = logStart[b] /\ audit'[b] = audit[b]
  <1>1. CASE Begin(a) \/ RefuseDrift(a) \/ RestoreStep(a) \/ Complete(a)
    BY <1>1 DEF Begin, RefuseDrift, RestoreStep, Complete, stepVars, gates, TypeOK
  <1>2. CASE ExecuteStep(a)
    BY <1>2 DEF ExecuteStep, TypeOK
  <1>3. CASE CommitStep(a) \/ HaltOnOrphan(a)
    BY <1>3 DEF CommitStep, HaltOnOrphan, Returning, RecordStep, stepVars, gates, TypeOK
  <1>4. CASE FailStep(a)
    <2>1. audit' = audit \/ \E x : audit' = [audit EXCEPT ![a] = x]
      BY <1>4 DEF FailStep, RecordStep
    <2> QED BY <1>4, <2>1 DEF FailStep, stepVars, gates, TypeOK
  <1> QED BY <1>1, <1>2, <1>3, <1>4 DEF RunLoop

LEMMA ShimmedStays ==
  ASSUME TypeOK, ShimmedCalls, [Next]_vars
  PROVE  ShimmedCalls'
  <1>1. ASSUME log' = log, flying' \subseteq flying PROVE ShimmedCalls'
    BY <1>1 DEF ShimmedCalls, HasShim
  <1>2. ASSUME NEW a \in Attempts, NEW s \in Steps, NEW n \in 1..Len(prog[a][s]),
               Starts(a, s, n, prog[a][s][n])
        PROVE  ShimmedCalls'
    <2>1. HasShim(s, prog[a][s][n].tool) /\ log' = log
      BY <1>2 DEF Starts, Calling
    <2>2. \A f \in flying' : f \in flying \/ (f.step = s /\ f.call = prog[a][s][n])
      BY <1>2 DEF Starts
    <2> QED BY <2>1, <2>2 DEF ShimmedCalls, HasShim
  <1>3. ASSUME NEW a \in Attempts, NEW s, NEW n, NEW t, NEW r, Logged(a, s, n, t, r),
               r \in Done => HasShim(s, t), flying' \subseteq flying
        PROVE  ShimmedCalls'
    <2>1. \A b \in Attempts : \A i \in 1..Len(log'[b]) :
            log'[b][i].result \in Done => HasShim(log'[b][i].step, log'[b][i].tool)
      <3> TAKE b \in Attempts
      <3>1. CASE b # a
        BY <1>3, <3>1, LogGrows DEF ShimmedCalls
      <3>2. CASE b = a
        <4>1. \A i \in 1..Len(log[a]) :
                log[a][i].result \in Done => HasShim(log[a][i].step, log[a][i].tool)
          BY DEF ShimmedCalls
        <4> QED BY <1>3, <3>2, <4>1, LogGrows
      <3> QED BY <3>1, <3>2
    <2> QED BY <1>3, <2>1 DEF ShimmedCalls, HasShim
  <1>4. ASSUME NEW a \in Attempts, NEW s \in Steps, NEW n \in 1..Len(prog[a][s]),
               NEW r, Answers(a, s, n, prog[a][s][n], r)
        PROVE  ShimmedCalls'
    BY <1>3, <1>4 DEF Answers, Calling
  <1>5. ASSUME NEW f \in flying, NEW r, Ends(f, r)
        PROVE  ShimmedCalls'
    <2>1. f.att \in Attempts /\ HasShim(f.step, f.call.tool)
      BY DEF TypeOK, Flights, ShimmedCalls
    <2> QED BY <1>3, <1>5, <2>1 DEF Ends
  <1>6. Silent => log' = log /\ flying' \subseteq flying
    BY DEF Silent, Crashing
  <1> QED BY <1>1, <1>2, <1>4, <1>5, <1>6, RunLoopQuiet, LogSteps

\* A call that passes the gates and taints nothing runs under a trusted scope.
LEMMA SendsTrusted ==
  ASSUME TypeOK, NEW a \in Attempts, NEW s \in Steps, NEW n, NEW c, Calling(a, s, n, c),
         ClearsGates(a, s, c), Sends(c.tool)
  PROVE  ScopeOf(a, s)' = "trusted"
  <1>1. ClearsTaint(a, s, c) /\ scope' = scope
    BY GatesInOrder DEF Calling, GateEffects, Sends
  <1>2. ScopeOf(a, s) # "untrusted" /\ ScopeOf(a, s) \in Labels
    BY <1>1, WalkTypes DEF ClearsTaint, Sends
  <1> QED BY <1>1, <1>2 DEF ScopeOf, Labels

LEMMA ScopesOfOthers ==
  ASSUME TypeOK, NEW a \in Attempts, NEW s, NEW n, NEW c, Calling(a, s, n, c)
  PROVE  /\ UNCHANGED <<phase, step, logStart, audit>>
         /\ use.awaits => phase[a] = "running" /\ s = step[a] /\ InFlight(a) = {}
         /\ \A b \in Attempts : b # a => scope'[b] = scope[b]
  BY DEF Calling, Wants, InStep, GateEffects, TypeOK

LEMMA FlightsStayOwn ==
  ASSUME TypeOK, use.awaits, OwnFlights, [Next]_vars
  PROVE  OwnFlights'
  <1>0. \A f \in flying : f.att \in Attempts
    BY DEF TypeOK, Flights
  <1>1. CASE Silent
    BY <1>1 DEF Silent, Crashing, OwnFlights, ScopeOf
  <1>2. ASSUME NEW a \in Attempts, RunLoop(a) PROVE OwnFlights'
    <2>1. InFlight(a) = {}
      <3>1. CASE phase[a] # "running"
        BY <3>1 DEF OwnFlights, InFlight
      <3>2. CASE phase[a] = "running"
        BY <1>2, <3>2 DEF RunLoop, Begin, RefuseDrift, RestoreStep, ExecuteStep, Complete,
                          CommitStep, HaltOnOrphan, FailStep, Returning
      <3> QED BY <3>1, <3>2
    <2>2. \A f \in flying : f.att # a
      BY <2>1 DEF InFlight
    <2> QED BY <1>0, <1>2, <2>2, RunLoopQuiet DEF OwnFlights, ScopeOf
  <1>3. ASSUME NEW a \in Attempts, NEW s \in Steps, NEW n \in 1..Len(prog[a][s]), NEW c,
               Calling(a, s, n, c), NEW p,
               \/ flying' = flying
               \/ /\ ClearsGates(a, s, c)
                  /\ flying' = flying \cup
                       {[att |-> a, step |-> s, n |-> n, call |-> c, pos |-> p]}
        PROVE  OwnFlights'
    <2>1. /\ \A f \in flying : f.att # a
          /\ phase' = phase /\ step' = step /\ phase[a] = "running" /\ s = step[a]
          /\ \A b \in Attempts : b # a => scope'[b] = scope[b]
      BY <1>3, ScopesOfOthers DEF InFlight
    <2>2. ASSUME NEW f \in flying
          PROVE  /\ phase'[f.att] = "running" /\ f.step = step'[f.att]
                 /\ Sends(f.call.tool) => ScopeOf(f.att, f.step)' = "trusted"
      BY <1>0, <2>1 DEF OwnFlights, ScopeOf
    <2>3. ASSUME NEW f \in flying', f \notin flying
          PROVE  /\ phase'[f.att] = "running" /\ f.step = step'[f.att]
                 /\ Sends(f.call.tool) => ScopeOf(f.att, f.step)' = "trusted"
      <3>1. f.att = a /\ f.step = s /\ f.call = c /\ ClearsGates(a, s, c)
        BY <1>3, <2>3
      <3>2. Sends(c.tool) => ScopeOf(a, s)' = "trusted"
        BY <1>3, <3>1, SendsTrusted
      <3> QED BY <2>1, <3>1, <3>2 DEF ScopeOf
    <2> QED BY <2>2, <2>3 DEF OwnFlights, ScopeOf
  <1>4. ASSUME NEW f \in flying, NEW r, Ends(f, r) PROVE OwnFlights'
    BY <1>4 DEF Ends, OwnFlights, ScopeOf
  <1> QED BY <1>1, <1>2, <1>3, <1>4, LogSteps DEF Starts, Answers

LEMMA SentStaysTrusted ==
  ASSUME TypeOK, use.awaits, OwnFlights, SentTrusted, [Next]_vars
  PROVE  SentTrusted'
  <1>1. log' = log => SentTrusted'
    BY DEF SentTrusted
  <1>2. ASSUME NEW a \in Attempts, NEW s, NEW n, NEW t, NEW r, Logged(a, s, n, t, r),
               r \in Done /\ Sends(t) => ScopeOf(a, s)' = "trusted"
        PROVE  SentTrusted'
    <2>1. ASSUME NEW b \in Attempts, NEW i \in 1..Len(log'[b]), log'[b][i].result \in Done,
                 Sends(log'[b][i].tool)
          PROVE  log'[b][i].scope = "trusted"
      <3>1. CASE b # a
        BY <1>2, <2>1, <3>1, LogGrows DEF SentTrusted
      <3>2. CASE b = a /\ i \in 1..Len(log[a])
        <4>1. log'[b][i] = log[a][i]
          BY <1>2, <3>2, LogGrows
        <4> QED BY <2>1, <3>2, <4>1 DEF SentTrusted
      <3>3. CASE b = a /\ i = Len(log[a]) + 1
        BY <1>2, <2>1, <3>3, LogGrows
      <3> QED BY <1>2, <3>1, <3>2, <3>3, LogGrows
    <2> QED BY <2>1 DEF SentTrusted, Sends
  <1>3. ASSUME NEW a \in Attempts, NEW s \in Steps, NEW n \in 1..Len(prog[a][s]),
               NEW r, Answers(a, s, n, prog[a][s][n], r)
        PROVE  SentTrusted'
    BY <1>2, <1>3, SendsTrusted DEF Answers
  <1>4. ASSUME NEW f \in flying, NEW r, Ends(f, r)
        PROVE  SentTrusted'
    <2>1. f.att \in Attempts
      BY DEF TypeOK, Flights
    <2>2. Sends(f.call.tool) => ScopeOf(f.att, f.step)' = "trusted"
      BY <1>4 DEF Ends, OwnFlights, ScopeOf
    <2> QED BY <1>2, <1>4, <2>1, <2>2 DEF Ends
  <1> QED BY <1>1, <1>3, <1>4, RunLoopQuiet, LogSteps DEF Silent, Starts

LEMMA LogTypes ==
  ASSUME TypeOK, NEW a \in Attempts
  PROVE  Len(log[a]) \in Nat /\ logStart[a] \in Nat /\ log[a] \in Seq(LogEntries)
  <1>1. log[a] \in Seq(LogEntries) /\ logStart[a] \in Nat
    BY DEF TypeOK
  <1> QED BY <1>1

LEMMA LogStaysOwn ==
  ASSUME TypeOK, TypeOK', use.awaits, OwnFlights, OwnLog, [Next]_vars
  PROVE  OwnLog'
  <1> SUFFICES ASSUME NEW a \in Attempts, phase'[a] = "running"
               PROVE  /\ logStart'[a] <= Len(log'[a])
                      /\ \A i \in logStart'[a] + 1..Len(log'[a]) : log'[a][i].step = step'[a]
    BY DEF OwnLog
  <1>1. ASSUME phase[a] = "running", step'[a] = step[a], logStart'[a] = logStart[a],
               log'[a] = log[a]
        PROVE  /\ logStart'[a] <= Len(log'[a])
               /\ \A i \in logStart'[a] + 1..Len(log'[a]) : log'[a][i].step = step'[a]
    BY <1>1 DEF OwnLog
  <1>2. ASSUME NEW b \in Attempts, NEW n, NEW t, NEW r, phase[b] = "running",
               Logged(b, step[b], n, t, r), UNCHANGED <<phase, step, logStart>>
        PROVE  /\ logStart'[a] <= Len(log'[a])
               /\ \A i \in logStart'[a] + 1..Len(log'[a]) : log'[a][i].step = step'[a]
    <2>1. CASE b # a
      BY <1>1, <1>2, <2>1, LogGrows
    <2>2. CASE b = a
      <3>1. /\ logStart[a] <= Len(log[a]) /\ logStart[a] \in Nat /\ Len(log[a]) \in Nat
            /\ \A i \in logStart[a] + 1..Len(log[a]) : log[a][i].step = step[a]
        BY <1>2, <2>2, LogTypes DEF OwnLog
      <3>2. /\ Len(log'[a]) = Len(log[a]) + 1
            /\ \A i \in 1..Len(log[a]) : log'[a][i] = log[a][i]
            /\ log'[a][Len(log[a]) + 1].step = step[a]
        BY <1>2, <2>2, LogGrows
      <3>3. \A i \in logStart[a] + 1..Len(log[a]) + 1 :
              \/ i \in logStart[a] + 1..Len(log[a]) /\ i \in 1..Len(log[a])
              \/ i = Len(log[a]) + 1
        BY <3>1
      <3> QED BY <1>2, <3>1, <3>2, <3>3
    <2> QED BY <2>1, <2>2
  <1>3. CASE Silent
    BY <1>1, <1>3, CrashingType DEF Silent
  <1>4. ASSUME NEW b \in Attempts, b # a, RunLoop(b)
        PROVE  /\ logStart'[a] <= Len(log'[a])
               /\ \A i \in logStart'[a] + 1..Len(log'[a]) : log'[a][i].step = step'[a]
    BY <1>1, <1>4, RunLoopQuiet
  <1>5. ASSUME RunLoop(a), ~ExecuteStep(a) PROVE FALSE
    BY <1>5 DEF RunLoop, Begin, RefuseDrift, RestoreStep, Complete, CommitStep, HaltOnOrphan,
                FailStep, TypeOK
  <1>6. CASE ExecuteStep(a)
    <2>1. logStart'[a] = Len(log[a]) /\ log' = log /\ Len(log[a]) \in Nat
      BY <1>6, LogTypes DEF ExecuteStep, TypeOK
    <2>2. Len(log[a]) <= Len(log[a]) /\ Len(log[a]) + 1..Len(log[a]) = {}
      BY <2>1
    <2> QED BY <2>1, <2>2
  <1>7. ASSUME NEW b \in Attempts, NEW s \in Steps, NEW n \in 1..Len(prog[b][s]), NEW c,
               Calling(b, s, n, c), log' = log
        PROVE  /\ logStart'[a] <= Len(log'[a])
               /\ \A i \in logStart'[a] + 1..Len(log'[a]) : log'[a][i].step = step'[a]
    BY <1>1, <1>7, ScopesOfOthers
  <1>8. ASSUME NEW b \in Attempts, NEW s \in Steps, NEW n \in 1..Len(prog[b][s]), NEW c, NEW r,
               Answers(b, s, n, c, r)
        PROVE  /\ logStart'[a] <= Len(log'[a])
               /\ \A i \in logStart'[a] + 1..Len(log'[a]) : log'[a][i].step = step'[a]
    BY <1>2, <1>8, ScopesOfOthers DEF Answers
  <1>9. ASSUME NEW f \in flying, NEW r, Ends(f, r)
        PROVE  /\ logStart'[a] <= Len(log'[a])
               /\ \A i \in logStart'[a] + 1..Len(log'[a]) : log'[a][i].step = step'[a]
    <2>1. f.att \in Attempts /\ phase[f.att] = "running" /\ f.step = step[f.att]
      BY DEF TypeOK, Flights, OwnFlights
    <2> QED BY <1>2, <1>9, <2>1 DEF Ends
  <1> QED BY <1>3, <1>4, <1>5, <1>6, <1>7, <1>8, <1>9, LogSteps DEF Starts

LEMMA AuditStaysOwn ==
  ASSUME TypeOK, OwnLog, OwnAudit, [Next]_vars
  PROVE  OwnAudit'
  <1>1. audit' = audit => OwnAudit'
    BY DEF OwnAudit
  <1>2. ASSUME NEW a \in Attempts, phase[a] = "running", RecordStep(a) PROVE OwnAudit'
    <2> DEFINE r == [step |-> step[a], calls |-> StepCalls(a)]
    <2>1. \A i \in 1..Len(StepCalls(a)) : StepCalls(a)[i].step = step[a]
      <3>1. /\ log[a] \in Seq(LogEntries) /\ Len(log[a]) \in Nat /\ logStart[a] \in Nat
            /\ logStart[a] <= Len(log[a])
        BY <1>2, LogTypes DEF OwnLog
      <3>2. /\ Len(StepCalls(a)) = Len(log[a]) - logStart[a]
            /\ \A i \in 1..Len(StepCalls(a)) : StepCalls(a)[i] = log[a][logStart[a] + i]
        <4> DEFINE m == logStart[a] + 1
                   n == Len(log[a])
        <4>1. m \in Int /\ n \in Int /\ \A i \in m..n : log[a][i] \in LogEntries
          BY <3>1
        <4>2. /\ Len(StepCalls(a)) = IF m <= n THEN n - m + 1 ELSE 0
              /\ \A i \in 1..n - m + 1 : StepCalls(a)[i] = log[a][m + i - 1]
          BY <4>1, SubSeqProperties DEF StepCalls
        <4>3. Len(StepCalls(a)) = n - logStart[a] /\ n - m + 1 = n - logStart[a]
          BY <3>1, <4>2
        <4>4. \A i \in 1..n - logStart[a] : m + i - 1 = logStart[a] + i
          BY <3>1
        <4> HIDE DEF m, n
        <4> QED BY <4>2, <4>3, <4>4 DEF n
      <3>3. \A i \in 1..Len(log[a]) - logStart[a] :
              logStart[a] + i \in logStart[a] + 1..Len(log[a])
        BY <3>1
      <3> QED BY <1>2, <3>2, <3>3 DEF OwnLog
    <2>2. r.step = step[a] /\ r.calls = StepCalls(a)
      OBVIOUS
    <2>3. audit' = [audit EXCEPT ![a] = audit[a] \cup {r}]
      BY <1>2 DEF RecordStep
    <2> HIDE DEF r
    <2>4. \A b \in Attempts : \A q \in audit'[b] : q \in audit[b] \/ q = r
      BY <2>3 DEF TypeOK
    <2> QED BY <2>1, <2>2, <2>4 DEF OwnAudit
  <1>3. ASSUME NEW a \in Attempts, RunLoop(a) PROVE OwnAudit'
    BY <1>1, <1>2, <1>3 DEF RunLoop, Begin, RefuseDrift, RestoreStep, ExecuteStep, Complete,
                            CommitStep, HaltOnOrphan, FailStep, Returning
  <1> QED BY <1>1, <1>3, LogSteps DEF Silent, Starts, Answers, Calling, Ends

LEMMA LogInvariant == Spec => []LogInv
  <1>1. Init => LogInv
    <2> SUFFICES ASSUME Init PROVE LogInv
      OBVIOUS
    <2>1. flying = {} /\ \A a \in Attempts : log[a] = <<>> /\ audit[a] = {} /\ phase[a] = "idle"
      BY DEF Init
    <2>2. Len(<<>>) = 0 /\ 1..0 = {}
      OBVIOUS
    <2> QED BY <2>1, <2>2 DEF LogInv, ShimmedCalls, OwnFlights, SentTrusted, OwnLog, OwnAudit
  <1>2. TypeOK /\ TypeOK' /\ LogInv /\ [Next]_vars => LogInv'
    <2> SUFFICES ASSUME TypeOK, TypeOK', LogInv, [Next]_vars PROVE LogInv'
      OBVIOUS
    <2>1. use' = use
      BY DEF Next, vars
    <2>2. ShimmedCalls'
      BY ShimmedStays DEF LogInv
    <2>3. ASSUME use.awaits PROVE OwnFlights' /\ SentTrusted' /\ OwnLog' /\ OwnAudit'
      BY <2>3, FlightsStayOwn, SentStaysTrusted, LogStaysOwn, AuditStaysOwn DEF LogInv
    <2> QED BY <2>1, <2>2, <2>3 DEF LogInv
  <1> QED BY <1>1, <1>2, TypeCorrect, PTL DEF Spec

(* A step record holds the calls of that step only, for any agents that    *)
(* await their calls, crashes, overlapping attempts and failures.          *)
THEOREM AuditOwn == Spec => []AuditIsOwn
  <1>1. LogInv => AuditIsOwn
    BY DEF LogInv, OwnAudit, AuditIsOwn
  <1> QED BY <1>1, LogInvariant, PTL
-----------------------------------------------------------------------------
(* Receipts.  What a receipt observed is clean, and if agents await their  *)
(* calls it is still the log of its attempt, which has ended.              *)
ReceiptInv == \A r \in receipts :
  /\ Strays(r.observed) = {}
  /\ use.awaits =>
       /\ r.att \in Attempts /\ phase[r.att] \in Ended
       /\ r.observed = ObserveAll(log[r.att]) /\ r.verdict = Evaluate(r.observed)
       /\ \A i \in Leaks(r.observed) : r.observed[i].tool \in UntrustedSource

LEMMA ConfinedIsRun == ConfinedSpec => Spec
  <1>1. ConfinedInit => Init
    BY DEF ConfinedInit
  <1>2. [ConfinedNext]_<<vars, receipts>> => [Next]_vars
    BY DEF ConfinedNext
  <1> QED BY <1>1, <1>2, PTL DEF ConfinedSpec, Spec

LEMMA ShimmedIsFact ==
  ASSUME NEW s \in Steps, NEW t \in Tools, HasShim(s, t)
  PROVE  <<s, t>> \in Facts
  BY DEF Facts, HasShim

LEMMA Observed ==
  ASSUME NEW l \in Seq(LogEntries)
  PROVE  /\ DOMAIN ObserveAll(l) = 1..Len(l)
         /\ \A i \in 1..Len(l) :
              /\ l[i].step \in Steps /\ l[i].tool \in Tools
              /\ ObserveAll(l)[i].step = l[i].step /\ ObserveAll(l)[i].tool = l[i].tool
              /\ ObserveAll(l)[i].result = l[i].result /\ ObserveAll(l)[i].scope = l[i].scope
              /\ ObserveAll(l)[i].exfil = (l[i].tool \in Exfil \cap Registered)
  <1>1. DOMAIN l = 1..Len(l) /\ \A i \in 1..Len(l) : l[i] \in LogEntries
    OBVIOUS
  <1>2. \A e \in LogEntries : /\ e.step \in Steps /\ e.tool \in Tools
                              /\ Observe(e).step = e.step /\ Observe(e).tool = e.tool
                              /\ Observe(e).result = e.result /\ Observe(e).scope = e.scope
                              /\ Observe(e).exfil = (e.tool \in Exfil \cap Registered)
    BY DEF LogEntries, Observe
  <1>3. \A i \in 1..Len(l) : ObserveAll(l)[i] = Observe(l[i])
    BY <1>1 DEF ObserveAll
  <1>4. DOMAIN ObserveAll(l) = 1..Len(l)
    BY <1>1 DEF ObserveAll
  <1> QED BY <1>1, <1>2, <1>3, <1>4

\* What is observed of a log whose executed calls are declared and whose
\* executed sends are trusted.
LEMMA CleanLog ==
  ASSUME NEW l \in Seq(LogEntries),
         \A i \in 1..Len(l) : l[i].result \in Done => HasShim(l[i].step, l[i].tool)
  PROVE  /\ Strays(ObserveAll(l)) = {}
         /\ (\A i \in 1..Len(l) :
               l[i].result \in Done /\ Sends(l[i].tool) => l[i].scope = "trusted")
            => \A i \in Leaks(ObserveAll(l)) : ObserveAll(l)[i].tool \in UntrustedSource
  <1>1. Executed = Done
    BY DEF Executed, Done
  <1>2. \A i \in 1..Len(l) : l[i].result \in Executed => <<l[i].step, l[i].tool>> \in Facts
    BY <1>1, Observed, ShimmedIsFact
  <1>3. Strays(ObserveAll(l)) = {}
    BY <1>2, Observed DEF Strays
  <1>4. ASSUME NEW i \in Leaks(ObserveAll(l)),
               \A k \in 1..Len(l) :
                 l[k].result \in Done /\ Sends(l[k].tool) => l[k].scope = "trusted"
        PROVE  ObserveAll(l)[i].tool \in UntrustedSource
    <2>1. /\ i \in 1..Len(l) /\ l[i].result \in Executed
          /\ l[i].tool \in Exfil /\ l[i].scope = "untrusted"
      BY Observed DEF Leaks
    <2>2. ~Sends(l[i].tool)
      BY <1>1, <1>4, <2>1
    <2> QED BY <2>1, <2>2, Observed DEF Sends
  <1> QED BY <1>3, <1>4

\* The log of an attempt that has returned is not written again.
LEMMA EndedIsQuiet ==
  ASSUME TypeOK, use.awaits, OwnFlights, [Next]_vars, NEW a \in Attempts, phase[a] \in Ended
  PROVE  phase'[a] = phase[a] /\ log'[a] = log[a]
  <1>1. ~Live(a) /\ phase[a] # "idle" /\ phase[a] # "running" /\ phase[a] # "entering"
    BY DEF Ended, Live
  <1>2. ASSUME NEW b \in Attempts, RunLoop(b) PROVE phase'[a] = phase[a] /\ log'[a] = log[a]
    <2>1. b # a
      BY <1>1, <1>2 DEF RunLoop, Begin, RefuseDrift, RestoreStep, ExecuteStep, Complete,
                        CommitStep, HaltOnOrphan, FailStep, Returning
    <2> QED BY <1>2, <2>1, RunLoopQuiet
  <1>3. ASSUME NEW b \in Attempts, b # a, NEW s, NEW n, NEW t, NEW r, Logged(b, s, n, t, r)
        PROVE  log'[a] = log[a]
    BY <1>3, LogGrows
  <1>4. ASSUME NEW b \in Attempts, NEW s, NEW n, NEW c, Calling(b, s, n, c)
        PROVE  phase' = phase /\ b # a
    BY <1>1, <1>4 DEF Calling, Wants, InStep
  <1>5. ASSUME NEW f \in flying, NEW r, Ends(f, r)
        PROVE  phase'[a] = phase[a] /\ log'[a] = log[a]
    <2>1. f.att \in Attempts /\ phase[f.att] = "running"
      BY DEF TypeOK, Flights, OwnFlights
    <2>2. f.att # a
      BY <1>1, <2>1
    <2> QED BY <1>3, <1>5, <2>1, <2>2 DEF Ends
  <1>6. ASSUME NEW b \in Attempts, NEW s \in Steps, NEW n \in 1..Len(prog[b][s]), NEW c,
               Starts(b, s, n, c) \/ \E r \in Outcomes : Answers(b, s, n, c, r)
        PROVE  phase'[a] = phase[a] /\ log'[a] = log[a]
    BY <1>3, <1>4, <1>6 DEF Starts, Answers
  <1>7. Silent => phase'[a] = phase[a] /\ log' = log
    BY <1>1 DEF Silent, Crashing, Active, TypeOK
  <1> QED BY <1>2, <1>5, <1>6, <1>7, LogSteps

LEMMA ReceiptStep ==
  ASSUME TypeOK, TypeOK', LogInv, LogInv', ReceiptInv, [ConfinedNext]_<<vars, receipts>>
  PROVE  ReceiptInv'
  <1>1. [Next]_vars /\ use' = use
    BY DEF ConfinedNext, Next, vars
  <1>2. ASSUME NEW r \in receipts
        PROVE  /\ Strays(r.observed)' = {}
               /\ use.awaits =>
                    /\ r.att \in Attempts /\ phase'[r.att] \in Ended
                    /\ r.observed = ObserveAll(log'[r.att]) /\ r.verdict = Evaluate(r.observed)
                    /\ \A i \in Leaks(r.observed) : r.observed[i].tool \in UntrustedSource
    <2>1. Strays(r.observed)' = Strays(r.observed)
      BY DEF Strays
    <2> QED BY <1>1, <2>1, EndedIsQuiet DEF ReceiptInv, LogInv
  <1>3. ASSUME NEW r \in receipts', r \notin receipts
        PROVE  /\ Strays(r.observed) = {}
               /\ use.awaits =>
                    /\ r.att \in Attempts /\ phase'[r.att] \in Ended
                    /\ r.observed = ObserveAll(log'[r.att]) /\ r.verdict = Evaluate(r.observed)
                    /\ \A i \in Leaks(r.observed) : r.observed[i].tool \in UntrustedSource
    <2>1. PICK a \in Attempts : phase'[a] \in Ended /\ r = Mint(a, phase'[a], log'[a])
      BY <1>3 DEF ConfinedNext, Minting
    <2>2. /\ r.att = a /\ r.observed = ObserveAll(log'[a])
          /\ r.verdict = Evaluate(ObserveAll(log'[a]))
      BY <2>1 DEF Mint
    <2>3. /\ log'[a] \in Seq(LogEntries)
          /\ \A i \in 1..Len(log'[a]) :
               log'[a][i].result \in Done => HasShim(log'[a][i].step, log'[a][i].tool)
      BY DEF TypeOK, LogInv, ShimmedCalls, HasShim
    <2>4. use.awaits => \A i \in 1..Len(log'[a]) :
            log'[a][i].result \in Done /\ Sends(log'[a][i].tool) => log'[a][i].scope = "trusted"
      BY <1>1 DEF LogInv, SentTrusted, Sends
    <2> QED BY <2>1, <2>2, <2>3, <2>4, CleanLog
  <1> QED BY <1>1, <1>2, <1>3 DEF ReceiptInv, Strays

(* A receipt stands whenever it is checked again: for any topology, agents *)
(* and caps, whatever halted, crashed or overlapped.                       *)
THEOREM ReceiptsStand == ConfinedSpec => []ReceiptStands
  <1>1. ConfinedInit => ReceiptInv
    BY DEF ConfinedInit, ReceiptInv
  <1>2. TypeOK /\ TypeOK' /\ LogInv /\ LogInv' /\ ReceiptInv /\ [ConfinedNext]_<<vars, receipts>>
        => ReceiptInv'
    BY ReceiptStep
  <1>3. ReceiptInv => ReceiptStands
    BY DEF ReceiptInv, ReceiptStands, Verify, Evaluate
  <1> QED BY <1>1, <1>2, <1>3, ConfinedIsRun, TypeCorrect, LogInvariant, PTL DEF ConfinedSpec
-----------------------------------------------------------------------------
(* Accounts.  The numbered effects in the log of an attempt are the first  *)
(* entries of the step in the ledger: of the running step all up to its    *)
(* cursor but the one in flight, of the steps in its audit all there are.  *)
EffectCount(l, s) == Cardinality(Effects(l, s))
Entered(s, ps) == {<<e.pos, e.key[1]>> : e \in {x \in ledger : x.step = s /\ x.pos \in ps}}

LedgeredFlights == \A f \in flying : f.pos # 0 <=> Ledgered(f.call)

\* What is logged is of steps the attempt has reached.
Reached(a) ==
  /\ phase[a] = "idle" => log[a] = <<>> /\ audit[a] = {}
  /\ Live(a) => \A i \in 1..Len(log[a]) :
       \/ log[a][i].step < step[a]
       \/ phase[a] = "running" /\ log[a][i].step = step[a]

RunAccounts(a) ==
  LET s == step[a]
      n == EffectCount(log[a], s) IN
  /\ Numbered(log[a], s) = Entered(s, 1..n)
  /\ \A f, g \in InFlight(a) : f = g
  /\ (\A f \in InFlight(a) : f.pos = 0) => cursor[a][s] = n
  /\ \A f \in InFlight(a) : f.pos # 0 => f.pos = n + 1 /\ cursor[a][s] = n + 1

AuditAccounts(a) == \A r \in audit[a] :
  /\ r.step \in Steps /\ checkpoint[r.step] # None
  /\ Numbered(log[a], r.step) = Entered(r.step, Nat)

AccountInv ==
  /\ HasLedger => LedgeredFlights
  /\ Careful /\ HasLedger => \A a \in Attempts :
       /\ Reached(a)
       /\ phase[a] = "running" /\ code[a] = None => RunAccounts(a)
       /\ Live(a) \/ phase[a] = "completed" => AuditAccounts(a)

\* A list that has grown by one call.
Grows(l, m) == /\ l \in Seq(LogEntries) /\ m \in Seq(LogEntries) /\ Len(m) = Len(l) + 1
               /\ \A i \in 1..Len(l) : m[i] = l[i]
IsEffect(e, s) == e.step = s /\ e.result \in Executed /\ e.tool \notin ReadOnly

LEMMA EffectTypes ==
  ASSUME NEW l \in Seq(LogEntries), NEW s
  PROVE  /\ Effects(l, s) = {i \in 1..Len(l) : IsEffect(l[i], s)}
         /\ IsFiniteSet(Effects(l, s)) /\ EffectCount(l, s) \in Nat /\ Len(l) \in Nat
  <1>1. DOMAIN l = 1..Len(l) /\ Len(l) \in Nat
    OBVIOUS
  <1>2. Effects(l, s) = {i \in 1..Len(l) : IsEffect(l[i], s)}
    BY <1>1 DEF Effects, IsEffect
  <1>3. Effects(l, s) \in SUBSET (1..Len(l)) /\ IsFiniteSet(1..Len(l))
    BY <1>1, <1>2, FS_Interval
  <1> QED BY <1>1, <1>2, <1>3, FS_Subset, FS_CardinalityType DEF EffectCount

LEMMA EffectsGrow ==
  ASSUME NEW l, NEW m, Grows(l, m), NEW s
  PROVE  /\ ~IsEffect(m[Len(m)], s) =>
              Numbered(m, s) = Numbered(l, s) /\ EffectCount(m, s) = EffectCount(l, s)
         /\ IsEffect(m[Len(m)], s) =>
              /\ EffectCount(m, s) = EffectCount(l, s) + 1
              /\ Numbered(m, s) =
                   Numbered(l, s) \cup {<<EffectCount(l, s) + 1, m[Len(m)].tool>>}
  <1> DEFINE E == Effects(l, s)
             F == Effects(m, s)
             k == Len(m)
  <1>1. /\ Len(l) \in Nat /\ k = Len(l) + 1 /\ \A i \in 1..Len(l) : m[i] = l[i]
        /\ E = {i \in 1..Len(l) : IsEffect(l[i], s)} /\ F = {i \in 1..k : IsEffect(m[i], s)}
        /\ IsFiniteSet(E)
    BY EffectTypes DEF Grows
  <1>2. /\ E \subseteq 1..Len(l) /\ k \notin E /\ k \in Nat
        /\ \A i \in F : i \in E \/ i = k
        /\ \A i \in E : i \in F /\ m[i] = l[i]
        /\ k \in F <=> IsEffect(m[k], s)
    BY <1>1
  <1>3. \A i \in E : {j \in F : j <= i} = {j \in E : j <= i}
    BY <1>1, <1>2
  <1> DEFINE Nl(i) == <<Cardinality({j \in E : j <= i}), l[i].tool>>
             Nm(i) == <<Cardinality({j \in F : j <= i}), m[i].tool>>
  <1>4. \A i \in E : Nm(i) = Nl(i)
    BY <1>2, <1>3
  <1>5. Numbered(l, s) = {Nl(i) : i \in E} /\ Numbered(m, s) = {Nm(i) : i \in F}
    BY DEF Numbered
  <1>6. EffectCount(l, s) = Cardinality(E) /\ EffectCount(m, s) = Cardinality(F)
    BY DEF EffectCount
  <1>7. ASSUME ~IsEffect(m[k], s)
        PROVE  Numbered(m, s) = Numbered(l, s) /\ EffectCount(m, s) = EffectCount(l, s)
    <2>1. F = E
      BY <1>2, <1>7
    <2> HIDE DEF E, F, Nl, Nm
    <2> QED BY <1>4, <1>5, <1>6, <2>1
  <1>8. ASSUME IsEffect(m[k], s)
        PROVE  /\ EffectCount(m, s) = EffectCount(l, s) + 1
               /\ Numbered(m, s) =
                    Numbered(l, s) \cup {<<EffectCount(l, s) + 1, m[k].tool>>}
    <2>1. F = E \cup {k}
      BY <1>2, <1>8
    <2>2. Cardinality(F) = Cardinality(E) + 1
      <3>1. IsFiniteSet(E) /\ k \notin E
        BY <1>1, <1>2
      <3> HIDE DEF E, F, k
      <3>2. Cardinality(E \cup {k}) = Cardinality(E) + 1
        BY <3>1, FS_AddElement
      <3> QED BY <2>1, <3>2
    <2>3. {j \in F : j <= k} = F
      BY <1>1
    <2>4. Nm(k) = <<Cardinality(F), m[k].tool>>
      BY <2>3
    <2> HIDE DEF E, F, Nl, Nm, k
    <2>5. {Nm(i) : i \in F} = {Nl(i) : i \in E} \cup {Nm(k)}
      BY <1>4, <2>1
    <2> QED BY <1>5, <1>6, <2>2, <2>4, <2>5
  <1> QED BY <1>7, <1>8

\* An entry appended to a log is that call's.
LEMMA LogAppends ==
  ASSUME TypeOK, TypeOK', NEW a \in Attempts, NEW s, NEW n, NEW t, NEW r, Logged(a, s, n, t, r)
  PROVE  /\ Grows(log[a], log'[a]) /\ Len(log'[a]) = Len(log[a]) + 1
         /\ log'[a][Len(log'[a])].step = s /\ log'[a][Len(log'[a])].tool = t
         /\ log'[a][Len(log'[a])].result = r
  <1>1. log[a] \in Seq(LogEntries) /\ log'[a] \in Seq(LogEntries)
    BY DEF TypeOK
  <1> QED BY <1>1, LogGrows DEF Grows

LEMMA LedgeredFlightsStay ==
  ASSUME TypeOK, LedgeredFlights, [Next]_vars
  PROVE  LedgeredFlights'
  <1>1. ASSUME flying' \subseteq flying PROVE LedgeredFlights'
    BY <1>1 DEF LedgeredFlights, Ledgered
  <1>2. ASSUME NEW a \in Attempts, FireEffect(a) PROVE LedgeredFlights'
    <2>1. PICK s \in Steps, n \in Nat :
            /\ n \in 1..Len(prog[a][s])
            /\ Ledgered(prog[a][s][n])
            /\ flying' = flying \cup
                 {[att |-> a, step |-> s, n |-> n, call |-> prog[a][s][n],
                   pos |-> NextPosition(a, s)]}
      BY <1>2 DEF FireEffect, TakesPosition
    <2>2. NextPosition(a, s) # 0
      BY PositionTypes DEF NextPosition
    <2>3. \A f \in flying' : f \in flying \/ (f.call = prog[a][s][n] /\ f.pos = NextPosition(a, s))
      BY <2>1
    <2> QED BY <2>1, <2>2, <2>3 DEF LedgeredFlights, Ledgered
  <1>3. ASSUME NEW a \in Attempts, CallUnledgered(a) PROVE LedgeredFlights'
    <2>1. PICK s \in Steps, n \in Nat :
            /\ n \in 1..Len(prog[a][s])
            /\ ~Ledgered(prog[a][s][n])
            /\ flying' = flying \cup
                 {[att |-> a, step |-> s, n |-> n, call |-> prog[a][s][n], pos |-> 0]}
      BY <1>3 DEF CallUnledgered
    <2>2. \A f \in flying' : f \in flying \/ (f.call = prog[a][s][n] /\ f.pos = 0)
      BY <2>1
    <2> QED BY <2>1, <2>2 DEF LedgeredFlights, Ledgered
  <1>4. ASSUME NEW a \in Attempts, Invoke(a) PROVE LedgeredFlights'
    BY <1>1, <1>2, <1>3, <1>4 DEF Invoke, DenyCall, PendingWriteFails, ReplayEffect,
                RefuseEffect, RefuseUndeclared
  <1>5. ASSUME NEW a \in Attempts, RunLoop(a) PROVE LedgeredFlights'
    BY <1>1, <1>5, RunLoopQuiet
  <1>6. ASSUME NEW f \in flying, Finish(f) PROVE LedgeredFlights'
    BY <1>1, <1>6 DEF Finish
  <1>7. Crashing => LedgeredFlights'
    BY <1>1 DEF Crashing
  <1>8. UNCHANGED vars => LedgeredFlights'
    BY <1>1 DEF vars
  <1> QED BY <1>4, <1>5, <1>6, <1>7, <1>8 DEF Next, Step, Crash, CrashBeforeFire

LEMMA LogStaysReached ==
  ASSUME TypeOK, TypeOK', use.awaits, OwnFlights, \A a \in Attempts : Reached(a), [Next]_vars
  PROVE  \A a \in Attempts : Reached(a)'
  <1>0. \A a \in Attempts : step[a] \in Nat /\ \A i \in 1..Len(log[a]) : log[a][i].step \in Nat
    <2> TAKE a \in Attempts
    <2>1. log[a] \in Seq(LogEntries) /\ step[a] \in Nat
      BY DEF TypeOK
    <2>2. \A e \in LogEntries : e.step \in Nat
      BY ConstantsAssumption DEF LogEntries, Steps
    <2> QED BY <2>1, <2>2
  <1>1. ASSUME NEW a \in Attempts, phase'[a] = phase[a] \/ (~Live(a)' /\ phase'[a] # "idle"),
               step'[a] = step[a], log'[a] = log[a], audit'[a] = audit[a]
        PROVE  Reached(a)'
    BY <1>1 DEF Reached, Live
  <1>2. ASSUME NEW a \in Attempts, NEW n, NEW t, NEW r, phase[a] = "running",
               Logged(a, step[a], n, t, r), UNCHANGED <<phase, step, audit>>
        PROVE  \A b \in Attempts : Reached(b)'
    <2>1. ASSUME NEW b \in Attempts, b # a PROVE Reached(b)'
      <3>1. log'[b] = log[b]
        BY <1>2, <2>1, LogGrows
      <3> QED BY <1>1, <1>2, <3>1
    <2>2. Reached(a)'
      <3>1. ASSUME NEW i \in 1..Len(log'[a])
            PROVE  \/ log'[a][i].step < step'[a]
                   \/ phase'[a] = "running" /\ log'[a][i].step = step'[a]
        <4>1. CASE i \in 1..Len(log[a])
          <5>1. log'[a][i] = log[a][i]
            BY <1>2, <4>1, LogGrows
          <5> QED BY <1>2, <4>1, <5>1 DEF Reached, Live
        <4>2. CASE i = Len(log[a]) + 1
          BY <1>2, <4>2, LogGrows
        <4> QED BY <1>2, <4>1, <4>2, LogGrows
      <3> QED BY <1>2, <3>1 DEF Reached
    <2> QED BY <2>1, <2>2
  <1>3. ASSUME Silent PROVE \A a \in Attempts : Reached(a)'
    <2>1. \A a \in Attempts : phase'[a] = phase[a] \/ (~Live(a)' /\ phase'[a] # "idle")
      <3>1. CASE Crashing
        BY <3>1 DEF Crashing, Live
      <3>2. CASE phase' = phase
        BY <3>2
      <3> QED BY <1>3, <3>1, <3>2 DEF Silent
    <2> QED BY <1>1, <1>3, <2>1 DEF Silent
  <1>4. ASSUME NEW a \in Attempts, RunLoop(a) PROVE \A b \in Attempts : Reached(b)'
    <2>1. log' = log /\ \A b \in Attempts : b # a => Reached(b)'
      BY <1>1, <1>4, RunLoopQuiet
    <2>0. DOMAIN phase = Attempts
      BY DEF TypeOK
    <2>2. ASSUME RefuseDrift(a) \/ Complete(a) \/ HaltOnOrphan(a) \/ FailStep(a)
          PROVE  Reached(a)'
      <3>1. phase'[a] = "halted" \/ phase'[a] = "completed"
        BY <2>0, <2>2 DEF RefuseDrift, Complete, HaltOnOrphan, FailStep
      <3> QED BY <3>1 DEF Reached, Live
    <2>3. ASSUME Begin(a) PROVE Reached(a)'
      <3>1. log[a] = <<>> /\ phase'[a] = "entering"
        BY <2>0, <2>3 DEF Begin, Reached
      <3>2. \A i \in 1..Len(log'[a]) : FALSE
        BY <2>1, <3>1
      <3> QED BY <3>1, <3>2 DEF Reached
    <2>4. ASSUME RestoreStep(a) PROVE Reached(a)'
      <3>1. phase[a] = "entering" /\ phase'[a] = "entering" /\ step'[a] = step[a] + 1
        BY <2>4 DEF RestoreStep, TypeOK
      <3> QED BY <1>0, <2>1, <3>1 DEF Reached, Live
    <2>5. ASSUME ExecuteStep(a) PROVE Reached(a)'
      <3>1. phase[a] = "entering" /\ phase'[a] = "running" /\ step'[a] = step[a]
        BY <2>5 DEF ExecuteStep, TypeOK
      <3> QED BY <2>1, <3>1 DEF Reached, Live
    <2>6. ASSUME CommitStep(a) PROVE Reached(a)'
      <3>1. phase[a] = "running" /\ phase'[a] = "entering" /\ step'[a] = step[a] + 1
        BY <2>6 DEF CommitStep, Returning, TypeOK
      <3> QED BY <1>0, <2>1, <3>1 DEF Reached, Live
    <2>7. Reached(a)'
      BY <1>4, <2>2, <2>3, <2>4, <2>5, <2>6 DEF RunLoop
    <2> QED BY <2>1, <2>7
  <1>5. ASSUME NEW a \in Attempts, NEW s \in Steps, NEW n \in 1..Len(prog[a][s]), NEW c,
               Calling(a, s, n, c), log' = log
        PROVE  \A b \in Attempts : Reached(b)'
    BY <1>1, <1>5, ScopesOfOthers
  <1>6. ASSUME NEW a \in Attempts, NEW s \in Steps, NEW n \in 1..Len(prog[a][s]), NEW c, NEW r,
               Answers(a, s, n, c, r)
        PROVE  \A b \in Attempts : Reached(b)'
    BY <1>2, <1>6, ScopesOfOthers DEF Answers
  <1>7. ASSUME NEW f \in flying, NEW r, Ends(f, r) PROVE \A b \in Attempts : Reached(b)'
    <2>1. f.att \in Attempts /\ phase[f.att] = "running" /\ f.step = step[f.att]
      BY DEF TypeOK, Flights, OwnFlights
    <2> QED BY <1>2, <1>7, <2>1 DEF Ends
  <1> QED BY <1>3, <1>4, <1>5, <1>6, <1>7, LogSteps DEF Starts

\* Entries of a step at some positions, if no step adds one there.
LEMMA EnteredStays ==
  ASSUME TypeOK, [Next]_vars, NEW s, NEW ps,
         \A d \in ledger' : d.step = s /\ d.pos \in ps =>
           \E e \in ledger : d.step = e.step /\ d.pos = e.pos /\ d.key = e.key
  PROVE  Entered(s, ps)' = Entered(s, ps)
  <1>1. \A e \in ledger : \E d \in ledger' : d.step = e.step /\ d.pos = e.pos /\ d.key = e.key
    BY EntriesKeep
  <1>2. ASSUME NEW x \in Entered(s, ps) PROVE x \in Entered(s, ps)'
    <2>1. PICK e \in ledger : e.step = s /\ e.pos \in ps /\ x = <<e.pos, e.key[1]>>
      BY DEF Entered
    <2>2. PICK d \in ledger' : d.step = e.step /\ d.pos = e.pos /\ d.key = e.key
      BY <1>1
    <2> QED BY <2>1, <2>2 DEF Entered
  <1>3. ASSUME NEW x \in Entered(s, ps)' PROVE x \in Entered(s, ps)
    <2>1. PICK d \in ledger' : d.step = s /\ d.pos \in ps /\ x = <<d.pos, d.key[1]>>
      BY DEF Entered
    <2>2. PICK e \in ledger : d.step = e.step /\ d.pos = e.pos /\ d.key = e.key
      BY <2>1
    <2> QED BY <2>1, <2>2 DEF Entered
  <1> QED BY <1>2, <1>3

\* An entry at the next position adds its tool to those up to it.
LEMMA EnteredNext ==
  ASSUME OneEntryEach, NEW n \in Nat, NEW e \in ledger, e.pos = n + 1
  PROVE  Entered(e.step, 1..n + 1) = Entered(e.step, 1..n) \cup {<<n + 1, e.key[1]>>}
  <1>1. 1..n + 1 = (1..n) \cup {n + 1}
    OBVIOUS
  <1>2. \A d \in ledger : d.step = e.step /\ d.pos = n + 1 => d = e
    BY DEF OneEntryEach
  <1>3. \A d \in ledger : d.step = e.step /\ d.pos \in 1..n + 1 =>
          d = e \/ d.pos \in 1..n
    BY <1>1, <1>2
  <1>4. e.pos \in 1..n + 1
    BY <1>1
  <1>5. \A d \in ledger : d.pos \in 1..n => d.pos \in 1..n + 1
    BY <1>1
  <1> DEFINE W(m) == {x \in ledger : x.step = e.step /\ x.pos \in m}
  <1>6. W(1..n + 1) = W(1..n) \cup {e}
    BY <1>3, <1>4, <1>5
  <1>7. \A m : Entered(e.step, m) = {<<d.pos, d.key[1]>> : d \in W(m)}
    BY DEF Entered
  <1> HIDE DEF W
  <1> QED BY <1>6, <1>7

LEMMA AccountsStart ==
  ASSUME TypeOK, MatchInv, OwnFlights, NEW a \in Attempts, Reached(a), ExecuteStep(a)
  PROVE  RunAccounts(a)'
  <1> DEFINE s == step[a]
             l == log[a]
  <1>1. /\ phase[a] = "entering" /\ s \in Steps /\ l \in Seq(LogEntries) /\ s \in Nat
        /\ step'[a] = s /\ log'[a] = l /\ ledger' = ledger
        /\ cursor' = cursor /\ flying' = flying
    BY PositionTypes DEF ExecuteStep, TypeOK, durable
  <1>2. cursor[a][s] = 0
    BY <1>1 DEF MatchInv, CursorAhead
  <1>3. InFlight(a) = {}
    BY <1>1 DEF InFlight, OwnFlights
  <1>4. Effects(l, s) = {}
    BY <1>1, EffectTypes DEF Reached, Live, IsEffect
  <1>5. EffectCount(l, s) = 0 /\ Numbered(l, s) = {}
    BY <1>4, FS_EmptySet DEF EffectCount, Numbered
  <1>6. Entered(s, 1..0) = {}
    BY DEF Entered
  <1>7. InFlight(a)' = {} /\ Entered(s, 1..0)' = {} /\ cursor'[a][s] = 0
    BY <1>1, <1>2, <1>3, <1>6 DEF InFlight, Entered
  <1> HIDE DEF s, l
  <1> QED BY <1>1, <1>5, <1>7 DEF RunAccounts, s, l

LEMMA AccountsRest ==
  ASSUME NEW a \in Attempts, RunAccounts(a), log'[a] = log[a], cursor'[a] = cursor[a],
         step'[a] = step[a], ledger' = ledger, InFlight(a)' = InFlight(a)
  PROVE  RunAccounts(a)'
  BY DEF RunAccounts, Entered

\* A running attempt's next call, if no exception is pending after it.
LEMMA AccountsInvoke ==
  ASSUME TypeOK, TypeOK', OneEntryEach, HasLedger, Careful, NEW a \in Attempts,
         phase[a] = "running", code[a] = None, RunAccounts(a), [Next]_vars, Invoke(a),
         code'[a] = None
  PROVE  RunAccounts(a)'
  <1> DEFINE l == log[a]
  <1>a. PICK s, n : s = step[a] /\ n = EffectCount(l, s)
    OBVIOUS
  <1>0. /\ s \in Steps /\ l \in Seq(LogEntries) /\ n \in Nat
        /\ Numbered(l, s) = Entered(s, 1..n)
    BY <1>a, EffectTypes DEF TypeOK, RunAccounts
  <1>1. ASSUME NEW t, NEW m, NEW c, Calling(a, t, m, c)
        PROVE  t = s /\ InFlight(a) = {} /\ step' = step /\ cursor[a][s] = n
    BY <1>a, <1>1, ScopesOfOthers DEF Careful, RunAccounts
  <1>2. ASSUME NEW t, NEW m, NEW c, TakesPosition(a, t, m, c, NextPosition(a, t))
        PROVE  /\ t = s /\ InFlight(a) = {} /\ step' = step /\ NextPosition(a, s) = n + 1
               /\ cursor'[a][s] = n + 1
    <2>1. t = s /\ InFlight(a) = {} /\ step' = step /\ cursor[a][s] = n
      BY <1>1, <1>2 DEF TakesPosition
    <2>2. cursor' = [cursor EXCEPT ![a] = [cursor[a] EXCEPT ![s] = n + 1]]
      BY <1>2, <2>1 DEF TakesPosition, NextPosition
    <2>3. cursor'[a][s] = n + 1
      BY <1>0, <2>2, PositionTypes DEF TypeOK
    <2> QED BY <2>1, <2>3 DEF NextPosition
  <1>3. CASE RefuseUndeclared(a)
    BY <1>3, AccountsRest DEF RefuseUndeclared, gates, durable, InFlight
  <1>4. CASE DenyCall(a)
    <2>1. PICK t \in Steps, m \in Nat :
            /\ m \in 1..Len(prog[a][t])
            /\ Calling(a, t, m, prog[a][t][m])
            /\ Logged(a, t, m, prog[a][t][m].tool, DenialCode(a, t, prog[a][t][m]))
            /\ ledger' = ledger /\ cursor' = cursor /\ flying' = flying
      BY <1>4 DEF DenyCall
    <2>2. DenialCode(a, t, prog[a][t][m]) \notin Executed
      BY DenialIsCode DEF Codes, Executed
    <2>3. Grows(l, log'[a]) /\ ~IsEffect(log'[a][Len(log'[a])], s)
      BY <2>1, <2>2, LogAppends DEF IsEffect
    <2>4. Numbered(log'[a], s) = Numbered(l, s) /\ EffectCount(log'[a], s) = n
      BY <1>a, <2>3, EffectsGrow
    <2>5. InFlight(a)' = InFlight(a) /\ Entered(s, 1..n)' = Entered(s, 1..n) /\ step'[a] = s
      BY <1>a, <1>1, <2>1 DEF InFlight, Entered
    <2> HIDE DEF l
    <2> QED BY <1>a, <2>1, <2>4, <2>5 DEF RunAccounts, l
  <1>5. CASE CallUnledgered(a)
    <2>1. PICK t \in Steps, m \in Nat :
            /\ m \in 1..Len(prog[a][t])
            /\ Calling(a, t, m, prog[a][t][m])
            /\ flying' = flying \cup {[att |-> a, step |-> t, n |-> m, call |-> prog[a][t][m],
                                       pos |-> 0]}
            /\ ledger' = ledger /\ cursor' = cursor /\ log' = log
      BY <1>5 DEF CallUnledgered
    <2> DEFINE f == [att |-> a, step |-> t, n |-> m, call |-> prog[a][t][m], pos |-> 0]
    <2>2. f.pos = 0 /\ f.att = a
      OBVIOUS
    <2> HIDE DEF f
    <2>3. InFlight(a)' = {f}
      BY <1>1, <2>1, <2>2 DEF InFlight, f
    <2>4. Entered(s, 1..n)' = Entered(s, 1..n) /\ step'[a] = s /\ cursor'[a][s] = n
      BY <1>a, <1>1, <2>1 DEF Entered
    <2> HIDE DEF l
    <2> QED BY <1>a, <1>0, <2>1, <2>2, <2>3, <2>4 DEF RunAccounts, l
  <1>6. CASE FireEffect(a)
    <2>1. PICK t \in Steps, m \in Nat :
            /\ m \in 1..Len(prog[a][t])
            /\ TakesPosition(a, t, m, prog[a][t][m], NextPosition(a, t))
            /\ ledger' = ledger \cup {Pending(t, NextPosition(a, t), Key(prog[a][t][m]))}
            /\ flying' = flying \cup {[att |-> a, step |-> t, n |-> m, call |-> prog[a][t][m],
                                       pos |-> NextPosition(a, t)]}
            /\ log' = log
      BY <1>6 DEF FireEffect, Pending
    <2>2. t = s /\ NextPosition(a, t) = n + 1 /\ step' = step /\ InFlight(a) = {}
          /\ cursor'[a][s] = n + 1
      BY <1>2, <2>1
    <2> DEFINE f == [att |-> a, step |-> t, n |-> m, call |-> prog[a][t][m],
                     pos |-> NextPosition(a, t)]
               d == Pending(t, NextPosition(a, t), Key(prog[a][t][m]))
    <2>3. f.pos = n + 1 /\ f.att = a /\ d.pos = n + 1
      BY <2>2 DEF Pending
    <2> HIDE DEF f, d
    <2>4. InFlight(a)' = {f}
      BY <2>1, <2>2, <2>3 DEF InFlight, f
    <2>5. \A e \in ledger' : e.pos \in 1..n => e \in ledger
      <3>1. d.pos \notin 1..n
        BY <1>0, <2>3
      <3> QED BY <2>1, <3>1 DEF d
    <2>6. Entered(s, 1..n)' = Entered(s, 1..n)
      BY <2>5, EnteredStays
    <2>7. n + 1 # 0
      BY <1>0
    <2> HIDE DEF l
    <2> QED BY <1>a, <1>0, <2>1, <2>2, <2>3, <2>4, <2>6, <2>7 DEF RunAccounts, l
  <1>7. CASE ReplayEffect(a)
    <2>1. PICK t \in Steps, m \in Nat :
            /\ m \in 1..Len(prog[a][t])
            /\ TakesPosition(a, t, m, prog[a][t][m], NextPosition(a, t))
            /\ \E e \in EntryAt(t, NextPosition(a, t)) : e.key = Key(prog[a][t][m])
            /\ Logged(a, t, m, prog[a][t][m].tool, "replay")
            /\ ledger' = ledger /\ flying' = flying
      BY <1>7 DEF ReplayEffect
    <2>2. t = s /\ NextPosition(a, t) = n + 1 /\ step' = step /\ InFlight(a) = {}
          /\ cursor'[a][s] = n + 1
      BY <1>2, <2>1
    <2>3. prog[a][t][m].tool \notin ReadOnly /\ "replay" \in Executed
      BY <2>1 DEF TakesPosition, Ledgered, Executed
    <2>4. /\ Grows(l, log'[a]) /\ IsEffect(log'[a][Len(log'[a])], s)
          /\ log'[a][Len(log'[a])].tool = prog[a][t][m].tool
      BY <2>1, <2>2, <2>3, LogAppends DEF IsEffect
    <2>5. /\ EffectCount(log'[a], s) = n + 1
          /\ Numbered(log'[a], s) = Numbered(l, s) \cup {<<n + 1, prog[a][t][m].tool>>}
      BY <1>a, <2>4, EffectsGrow
    <2>6. Entered(s, 1..n + 1) = Entered(s, 1..n) \cup {<<n + 1, prog[a][t][m].tool>>}
      <3>1. PICK e \in ledger : e.step = s /\ e.pos = n + 1 /\ e.key = Key(prog[a][t][m])
        BY <2>1, <2>2 DEF EntryAt
      <3>2. e.key[1] = prog[a][t][m].tool
        BY <3>1 DEF Key
      <3> QED BY <1>0, <3>1, <3>2, EnteredNext
    <2>7. Entered(s, 1..n + 1)' = Entered(s, 1..n + 1) /\ InFlight(a)' = {}
      BY <2>1, <2>2 DEF Entered, InFlight
    <2> HIDE DEF l
    <2> QED BY <1>a, <1>0, <2>2, <2>5, <2>6, <2>7 DEF RunAccounts, l
  <1>8. ASSUME NEW t \in Steps, NEW m, NEW c, NEW w \in LedgerCodes,
               TakesPosition(a, t, m, c, NextPosition(a, t)), Raises(a, t, w)
        PROVE  FALSE
    <2>1. t = step[a] /\ w \notin use.handles /\ w # None /\ use.awaits
      BY <1>a, <1>2, <1>8 DEF Careful, Obedient, LedgerCodes, None
    <2> QED BY <1>8, <2>1 DEF Raises, InStep, TypeOK
  <1>9. ~PendingWriteFails(a) /\ ~RefuseEffect(a)
    <2>1. /\ "effect_ledger_error" \in LedgerCodes /\ "effect_divergence" \in LedgerCodes
          /\ "effect_unresolved" \in LedgerCodes
      BY DEF LedgerCodes
    <2> QED BY <1>8, <2>1 DEF PendingWriteFails, RefuseEffect
  <1> QED BY <1>3, <1>4, <1>5, <1>6, <1>7, <1>9 DEF Invoke

\* A handler of a running attempt ends, and no exception is pending after it.
LEMMA AccountsFinish ==
  ASSUME TypeOK, TypeOK', OneEntryEach, FlightIsPending, LedgeredFlights, HasLedger, Careful,
         NEW f \in flying, NEW a, f.att = a, f.step = step[a], phase[a] = "running",
         code[a] = None, RunAccounts(a), [Next]_vars, Finish(f), code'[a] = None
  PROVE  RunAccounts(a)'
  <1> DEFINE l == log[a]
  <1>a. PICK s, n : s = step[a] /\ n = EffectCount(l, s)
    OBVIOUS
  <1>0. /\ s \in Steps /\ l \in Seq(LogEntries) /\ n \in Nat /\ a \in Attempts
        /\ Numbered(l, s) = Entered(s, 1..n) /\ f \in InFlight(a)
    BY <1>a, EffectTypes DEF TypeOK, Flights, RunAccounts, InFlight
  <1>1. InFlight(a)' = {} /\ step' = step /\ cursor' = cursor
    <2>1. \A g \in InFlight(a) : g = f
      BY <1>0 DEF RunAccounts
    <2> QED BY <2>1 DEF Finish, InFlight, gates
  <1>2. ASSUME NEW w \in LedgerCodes \cup {"agent_error"}, Raises(f.att, f.step, w) PROVE FALSE
    <2>1. w \notin use.handles /\ w # None /\ use.awaits
      BY <1>2 DEF Careful, Obedient, LedgerCodes, None
    <2> QED BY <1>0, <1>2, <2>1 DEF Raises, InStep, TypeOK
  <1>3. "agent_error" \in LedgerCodes \cup {"agent_error"}
        /\ "effect_ledger_error" \in LedgerCodes \cup {"agent_error"}
    BY DEF LedgerCodes
  <1>4. CASE FinishUnledgered(f)
    <2>1. /\ f.pos = 0 /\ ledger' = ledger
          /\ Logged(f.att, f.step, f.n, f.call.tool, "ok")
      BY <1>2, <1>3, <1>4 DEF FinishUnledgered
    <2>2. f.call.tool \in ReadOnly
      BY <2>1 DEF LedgeredFlights, Ledgered
    <2>3. Grows(l, log'[a]) /\ ~IsEffect(log'[a][Len(log'[a])], s)
      BY <1>0, <2>1, <2>2, LogAppends DEF IsEffect
    <2>4. Numbered(log'[a], s) = Numbered(l, s) /\ EffectCount(log'[a], s) = n
      BY <1>a, <2>3, EffectsGrow
    <2>5. Entered(s, 1..n)' = Entered(s, 1..n) /\ step'[a] = s
      BY <1>a, <1>1, <2>1 DEF Entered
    <2>6. cursor[a][s] = n
      <3>1. \A g \in InFlight(a) : g.pos = 0
        BY <1>0, <2>1 DEF RunAccounts
      <3> QED BY <1>a, <3>1 DEF RunAccounts
    <2> HIDE DEF l
    <2> QED BY <1>a, <1>0, <1>1, <2>4, <2>5, <2>6 DEF RunAccounts, l
  <1>5. CASE FinishEffect(f)
    <2>1. f.pos # 0 /\ Logged(f.att, f.step, f.n, f.call.tool, "ok") /\ "ok" \in Executed
      BY <1>5 DEF FinishEffect, Executed
    <2>2. f.call.tool \notin ReadOnly
      BY <2>1 DEF LedgeredFlights, Ledgered
    <2>3. f.pos = n + 1 /\ cursor[a][s] = n + 1
      BY <1>a, <1>0, <2>1 DEF RunAccounts
    <2>4. /\ Grows(l, log'[a]) /\ IsEffect(log'[a][Len(log'[a])], s)
          /\ log'[a][Len(log'[a])].tool = f.call.tool
      BY <1>a, <1>0, <2>1, <2>2, LogAppends DEF IsEffect
    <2>5. /\ EffectCount(log'[a], s) = n + 1
          /\ Numbered(log'[a], s) = Numbered(l, s) \cup {<<n + 1, f.call.tool>>}
      BY <1>a, <2>4, EffectsGrow
    <2>6. Entered(s, 1..n + 1) = Entered(s, 1..n) \cup {<<n + 1, f.call.tool>>}
      <3>1. PICK e \in ledger : e.step = s /\ e.pos = n + 1 /\ e.key = Key(f.call)
        BY <1>a, <2>1, <2>3 DEF FlightIsPending
      <3>2. e.key[1] = f.call.tool
        BY <3>1 DEF Key
      <3> QED BY <1>0, <3>1, <3>2, EnteredNext
    <2>7. Entered(s, 1..n + 1)' = Entered(s, 1..n + 1)
      BY <1>5, FinishEntries, EnteredStays
    <2> HIDE DEF l
    <2> QED BY <1>a, <1>0, <1>1, <2>3, <2>5, <2>6, <2>7 DEF RunAccounts, l
  <1>6. ~FailEffect(f)
    BY <1>2, <1>3 DEF FailEffect
  <1> QED BY <1>4, <1>5, <1>6 DEF Finish

LEMMA RunStaysAccounted ==
  ASSUME TypeOK, TypeOK', ReplayInv, MatchInv, LineInv, OwnFlights, LedgeredFlights,
         HasLedger, Careful, [Next]_vars, NEW a \in Attempts, Reached(a),
         phase[a] = "running" /\ code[a] = None => RunAccounts(a),
         phase'[a] = "running", code'[a] = None
  PROVE  RunAccounts(a)'
  <1>0. /\ OneEntryEach /\ FlightIsPending
        /\ code[a] = None
        /\ \A b \in Attempts : phase[a] = "running" /\ phase[b] = "running" => a = b
    BY CodeStays DEF ReplayInv, LineInv, Live
  <1>1. ASSUME NEW b \in Attempts, RunLoop(b) PROVE RunAccounts(a)'
    <2>1. CASE b # a
      <3>1. /\ log' = log /\ flying' = flying /\ phase'[a] = phase[a] /\ step'[a] = step[a]
        BY <1>1, <2>1, RunLoopQuiet
      <3>2. ledger' = ledger /\ cursor' = cursor
        BY <1>1 DEF RunLoop, Begin, RefuseDrift, RestoreStep, ExecuteStep, Complete, CommitStep,
                    HaltOnOrphan, FailStep, Returning, durable, gates
      <3> QED BY <1>0, <3>1, <3>2, AccountsRest DEF InFlight
    <2>2. CASE b = a
      <3>1. ~ExecuteStep(a) => FALSE
        BY <1>1, <2>2 DEF RunLoop, Begin, RefuseDrift, RestoreStep, Complete, CommitStep,
                          HaltOnOrphan, FailStep, TypeOK
      <3> QED BY <3>1, AccountsStart
    <2> QED BY <2>1, <2>2
  <1>2. ASSUME NEW b \in Attempts, Invoke(b) PROVE RunAccounts(a)'
    <2>1. phase[b] = "running" /\ phase' = phase
      BY <1>2 DEF Invoke, DenyCall, CallUnledgered, FireEffect, PendingWriteFails, ReplayEffect,
                  RefuseEffect, RefuseUndeclared, TakesPosition, Calling, Wants, InStep, Careful
    <2>2. a = b
      BY <1>0, <2>1
    <2> QED BY <1>0, <1>2, <2>1, <2>2, AccountsInvoke
  <1>3. ~Crashing
    BY CrashingType DEF Crashing, Active, TypeOK
  <1>4. ASSUME NEW f \in flying, Finish(f) PROVE RunAccounts(a)'
    <2>1. f.att \in Attempts /\ phase[f.att] = "running" /\ f.step = step[f.att]
      BY DEF TypeOK, Flights, OwnFlights
    <2>2. phase' = phase
      BY <1>4 DEF Finish
    <2>3. f.att = a
      BY <1>0, <2>1, <2>2
    <2> QED BY <1>0, <1>4, <2>1, <2>2, <2>3, AccountsFinish
  <1>5. CASE UNCHANGED vars
    BY <1>0, <1>5, AccountsRest DEF vars, InFlight
  <1> QED BY <1>1, <1>2, <1>3, <1>4, <1>5 DEF Next, Step, Crash, CrashBeforeFire

\* The effects logged and recorded of a checkpointed step do not change.
LEMMA CommittedStaysCounted ==
  ASSUME TypeOK, TypeOK', use.awaits, LineInv, OwnFlights, [Next]_vars, NEW a \in Attempts,
         NEW t \in Steps, checkpoint[t] # None
  PROVE  /\ checkpoint'[t] # None /\ Entered(t, Nat)' = Entered(t, Nat)
         /\ Numbered(log'[a], t) = Numbered(log[a], t)
  <1>1. \A b \in Attempts : phase[b] = "running" => step[b] # t
    BY DEF LineInv, Live, Walks
  <1>2. checkpoint'[t] # None
    <2>1. checkpoint'[t] = checkpoint[t]
      BY <1>1, CommitsOwn DEF CommitStep, Returning
    <2> QED BY <2>1
  <1>3. Entered(t, Nat)' = Entered(t, Nat)
    <2>1. ASSUME NEW d \in ledger', d.step = t
          PROVE  \E e \in ledger : d.step = e.step /\ d.pos = e.pos /\ d.key = e.key
      BY <1>1, <2>1, EntriesCome DEF Pending, Wants, InStep
    <2> QED BY <2>1, EnteredStays
  <1>4. ASSUME NEW b \in Attempts, phase[b] = "running", NEW n, NEW u, NEW r,
               Logged(b, step[b], n, u, r)
        PROVE  Numbered(log'[a], t) = Numbered(log[a], t)
    <2>1. CASE b = a
      <3>1. Grows(log[a], log'[a]) /\ ~IsEffect(log'[a][Len(log'[a])], t)
        BY <1>1, <1>4, <2>1, LogAppends DEF IsEffect
      <3> QED BY <3>1, EffectsGrow
    <2>2. CASE b # a
      BY <1>4, <2>2, LogGrows
    <2> QED BY <2>1, <2>2
  <1>5. ASSUME NEW f \in flying, NEW r, Ends(f, r)
        PROVE  Numbered(log'[a], t) = Numbered(log[a], t)
    BY <1>4, <1>5 DEF Ends, OwnFlights, TypeOK, Flights
  <1>6. ASSUME NEW b \in Attempts, NEW s \in Steps, NEW n \in 1..Len(prog[b][s]), NEW r,
               Answers(b, s, n, prog[b][s][n], r)
        PROVE  Numbered(log'[a], t) = Numbered(log[a], t)
    BY <1>4, <1>6, ScopesOfOthers DEF Answers
  <1>7. Numbered(log'[a], t) = Numbered(log[a], t)
    BY <1>5, <1>6, RunLoopQuiet, LogSteps DEF Silent, Starts
  <1> QED BY <1>2, <1>3, <1>7

\* A step that is committed has all its effects in the log.
LEMMA CommitAccounts ==
  ASSUME TypeOK, TypeOK', OneEntryEach, MatchInv, Careful, NEW a \in Attempts, CommitStep(a),
         RunAccounts(a)
  PROVE  /\ checkpoint'[step[a]] # None
         /\ Numbered(log'[a], step[a]) = Entered(step[a], Nat)
         /\ ledger' = ledger
  <1> DEFINE s == step[a]
             n == EffectCount(log[a], s)
  <1>1. /\ phase[a] = "running" /\ code[a] = None /\ ~Orphans(a) /\ InFlight(a) = {}
        /\ ledger' = ledger /\ log' = log /\ s \in Steps
        /\ checkpoint' = [checkpoint EXCEPT ![s] = ScopeOf(a, s)]
    BY DEF CommitStep, Returning, Careful, TypeOK
  <1>2. checkpoint'[s] # None
    <2>1. ScopeOf(a, s) # None
      BY <1>1, WalkTypes
    <2>2. checkpoint'[s] = ScopeOf(a, s)
      BY <1>1 DEF TypeOK
    <2> QED BY <2>1, <2>2
  <1>3. cursor[a][s] = n /\ Numbered(log[a], s) = Entered(s, 1..n)
    BY <1>1 DEF RunAccounts
  <1>4. Matches(a)
    BY <1>1 DEF MatchInv, Abides, Careful, Obedient, LosesRefusal
  <1>5. \A e \in ledger : e.step = s => (e.pos \in Nat <=> e.pos \in 1..n)
    <2>1. \A e \in ledger : e.step = s => e.pos \in 1..n
      BY <1>1, <1>3, <1>4, CountedAreTaken
    <2> QED BY <2>1
  <1>6. Entered(s, Nat) = Entered(s, 1..n)
    BY <1>5 DEF Entered
  <1> QED BY <1>1, <1>2, <1>3, <1>6

LEMMA AuditStaysAccounted ==
  ASSUME TypeOK, TypeOK', ReplayInv, MatchInv, LineInv, OwnFlights, Careful, [Next]_vars,
         NEW a \in Attempts, Reached(a), phase[a] = "running" /\ code[a] = None => RunAccounts(a),
         Live(a) \/ phase[a] = "completed" => AuditAccounts(a),
         Live(a)' \/ phase'[a] = "completed"
  PROVE  AuditAccounts(a)'
  <1>1. phase[a] = "idle" \/ Live(a) \/ phase[a] = "completed"
    <2>1. phase'[a] = phase[a] \/ \E b \in Attempts : RunLoop(b) \/ Silent
      BY LogSteps DEF Starts, Answers, Calling, Ends
    <2>2. CASE Silent
      BY <2>2 DEF Silent, Crashing, Live
    <2>3. ASSUME NEW b \in Attempts, RunLoop(b), b # a PROVE phase'[a] = phase[a]
      BY <2>3, RunLoopQuiet
    <2>4. CASE RunLoop(a)
      BY <2>4 DEF RunLoop, Begin, RefuseDrift, RestoreStep, ExecuteStep, Complete, CommitStep,
                  HaltOnOrphan, FailStep, Returning, Live
    <2> QED BY <2>1, <2>2, <2>3, <2>4 DEF Live
  <1>2. AuditAccounts(a)
    BY <1>1 DEF Reached, AuditAccounts
  <1>3. ASSUME NEW r \in audit[a]
        PROVE  /\ r.step \in Steps /\ checkpoint'[r.step] # None
               /\ Numbered(log'[a], r.step) = Entered(r.step, Nat)'
    BY <1>2, CommittedStaysCounted DEF AuditAccounts, Careful
  <1>4. ASSUME CommitStep(a), NEW r \in audit'[a], r \notin audit[a]
        PROVE  /\ r.step \in Steps /\ checkpoint'[r.step] # None
               /\ Numbered(log'[a], r.step) = Entered(r.step, Nat)'
    <2>1. /\ phase[a] = "running" /\ code[a] = None /\ step[a] \in Steps
          /\ audit' = [audit EXCEPT ![a] = audit[a] \cup
                         {[step |-> step[a], calls |-> StepCalls(a)]}]
      BY <1>4 DEF CommitStep, Returning, RecordStep, TypeOK
    <2>2. r.step = step[a]
      BY <1>4, <2>1 DEF TypeOK
    <2>3. /\ checkpoint'[step[a]] # None /\ ledger' = ledger
          /\ Numbered(log'[a], step[a]) = Entered(step[a], Nat)
      BY <1>4, <2>1, CommitAccounts DEF ReplayInv
    <2>4. Entered(r.step, Nat)' = Entered(r.step, Nat)
      BY <2>3 DEF Entered
    <2> QED BY <2>1, <2>2, <2>3, <2>4
  <1>5. ASSUME ~CommitStep(a) PROVE audit'[a] = audit[a]
    <2>1. ASSUME RunLoop(a) PROVE audit' = audit
      BY <1>5, <2>1 DEF RunLoop, Begin, RefuseDrift, RestoreStep, ExecuteStep, Complete,
                        HaltOnOrphan, FailStep, Live, TypeOK
    <2>2. ASSUME NEW b \in Attempts, b # a, RunLoop(b) PROVE audit'[a] = audit[a]
      BY <2>2, RunLoopQuiet
    <2> QED BY <2>1, <2>2, LogSteps DEF Silent, Starts, Answers, Calling, Ends
  <1> QED BY <1>3, <1>4, <1>5 DEF AuditAccounts, Entered

LEMMA AccountInvariant == Spec => []AccountInv
  <1>1. Init => AccountInv
    BY DEF Init, AccountInv, LedgeredFlights, Reached, Live
  <1>2. /\ ReplayInv /\ ReplayInv' /\ TaintInv /\ MatchInv /\ LogInv /\ AccountInv /\ [Next]_vars
        => AccountInv'
    <2> SUFFICES ASSUME ReplayInv, ReplayInv', TaintInv, MatchInv, LogInv, AccountInv,
                        [Next]_vars
                 PROVE  AccountInv'
      OBVIOUS
    <2>1. TypeOK /\ TypeOK' /\ use' = use /\ (Careful' <=> Careful)
      BY DEF ReplayInv, Careful, Obedient, Next, vars
    <2>2. HasLedger => LedgeredFlights'
      BY <2>1, LedgeredFlightsStay DEF AccountInv
    <2>3. ASSUME Careful, HasLedger, NEW a \in Attempts
          PROVE  /\ Reached(a)'
                 /\ phase'[a] = "running" /\ code'[a] = None => RunAccounts(a)'
                 /\ Live(a)' \/ phase'[a] = "completed" => AuditAccounts(a)'
      <3>1. LineInv /\ OwnFlights /\ LedgeredFlights /\ use.awaits
        BY <2>3 DEF Careful, TaintInv, LogInv, AccountInv
      <3>2. /\ Reached(a) /\ \A b \in Attempts : Reached(b)
            /\ phase[a] = "running" /\ code[a] = None => RunAccounts(a)
            /\ Live(a) \/ phase[a] = "completed" => AuditAccounts(a)
        BY <2>3 DEF AccountInv
      <3>3. Reached(a)'
        BY <2>1, <3>1, <3>2, LogStaysReached
      <3>4. phase'[a] = "running" /\ code'[a] = None => RunAccounts(a)'
        BY <2>1, <2>3, <3>1, <3>2, RunStaysAccounted
      <3>5. Live(a)' \/ phase'[a] = "completed" => AuditAccounts(a)'
        BY <2>1, <2>3, <3>1, <3>2, AuditStaysAccounted
      <3> QED BY <3>3, <3>4, <3>5
    <2> QED BY <2>1, <2>2, <2>3 DEF AccountInv
  <1> QED BY <1>1, <1>2, ReplayInvariant, TaintInvariant, MatchInvariant, LogInvariant,
             PTL DEF Spec

\* A receipt shows how its attempt ended and what it logged.
ReceiptShows == use.awaits => \A r \in receipts :
  /\ r.att \in Attempts /\ r.status = phase[r.att] /\ r.status \in Ended
  /\ r.observed = ObserveAll(log[r.att])

LEMMA NumberedIsObserved ==
  ASSUME NEW l \in Seq(LogEntries), NEW s
  PROVE  Numbered(ObserveAll(l), s) = Numbered(l, s)
  <1>1. DOMAIN ObserveAll(l) = DOMAIN l /\ DOMAIN l = 1..Len(l)
    BY Observed
  <1>2. Effects(ObserveAll(l), s) = Effects(l, s)
    BY <1>1, Observed DEF Effects
  <1>3. \A i \in Effects(l, s) : ObserveAll(l)[i].tool = l[i].tool
    BY <1>1, Observed DEF Effects
  <1> QED BY <1>2, <1>3 DEF Numbered

(* The receipt of a completed run accounts for the effects of every step   *)
(* its attempt executed, each once and in the order of the ledger: for any *)
(* pipeline and agents that await their calls and let failures end their   *)
(* step, whatever crashed or failed before and whatever earlier attempts   *)
(* fired.                                                                  *)
THEOREM ReceiptsAccount == ConfinedSpec => []ReceiptAccounts
  <1>1. ConfinedInit => ReceiptShows
    BY DEF ConfinedInit, ReceiptShows
  <1>2. TypeOK /\ LogInv /\ ReceiptShows /\ [ConfinedNext]_<<vars, receipts>> => ReceiptShows'
    <2> SUFFICES ASSUME TypeOK, LogInv, ReceiptShows, [ConfinedNext]_<<vars, receipts>>,
                        use.awaits, NEW r \in receipts'
                 PROVE  /\ r.att \in Attempts /\ r.status = phase'[r.att] /\ r.status \in Ended
                        /\ r.observed = ObserveAll(log'[r.att])
      BY DEF ReceiptShows, ConfinedNext, Next, vars
    <2>1. [Next]_vars /\ OwnFlights
      BY DEF ConfinedNext, LogInv
    <2>2. CASE r \in receipts
      BY <2>1, <2>2, EndedIsQuiet DEF ReceiptShows
    <2>3. CASE r \notin receipts
      <3>1. PICK a \in Attempts : phase'[a] \in Ended /\ r = Mint(a, phase'[a], log'[a])
        BY <2>3 DEF ConfinedNext, Minting
      <3> QED BY <3>1 DEF Mint
    <2> QED BY <2>2, <2>3
  <1>3. TypeOK /\ AccountInv /\ ReceiptShows => ReceiptAccounts
    <2> SUFFICES ASSUME TypeOK, AccountInv, ReceiptShows, HasLedger, Careful,
                        NEW r \in receipts, r.status = "completed", NEW x \in audit[r.att]
                 PROVE  {<<e.pos, e.key[1]>> : e \in {y \in ledger : y.step = x.step}}
                          = Numbered(r.observed, x.step)
      BY DEF ReceiptAccounts, Careful
    <2>1. r.att \in Attempts /\ phase[r.att] = "completed" /\ r.observed = ObserveAll(log[r.att])
      BY DEF ReceiptShows, Careful
    <2>2. Numbered(log[r.att], x.step) = Entered(x.step, Nat)
      BY <2>1 DEF AccountInv, AuditAccounts
    <2>3. Numbered(r.observed, x.step) = Numbered(log[r.att], x.step)
      BY <2>1, NumberedIsObserved DEF TypeOK
    <2>4. \A y \in ledger : y.pos \in Nat
      BY DEF TypeOK, Entries
    <2> QED BY <2>2, <2>3, <2>4 DEF Entered
  <1> QED BY <1>1, <1>2, <1>3, ConfinedIsRun, TypeCorrect, LogInvariant, AccountInvariant,
             PTL DEF ConfinedSpec
=============================================================================
