------------------------------ MODULE MCRollout -------------------------------
EXTENDS Rollout, TLC

Str(r) == [type |-> "string", required |-> r, max |-> 2]
IntUpTo(m) == [type |-> "int", required |-> TRUE, max |-> m]
Verdict == [ok |-> IntUpTo(2)]

\* Version 2 adds an optional field to version 1, 3 requires it, 4 changes the type of
\* a field and adds an output field, 5 tightens a bound.
Schemas ==
  [v \in 1 .. 5 |->
     CASE v = 1 -> [input |-> [amount |-> IntUpTo(2)], output |-> Verdict]
       [] v = 2 -> [input |-> [amount |-> IntUpTo(2), note |-> Str(FALSE)], output |-> Verdict]
       [] v = 3 -> [input |-> [amount |-> IntUpTo(2), note |-> Str(TRUE)], output |-> Verdict]
       [] v = 4 -> [input |-> [amount |-> Str(TRUE)],
                    output |-> [ok |-> IntUpTo(2), why |-> Str(FALSE)]]
       [] v = 5 -> [input |-> [amount |-> IntUpTo(1)], output |-> Verdict]]

\* Plans, and deployments, are interchangeable.
Interchangeable == Permutations(Plans) \cup Permutations(Deployments)
=============================================================================
