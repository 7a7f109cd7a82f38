------------------------------ MODULE MCEvidence ------------------------------
EXTENDS Evidence, TLC

\* One list of five rows with a signal between the samples, two lists under one
\* budget whose cap drops a signal, and a list the schema wants whole.
MCPayloads ==
  {[lists |-> <<<<"plain", "signal", "plain", "plain", "plain">>>>, least |-> 1],
   [lists |-> <<<<"plain", "plain", "plain">>, <<"plain", "plain", "plain", "signal">>>>,
    least |-> 1],
   [lists |-> <<<<"plain", "plain", "plain", "plain", "plain">>>>, least |-> 5]}

\* Policies that allow different retrievals for different times.  The simulation
\* applies to the two lists only; the others pass through under it.
Base == [enabled |-> TRUE, mode |-> "compress", min |-> 2, cap |-> Absent, required |-> TRUE,
         full |-> FALSE, search |-> TRUE, ttl |-> Absent, strict |-> FALSE]
MCPolicies ==
  {Base,
   [Base EXCEPT !.full = TRUE, !.search = FALSE, !.ttl = 1, !.cap = 2, !.required = FALSE],
   [Base EXCEPT !.full = TRUE, !.strict = TRUE],
   [Base EXCEPT !.mode = "simulate", !.min = 6]}

\* Runs are interchangeable: no definition names one.
Symmetry == Permutations(Runs)
=============================================================================
