----------------------------- MODULE MCModelStep -----------------------------
EXTENDS ModelStep, TLC

\* Three targets a, b and c.  The profiles overlap, one falls back on nothing, and
\* one is referenced and not configured; "c" is also used as a direct model string.
MCProfiles ==
  [main   |-> [targets |-> <<"a", "b">>, on |-> {"timeout"}],
   backup |-> [targets |-> <<"b", "c">>, on |-> {"timeout", "rate_limit"}],
   strict |-> [targets |-> <<"a">>, on |-> {}],
   lost   |-> [targets |-> <<"a">>, on |-> {}]]
MCSpecs ==
  {<<"main">>, <<"main", "backup">>, <<"strict", "c">>, <<"c", "main">>, <<"c", "c">>,
   <<"lost", "c">>}
=============================================================================
