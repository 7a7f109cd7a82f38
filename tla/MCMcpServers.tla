---------------------------- MODULE MCMcpServers ----------------------------
(* Two servers offering tools of the same names, and three calls.           *)
EXTENDS McpServers, TLC

CONSTANTS slack, wiki, send, read, c1, c2, c3

NoFlags == [t \in {} |-> FALSE]
NoLabels == [t \in {} |-> "untrusted"]

Request(kind, server, declared, trust, exfil) ==
  [kind |-> kind, server |-> server, auth |-> FALSE, declared |-> declared,
   trust |-> trust, exfil |-> exfil]

SmallRequests ==
  {Request("register", slack, <<send, read>>, read :> "trusted", send :> TRUE),
   Request("scope", slack, <<send, read>>, NoLabels, send :> TRUE),
   Request("scope", slack, <<read, read>>, NoLabels, NoFlags),
   Request("register", wiki, <<read>>, NoLabels, NoFlags),
   Request("scope", slack, <<read>>, NoLabels, send :> TRUE),
   [Request("scope", wiki, <<send>>, NoLabels, NoFlags) EXCEPT !.auth = TRUE]}

TwoServers == {slack, wiki}
ThreeCalls == {c1, c2, c3}
Symmetric == Permutations(ThreeCalls)
TwoTools == {send, read}
=============================================================================
