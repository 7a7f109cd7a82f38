----------------------------- MODULE McpServers -----------------------------
(***************************************************************************)
(* Registering an MCP server's tools: register_mcp_server and mcp_server   *)
(* connect to the server, list its tools and put the declared ones into a  *)
(* ToolRegistry under mcp://<server>/<tool>.  The live client opens a      *)
(* transport and, inside it, a client session; any await may raise or be   *)
(* cancelled, and several calls interleave at their awaits.  A call opens  *)
(* at most one session, so the call names the session.                     *)
(***************************************************************************)
EXTENDS Naturals, Sequences

CONSTANTS
  Servers, ToolNames,
  Calls,      \* the calls of register_mcp_server and mcp_server
  Requests,   \* what they are called with
  None

Labels == {"trusted", "untrusted"}
MapsTo(S) == UNION {[D -> S] : D \in SUBSET ToolNames}

(* trust and exfil hold the flags the caller declares for some of the      *)
(* tools; a server-level auth request makes the live client refuse.        *)
ASSUME McpAssumption ==
  /\ Requests \subseteq
       [kind : {"register", "scope"}, server : Servers, auth : BOOLEAN,
        declared : Seq(ToolNames), trust : MapsTo(Labels), exfil : MapsTo(BOOLEAN)]
  /\ None \notin Requests

VARIABLES
  advertised,   \* server |-> the tools it offers now
  tools,        \* the registry: ref |-> its Tool, or None
  request,      \* call |-> its arguments, or None
  pc,           \* call |-> the await it is at, or how it ended
  transport, session,   \* call |-> "none", "open" or "closed"
  reached       \* tool invocations that reached a server (history)

vars == <<advertised, tools, request, pc, transport, session, reached>>
registry == <<advertised, tools, reached>>

Refs == Servers \X ToolNames
Tool == [session : Calls, tool : ToolNames, source_trust : Labels,
         exfil_capable : BOOLEAN]
Cleanup == {"dropping", "exiting", "closing", "leaving", "left"}
Stages == {"idle", "transport", "session", "initialize", "list", "returned",
           "yielded", "failed", "exited"} \cup Cleanup

ASSUME NoneAssumption == None \notin Tool

Declared(r) == {r.declared[k] : k \in DOMAIN r.declared}

Init ==
  /\ advertised \in [Servers -> SUBSET ToolNames]
  /\ tools = [ref \in Refs |-> None]
  /\ request = [c \in Calls |-> None] /\ pc = [c \in Calls |-> "idle"]
  /\ transport = [c \in Calls |-> "none"] /\ session = [c \in Calls |-> "none"]
  /\ reached = {}

Goes(c, stage) == pc' = [pc EXCEPT ![c] = stage]

(* Flags for tools that are not declared are refused before connecting.    *)
Start(c, r) ==
  /\ pc[c] = "idle" /\ request' = [request EXCEPT ![c] = r]
  /\ Goes(c, IF DOMAIN r.trust \cup DOMAIN r.exfil \subseteq Declared(r) /\ ~r.auth
             THEN "transport" ELSE "failed")
  /\ UNCHANGED <<registry, transport, session>>

(* LiveMCPClient.connect, one action per await.  What fails after the      *)
(* transport is open closes it before the exception leaves connect; a      *)
(* ClientSession that was entered is not exited then.                      *)
OpenTransport(c) ==
  /\ pc[c] = "transport"
  /\ \/ Goes(c, "session") /\ transport' = [transport EXCEPT ![c] = "open"]
     \/ Goes(c, "failed") /\ UNCHANGED transport
  /\ UNCHANGED <<registry, request, session>>

EnterSession(c) ==
  /\ pc[c] = "session"
  /\ \/ Goes(c, "initialize") /\ session' = [session EXCEPT ![c] = "open"]
     \/ Goes(c, "dropping") /\ UNCHANGED session
  /\ UNCHANGED <<registry, request, transport>>

InitializeUnguarded(c) ==
  /\ pc[c] = "initialize" /\ (Goes(c, "list") \/ Goes(c, "failed"))
  /\ UNCHANGED <<registry, request, transport, session>>
Initialize(c) ==
  /\ pc[c] = "initialize" /\ (Goes(c, "list") \/ Goes(c, "dropping"))
  /\ UNCHANGED <<registry, request, transport, session>>

DropTransport(c) ==
  /\ pc[c] = "dropping" /\ Goes(c, "failed")
  /\ transport' = [transport EXCEPT ![c] = "closed"]
  /\ UNCHANGED <<registry, request, session>>

(* The tool at position k can be registered: the server lists it and its   *)
(* ref is not in the registry, nor put there by an earlier position.       *)
Registrable(r, k) ==
  /\ r.declared[k] \in advertised[r.server]
  /\ tools[<<r.server, r.declared[k]>>] = None
  /\ \A j \in 1..(k - 1) : r.declared[j] # r.declared[k]

RegisteredOffers(r) == advertised[r.server]
(* The names registered before the first that is not: all, unless the loop *)
(* raises.                                                                 *)
Registered(r) == {r.declared[k] : k \in
  {n \in DOMAIN r.declared : \A j \in 1..n : Registrable(r, j)}}

(* Absent flags take register_mcp_tool's defaults.                         *)
ToolFor(c, r, t) ==
  [session |-> c, tool |-> t,
   source_trust |-> IF t \in DOMAIN r.trust THEN r.trust[t] ELSE "untrusted",
   exfil_capable |-> IF t \in DOMAIN r.exfil THEN r.exfil[t] ELSE FALSE]

(* list_tools answers and the registration loop runs to its end, or raises *)
(* at the first tool that is missing or already registered: the tools      *)
(* before it stay registered and the session is closed.                    *)
RegisterTools(c) ==
  LET r == request[c]
  IN /\ pc[c] = "list"
     /\ \/ /\ tools' = [ref \in Refs |->
                          IF ref[1] = r.server /\ ref[2] \in Registered(r)
                          THEN ToolFor(c, r, ref[2]) ELSE tools[ref]]
           /\ Goes(c, IF \E k \in DOMAIN r.declared : ~Registrable(r, k)
                      THEN "exiting"
                      ELSE IF r.kind = "scope" THEN "yielded" ELSE "returned")
        \/ Goes(c, "exiting") /\ UNCHANGED tools
     /\ UNCHANGED <<advertised, reached, request, transport, session>>

(* mcp_server's block ends, normally or not, and its finally clause runs.  *)
LeaveScope(c) ==
  /\ pc[c] = "yielded" /\ Goes(c, "leaving")
  /\ UNCHANGED <<registry, request, transport, session>>

(* LiveMCPClient.close: the transport is torn down even if the session's   *)
(* exit raises.                                                            *)
ExitSession(c) ==
  /\ \/ pc[c] = "exiting" /\ Goes(c, "closing")
     \/ pc[c] = "leaving" /\ Goes(c, "left")
  /\ session' = [session EXCEPT ![c] = "closed"]
  /\ UNCHANGED <<registry, request, transport>>

CloseTransport(c) ==
  /\ \/ pc[c] = "closing" /\ Goes(c, "failed")
     \/ pc[c] = "left" /\ Goes(c, "exited")
  /\ transport' = [transport EXCEPT ![c] = "closed"]
  /\ UNCHANGED <<registry, request, session>>

(* The tool proxy invokes the handler of a registered ref.  It answers     *)
(* while the session it is bound to is open, and raises afterwards.        *)
Invoke(ref) ==
  /\ tools[ref] # None
  /\ LET tool == tools[ref]
     IN /\ session[tool.session] = "open" /\ transport[tool.session] = "open"
        /\ reached' = reached \cup {[ref |-> ref, tool |-> tool,
             server |-> request[tool.session].server]}
  /\ UNCHANGED <<advertised, tools, request, pc, transport, session>>

(* A server is redeployed with other tools.                                *)
Redeploy(s) ==
  /\ \E offer \in SUBSET ToolNames : advertised' = [advertised EXCEPT ![s] = offer]
  /\ UNCHANGED <<tools, request, pc, transport, session, reached>>

Next ==
  \/ \E c \in Calls :
       \/ \E r \in Requests : Start(c, r)
       \/ OpenTransport(c) \/ EnterSession(c) \/ Initialize(c)
       \/ DropTransport(c) \/ RegisterTools(c) \/ LeaveScope(c)
       \/ ExitSession(c) \/ CloseTransport(c)
  \/ \E ref \in Refs : Invoke(ref)
  \/ \E s \in Servers : Redeploy(s)

Spec == Init /\ [][Next]_vars

-----------------------------------------------------------------------------
TypeOK ==
  /\ advertised \in [Servers -> SUBSET ToolNames]
  /\ tools \in [Refs -> Tool \cup {None}]
  /\ request \in [Calls -> Requests \cup {None}] /\ pc \in [Calls -> Stages]
  /\ transport \in [Calls -> {"none", "open", "closed"}]
  /\ session \in [Calls -> {"none", "open", "closed"}]
  /\ reached \subseteq [ref : Refs, tool : Tool, server : Servers]

(* A call that has failed or whose scope is over holds no connection.  One *)
(* that has returned or yielded has registered every tool it declared, on  *)
(* its own session, and that session is open: no caller is handed a ref    *)
(* that another call's connection serves.                                  *)
SessionsMatchUse == \A c \in Calls :
  /\ pc[c] \in {"failed", "exited"} => transport[c] # "open"
  /\ pc[c] \in {"returned", "yielded"} =>
       /\ transport[c] = "open" /\ session[c] = "open"
       /\ \A t \in Declared(request[c]) :
            LET tool == tools[<<request[c].server, t>>]
            IN tool # None /\ tool.session = c

(* Whatever registrations failed halfway, were retried or ran at the same  *)
(* time, a call through mcp://s/t reaches tool t of server s, a tool that  *)
(* the registration which owns the session declared, with the trust and    *)
(* sink flags it declared for t.                                           *)
OnlyDeclaredReached == \A x \in reached :
  LET c == x.tool.session
  IN /\ x.ref = <<x.server, x.tool.tool>>
     /\ x.tool = ToolFor(c, request[c], x.ref[2])
     /\ request[c].server = x.ref[1] /\ x.ref[2] \in Declared(request[c])
=============================================================================
