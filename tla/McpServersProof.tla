--------------------------- MODULE McpServersProof ---------------------------
(* Proofs about McpServers, for any servers, tools, calls and requests.       *)
EXTENDS McpServers, TLAPS

(* The connection a call holds at each of its awaits. *)
Connected ==
  \A c \in Calls :
    /\ pc[c] \in {"idle", "transport", "failed", "exited"} => transport[c] # "open"
    /\ pc[c] \in {"session", "initialize", "list", "returned", "yielded"} =>
         transport[c] = "open"
    /\ pc[c] \in {"initialize", "list", "returned", "yielded"} => session[c] = "open"

(* The calls that have listed their server's tools. *)
Listed(c) == pc[c] \notin {"idle", "transport", "session", "initialize", "list"}

(* Tool `tool` under `ref` is what the call that owns its session declared. *)
Owned(ref, tool) ==
  LET c == tool.session
  IN /\ c \in Calls /\ Listed(c) /\ request[c] \in Requests
     /\ request[c].server = ref[1] /\ ref[2] \in Declared(request[c])
     /\ tool = ToolFor(c, request[c], ref[2])

RegistryOwned == \A ref \in Refs : tools[ref] # None => Owned(ref, tools[ref])
ReachedOwned == \A x \in reached :
  Owned(x.ref, x.tool) /\ x.ref = <<x.server, x.tool.tool>>

Handed == \A c \in Calls : pc[c] \in {"returned", "yielded"} =>
  \A t \in Declared(request[c]) :
    LET tool == tools[<<request[c].server, t>>]
    IN tool # None /\ tool.session = c

Requested == \A c \in Calls : pc[c] # "idle" => request[c] \in Requests

McpInv == TypeOK /\ Requested /\ Connected /\ RegistryOwned /\ ReachedOwned /\ Handed

LEMMA RequestFields ==
  ASSUME NEW r \in Requests
  PROVE  /\ r.server \in Servers /\ r.declared \in Seq(ToolNames)
         /\ Declared(r) \subseteq ToolNames
         /\ \A t \in DOMAIN r.trust : r.trust[t] \in Labels
         /\ \A t \in DOMAIN r.exfil : r.exfil[t] \in BOOLEAN
  <1>1. r \in [kind : {"register", "scope"}, server : Servers, auth : BOOLEAN,
               declared : Seq(ToolNames), trust : MapsTo(Labels),
               exfil : MapsTo(BOOLEAN)]
    BY McpAssumption
  <1>2. r.trust \in MapsTo(Labels) /\ r.exfil \in MapsTo(BOOLEAN)
    BY <1>1
  <1>3. PICK D \in SUBSET ToolNames : r.trust \in [D -> Labels]
    BY <1>2 DEF MapsTo
  <1>4. PICK E \in SUBSET ToolNames : r.exfil \in [E -> BOOLEAN]
    BY <1>2 DEF MapsTo
  <1>5. r.declared \in Seq(ToolNames)
    BY <1>1
  <1>6. Declared(r) \subseteq ToolNames
    BY <1>5 DEF Declared
  <1> QED BY <1>1, <1>3, <1>4, <1>5, <1>6

LEMMA ToolForTyped ==
  ASSUME NEW c \in Calls, NEW r \in Requests, NEW t \in ToolNames
  PROVE  /\ ToolFor(c, r, t) \in Tool
         /\ ToolFor(c, r, t).session = c /\ ToolFor(c, r, t).tool = t
  <1>1. (IF t \in DOMAIN r.trust THEN r.trust[t] ELSE "untrusted") \in Labels
    BY RequestFields DEF Labels
  <1>2. (IF t \in DOMAIN r.exfil THEN r.exfil[t] ELSE FALSE) \in BOOLEAN
    BY RequestFields
  <1> QED BY <1>1, <1>2 DEF ToolFor, Tool

LEMMA McpInvInit == Init => McpInv
  BY DEF Init, McpInv, TypeOK, Requested, Connected, RegistryOwned, ReachedOwned,
         Handed, Stages

(* An action of c that only moves it on, and opens or closes its connection. *)
Moves(c) ==
  /\ \E stage \in Stages : pc' = [pc EXCEPT ![c] = stage]
  /\ tools' = tools /\ advertised' = advertised /\ reached' = reached
  /\ request' = request
  /\ pc[c] # "idle" /\ pc'[c] \notin {"idle", "returned", "yielded"}
  /\ Listed(c) => Listed(c)'

LEMMA MovesKeep ==
  ASSUME McpInv, NEW c \in Calls, Moves(c)
  PROVE  Requested' /\ RegistryOwned' /\ ReachedOwned' /\ Handed'
  <1>1. \A d \in Calls : Listed(d) => Listed(d)'
    BY DEF Moves, Listed, McpInv, TypeOK
  <1>2. Requested'
    BY DEF Moves, McpInv, TypeOK, Requested
  <1>3. RegistryOwned' /\ ReachedOwned'
    BY <1>1 DEF Moves, McpInv, RegistryOwned, ReachedOwned, Owned
  <1>4. Handed'
    BY DEF Moves, McpInv, TypeOK, Handed
  <1> QED BY <1>2, <1>3, <1>4

LEMMA McpInvNext == McpInv /\ [Next]_vars => McpInv'
  <1> SUFFICES ASSUME McpInv, [Next]_vars PROVE McpInv'
    OBVIOUS
  <1> USE DEF Stages, Cleanup
  <1>1. ASSUME NEW c \in Calls, NEW r \in Requests, Start(c, r) PROVE McpInv'
    <2>1. /\ pc[c] = "idle" /\ request' = [request EXCEPT ![c] = r]
          /\ pc' = [pc EXCEPT ![c] = IF DOMAIN r.trust \cup DOMAIN r.exfil \subseteq
                       Declared(r) /\ ~r.auth THEN "transport" ELSE "failed"]
          /\ UNCHANGED <<registry, transport, session>>
      BY <1>1 DEF Start, Goes
    <2>2. TypeOK' /\ Requested' /\ Connected' /\ Handed'
      BY <2>1 DEF McpInv, TypeOK, Requested, Connected, Handed, registry
    <2>3. \A d \in Calls : Listed(d) => Listed(d)' /\ request'[d] = request[d]
      BY <2>1 DEF Listed, McpInv, TypeOK
    <2>4. RegistryOwned' /\ ReachedOwned'
      BY <2>1, <2>3 DEF McpInv, RegistryOwned, ReachedOwned, Owned, registry
    <2> QED BY <2>2, <2>4 DEF McpInv
  <1>2. ASSUME NEW c \in Calls, OpenTransport(c) \/ EnterSession(c) \/ Initialize(c)
        PROVE  McpInv'
    <2>1. TypeOK' /\ Connected'
      BY <1>2 DEF OpenTransport, EnterSession, Initialize, Goes, registry, McpInv, TypeOK,
                  Connected
    <2>2. Moves(c)
      BY <1>2 DEF OpenTransport, EnterSession, Initialize, Goes, registry, McpInv, TypeOK,
                  Moves, Listed
    <2> QED BY <2>1, <2>2, MovesKeep DEF McpInv
  <1>3. ASSUME NEW c \in Calls, DropTransport(c) \/ LeaveScope(c) PROVE McpInv'
    <2>1. TypeOK' /\ Connected'
      BY <1>3 DEF DropTransport, LeaveScope, Goes, registry, McpInv, TypeOK, Connected
    <2>2. Moves(c)
      BY <1>3 DEF DropTransport, LeaveScope, Goes, registry, McpInv, TypeOK, Moves, Listed
    <2> QED BY <2>1, <2>2, MovesKeep DEF McpInv
  <1>4. ASSUME NEW c \in Calls, ExitSession(c) \/ CloseTransport(c) PROVE McpInv'
    <2>1. TypeOK' /\ Connected'
      BY <1>4 DEF ExitSession, CloseTransport, Goes, registry, McpInv, TypeOK, Connected
    <2>2. Moves(c)
      BY <1>4 DEF ExitSession, CloseTransport, Goes, registry, McpInv, TypeOK, Moves, Listed
    <2> QED BY <2>1, <2>2, MovesKeep DEF McpInv
  <1>5. ASSUME NEW c \in Calls, RegisterTools(c) PROVE McpInv'
    <2> DEFINE r == request[c]
               Full == \A k \in DOMAIN r.declared : Registrable(r, k)
    <2>1. pc[c] = "list" /\ r \in Requests
      BY <1>5 DEF RegisterTools, McpInv, Requested
    <2>2. CASE Goes(c, "exiting") /\ UNCHANGED tools
      <3>1. TypeOK' /\ Connected' /\ Moves(c)
        BY <1>5, <2>1, <2>2 DEF RegisterTools, Goes, McpInv, TypeOK, Connected, Moves, Listed
      <3> QED BY <3>1, MovesKeep DEF McpInv
    <2>3. CASE /\ tools' = [ref \in Refs |->
                     IF ref[1] = r.server /\ ref[2] \in Registered(r)
                     THEN ToolFor(c, r, ref[2]) ELSE tools[ref]]
               /\ Goes(c, IF \E k \in DOMAIN r.declared : ~Registrable(r, k)
                          THEN "exiting"
                          ELSE IF r.kind = "scope" THEN "yielded" ELSE "returned")
      <3>1. /\ UNCHANGED <<advertised, reached, request, transport, session>>
            /\ pc' = [pc EXCEPT ![c] = IF ~Full THEN "exiting"
                        ELSE IF r.kind = "scope" THEN "yielded" ELSE "returned"]
        BY <1>5, <2>3 DEF RegisterTools, Goes
      <3>2. /\ Registered(r) \subseteq Declared(r) /\ Declared(r) \subseteq ToolNames
            /\ Full => Registered(r) = Declared(r)
            /\ \A t \in Registered(r) : tools[<<r.server, t>>] = None
        <4>1. r.declared \in Seq(ToolNames)
          BY <2>1, RequestFields
        <4>2. \A n \in DOMAIN r.declared : n \in 1..n /\ 1..n \subseteq DOMAIN r.declared
          BY <4>1
        <4>3. \A t \in Registered(r) : tools[<<r.server, t>>] = None
          BY <4>2 DEF Registered, Registrable
        <4> QED BY <2>1, <4>2, <4>3, RequestFields DEF Registered, Declared
      <3>3. \A t \in ToolNames : /\ ToolFor(c, r, t) \in Tool
                                 /\ ToolFor(c, r, t).session = c
        BY <2>1, ToolForTyped
      <3>4. \A ref \in Refs : ref[1] \in Servers /\ ref[2] \in ToolNames
                             /\ ref = <<ref[1], ref[2]>>
        BY DEF Refs
      <3>5. TypeOK' /\ Requested' /\ Connected'
        <4>1. tools' \in [Refs -> Tool \cup {None}]
          BY <2>3, <3>2, <3>3, <3>4 DEF McpInv, TypeOK
        <4> QED BY <2>1, <3>1, <4>1 DEF McpInv, TypeOK, Requested, Connected
      <3>6. \A d \in Calls : Listed(d) => Listed(d)'
        BY <3>1 DEF Listed, McpInv, TypeOK
      <3>7. Listed(c)'
        BY <3>1 DEF Listed, McpInv, TypeOK
      <3>8. RegistryOwned' /\ ReachedOwned'
        <4>1. ASSUME NEW ref \in Refs, tools'[ref] # None
              PROVE  \E tool \in Tool : tools'[ref] = tool /\ Owned(ref, tool)'
          <5>1. CASE ref[1] = r.server /\ ref[2] \in Registered(r)
            <6>1. tools'[ref] = ToolFor(c, r, ref[2])
              BY <2>3, <5>1
            <6>2. /\ ToolFor(c, r, ref[2]) \in Tool
                  /\ ToolFor(c, r, ref[2]).session = c
              BY <3>3, <3>4
            <6>3. PICK tool \in Tool : tool = ToolFor(c, r, ref[2])
              BY <6>2
            <6>4. ref[2] \in Declared(r) /\ request' = request
              BY <3>1, <3>2, <5>1
            <6>5. Owned(ref, tool)'
              BY <2>1, <3>7, <5>1, <6>2, <6>3, <6>4 DEF Owned, ToolFor, Declared
            <6> QED BY <6>1, <6>3, <6>5
          <5>2. CASE ~(ref[1] = r.server /\ ref[2] \in Registered(r))
            <6>1. tools'[ref] = tools[ref]
              BY <2>3, <5>2
            <6>2. tools[ref] \in Tool /\ Owned(ref, tools[ref])
              BY <4>1, <6>1 DEF McpInv, TypeOK, RegistryOwned
            <6>3. PICK tool \in Tool : tool = tools[ref]
              BY <6>2
            <6>4. Owned(ref, tool)'
              BY <3>1, <3>6, <6>2, <6>3 DEF Owned, ToolFor, Declared
            <6> QED BY <6>1, <6>3, <6>4
          <5> QED BY <5>1, <5>2
        <4>2. ReachedOwned'
          BY <3>1, <3>6 DEF McpInv, ReachedOwned, Owned
        <4> QED BY <4>1, <4>2 DEF RegistryOwned
      <3>9. Handed'
        <4> SUFFICES ASSUME NEW d \in Calls, pc'[d] \in {"returned", "yielded"},
                            NEW t \in Declared(request[d])
                     PROVE  /\ tools'[<<request[d].server, t>>] # None
                            /\ tools'[<<request[d].server, t>>].session = d
          BY <3>1 DEF Handed
        <4>1. pc[d] # "idle" /\ request[d] \in Requests
          BY <2>1, <3>1 DEF McpInv, TypeOK, Requested
        <4>2. <<request[d].server, t>> \in Refs
          BY <4>1, RequestFields DEF Refs
        <4>3. CASE d = c
          <5>1. Full
            BY <3>1, <4>3 DEF McpInv, TypeOK
          <5>2. tools'[<<r.server, t>>] = ToolFor(c, r, t) /\ t \in ToolNames
            BY <2>3, <3>2, <4>2, <4>3, <5>1
          <5> QED BY <3>3, <4>3, <5>2, NoneAssumption
        <4>4. CASE d # c
          <5>1. pc[d] = pc'[d]
            BY <3>1, <4>4 DEF McpInv, TypeOK
          <5>2. /\ tools[<<request[d].server, t>>] # None
                /\ tools[<<request[d].server, t>>].session = d
            BY <5>1 DEF McpInv, Handed
          <5>3. tools'[<<request[d].server, t>>] = tools[<<request[d].server, t>>]
            BY <2>3, <3>2, <4>2, <5>2
          <5> QED BY <5>2, <5>3
        <4> QED BY <4>3, <4>4
      <3> QED BY <3>5, <3>8, <3>9 DEF McpInv
    <2> QED BY <1>5, <2>2, <2>3 DEF RegisterTools
  <1>6. ASSUME NEW ref \in Refs, Invoke(ref) PROVE McpInv'
    <2> DEFINE x == [ref |-> ref, tool |-> tools[ref],
                     server |-> request[tools[ref].session].server]
    <2>1. /\ tools[ref] # None /\ reached' = reached \cup {x}
          /\ UNCHANGED <<advertised, tools, request, pc, transport, session>>
      BY <1>6 DEF Invoke
    <2>2. Owned(ref, tools[ref]) /\ tools[ref] \in Tool
      BY <2>1 DEF McpInv, RegistryOwned, TypeOK
    <2>3. ref \in Servers \X ToolNames
      BY DEF Refs
    <2>4. tools[ref].tool = ref[2] /\ request[tools[ref].session].server = ref[1]
      BY <2>2, <2>3, ToolForTyped DEF Owned
    <2>5. x \in [ref : Refs, tool : Tool, server : Servers]
      BY <2>2, <2>3, <2>4
    <2>6. Owned(x.ref, x.tool) /\ x.ref = <<x.server, x.tool.tool>>
      BY <2>2, <2>3, <2>4
    <2>7. ReachedOwned'
      BY <2>1, <2>6 DEF McpInv, ReachedOwned, Owned, Listed
    <2> QED BY <2>1, <2>5, <2>7 DEF McpInv, TypeOK, Requested, Connected, RegistryOwned,
               Owned, Listed, Handed
  <1>7. ASSUME NEW s \in Servers, Redeploy(s) PROVE McpInv'
    BY <1>7 DEF Redeploy, McpInv, TypeOK, Requested, Connected, RegistryOwned,
                ReachedOwned, Owned, Listed, Handed
  <1>8. CASE UNCHANGED vars
    BY <1>8 DEF vars, McpInv, TypeOK, Requested, Connected, RegistryOwned,
                ReachedOwned, Owned, Listed, Handed
  <1> QED BY <1>1, <1>2, <1>3, <1>4, <1>5, <1>6, <1>7, <1>8 DEF Next

(* However many registrations and scopes fail, interleave and are cancelled, a call  *)
(* that is over holds no transport, and the refs handed to a caller are served by    *)
(* the caller's own open session (LiveMCPClient.connect, _connect_and_register).     *)
THEOREM SessionsMatch == Spec => []SessionsMatchUse
  <1>1. McpInv => SessionsMatchUse
    BY DEF McpInv, Connected, Handed, SessionsMatchUse
  <1> QED BY <1>1, McpInvInit, McpInvNext, PTL DEF Spec

(* A call through a ref reaches the tool of that name on that server, as the         *)
(* registration that owns the session declared it (_make_handler, register_mcp_tool).*)
THEOREM DeclaredReached == Spec => []OnlyDeclaredReached
  <1>1. McpInv => OnlyDeclaredReached
    <2> SUFFICES ASSUME McpInv, NEW x \in reached
                 PROVE  LET c == x.tool.session
                        IN /\ x.ref = <<x.server, x.tool.tool>>
                           /\ x.tool = ToolFor(c, request[c], x.ref[2])
                           /\ request[c].server = x.ref[1]
                           /\ x.ref[2] \in Declared(request[c])
      BY DEF OnlyDeclaredReached
    <2>1. Owned(x.ref, x.tool) /\ x.ref = <<x.server, x.tool.tool>>
      BY DEF McpInv, ReachedOwned
    <2> QED BY <2>1 DEF Owned
  <1> QED BY <1>1, McpInvInit, McpInvNext, PTL DEF Spec
=============================================================================
