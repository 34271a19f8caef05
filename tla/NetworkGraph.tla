----------------------------- MODULE NetworkGraph -----------------------------
(***************************************************************************)
(* The network-on-chip simulation graph (xls/noc/simulation/              *)
(* network_graph.h): a NetworkManager owns networks, a network owns        *)
(* components and connections, a component owns ports.  Objects live in   *)
(* vectors; each stores the id it was created with (id_), and the         *)
(* by-index accessors build ids from the index and the owner's id_.  A    *)
(* port and a connection point at each other: Port::connection_ one way,  *)
(* Connection::src_/sink_ the other; either may be invalid (dangling).    *)
(* The bodies of the Create* functions, Attach, Detach*, GetPort and the  *)
(* other by-id lookups are in network_graph.cc, not in the header: their  *)
(* actions follow the contracts the header documents, and a new object    *)
(* gets the id its index has.                                              *)
(***************************************************************************)
EXTENDS Integers, Sequences

CONSTANTS
    Kinds,          \* NetworkComponentKind values
    MaxNetworks,    \* bounds on each vector, for model checking
    MaxComponents,
    MaxPorts,
    MaxConnections

VARIABLE nets   \* networks_: each [id, comps |-> components_, conns |-> connections_]

Directions == {"input", "output"}

\* Ids; kInvalid is a distinguished id.
NetworkComponentId(n, c) == [net |-> n, comp |-> c]
PortId(n, c, i) == [net |-> n, comp |-> c, port |-> i]
ConnectionId(n, i) == [net |-> n, idx |-> i]
InvalidPort == PortId(-1, -1, -1)
InvalidConnection == ConnectionId(-1, -1)

\* Every port and connection id the bounds allow.
BoundedPortIds ==
    {PortId(n, c, i) : n \in 0 .. MaxNetworks - 1, c \in 0 .. MaxComponents - 1, i \in 0 .. MaxPorts - 1}
BoundedConnectionIds ==
    {ConnectionId(n, i) : n \in 0 .. MaxNetworks - 1, i \in 0 .. MaxConnections - 1}

\* The objects' data members (the manager pointers mgr_ left out).
PortRecord ==
    [id : BoundedPortIds, dir : Directions, conn : BoundedConnectionIds \cup {InvalidConnection}]
ConnectionRecord ==
    [id : BoundedConnectionIds, src : BoundedPortIds \cup {InvalidPort}, sink : BoundedPortIds \cup {InvalidPort}]
NetworkComponentRecord ==
    [id : {NetworkComponentId(n, c) : n \in 0 .. MaxNetworks - 1, c \in 0 .. MaxComponents - 1},
     kind : Kinds, ports : Seq(PortRecord)]
NetworkRecord ==
    [id : 0 .. MaxNetworks - 1, comps : Seq(NetworkComponentRecord), conns : Seq(ConnectionRecord)]

\* The constructors.  A port's connection_ and a connection's src_ and sink_
\* start as the default id, kInvalid.
NewNetwork(id) == [id |-> id, comps |-> << >>, conns |-> << >>]
NewNetworkComponent(id, kind) == [id |-> id, kind |-> kind, ports |-> << >>]
NewPort(id, dir) == [id |-> id, dir |-> dir, conn |-> InvalidConnection]
NewConnection(id) == [id |-> id, src |-> InvalidPort, sink |-> InvalidPort]

\* NetworkManager::GetNetworkCount.
GetNetworkCount == Len(nets)

\* The by-index accessors: ids from the index and the owner's stored id.
GetNetworkIdByIndex(i) == i
NetworkOf(n) == nets[n + 1]
\* Mutant: the component id built without the network's id_.
GetNetworkComponentIdByIndexFirstNetwork(n, i) == NetworkComponentId(0, i)
GetNetworkComponentIdByIndex(n, i) == NetworkComponentId(NetworkOf(n).id, i)
GetNetworkComponentByIndex(n, i) == NetworkOf(n).comps[i + 1]
GetPortIdByIndex(n, c, i) ==
    LET cid == GetNetworkComponentByIndex(n, c).id IN PortId(cid.net, cid.comp, i)
GetPortByIndex(n, c, i) == GetNetworkComponentByIndex(n, c).ports[i + 1]
GetConnectionIdByIndex(n, i) == ConnectionId(NetworkOf(n).id, i)
GetConnectionByIndex(n, i) == NetworkOf(n).conns[i + 1]

\* The lookups by id, each level handing the id to the next.
GetNetwork(id) == nets[id + 1]
NetworkGetNetworkComponent(net, x) == net.comps[x.comp + 1]
NetworkGetConnection(net, c) == net.conns[c.idx + 1]
ComponentGetPort(comp, p) == comp.ports[p.port + 1]
NetworkGetPort(net, p) == ComponentGetPort(NetworkGetNetworkComponent(net, p), p)
CompObj(x) == NetworkGetNetworkComponent(GetNetwork(x.net), x)
PortObj(p) == NetworkGetPort(GetNetwork(p.net), p)
ConnObj(c) == NetworkGetConnection(GetNetwork(c.net), c)

\* The vectors' index ranges, as ids.
AllComponents ==
    UNION {{NetworkComponentId(n, c) : c \in 0 .. Len(nets[n + 1].comps) - 1} : n \in 0 .. GetNetworkCount - 1}
AllPorts ==
    UNION {{PortId(x.net, x.comp, i) : i \in 0 .. Len(CompObj(x).ports) - 1} : x \in AllComponents}
AllConnections ==
    UNION {{ConnectionId(n, i) : i \in 0 .. Len(nets[n + 1].conns) - 1} : n \in 0 .. GetNetworkCount - 1}

\* The id vectors the accessors return.
GetNetworkIds == [i \in 1 .. Len(nets) |-> GetNetworkIdByIndex(i - 1)]
GetNetworkComponentIds(n) ==
    [i \in 1 .. Len(NetworkOf(n).comps) |-> GetNetworkComponentIdByIndex(n, i - 1)]
GetPortIds(n, c) ==
    [i \in 1 .. Len(GetNetworkComponentByIndex(n, c).ports) |-> GetPortIdByIndex(n, c, i - 1)]
\* GetOutputPortIds / GetInputPortIds: the port ids of one direction, in order.
GetOutputPortIds(n, c) ==
    LET IsOutput(p) == PortObj(p).dir = "output" IN SelectSeq(GetPortIds(n, c), IsOutput)
GetInputPortIds(n, c) ==
    LET IsInput(p) == PortObj(p).dir = "input" IN SelectSeq(GetPortIds(n, c), IsInput)
\* Network::GetConnectionIds(): one id per element of components_.
GetConnectionIds(n) ==
    [i \in 1 .. Len(NetworkOf(n).comps) |-> GetConnectionIdByIndex(n, i - 1)]

-----------------------------------------------------------------------------
(* Port::SetAttached / SetDetached and Connection::Attach as operators on  *)
(* the graph g, so that CreateConnection can attach both ends in one call. *)

SetPortConnection(g, p, c) ==
    [g EXCEPT ![p.net + 1].comps[p.comp + 1].ports[p.port + 1].conn = c]

\* The end of a connection a port of direction d attaches to.
EndOf(d) == IF d = "output" THEN "src" ELSE "sink"

\* Mutant: the prior port of the end keeps pointing at the connection.
AttachInKeepOld(g, c, p) ==
    LET e == EndOf(g[p.net + 1].comps[p.comp + 1].ports[p.port + 1].dir)
    IN SetPortConnection([g EXCEPT ![c.net + 1].conns[c.idx + 1][e] = p],
                         p, g[c.net + 1].conns[c.idx + 1].id)

\* Connection::Attach(port): leave the prior port of that end (SetDetached),
\* then point the end at the port and the port at the connection's id_.
AttachIn(g, c, p) ==
    LET e == EndOf(g[p.net + 1].comps[p.comp + 1].ports[p.port + 1].dir)
        old == g[c.net + 1].conns[c.idx + 1][e]
        g1 == IF old # InvalidPort THEN SetPortConnection(g, old, InvalidConnection) ELSE g
        g2 == [g1 EXCEPT ![c.net + 1].conns[c.idx + 1][e] = p]
    IN SetPortConnection(g2, p, g[c.net + 1].conns[c.idx + 1].id)

\* Mutant: the detached port is looked up in the connection's network.
DetachInOwnNetwork(g, c, e) ==
    LET old == g[c.net + 1].conns[c.idx + 1][e]
    IN IF old = InvalidPort THEN g
       ELSE [SetPortConnection(g, PortId(c.net, old.comp, old.port), InvalidConnection)
               EXCEPT ![c.net + 1].conns[c.idx + 1][e] = InvalidPort]

\* Connection::DetachSrc / DetachSink.
DetachIn(g, c, e) ==
    LET old == g[c.net + 1].conns[c.idx + 1][e]
    IN IF old = InvalidPort THEN g
       ELSE [SetPortConnection(g, old, InvalidConnection)
               EXCEPT ![c.net + 1].conns[c.idx + 1][e] = InvalidPort]

-----------------------------------------------------------------------------
Init == nets = << >>

\* The bodies: each returns the manager's vectors after the call.

\* Mutant: the component's id taken after the push, one past its index.
NetworkCreateNetworkComponentIdAfterPush(n, kind) ==
    [nets EXCEPT ![n + 1].comps =
        Append(@, NewNetworkComponent(GetNetworkComponentIdByIndex(n, Len(@) + 1), kind))]

\* Network::CreateNetworkComponent(kind): push a component whose id is the
\* id of its index.
NetworkCreateNetworkComponent(n, kind) ==
    [nets EXCEPT ![n + 1].comps =
        Append(@, NewNetworkComponent(GetNetworkComponentIdByIndex(n, Len(@)), kind))]

\* Mutant: the new port's connection_ is left naming the next connection.
ComponentCreatePortStaleConnection(x, dir) ==
    [nets EXCEPT ![x.net + 1].comps[x.comp + 1].ports =
        Append(@, [NewPort(GetPortIdByIndex(x.net, x.comp, Len(@)), dir)
                     EXCEPT !.conn = ConnectionId(x.net, Len(nets[x.net + 1].conns))])]

\* NetworkComponent::CreatePort(dir), reached from the component's id.
ComponentCreatePort(x, dir) ==
    [nets EXCEPT ![x.net + 1].comps[x.comp + 1].ports =
        Append(@, NewPort(GetPortIdByIndex(x.net, x.comp, Len(@)), dir))]

\* Network::CreateConnection(): push a connection with both ends invalid.
NetworkCreateConnection(n) ==
    [nets EXCEPT ![n + 1].conns = Append(@, NewConnection(GetConnectionIdByIndex(n, Len(@))))]

\* Network::CreateConnection(src, sink): a new connection, attached to each
\* end that is a valid port.
NetworkCreateConnectionBetween(n, src, sink) ==
    LET c == GetConnectionIdByIndex(n, Len(NetworkOf(n).conns))
        g0 == NetworkCreateConnection(n)
        g1 == IF src # InvalidPort THEN AttachIn(g0, c, src) ELSE g0
    IN IF sink # InvalidPort THEN AttachIn(g1, c, sink) ELSE g1

\* The NetworkManager calls; each vector stops growing at its bound.
CreateNetwork ==
    /\ GetNetworkCount < MaxNetworks
    /\ nets' = Append(nets, NewNetwork(GetNetworkIdByIndex(GetNetworkCount)))

CreateNetworkComponent(network, kind) ==
    /\ Len(GetNetwork(network).comps) < MaxComponents
    /\ nets' = NetworkCreateNetworkComponent(network, kind)

CreatePort(component, dir) ==
    /\ Len(CompObj(component).ports) < MaxPorts
    /\ nets' = ComponentCreatePort(component, dir)

CreateFloatingConnection(network) ==
    /\ Len(GetNetwork(network).conns) < MaxConnections
    /\ nets' = NetworkCreateConnection(network)

CreateConnection(network, src, sink) ==
    /\ Len(GetNetwork(network).conns) < MaxConnections
    /\ nets' = NetworkCreateConnectionBetween(network, src, sink)

\* Network::Attach(conn, port): the connection's Attach.
NetworkAttach(conn, port) == AttachIn(nets, conn, port)

\* NetworkManager::Attach(conn, port): any connection and any port; the
\* header asks for no common network.
Attach(conn, port) == nets' = NetworkAttach(conn, port)

DetachSrc(c) == nets' = DetachIn(nets, c, "src")

DetachSink(c) == nets' = DetachIn(nets, c, "sink")

Next ==
    \/ CreateNetwork
    \/ \E n \in 0 .. GetNetworkCount - 1 :
          \/ \E k \in Kinds : CreateNetworkComponent(n, k)
          \/ CreateFloatingConnection(n)
          \/ \E s, t \in AllPorts \cup {InvalidPort} : CreateConnection(n, s, t)
    \/ \E x \in AllComponents, d \in Directions : CreatePort(x, d)
    \/ \E c \in AllConnections, p \in AllPorts : Attach(c, p)
    \/ \E c \in AllConnections : DetachSrc(c) \/ DetachSink(c)

Spec == Init /\ [][Next]_nets

-----------------------------------------------------------------------------
\* Every network and the objects in it have the types of their classes'
\* data members, and every port and connection end names an existing object
\* or is invalid.
TypeOK ==
    /\ nets \in Seq(NetworkRecord)
    /\ \A p \in AllPorts :
          /\ PortObj(p).dir \in Directions
          /\ PortObj(p).conn \in AllConnections \cup {InvalidConnection}
    /\ \A c \in AllConnections :
          {ConnObj(c).src, ConnObj(c).sink} \subseteq AllPorts \cup {InvalidPort}

\* Every id a by-index accessor builds is the stored id of the object the
\* by-index object accessor returns for that index, and looking that id up
\* through the manager reaches the same object: the ids stored at creation
\* and the ids built from an owner's id_ and an index agree, at every level.
IdsResolve ==
    /\ \A i \in DOMAIN GetNetworkIds : GetNetwork(GetNetworkIds[i]) = nets[i]
    /\ \A n \in DOMAIN nets :
          /\ NetworkOf(n - 1).id = GetNetworkIdByIndex(n - 1)
          /\ \A i \in DOMAIN GetNetworkComponentIds(n - 1) :
                LET x == GetNetworkComponentIds(n - 1)[i]
                IN /\ GetNetworkComponentByIndex(n - 1, i - 1).id = x
                   /\ x \in AllComponents
                   /\ CompObj(x) = GetNetworkComponentByIndex(n - 1, i - 1)
          /\ \A i \in 0 .. Len(NetworkOf(n - 1).conns) - 1 :
                LET c == GetConnectionIdByIndex(n - 1, i)
                IN /\ c \in AllConnections
                   /\ ConnObj(c) = GetConnectionByIndex(n - 1, i) /\ ConnObj(c).id = c
    /\ \A x \in AllComponents :
          \A i \in DOMAIN GetPortIds(x.net, x.comp) :
             LET p == GetPortIds(x.net, x.comp)[i]
             IN /\ GetPortByIndex(x.net, x.comp, i - 1).id = p
                /\ p \in AllPorts
                /\ PortObj(p) = GetPortByIndex(x.net, x.comp, i - 1)

\* A port attached to a connection is the end of that connection its
\* direction selects, after any sequence of creations, attaches and
\* detaches: each id GetOutputPortIds returns, if attached, is the src of
\* its connection (resolved by GetConnection), each of GetInputPortIds the
\* sink.
PortLinkSound ==
    \A x \in AllComponents :
        /\ \A i \in DOMAIN GetOutputPortIds(x.net, x.comp) :
              LET p == GetOutputPortIds(x.net, x.comp)[i]
              IN PortObj(p).conn # InvalidConnection => ConnObj(PortObj(p).conn).src = p
        /\ \A i \in DOMAIN GetInputPortIds(x.net, x.comp) :
              LET p == GetInputPortIds(x.net, x.comp)[i]
              IN PortObj(p).conn # InvalidConnection => ConnObj(PortObj(p).conn).sink = p

Links == INSTANCE NetworkLinks WITH
    PortIds <- BoundedPortIds,
    ConnectionIds <- BoundedConnectionIds,
    NoConnection <- InvalidConnection,
    NoPort <- InvalidPort,
    dir <- [p \in AllPorts |-> PortObj(p).dir],
    conns <- AllConnections,
    link <- [p \in AllPorts |-> PortObj(p).conn]

\* The graph keeps the header's contract for links, seen from the ports:
\* Attach moves a port to the new connection and takes the connection from
\* its prior port, and DetachSrc / DetachSink of a connection dissociate
\* only that connection's own ports, whatever other connections hold.
ImplementsNetworkLinks == Links!Spec

\* GetConnectionIds returns exactly the ids of the network's connections.
ConnectionIdsComplete ==
    \A n \in 0 .. GetNetworkCount - 1 :
        {GetConnectionIds(n)[i] : i \in DOMAIN GetConnectionIds(n)}
          = {ConnObj(c).id : c \in {x \in AllConnections : x.net = n}}

=============================================================================
