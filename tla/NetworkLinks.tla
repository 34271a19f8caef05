----------------------------- MODULE NetworkLinks -----------------------------
(***************************************************************************)
(* What network_graph.h promises of the links between ports and            *)
(* connections, seen from the ports: a port holds at most one connection  *)
(* (Port::connection_), a connection holds at most one port of each       *)
(* direction (its src and its sink).  Attach associates a connection with *)
(* a port and dissociates the connection from its prior port of that      *)
(* direction; DetachSrc / DetachSink dissociate the connection from its   *)
(* src / sink port and touch no other link.  Networks and components are  *)
(* hidden.                                                                 *)
(***************************************************************************)
EXTENDS TLC

CONSTANTS
    PortIds,         \* every port id that can exist
    ConnectionIds,   \* every connection id that can exist
    NoConnection,    \* ConnectionId::kInvalid
    NoPort           \* PortId::kInvalid

VARIABLES
    dir,     \* the existing ports, with their direction
    conns,   \* the existing connections
    link     \* the connection each existing port holds, or NoConnection

vars == << dir, conns, link >>

\* The direction of the port a connection end holds: src an output port,
\* sink an input port.
DirOfEnd(e) == IF e = "src" THEN "output" ELSE "input"

\* l after connection c is dissociated from its ports of direction d.
Unlinked(l, c, d) ==
    [q \in DOMAIN l |-> IF l[q] = c /\ dir[q] = d THEN NoConnection ELSE l[q]]

\* l after connection c is associated with port p: c leaves its prior port
\* of p's direction, and p holds c, whatever it held before.
LinkedTo(l, c, p) == [Unlinked(l, c, dir[p]) EXCEPT ![p] = c]

Init ==
    /\ dir = << >>
    /\ conns = {}
    /\ link = << >>

AddPort(p, d) ==
    /\ p \notin DOMAIN dir
    /\ dir' = dir @@ (p :> d)
    /\ link' = link @@ (p :> NoConnection)
    /\ UNCHANGED conns

\* A new connection, associated with src and then with sink where each is
\* an existing port (an invalid id leaves that end dangling).
AddConnection(c, src, sink) ==
    LET l1 == IF src \in DOMAIN dir THEN LinkedTo(link, c, src) ELSE link
    IN /\ c \notin conns
       /\ conns' = conns \cup {c}
       /\ link' = IF sink \in DOMAIN dir THEN LinkedTo(l1, c, sink) ELSE l1
       /\ UNCHANGED dir

Link(c, p) ==
    /\ c \in conns /\ p \in DOMAIN dir
    /\ link' = LinkedTo(link, c, p)
    /\ UNCHANGED << dir, conns >>

Unlink(c, e) ==
    /\ c \in conns
    /\ link' = Unlinked(link, c, DirOfEnd(e))
    /\ UNCHANGED << dir, conns >>

Next ==
    \/ \E p \in PortIds, d \in {"input", "output"} : AddPort(p, d)
    \/ \E c \in ConnectionIds, s, t \in PortIds \cup {NoPort} : AddConnection(c, s, t)
    \/ \E c \in conns, p \in DOMAIN dir : Link(c, p)
    \/ \E c \in conns, e \in {"src", "sink"} : Unlink(c, e)

Spec == Init /\ [][Next]_vars

=============================================================================
