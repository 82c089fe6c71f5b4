--------------------------- MODULE MCAddressSpace ---------------------------
(* Instances of AddressSpace for TLC: two OPC UA servers, A with a          *)
(* temperature and, later, a flow, B with a level.                          *)
EXTENDS AddressSpace

CONSTANTS connA, temp, flow, connB, level, unreadable

E(n, t) == [name |-> n, type |-> t]

\* Both servers up; a flow of a type the gateway does not know comes in; a node
\* of A cannot be read, whose name is then None; the level is read with an
\* error; A is down; A reconnects in this cycle; both do.
MCSamples ==
    {<<E(connA, "Boolean"), E(temp, "Float"), E(connB, "Boolean"), E(level, "Float")>>,
     <<E(connA, "Boolean"), E(temp, "Float"), E(flow, "Double"), E(connB, "Boolean"),
       E(level, "Float")>>,
     <<E(connA, "Boolean"), E(unreadable, "String"), E(connB, "Boolean"),
       E(level, "Float")>>,
     <<E(connA, "Boolean"), E(temp, "Float"), E(connB, "Boolean"), E(level, "String")>>,
     <<E(connA, "Boolean"), E(connB, "Boolean"), E(level, "Float")>>,
     <<E(connB, "Boolean"), E(level, "Float")>>,
     <<>>}
=============================================================================
