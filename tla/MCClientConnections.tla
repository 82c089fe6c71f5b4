------------------------- MODULE MCClientConnections -------------------------
(* Instances of ClientConnections for TLC: an OPC UA server with two nodes,   *)
(* and a Modbus server with a coil and a register.                            *)
EXTENDS ClientConnections, TLC

CONSTANTS brownfield, ecotec, node1, node2, coil, register

MCList == ("opcua" :> <<brownfield>>) @@ ("modbus" :> <<ecotec>>)
MCEndpoints == (brownfield :> <<node1, node2>>) @@ (ecotec :> <<coil, register>>)
==============================================================================
