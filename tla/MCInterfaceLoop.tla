--------------------------- MODULE MCInterfaceLoop ---------------------------
(* Instances of InterfaceLoop for TLC.                                       *)
EXTENDS InterfaceLoop

\* OPC UA first, as in main().
MCOrder == <<"opcua", "modbus">>
==============================================================================
