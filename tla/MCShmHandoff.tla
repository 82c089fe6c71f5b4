----------------------------- MODULE MCShmHandoff -----------------------------
(* Instances of ShmHandoff for TLC: the segments of one producer thread.    *)
EXTENDS ShmHandoff

\* The configuration of the gateway: [psmo, interface], as in the shm_list.
GatewayKinds == <<"psmo", "interface">>
PsmoOnly == <<"psmo">>

NoOversize == {}
LastOversize == {3}

\* The cycle in which the consumers may first write while the producer does.
NoBlank == {}
SecondBlank == {2}

===============================================================================
