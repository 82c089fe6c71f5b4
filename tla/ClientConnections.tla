-------------------------- MODULE ClientConnections --------------------------
(***************************************************************************)
(* How the data aggregation comes by a sample: one thread per protocol     *)
(* visits its clients in turn, connects those it takes for disconnected,   *)
(* reads the endpoints of the others and publishes what it got.  Servers   *)
(* go down and come back at any time.                                      *)
(*                                                                         *)
(* The protocols differ in what "connected" is.  An OPC UA client keeps a  *)
(* flag that only a connection attempt writes; a Modbus client asks the    *)
(* library whether its socket is open, which closes it when a request      *)
(* fails and, with auto_open, opens it again for the next one.             *)
(***************************************************************************)
EXTENDS Naturals, Sequences

CONSTANTS Threads,          \* "opcua", "modbus" (a subset, to check one alone)
          List,             \* List[t]: the clients of thread t, in order
          Endpoints,        \* Endpoints[c]: nodes or registers of c, in order
          Registers,        \* the endpoints read with function code 3
          Nameless,         \* the key None, "null" in the JSON text
          RetryInterval     \* ticks between two attempts to connect

ClientsOf(t) == {List[t][n] : n \in 1 .. Len(List[t])}
Clients == UNION {ClientsOf(t) : t \in Threads}
EndpointsOf(c) == {Endpoints[c][n] : n \in 1 .. Len(Endpoints[c])}
Opcua(c) == "opcua" \in Threads /\ c \in ClientsOf("opcua")

ASSUME ClientsAssumption ==
    /\ Threads \subseteq {"opcua", "modbus"}
    /\ \A t, u \in Threads : t # u => ClientsOf(t) \cap ClientsOf(u) = {}
    /\ \A t \in Threads : \A m, n \in 1 .. Len(List[t]) : List[t][m] = List[t][n] => m = n
    /\ \A t \in Threads : List[t] \in Seq(ClientsOf(t))
    /\ \A c \in Clients : /\ Endpoints[c] \in Seq(EndpointsOf(c)) /\ Len(Endpoints[c]) > 0
                          /\ Nameless \notin EndpointsOf(c)
    /\ RetryInterval \in Nat \ {0}

VARIABLES
    up,         \* up[c]: the server of c answers
    alive,      \* alive[c]: the session, or socket, of c is usable
    connected,  \* connected[c]: OPC UA connected, Modbus is_open
    age,        \* age[c]: ticks since the last attempt, up to RetryInterval
    at,         \* at[t]: index of the client thread t is at
    ep,         \* ep[t]: index of the endpoint it reads next, 0 on arrival
    entries,    \* entries[c]: what c contributes to the sample being built
    sample,     \* sample[c]: what it contributed to the last one published
    outage      \* history: publications since the server went down, up to 3

vars == <<up, alive, connected, age, at, ep, entries, sample, outage>>

\* status is the connection entry; good and failed are names of value entries.
NoEntries == [status |-> "none", good |-> {}, failed |-> {}]

\* start_clients has tried to connect the OPC UA clients once; Modbus clients
\* open their socket when it is first used.
Init ==
    /\ up \in [Clients -> BOOLEAN]
    /\ connected = [c \in Clients |-> Opcua(c) /\ up[c]]
    /\ alive = connected
    /\ age = [c \in Clients |-> RetryInterval]
    /\ at = [t \in Threads |-> 1] /\ ep = [t \in Threads |-> 0]
    /\ entries = [c \in Clients |-> NoEntries]
    /\ sample = [c \in Clients |-> NoEntries]
    /\ outage = [c \in Clients |-> 0]

-----------------------------------------------------------------------------
(* The servers and the time.                                               *)

ServerDown(c) ==
    /\ up[c]
    /\ up' = [up EXCEPT ![c] = FALSE]
    /\ alive' = [alive EXCEPT ![c] = FALSE]
    /\ UNCHANGED <<connected, age, at, ep, entries, sample, outage>>

ServerUp(c) ==
    /\ ~up[c]
    /\ up' = [up EXCEPT ![c] = TRUE]
    /\ outage' = [outage EXCEPT ![c] = 0]
    /\ UNCHANGED <<alive, connected, age, at, ep, entries, sample>>

Due(c) == age[c] = RetryInterval

Tick ==
    /\ \E c \in Clients : ~Due(c)
    /\ age' = [c \in Clients |-> IF Due(c) THEN age[c] ELSE age[c] + 1]
    /\ UNCHANGED <<up, alive, connected, at, ep, entries, sample, outage>>

-----------------------------------------------------------------------------
(* Arrival at a client.                                                    *)

Arrives(t, c) == at[t] <= Len(List[t]) /\ c = List[t][at[t]] /\ ep[t] = 0

Status(c, s) == entries' = [entries EXCEPT ![c].status = s]

NextClient(t) == at' = [at EXCEPT ![t] = @ + 1] /\ ep' = [ep EXCEPT ![t] = 0]
FirstEndpoint(t) == ep' = [ep EXCEPT ![t] = 1] /\ at' = at

\* A client taken for connected has its entry, and its endpoints are read.
Report(t, c) ==
    /\ Arrives(t, c) /\ connected[c]
    /\ Status(c, "true") /\ FirstEndpoint(t)
    /\ UNCHANGED <<up, alive, connected, age, sample, outage>>

\* Mutant: the time of the last attempt is taken before the interval is looked at.
TooEarlyRestarts(t, c) ==
    /\ Arrives(t, c) /\ ~connected[c] /\ ~Due(c)
    /\ age' = [age EXCEPT ![c] = 0]
    /\ Status(c, "false") /\ NextClient(t)
    /\ UNCHANGED <<up, alive, connected, sample, outage>>

\* The interval has not passed.
TooEarly(t, c) ==
    /\ Arrives(t, c) /\ ~connected[c] /\ ~Due(c)
    /\ Status(c, "false") /\ NextClient(t)
    /\ UNCHANGED <<up, alive, connected, age, sample, outage>>

RetryFails(t, c) ==
    /\ Arrives(t, c) /\ ~connected[c] /\ Due(c) /\ ~up[c]
    /\ age' = [age EXCEPT ![c] = 0]
    /\ Status(c, "false") /\ NextClient(t)
    /\ UNCHANGED <<up, alive, connected, sample, outage>>

\* Mutant: the flag is not set when the attempt succeeds.
ReconnectsUnmarked(t, c) ==
    /\ Arrives(t, c) /\ ~connected[c] /\ Due(c) /\ up[c]
    /\ age' = [age EXCEPT ![c] = 0]
    /\ alive' = [alive EXCEPT ![c] = TRUE]
    /\ IF Opcua(c) THEN NextClient(t) /\ UNCHANGED entries
                   ELSE FirstEndpoint(t) /\ Status(c, "true")
    /\ UNCHANGED <<up, connected, sample, outage>>

\* A Modbus client that connects is read at once; an OPC UA client that does has
\* no entry at all in this sample, not even that of its status.
Reconnects(t, c) ==
    /\ Arrives(t, c) /\ ~connected[c] /\ Due(c) /\ up[c]
    /\ age' = [age EXCEPT ![c] = 0]
    /\ connected' = [connected EXCEPT ![c] = TRUE]
    /\ alive' = [alive EXCEPT ![c] = TRUE]
    /\ IF Opcua(c) THEN NextClient(t) /\ UNCHANGED entries
                   ELSE FirstEndpoint(t) /\ Status(c, "true")
    /\ UNCHANGED <<up, sample, outage>>

-----------------------------------------------------------------------------
(* The endpoints.                                                          *)

Reads(t, c, e) ==
    /\ at[t] <= Len(List[t]) /\ c = List[t][at[t]]
    /\ ep[t] > 0 /\ e = Endpoints[c][ep[t]]

NextEndpoint(t, c) ==
    IF ep[t] = Len(Endpoints[c]) THEN NextClient(t)
    ELSE ep' = [ep EXCEPT ![t] = @ + 1] /\ at' = at

Read(t, c, e) ==
    /\ Reads(t, c, e) /\ up[c]
    /\ IF Opcua(c) THEN alive[c] ELSE ~connected[c] \/ alive[c]
    /\ connected' = [connected EXCEPT ![c] = TRUE]
    /\ alive' = [alive EXCEPT ![c] = TRUE]
    /\ entries' = [entries EXCEPT ![c].good = @ \cup {e}]
    /\ NextEndpoint(t, c)
    /\ UNCHANGED <<up, age, sample, outage>>

\* read_value returns None for name and value: every node of every client that
\* cannot be read makes the same entry.
ReadNodeFails(t, c, e) ==
    /\ Reads(t, c, e) /\ Opcua(c) /\ ~(up[c] /\ alive[c])
    /\ entries' = [entries EXCEPT ![c].failed = @ \cup {Nameless}]
    /\ NextEndpoint(t, c)
    /\ UNCHANGED <<up, alive, connected, age, sample, outage>>

\* Mutant: the socket stays open.
ReadModbusKeepsOpen(t, c, e) ==
    /\ Reads(t, c, e) /\ ~Opcua(c)
    /\ ~up[c] \/ (connected[c] /\ ~alive[c])
    /\ entries' = IF e \in Registers THEN entries
                  ELSE [entries EXCEPT ![c].failed = @ \cup {e}]
    /\ NextEndpoint(t, c)
    /\ UNCHANGED <<up, alive, connected, age, sample, outage>>

\* The library closes the socket.  A register leaves no entry; of a coil or an
\* input, the result None is subscripted and the exception makes an error entry.
ReadModbusFails(t, c, e) ==
    /\ Reads(t, c, e) /\ ~Opcua(c)
    /\ ~up[c] \/ (connected[c] /\ ~alive[c])
    /\ connected' = [connected EXCEPT ![c] = FALSE]
    /\ alive' = [alive EXCEPT ![c] = FALSE]
    /\ entries' = IF e \in Registers THEN entries
                  ELSE [entries EXCEPT ![c].failed = @ \cup {e}]
    /\ NextEndpoint(t, c)
    /\ UNCHANGED <<up, age, sample, outage>>

-----------------------------------------------------------------------------
\* The sample goes to the segments (ShmHandoff), and the next one is begun.
Publish(t) ==
    /\ at[t] > Len(List[t])
    /\ sample' = [c \in Clients |-> IF c \in ClientsOf(t) THEN entries[c]
                                                          ELSE sample[c]]
    /\ entries' = [c \in Clients |-> IF c \in ClientsOf(t) THEN NoEntries
                                                           ELSE entries[c]]
    /\ outage' = [c \in Clients |->
                     IF c \in ClientsOf(t) /\ ~up[c] /\ outage[c] < 3
                     THEN outage[c] + 1 ELSE outage[c]]
    /\ at' = [at EXCEPT ![t] = 1]
    /\ UNCHANGED <<up, alive, connected, age, ep>>

Visit(t, c) ==
    \/ Report(t, c) \/ TooEarly(t, c) \/ RetryFails(t, c) \/ Reconnects(t, c)
    \/ \E e \in EndpointsOf(c) :
           Read(t, c, e) \/ ReadNodeFails(t, c, e) \/ ReadModbusFails(t, c, e)

PeriodicRead(t) == Publish(t) \/ \E c \in ClientsOf(t) : Visit(t, c)

Next ==
    \/ \E t \in Threads : PeriodicRead(t)
    \/ \E c \in Clients : ServerDown(c) \/ ServerUp(c)
    \/ Tick

Spec == Init /\ [][Next]_vars

\* Both threads are scheduled and time passes; servers do as they like.
FairSpec == Spec /\ WF_vars(Tick) /\ \A t \in Threads : WF_vars(PeriodicRead(t))

-----------------------------------------------------------------------------
(* Properties.                                                             *)

Contribution(c) ==
    [status : {"none", "true", "false"}, good : SUBSET EndpointsOf(c),
     failed : SUBSET (EndpointsOf(c) \cup {Nameless})]

\* Types; a usable session is one of a client taken for connected, and what a
\* client has in the sample agrees with the thread's place.
TypeOK ==
    /\ up \in [Clients -> BOOLEAN] /\ alive \in [Clients -> BOOLEAN]
    /\ connected \in [Clients -> BOOLEAN]
    /\ age \in [Clients -> 0 .. RetryInterval]
    /\ outage \in [Clients -> 0 .. 3]
    /\ DOMAIN entries = Clients /\ DOMAIN sample = Clients
    /\ \A c \in Clients : /\ entries[c] \in Contribution(c)
                          /\ sample[c] \in Contribution(c)
                          /\ alive[c] => connected[c] /\ up[c]
    /\ at \in [Threads -> Nat \ {0}] /\ ep \in [Threads -> Nat]
    /\ \A t \in Threads :
           /\ at[t] \in 1 .. Len(List[t]) + 1
           /\ ep[t] > 0 => /\ at[t] <= Len(List[t])
                           /\ ep[t] <= Len(Endpoints[List[t][at[t]]])
           /\ \A n \in 1 .. Len(List[t]) :
                  at[t] < n => entries[List[t][n]] = NoEntries

\* An outage shows.  From the first cycle that lies in it no value is published
\* as read, and from the second on a Modbus client is reported as disconnected,
\* whether the interval lets the thread try again or not.
OutageShows ==
    \A c \in Clients :
        /\ outage[c] >= 2 => sample[c].good = {}
        /\ outage[c] = 3 /\ ~Opcua(c) => sample[c] = [NoEntries EXCEPT !.status = "false"]

\* An OPC UA client whose session is lost is never connected again.
Stale(c) == Opcua(c) /\ connected[c] /\ ~alive[c]

Complete(c) == sample[c] = [status |-> "true", good |-> EndpointsOf(c), failed |-> {}]

\* Once a server stays up, every sample comes to have its status and all of its
\* values and no error any more, however often it was down before and whenever
\* the client last tried, unless the client is an OPC UA client that still takes
\* the session of before for connected.
RecoversUnlessStale ==
    \A c \in Clients : <>[]up[c] => <>[](Complete(c) \/ Stale(c))
=============================================================================
