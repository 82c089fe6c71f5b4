----------------------- MODULE ClientConnectionsProofs -----------------------
(***************************************************************************)
(* Theorems about ClientConnections: for any lists of clients and of       *)
(* endpoints an outage shows in the samples, however the servers go down   *)
(* and come back while the threads are on their way.                       *)
(***************************************************************************)
EXTENDS ClientConnections, TLAPS

-----------------------------------------------------------------------------
(* The lists.                                                              *)

\* A client has one place, in the list of one thread.
LEMMA OnePlace ==
    ASSUME NEW t \in Threads, NEW m \in 1 .. Len(List[t]),
           NEW u \in Threads, NEW n \in 1 .. Len(List[u]), List[t][m] = List[u][n]
    PROVE  t = u /\ m = n
<1>1. List[t][m] \in ClientsOf(t) /\ List[u][n] \in ClientsOf(u)
  BY DEF ClientsOf
<1>2. t = u
  BY <1>1, ClientsAssumption
<1> QED
  BY <1>2, ClientsAssumption

LEMMA PlaceOf ==
    ASSUME NEW c \in Clients
    PROVE  \E t \in Threads : \E n \in 1 .. Len(List[t]) : c = List[t][n]
BY DEF Clients, ClientsOf

LEMMA Lengths ==
    /\ \A t \in Threads : Len(List[t]) \in Nat
    /\ \A t \in Threads : \A n \in 1 .. Len(List[t]) : List[t][n] \in Clients
    /\ \A c \in Clients : Len(Endpoints[c]) \in Nat \ {0}
    /\ \A c \in Clients : \A n \in 1 .. Len(Endpoints[c]) : Endpoints[c][n] \in EndpointsOf(c)
    /\ \A t \in Threads : ClientsOf(t) \subseteq Clients
<1>1. \A t \in Threads : ClientsOf(t) \subseteq Clients
  BY DEF Clients
<1>2. \A t \in Threads : Len(List[t]) \in Nat
  <2> SUFFICES ASSUME NEW t \in Threads PROVE Len(List[t]) \in Nat
    OBVIOUS
  <2>1. List[t] \in Seq(ClientsOf(t))
    BY ClientsAssumption
  <2> QED
    BY <2>1
<1>3. \A t \in Threads : \A n \in 1 .. Len(List[t]) : List[t][n] \in Clients
  BY <1>1 DEF ClientsOf
<1>4. \A c \in Clients : Len(Endpoints[c]) \in Nat \ {0}
  BY ClientsAssumption
<1>5. \A c \in Clients : \A n \in 1 .. Len(Endpoints[c]) : Endpoints[c][n] \in EndpointsOf(c)
  BY DEF EndpointsOf
<1> QED
  BY <1>1, <1>2, <1>3, <1>4, <1>5

-----------------------------------------------------------------------------
(* Types.                                                                  *)

\* What TypeOK says of the place of a thread.
PlaceOK(t) ==
    /\ at[t] \in 1 .. Len(List[t]) + 1
    /\ ep[t] > 0 => at[t] <= Len(List[t]) /\ ep[t] <= Len(Endpoints[List[t][at[t]]])
    /\ \A n \in 1 .. Len(List[t]) : at[t] < n => entries[List[t][n]] = NoEntries

\* A step that leaves a thread where it is or moves it on, and writes to the
\* entries of none of the clients ahead.
Onward(t, c) ==
    /\ \/ NextClient(t)
       \/ FirstEndpoint(t)
       \/ ep[t] < Len(Endpoints[c]) /\ ep' = [ep EXCEPT ![t] = @ + 1] /\ at' = at
    /\ \A d \in Clients \ {c} : entries'[d] = entries[d]
    /\ at[t] <= Len(List[t]) /\ c = List[t][at[t]]

LEMMA PlacePreserved ==
    ASSUME TypeOK, NEW t \in Threads, NEW c \in ClientsOf(t), Onward(t, c)
    PROVE  /\ at' \in [Threads -> Nat \ {0}] /\ ep' \in [Threads -> Nat]
           /\ \A u \in Threads : PlaceOK(u)'
<1> USE Lengths DEF TypeOK, Onward, NextClient, FirstEndpoint
<1>1. at' \in [Threads -> Nat \ {0}] /\ ep' \in [Threads -> Nat]
  <2>1. at[t] \in Nat \ {0} /\ ep[t] \in Nat
    OBVIOUS
  <2>2. CASE NextClient(t)
    BY <2>1, <2>2
  <2>3. CASE FirstEndpoint(t)
    BY <2>1, <2>3
  <2>4. CASE ep' = [ep EXCEPT ![t] = @ + 1] /\ at' = at
    BY <2>1, <2>4
  <2> QED
    BY <2>2, <2>3, <2>4
<1>2. ASSUME NEW u \in Threads, u # t PROVE PlaceOK(u)'
  <2>1. at'[u] = at[u] /\ ep'[u] = ep[u]
    BY <1>2
  <2>2. \A n \in 1 .. Len(List[u]) : entries'[List[u][n]] = entries[List[u][n]]
    <3> SUFFICES ASSUME NEW n \in 1 .. Len(List[u]), List[u][n] = c PROVE FALSE
      OBVIOUS
    <3> QED
      BY <1>2, OnePlace
  <2> QED
    BY <2>1, <2>2 DEF PlaceOK
<1>3. PlaceOK(t)'
  <2>1. \A n \in 1 .. Len(List[t]) : n # at[t] => entries'[List[t][n]] = entries[List[t][n]]
    BY OnePlace
  <2>2. at'[t] \in {at[t], at[t] + 1} /\ at[t] \in Nat
    OBVIOUS
  <2>3. at'[t] \in 1 .. Len(List[t]) + 1
    BY <2>2
  <2>4. c \in Clients /\ ep[t] \in Nat
    OBVIOUS
  <2>5. ep'[t] > 0 => at'[t] = at[t] /\ ep'[t] <= Len(Endpoints[List[t][at[t]]])
    BY <2>4
  <2>6. \A n \in 1 .. Len(List[t]) : at'[t] < n => entries'[List[t][n]] = NoEntries
    <3> SUFFICES ASSUME NEW n \in 1 .. Len(List[t]), at'[t] < n
                 PROVE  entries'[List[t][n]] = NoEntries
      OBVIOUS
    <3>1. at[t] < n /\ n # at[t]
      BY <2>2
    <3> QED
      BY <2>1, <3>1
  <2> QED
    BY <2>3, <2>5, <2>6 DEF PlaceOK
<1> QED
  BY <1>1, <1>2, <1>3

\* All that a visit writes of other clients, or of what is published: nothing.
Footprint(t, c) ==
    /\ Onward(t, c)
    /\ DOMAIN entries' = Clients
    /\ UNCHANGED <<up, sample, outage>>
    /\ connected' \in [Clients -> BOOLEAN] /\ alive' \in [Clients -> BOOLEAN]
    /\ age' \in [Clients -> 0 .. RetryInterval]
    /\ \A d \in Clients \ {c} : connected'[d] = connected[d] /\ alive'[d] = alive[d]
    /\ alive'[c] => connected'[c] /\ up[c]
    /\ entries'[c] \in Contribution(c)

\* The entry of a client, written in one of its fields.
LEMMA EntryWritten ==
    ASSUME NEW c \in Clients, TypeOK,
           \/ \E s \in {"true", "false"} : Status(c, s)
           \/ \E e \in EndpointsOf(c) \cup {Nameless} :
                 entries' = [entries EXCEPT ![c].failed = @ \cup {e}]
           \/ \E e \in EndpointsOf(c) : entries' = [entries EXCEPT ![c].good = @ \cup {e}]
           \/ entries' = entries
    PROVE  /\ entries'[c] \in Contribution(c) /\ DOMAIN entries' = Clients
           /\ \A d \in Clients \ {c} : entries'[d] = entries[d]
<1> USE DEF TypeOK
<1>1. entries[c] \in Contribution(c)
  OBVIOUS
<1>2. ASSUME NEW s \in {"true", "false"}, Status(c, s)
      PROVE  entries'[c] \in Contribution(c)
  BY <1>1, <1>2 DEF Status, Contribution
<1>3. ASSUME NEW e \in EndpointsOf(c) \cup {Nameless},
             entries' = [entries EXCEPT ![c].failed = @ \cup {e}]
      PROVE  entries'[c] \in Contribution(c)
  BY <1>1, <1>3 DEF Contribution
<1>4. ASSUME NEW e \in EndpointsOf(c), entries' = [entries EXCEPT ![c].good = @ \cup {e}]
      PROVE  entries'[c] \in Contribution(c)
  BY <1>1, <1>4 DEF Contribution
<1> QED
  BY <1>1, <1>2, <1>3, <1>4 DEF Status

LEMMA Visited ==
    ASSUME TypeOK, NEW t \in Threads, NEW c \in ClientsOf(t), Visit(t, c)
    PROVE  Footprint(t, c)
<1> DEFINE Entry == /\ entries'[c] \in Contribution(c) /\ DOMAIN entries' = Clients
                    /\ \A d \in Clients \ {c} : entries'[d] = entries[d]
           Moves == \/ NextClient(t)
                    \/ FirstEndpoint(t)
                    \/ ep[t] < Len(Endpoints[c]) /\ ep' = [ep EXCEPT ![t] = @ + 1] /\ at' = at
           Here == at[t] <= Len(List[t]) /\ c = List[t][at[t]]
           Flags == /\ connected' \in [Clients -> BOOLEAN] /\ alive' \in [Clients -> BOOLEAN]
                    /\ \A d \in Clients \ {c} :
                           connected'[d] = connected[d] /\ alive'[d] = alive[d]
                    /\ alive'[c] => connected'[c] /\ up[c]
<1>0. c \in Clients /\ RetryInterval \in Nat \ {0} /\ age \in [Clients -> 0 .. RetryInterval]
  BY Lengths, ClientsAssumption DEF TypeOK
<1>1. ASSUME NEW e \in EndpointsOf(c), Reads(t, c, e), NextEndpoint(t, c)
      PROVE  Moves /\ Here
  <2>1. /\ ep[t] \in Nat /\ ep[t] <= Len(Endpoints[c]) /\ Len(Endpoints[c]) \in Nat
    BY <1>0, <1>1, Lengths DEF Reads, TypeOK
  <2> QED
    BY <1>1, <2>1 DEF Reads, NextEndpoint
<1>2. CASE Report(t, c)
  <2>1. Entry
    BY <1>0, <1>2, EntryWritten DEF Report
  <2>2. Moves /\ Here
    BY <1>2 DEF Report, Arrives
  <2> QED
    BY <1>0, <1>2, <2>1, <2>2 DEF Report, Footprint, Onward, TypeOK
<1>3. CASE TooEarly(t, c)
  <2>1. Entry
    BY <1>0, <1>3, EntryWritten DEF TooEarly
  <2>2. Moves /\ Here
    BY <1>3 DEF TooEarly, Arrives
  <2> QED
    BY <1>0, <1>3, <2>1, <2>2 DEF TooEarly, Footprint, Onward, TypeOK
<1>4. CASE RetryFails(t, c)
  <2>1. Entry
    BY <1>0, <1>4, EntryWritten DEF RetryFails
  <2>2. Moves /\ Here
    BY <1>4 DEF RetryFails, Arrives
  <2>3. age' \in [Clients -> 0 .. RetryInterval]
    BY <1>0, <1>4 DEF RetryFails
  <2> QED
    BY <1>0, <1>4, <2>1, <2>2, <2>3 DEF RetryFails, Footprint, Onward, TypeOK
<1>5. CASE Reconnects(t, c)
  <2>1. Entry
    BY <1>0, <1>5, EntryWritten DEF Reconnects
  <2>2. Moves /\ Here
    BY <1>5 DEF Reconnects, Arrives
  <2>3. age' \in [Clients -> 0 .. RetryInterval]
    BY <1>0, <1>5 DEF Reconnects
  <2>4. Flags /\ UNCHANGED <<up, sample, outage>>
    BY <1>0, <1>5 DEF Reconnects, TypeOK
  <2> QED
    BY <2>1, <2>2, <2>3, <2>4 DEF Footprint, Onward
<1>6. ASSUME NEW e \in EndpointsOf(c), Read(t, c, e) PROVE Footprint(t, c)
  <2>1. Entry
    BY <1>0, <1>6, EntryWritten DEF Read
  <2>2. Moves /\ Here
    BY <1>1, <1>6 DEF Read
  <2>3. Flags /\ UNCHANGED <<up, age, sample, outage>>
    BY <1>0, <1>6 DEF Read, TypeOK
  <2> QED
    BY <1>0, <2>1, <2>2, <2>3 DEF Footprint, Onward
<1>7. ASSUME NEW e \in EndpointsOf(c), ReadNodeFails(t, c, e) PROVE Footprint(t, c)
  <2>1. Entry
    BY <1>0, <1>7, EntryWritten DEF ReadNodeFails
  <2>2. Moves /\ Here
    BY <1>1, <1>7 DEF ReadNodeFails
  <2> QED
    BY <1>0, <1>7, <2>1, <2>2 DEF ReadNodeFails, Footprint, Onward, TypeOK
<1>8. ASSUME NEW e \in EndpointsOf(c), ReadModbusFails(t, c, e) PROVE Footprint(t, c)
  <2>1. Entry
    BY <1>0, <1>8, EntryWritten DEF ReadModbusFails
  <2>2. Moves /\ Here
    BY <1>1, <1>8 DEF ReadModbusFails
  <2>3. Flags /\ UNCHANGED <<up, age, sample, outage>>
    BY <1>0, <1>8 DEF ReadModbusFails, TypeOK
  <2> QED
    BY <1>0, <2>1, <2>2, <2>3 DEF Footprint, Onward
<1> QED
  BY <1>2, <1>3, <1>4, <1>5, <1>6, <1>7, <1>8 DEF Visit

LEMMA TypePreserved == TypeOK /\ [Next]_vars => TypeOK'
<1> SUFFICES ASSUME TypeOK, [Next]_vars PROVE TypeOK'
  OBVIOUS
<1>1. ASSUME NEW t \in Threads, NEW c \in ClientsOf(t), Visit(t, c) PROVE TypeOK'
  <2>1. Footprint(t, c)
    BY <1>1, Visited
  <2>2. /\ at' \in [Threads -> Nat \ {0}] /\ ep' \in [Threads -> Nat]
        /\ \A u \in Threads : PlaceOK(u)'
    BY <2>1, PlacePreserved DEF Footprint
  <2> QED
    BY <2>1, <2>2, Lengths DEF TypeOK, Footprint, Onward, PlaceOK
<1>2. ASSUME NEW t \in Threads, Publish(t) PROVE TypeOK'
  <2> USE <1>2, Lengths DEF TypeOK, Publish
  <2>1. at' \in [Threads -> Nat \ {0}] /\ ep' \in [Threads -> Nat]
    OBVIOUS
  <2>2. outage' \in [Clients -> 0 .. 3]
    <3>1. \A c \in Clients : outage[c] \in 0 .. 3 /\ outage[c] < 3 => outage[c] + 1 \in 0 .. 3
      OBVIOUS
    <3> QED
      BY <3>1
  <2>3. ASSUME NEW c \in Clients PROVE NoEntries \in Contribution(c)
    BY DEF NoEntries, Contribution
  <2>4. /\ DOMAIN entries' = Clients /\ DOMAIN sample' = Clients
        /\ \A c \in Clients : entries'[c] \in {entries[c], NoEntries}
        /\ \A c \in Clients : sample'[c] \in {entries[c], sample[c]}
    OBVIOUS
  <2>5. ASSUME NEW u \in Threads PROVE PlaceOK(u)'
    <3>1. CASE u = t
      <4>1. /\ at[t] \in Nat /\ ep[t] \in Nat /\ Len(List[t]) \in Nat /\ at[t] > Len(List[t])
            /\ ep[t] > 0 => at[t] <= Len(List[t])
        OBVIOUS
      <4>2. ep[t] = 0
        BY <4>1
      <4>3. at'[t] = 1 /\ ep'[t] = 0 /\ Len(List[t]) \in Nat
        BY <4>2
      <4>4. \A n \in 1 .. Len(List[t]) : List[t][n] \in ClientsOf(t)
        BY DEF ClientsOf
      <4> QED
        BY <3>1, <4>3, <4>4 DEF PlaceOK
    <3>2. CASE u # t
      <4>1. at'[u] = at[u] /\ ep'[u] = ep[u]
        BY <3>2
      <4>2. \A n \in 1 .. Len(List[u]) : entries[List[u][n]] = NoEntries =>
                entries'[List[u][n]] = NoEntries
        OBVIOUS
      <4> QED
        BY <4>1, <4>2 DEF PlaceOK
    <3> QED
      BY <3>1, <3>2
  <2> QED
    BY <2>1, <2>2, <2>3, <2>4, <2>5 DEF PlaceOK
<1>3. ASSUME NEW c \in Clients, ServerDown(c) PROVE TypeOK'
  BY <1>3 DEF TypeOK, ServerDown
<1>4. ASSUME NEW c \in Clients, ServerUp(c) PROVE TypeOK'
  BY <1>4 DEF TypeOK, ServerUp
<1>5. CASE Tick
  <2>1. age' \in [Clients -> 0 .. RetryInterval]
    BY <1>5, ClientsAssumption DEF TypeOK, Tick, Due
  <2> QED
    BY <1>5, <2>1 DEF TypeOK, Tick
<1>6. CASE UNCHANGED vars
  BY <1>6 DEF TypeOK, vars
<1> QED
  BY <1>1, <1>2, <1>3, <1>4, <1>5, <1>6 DEF Next, PeriodicRead

LEMMA TypeInit == Init => TypeOK
<1> SUFFICES ASSUME Init PROVE TypeOK
  OBVIOUS
<1> USE Lengths, ClientsAssumption DEF Init
<1>1. /\ up \in [Clients -> BOOLEAN] /\ alive \in [Clients -> BOOLEAN]
      /\ connected \in [Clients -> BOOLEAN]
      /\ \A c \in Clients : alive[c] => connected[c] /\ up[c]
  BY DEF Opcua
<1>2. \A c \in Clients : NoEntries \in Contribution(c)
  BY DEF NoEntries, Contribution
<1> QED
  BY <1>1, <1>2 DEF TypeOK

\* Every variable keeps its type, a usable session is one of a client taken for
\* connected, and a thread has no entries of the clients ahead of it.
THEOREM TypeCorrect == Spec => []TypeOK
BY TypeInit, TypePreserved, PTL DEF Spec

-----------------------------------------------------------------------------
(* Outages.                                                                *)

\* Past(t, n): the cycle has read, or tried to read, from the n-th client.
Past(t, n) == at[t] > n \/ (at[t] = n /\ ep[t] > 1)

Disconnected == [NoEntries EXCEPT !.status = "false"]

\* An outage reaches the sample by way of the entries of the cycle that follows
\* the first publication in it; a Modbus client's flag before that, by the read
\* that fails in that cycle; and its status by way of the next.
OutageOf(t, n, c) ==
    /\ outage[c] >= 1 => ~up[c] /\ entries[c].good = {}
    /\ outage[c] >= 2 => sample[c].good = {}
    /\ ~Opcua(c) =>
          /\ outage[c] >= 1 /\ Past(t, n) => ~connected[c]
          /\ outage[c] >= 2 =>
                /\ ~connected[c]
                /\ at[t] = n => ep[t] = 0
                /\ entries[c] = IF at[t] > n THEN Disconnected ELSE NoEntries
          /\ outage[c] = 3 => sample[c] = Disconnected

OutageInv ==
    \A t \in Threads : \A n \in 1 .. Len(List[t]) : OutageOf(t, n, List[t][n])

\* A visit of one client is nothing to the others, wherever they are.
LEMMA OutageElsewhere ==
    ASSUME TypeOK, NEW t \in Threads, NEW c \in ClientsOf(t), Footprint(t, c),
           NEW u \in Threads, NEW n \in 1 .. Len(List[u]), List[u][n] # c,
           OutageOf(u, n, List[u][n])
    PROVE  OutageOf(u, n, List[u][n])'
<1> DEFINE d == List[u][n]
<1>1. d \in Clients \ {c}
  BY Lengths
<1>2. /\ connected'[d] = connected[d] /\ entries'[d] = entries[d]
      /\ UNCHANGED <<up, sample, outage>>
  BY <1>1 DEF Footprint, Onward
<1>3. /\ (at'[u] > n <=> at[u] > n) /\ (Past(u, n)' <=> Past(u, n))
      /\ at'[u] = n => ep'[u] = 0 \/ (at[u] = n /\ ep'[u] = ep[u])
  <2>1. CASE u # t
    <3>1. at'[u] = at[u] /\ ep'[u] = ep[u]
      BY <2>1 DEF Footprint, Onward, NextClient, FirstEndpoint, TypeOK
    <3> QED
      BY <3>1 DEF Past
  <2>2. CASE u = t
    <3>1. at[t] # n /\ at[t] \in Nat /\ n \in Nat
      BY <2>2, Lengths DEF Footprint, Onward, TypeOK
    <3>2. \/ at'[t] = at[t] + 1 /\ ep'[t] = 0
          \/ at'[t] = at[t]
      BY DEF Footprint, Onward, NextClient, FirstEndpoint, TypeOK
    <3> QED
      BY <2>2, <3>1, <3>2 DEF Past
  <2> QED
    BY <2>1, <2>2
<1> HIDE DEF d
<1>4. OutageOf(u, n, d)
  BY DEF d
<1>5. OutageOf(u, n, d)'
  BY <1>2, <1>3, <1>4 DEF OutageOf, Opcua
<1> QED
  BY <1>5 DEF d

\* A visit of a client whose server is down leaves no value, and a Modbus
\* client disconnected.
LEMMA OutageHere ==
    ASSUME TypeOK, NEW t \in Threads, NEW c \in ClientsOf(t), Visit(t, c),
           NEW n \in 1 .. Len(List[t]), List[t][n] = c, OutageOf(t, n, c)
    PROVE  OutageOf(t, n, c)'
<1>1. /\ c \in Clients /\ c \in DOMAIN entries /\ connected \in [Clients -> BOOLEAN]
      /\ at \in [Threads -> Nat \ {0}] /\ ep \in [Threads -> Nat] /\ n \in Nat
      /\ outage[c] \in 0 .. 3
  BY Lengths DEF TypeOK
<1>2. Footprint(t, c)
  BY Visited
<1>3. at[t] = n /\ UNCHANGED <<up, sample, outage>>
  <2>1. at[t] \in 1 .. Len(List[t]) /\ List[t][at[t]] = List[t][n]
    BY <1>1, <1>2, Lengths DEF Footprint, Onward
  <2> QED
    BY <1>2, <2>1, OnePlace DEF Footprint
<1>4. CASE outage[c] = 0
  BY <1>3, <1>4 DEF OutageOf
<1>5. ASSUME outage[c] >= 1 PROVE OutageOf(t, n, c)'
  <2>1. ~up[c] /\ entries[c].good = {}
    BY <1>5 DEF OutageOf
  <2>2. ASSUME Report(t, c) PROVE OutageOf(t, n, c)'
    <3>1. connected[c] /\ connected' = connected /\ ep'[t] = 1 /\ at'[t] = n
      BY <1>1, <1>3, <2>2 DEF Report, FirstEndpoint
    <3>2. entries'[c].good = entries[c].good
      BY <1>1, <2>2 DEF Report, Status, TypeOK, Contribution
    <3>3. ~Opcua(c) => ~(outage[c] >= 2) /\ outage[c] # 3
      BY <1>1, <1>5, <3>1 DEF OutageOf
    <3> QED
      BY <1>1, <1>3, <1>5, <2>1, <3>1, <3>2, <3>3 DEF OutageOf, Past, Opcua
  <2>3. ASSUME TooEarly(t, c) \/ RetryFails(t, c) PROVE OutageOf(t, n, c)'
    <3>1. ~connected[c] /\ connected' = connected /\ at'[t] = n + 1
      BY <1>1, <1>3, <2>3 DEF TooEarly, RetryFails, NextClient
    <3>2. entries' = [entries EXCEPT ![c].status = "false"]
      BY <2>3 DEF TooEarly, RetryFails, Status
    <3>3. entries'[c] = [entries[c] EXCEPT !.status = "false"]
      BY <1>1, <3>2
    <3>4. entries'[c].good = {}
      BY <1>1, <2>1, <3>3 DEF TypeOK, Contribution
    <3>5. ~Opcua(c) /\ outage[c] >= 2 => entries'[c] = Disconnected
      BY <1>1, <1>3, <3>3 DEF OutageOf, Disconnected
    <3> QED
      BY <1>1, <1>3, <1>5, <2>1, <3>1, <3>4, <3>5 DEF OutageOf, Past, Opcua
  <2>4. ASSUME NEW e \in EndpointsOf(c), ReadNodeFails(t, c, e) PROVE OutageOf(t, n, c)'
    <3>1. Opcua(c) /\ connected' = connected
      BY <2>4 DEF ReadNodeFails
    <3>2. entries'[c].good = entries[c].good
      BY <1>1, <2>4 DEF ReadNodeFails, TypeOK, Contribution
    <3> QED
      BY <1>1, <1>3, <1>5, <2>1, <3>1, <3>2 DEF OutageOf, Opcua
  <2>5. ASSUME NEW e \in EndpointsOf(c), ReadModbusFails(t, c, e) PROVE OutageOf(t, n, c)'
    <3>1. ~Opcua(c) /\ ~connected'[c] /\ ep[t] > 0
      BY <1>1, <2>5 DEF ReadModbusFails, Reads
    <3>2. entries'[c].good = entries[c].good
      BY <1>1, <2>5 DEF ReadModbusFails, TypeOK, Contribution
    <3>3. ~(outage[c] >= 2) /\ outage[c] # 3
      BY <1>1, <1>3, <1>5, <3>1 DEF OutageOf
    <3> QED
      BY <1>1, <1>3, <1>5, <2>1, <3>1, <3>2, <3>3 DEF OutageOf, Opcua
  <2> QED
    BY <2>1, <2>2, <2>3, <2>4, <2>5 DEF Visit, Reconnects, Read
<1> QED
  BY <1>1, <1>4, <1>5

LEMMA OutagePublished ==
    ASSUME TypeOK, NEW t \in Threads, Publish(t),
           NEW u \in Threads, NEW n \in 1 .. Len(List[u]), OutageOf(u, n, List[u][n])
    PROVE  OutageOf(u, n, List[u][n])'
<1> DEFINE c == List[u][n]
<1>1. /\ c \in Clients /\ n \in Nat /\ n >= 1 /\ outage[c] \in 0 .. 3
      /\ u = t => c \in ClientsOf(t)
      /\ at[u] \in Nat \ {0} /\ ep[u] \in Nat /\ Len(List[u]) \in Nat /\ n <= Len(List[u])
  BY Lengths DEF TypeOK, ClientsOf
<1>2. CASE u # t
  <2>1. c \notin ClientsOf(t)
    BY <1>2, ClientsAssumption DEF ClientsOf
  <2>2. /\ entries'[c] = entries[c] /\ sample'[c] = sample[c] /\ outage'[c] = outage[c]
        /\ up' = up /\ connected' = connected /\ at'[u] = at[u] /\ ep' = ep
    BY <1>1, <1>2, <2>1 DEF Publish, TypeOK
  <2> HIDE DEF c
  <2>3. OutageOf(u, n, c)
    BY DEF c
  <2>4. OutageOf(u, n, c)'
    BY <2>2, <2>3 DEF OutageOf, Past, Opcua
  <2> QED
    BY <2>4 DEF c
<1>3. CASE u = t
  <2>1. at[u] > n /\ ep[u] = 0
    <3>1. at[u] > Len(List[u]) /\ (ep[u] > 0 => at[u] <= Len(List[u]))
      BY <1>3 DEF Publish, TypeOK
    <3> QED
      BY <1>1, <3>1
  <2>2. /\ entries'[c] = NoEntries /\ sample'[c] = entries[c]
        /\ outage'[c] = IF ~up[c] /\ outage[c] < 3 THEN outage[c] + 1 ELSE outage[c]
        /\ up' = up /\ connected' = connected /\ at'[u] = 1 /\ ep' = ep
    BY <1>1, <1>3 DEF Publish, TypeOK
  <2>3. NoEntries.good = {}
    BY DEF NoEntries
  <2>4. ~Past(u, n)'
    BY <1>1, <2>1, <2>2 DEF Past
  <2>5. Past(u, n)
    BY <2>1 DEF Past
  <2> HIDE DEF c
  <2>6. OutageOf(u, n, c)
    BY DEF c
  <2>7. OutageOf(u, n, c)'
    BY <1>1, <2>1, <2>2, <2>3, <2>4, <2>5, <2>6 DEF OutageOf, Opcua
  <2> QED
    BY <2>7 DEF c
<1> QED
  BY <1>2, <1>3

LEMMA OutagePreserved == TypeOK /\ OutageInv /\ [Next]_vars => OutageInv'
<1> SUFFICES ASSUME TypeOK, OutageInv, [Next]_vars,
                    NEW u \in Threads, NEW n \in 1 .. Len(List[u])
             PROVE  OutageOf(u, n, List[u][n])'
  BY DEF OutageInv
<1>0. PICK d \in Clients : d = List[u][n]
  BY Lengths
<1>1. OutageOf(u, n, d)
  BY <1>0 DEF OutageInv
<1> SUFFICES OutageOf(u, n, d)'
  BY <1>0
<1>2. ASSUME NEW t \in Threads, NEW c \in ClientsOf(t), Visit(t, c)
      PROVE  OutageOf(u, n, d)'
  <2>1. CASE d # c
    BY <1>0, <1>1, <1>2, <2>1, Visited, OutageElsewhere
  <2>2. CASE d = c
    <3>1. u = t
      <4>1. PICK m \in 1 .. Len(List[t]) : c = List[t][m]
        BY DEF ClientsOf
      <4> QED
        BY <1>0, <2>2, <4>1, OnePlace
    <3> QED
      BY <1>0, <1>1, <1>2, <2>2, <3>1, OutageHere
  <2> QED
    BY <2>1, <2>2
<1>3. ASSUME NEW t \in Threads, Publish(t) PROVE OutageOf(u, n, d)'
  BY <1>0, <1>1, <1>3, OutagePublished
<1>4. ASSUME NEW c \in Clients, ServerDown(c) PROVE OutageOf(u, n, d)'
  <2>1. up' = [up EXCEPT ![c] = FALSE] /\ UNCHANGED <<connected, at, ep, entries, sample, outage>>
    BY <1>4 DEF ServerDown
  <2>2. ~up[d] => ~up'[d]
    BY <1>1, <2>1 DEF TypeOK
  <2>3. OutageOf(u, n, d)'
    BY <1>1, <2>1, <2>2 DEF OutageOf, Past, Opcua
  <2> QED
    BY <2>3
<1>5. ASSUME NEW c \in Clients, ServerUp(c) PROVE OutageOf(u, n, d)'
  <2>1. /\ outage' = [outage EXCEPT ![c] = 0] /\ up' = [up EXCEPT ![c] = TRUE]
        /\ UNCHANGED <<connected, at, ep, entries, sample>>
    BY <1>5 DEF ServerUp
  <2>2. CASE d = c
    <3>1. outage'[d] = 0
      BY <2>1, <2>2 DEF TypeOK
    <3> QED
      BY <3>1 DEF OutageOf
  <2>3. CASE d # c
    <3>1. outage'[d] = outage[d] /\ up'[d] = up[d]
      BY <2>1, <2>3 DEF TypeOK
    <3> QED
      BY <1>1, <2>1, <3>1 DEF OutageOf, Past
  <2> QED
    BY <2>2, <2>3
<1>6. CASE Tick \/ UNCHANGED vars
  <2>1. UNCHANGED <<up, connected, at, ep, entries, sample, outage>>
    BY <1>6 DEF Tick, vars
  <2> QED
    BY <1>1, <2>1 DEF OutageOf, Past, Opcua
<1> QED
  BY <1>0, <1>2, <1>3, <1>4, <1>5, <1>6 DEF Next, PeriodicRead

\* An outage shows, whenever it begins, for any number of clients and endpoints:
\* no value of before is published as read in a cycle that lies in it, and from
\* the second on a Modbus client is reported as disconnected.
THEOREM OutagesShow == Spec => []OutageShows
<1>1. Init => OutageInv
  <2> SUFFICES ASSUME Init, NEW t \in Threads, NEW n \in 1 .. Len(List[t])
               PROVE  OutageOf(t, n, List[t][n])
    BY DEF OutageInv
  <2>1. List[t][n] \in Clients
    BY Lengths
  <2> QED
    BY <2>1 DEF Init, OutageOf
<1>2. TypeOK /\ OutageInv => OutageShows
  <2> SUFFICES ASSUME OutageInv, NEW c \in Clients
               PROVE  /\ outage[c] >= 2 => sample[c].good = {}
                      /\ outage[c] = 3 /\ ~Opcua(c) =>
                            sample[c] = [NoEntries EXCEPT !.status = "false"]
    BY DEF OutageShows
  <2>1. PICK t \in Threads : \E n \in 1 .. Len(List[t]) : c = List[t][n]
    BY PlaceOf
  <2> QED
    BY <2>1 DEF OutageInv, OutageOf, Disconnected
<1> QED
  BY <1>1, <1>2, OutagePreserved, TypeCorrect, PTL DEF Spec

-----------------------------------------------------------------------------
(* Lost sessions.                                                          *)

\* What RecoversUnlessStale exempts is no passing state: whatever the servers do
\* and however often the thread comes by, an OPC UA client that lost its session
\* while it was taken for connected is never connected again.
THEOREM LostSessionStays == Spec => [][\A c \in Clients : Stale(c) => Stale(c)']_vars
<1>1. ASSUME TypeOK, [Next]_vars, NEW c \in Clients, Stale(c) PROVE Stale(c)'
  <2> USE <1>1 DEF TypeOK, Stale
  <2>1. ASSUME NEW t \in Threads, NEW d \in ClientsOf(t), Visit(t, d) PROVE Stale(c)'
    <3> d \in Clients
      BY Lengths
    <3>1. CASE Report(t, d) \/ TooEarly(t, d) \/ RetryFails(t, d)
      BY <3>1 DEF Report, TooEarly, RetryFails, Opcua
    <3>2. CASE Reconnects(t, d)
      BY <3>2 DEF Reconnects, Opcua
    <3>3. ASSUME NEW e \in EndpointsOf(d), Read(t, d, e) PROVE Stale(c)'
      <4>1. d # c
        BY <3>3 DEF Read
      <4> QED
        BY <3>3, <4>1 DEF Read, Opcua
    <3>4. ASSUME NEW e \in EndpointsOf(d), ReadNodeFails(t, d, e) PROVE Stale(c)'
      BY <3>4 DEF ReadNodeFails, Opcua
    <3>5. ASSUME NEW e \in EndpointsOf(d), ReadModbusFails(t, d, e) PROVE Stale(c)'
      <4>1. d # c
        BY <3>5 DEF ReadModbusFails
      <4> QED
        BY <3>5, <4>1 DEF ReadModbusFails, Opcua
    <3> QED
      BY <2>1, <3>1, <3>2, <3>3, <3>4, <3>5 DEF Visit
  <2>2. ASSUME NEW t \in Threads, Publish(t) PROVE Stale(c)'
    BY <2>2 DEF Publish, Opcua
  <2>3. ASSUME NEW d \in Clients, ServerDown(d) PROVE Stale(c)'
    BY <2>3 DEF ServerDown, Opcua
  <2>4. ASSUME NEW d \in Clients, ServerUp(d) PROVE Stale(c)'
    BY <2>4 DEF ServerUp, Opcua
  <2>5. CASE Tick \/ UNCHANGED vars
    BY <2>5 DEF Tick, vars, Opcua
  <2> QED
    BY <2>1, <2>2, <2>3, <2>4, <2>5 DEF Next, PeriodicRead
<1>2. TypeOK /\ [Next]_vars => \A c \in Clients : Stale(c) => Stale(c)'
  BY <1>1
<1> QED
  BY <1>2, TypeCorrect, PTL DEF Spec
==============================================================================
