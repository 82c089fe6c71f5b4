# Verification of the secure IoT gateway

TLA+ modules, TLC configurations and TLAPS proofs about the gateway under
`src/gateway-komponenten`. Paths below are relative to that directory.

## The system

The gateway is a set of containers ("partitions") between a field network (CPC) and a
monitoring and optimisation network (M+O). Values flow up through shared memory;
change requests flow down through three steps of *verification of requests* (VoR).

    field servers --OPC UA/Modbus--> data aggregation (CPC partition)
                                         |  shared memory + POSIX semaphores
                       +-----------------+-----------------+
                       v                                   v
               psM+O partition                    interface partition (OPC UA server)
                                                           |  POSIX message queue
                                                           v
                                             intermediate VoR partition
                                                           |  sqlite table mapped_requests
                                                           v
                                       CPC-side VoR partition <--HTTP--> flask bridge

### Inventory

| Component | State | Operations | Hard part | What makes it correct |
|---|---|---|---|---|
| Data aggregation, OPC UA and Modbus clients (`datenaggregation`) | connections, one sample, two segments and two semaphores each | connect, retry, read, `periodic_read` | two threads, each serving two processes; servers that go down and come back; a sample that does not fit | every segment is written in every cycle; no torn sample; an outage shows and ends |
| psM+O partition (`psmo`) | a queue of five items and a response digest per reader thread | read, decode, enqueue, acknowledge; `main` takes items, and joins the threads at an interrupt | exceptions between acquire and release; a full queue; restart; shutdown | samples once and in order; permits given back; the process ends |
| Data manager (`datenbereitstellung/data_manager`) | variables of the OPC UA server, response digests | populate, update from two segments | two coroutines in one event loop with blocking semaphores; loop variables that outlive a pass; an exception that ends it | permits given back; the loop turns; variables show the current values |
| Submission (`interface_setup/server_methods.py`) | the message queue | `submit_request` | blocking send; the queue refuses some priorities | only an authenticated and authorised request is queued |
| User administration (`server_methods.py`, `user_manager`, `authorization_handler`) | credentials table, role policy in memory | `add_user`, `remove_user`, `update_user_secret` | methods in parallel threads; two stores without a transaction; restart | unique accounts, usable passwords, account and role agree, an administrator remains |
| Connection pool (`user_manager/db_connection_pool.py`) | queue of connections, thread ids | get, return, close | unlocked metadata, connections handed between threads | a connection serves one thread at a time |
| Intermediate VoR partition (`intermediate-vor-partition`) | notification registration, verified request, table rows | notify, receive, verify, map, save, stop | one notification per registration, and only at an empty queue; shutdown; locked database | every acknowledged request accounted for; only verified requests stored |
| CPC-side VoR partition (`intermediate-vor-partition-cpc`) | the request being verified | select, delete, ask the bridge, verify acceptance and mapping | a SELECT and a DELETE that are not atomic and may raise in between, two processes, end of the container | a mapped request leaves the table only to be verified, once per puller |
| Flask bridge (`flask_server_bridge`) | none | fill in an XML text | its reloader executes `main()` again | - |
| Issuer registry, former XML user manager, demonstration servers and client | | | not used by the running gateway, or test environment | - |

Which of these are modelled, partly or not is in `PROJECT.json` under `components`,
the hazards with their lines under `hazards`.

## Modules

| Module | Models | |
|---|---|---|
| `SampleChannel` | what the hand-off promises: a channel per segment that keeps the latest sample | abstract specification |
| `ShmHandoff` | `periodic_read`, the psM+O thread and the interface coroutine around segments and semaphores | implements `SampleChannel`, and shows what `PsmoPartition` says |
| `DataSource` | the producer threads as one consumer partition sees them, a cycle in four steps | used by the next two |
| `PsmoPartition` | reader threads, queues and main thread of the psM+O partition, with its end | over `DataSource` |
| `InterfaceLoop` | the event loop of the interface partition and its two coroutines | over `DataSource` |
| `ClientConnections` | how a sample comes about: connections, retries, nodes and registers | |
| `AddressSpace` | what the interface partition makes of a sample: population and update of its variables | |
| `RequestIntake` | `submit_request`, message queue, notification handler, verifier, mapper, shutdown | |
| `MappedRequestPull` | the table of mapped requests and the threads that pull from it | |
| `RequestLifecycle` | what the verification of requests promises of each request | abstract specification |
| `VorPipeline` | `RequestIntake` and `MappedRequestPull` over one table | extends `MappedRequestPull`, instantiates `RequestIntake`; implements `RequestLifecycle` |
| `AccountStore` | what the user administration promises: one store of passwords and roles | abstract specification |
| `UserAdmin` | the three methods over table and policy | implements `AccountStore` while nothing goes wrong |
| `...Proofs` | theorems about the module of that name; those about `MappedRequestPull` are in `VorPipelineProofs` | TLAPS |
| `MC...` | constants of the instances | TLC |

### ShmHandoff

One producer thread serves the segments of its list in order; every segment has one
consumer. The two reader loops (`psmo_shm_handler.py`, `data_manager.py`) are the same
loop, except that a text that does not decode leaves the psM+O iteration by an
exception, permit in hand, and is acknowledged by the interface. Modbus and OPC UA
versions are line-by-line twins and share the actions.

| Variable | Code |
|---|---|
| `free[s]` | value of the POSIX semaphore |
| `buf[s]` | content of the segment: nothing, a sample, a digest, or a text that is neither |
| `ppc`, `seg`, `cycle` | place of `periodic_read`, index in `zip(shm_list, semaphore_list)`, number of the sample |
| `cpc[s]`, `got[s]`, `acked[s]` | place of the consumer, text read last, whether its `response` is a digest |
| `qlen[s]` | the `queue.Queue` of the psM+O partition |
| `delivered[s]`, `leaked[s]`, `restarts` | history: last sample decoded, permits never to be posted, restarts |

Every statement on the segment (clear, write, read) is one step; a read that overlaps
a clear or a write of the producer may return a torn text (`Seen`). A digest written
over a sample leaves garbage, since it is shorter; a sample written over a digest
covers it. For the text `{}` of a cycle in which every OPC UA client has only just
reconnected (`Blank`) it is the other way round.

`View(s)` is the segment `s` of a psM+O thread as `PsmoPartition` over this one source:
its variables are state functions of the hand-off. A side has posted (`ViewedPermits`)
once a post is all that is left for it to do, a reader has decided on a text once it
has read it (`ViewedReader`), and the bound of two stands for every greater number of
permits. `PsmoViewed` says that every step of the hand-off is a step of each view, or
none; a restart of the process, for which `PsmoPartition` has no step, is excepted. So
the shorter module leaves out nothing that its source and its reader do to each other.
(`InterfaceLoop` is no such view, since the hand-off lacks the passes over the address
space and the turns of the event loop.)

### DataSource

`ShmHandoff` has every statement of one producer and its segments. The modules of the
consumer partitions need less of the producer, and both protocols: `src[s]` is the
place of the thread of source `s` in its cycle (`Announce`: the release before the
acquire; `Take`: the acquire; `Wipe`: the clear; `Write`: write and release), `free[s]` its
semaphore, `text[s]` what the segment holds. A source in `Blanks`, which the OPC UA
clients are, may write `{}`. It may end: without clients before its
first cycle (`modbus_tcp_client.py:151`), for a permit another partition took along,
or in the middle of a write with the permit in hand (`Ends`). The value of the
semaphore is unbounded in the code; `MaxPermits` stands for "that many or more", and a
`Wait` at this value may leave it, so no behaviour is lost and the bound costs only
precision.

### PsmoPartition

`rpc[s]`, `acked[s]` are place and digest of a reader thread (`psmo_shm_handler.py`),
`q[s]` the length of its queue, `main` where `main.py` is. `Put` blocks on a full
queue with the permit in hand; `ReadRaises` leaves the iteration with it; `Head` is
the only place that looks at the stop event (its first look is part of `Open`, which
has nothing before it to wait for); `Acknowledge` computes the digest and clears,
`RespondAndPost` writes it and posts; `Interrupt` may come anywhere, and sets
both events before `Return` joins the threads. `late[s]` counts the samples put after
the events were set.

### InterfaceLoop

`task` is the coroutine that has the event loop, `NoTask` when the loop is free for
the OPC UA server; `pc[s]` the place of the coroutine of source `s`, either at an
`await` (`AwaitPC`), at an acquire, or with the permit. Only `Resume`, `Proceed`
(`main.py:74-89`: the populations one after the other, then both updates) and the
sleeps hand the loop over: an acquire that finds no permit stops it. `ApplyRaises` is
the exception that skips the sleep at the end of an iteration
(`data_manager.py:186-188`). Awaits of calls of the server's own nodes (`set_value`,
`add_variable`) do not suspend in asyncua, and are no hand-over in the model.

### ClientConnections

One thread per protocol visits its clients in the order of the configuration (`at[t]`,
`ep[t]`), and `Publish`es what they contributed. `connected[c]` is what the code looks
at (`OpcUaClient.connected`, which only an attempt to connect writes; pyModbusTCP's
`is_open`, which the library clears when a request fails and sets by `auto_open`),
`alive[c]` whether the session or socket is in fact usable, `age[c]` the time since
the last attempt. `ServerDown` and `ServerUp` happen at any point of a cycle. An OPC
UA client that reconnects has no entry in that sample at all, and all nodes that
cannot be read share one entry, named `None`.

### AddressSpace

`listed` are the names in `opcua_variables`, `node[n]` the value of the variable of
`n` (or none), `local` the Python variables `value` and `varType` of the update
coroutine, which keep what they got in an earlier pass. A value carries whose it is,
the number of its sample and its type, so that the model tells a current value from an
old or a foreign one. `Populate` is `create_opcua_population`; `Decode` and `Reapply`
begin a pass over the entries (the second when the text was empty or did not decode:
the last values are gone through again); `Set`, `Create`, `Skip` handle an entry,
`SetRaises` and `CreateRaises` end the pass. The samples are those the clients
produce: entries that are missing, have an error text instead of a value, or have no
object name.

### RequestIntake

`stage[r]` follows `submit_request` of request `r`; `Sendable` are those with a
priority and a length that the queue takes. The POSIX queue is the set `mq`;
`Before` is the order of `mq_receive`. `armed` is the registration of `mq_notify`,
used up by an arrival at an empty queue. `hpc`, `msg`, `current` are the handler's
place and locals, `verified` is `RequestVerifier.verified_request`, which outlives a
request. `feedback` collects what `submit_feedback` prints, and `lost` what was
received and ended without outcome. `Signal` and `Stop` are `_running = False` and the
end of the process (of which the second may happen without the first).

### MappedRequestPull

`Select` and `Delete` are the two statements of `pull_request`; the lock of sqlite may
make the second fail (`DeleteFails`). Between the two, `datetime.fromisoformat` raises
for the row of a request that is not in `Dated`: its timestamp is the client's text
(`server_methods.py:65`), which is stored as it came (`mapping_verification.py:116`).
The exception ends the pull with the row in its place. The rest of an iteration decides
(`Verify`, recorded in `decided`), or ends in an exception or without a reply of the
bridge (`VerifyRaises`): the row is gone by then, and nothing but a line in the log
remains, which is `unanswered`. `dropped` is what was in verification when the container
ended. `SaveRow` may save a request again, as the mapper does. `Pullers` are the threads
that execute `pull_request_and_process`: one per process that runs `main()`, and
`FlaskServerBridge.run` passes `debug=True`, whose reloader starts a second one.

### VorPipeline and RequestLifecycle

The two partitions share the table only. `VorPipeline` takes over constants and
variables of `MappedRequestPull` by extending it and instantiates `RequestIntake` over
the same `rows` (so that theorems about either can be stated by their own names); what
it adds is named `PipelineInit`, `PipelineNext` and so on. A step of either leaves the
variables of the other alone, except that a row the mapper inserts counts as saved for
the puller (`Intake`). `RequestLifecycle` is the promise: a request goes from submission
through acceptance and mapping to a decision, in this order and never back; `Phase` is
the refinement mapping. `HighestFirst` is about both priority orders.

### UserAdmin

One step is one access to the table or the policy: authenticate, look up, insert, read
a record, delete, remove roles, read a salt, write. Ids follow sqlite's rule for
`integer PRIMARY KEY` without `AUTOINCREMENT` (greatest plus one, so a deleted
greatest id comes back). A salt is any number not in use: a random one is. `faults`
remembers which accesses went wrong in ways the methods continue after, `contended`
the users that two calls were about at the same time, so that properties can say what
holds without them.

`AccountStore` is what a caller expects: a set of passwords that open (`opens`) and of
users with a role (`roles`), and a step for each method. In `Store` a password opens
when `verify_credentials` accepts it, and a role counts until its user's rows are
deleted. `ActsAsStore` is the refinement as far as it goes: it speaks of behaviours up
to the first pair of calls about one user and the first failed access, as after either
the stores do drift apart.

## Runs

| Run | Bounds | Result |
|---|---|---|
| `handoff_gateway` | segments [psM+O, interface], 3 cycles, of which the second has the text `{}` and the third does not fit, queue of 1, one restart of the psM+O process | 8 properties hold |
| `handoff_stalled` | one psM+O segment, 3 cycles | `PeriodicallyWritten` violated |
| `clients_recover` | an OPC UA server with two nodes, a Modbus server with a coil and a register, retry interval of 2 ticks; outages unbounded | 3 properties hold |
| `psmo_stop` | two sources, queues of 1, permits 0, 1, "2 or more" | 3 properties hold |
| `interface_turns` | two sources, permits as above | 4 properties hold |
| `space_update` | seven samples of six names, numbers up to 3 | 4 properties hold |
| `intake_vor` | 6 requests (one not authorised, one the queue refuses, one breaks a rule, one has no rule set), queue of 2, one stop | 5 properties hold |
| `pull_reloader` | 3 requests (one with an unreadable timestamp), saved again until pulled twice; 2 pullers, one lock, one crash | 3 properties hold |
| `vor_pipeline` | 3 requests (one breaks a rule, one has an unreadable timestamp), queue of 2, 2 pullers, one stop, one lock, one crash | 4 properties hold |
| `pipeline_priority` | 3 requests, nothing fails | `HighestFirst` violated |
| `users_parallel` | 2 users, one password, 2 calls at a time, 3 rows; restarts and faults unbounded | 6 properties hold |
| `users_last_admin` | 3 users, one call at a time, two administrators in the policy, one of them without account | `AdminRemains` violated |

**What they show.**

- *Hand-off.* Permits are conserved: free, held and lost ones add up to one per cycle
  (`PermitAccounting`), which is also why the semaphore does not exclude anybody from
  the second cycle on (the unpaired `sem.release()` at `opcua_client.py:255`). What goes
  wrong takes a second permit (`SinglePermitClean`). In spite of it no sample is decoded
  twice or out of order (`DeliversOnce`, `ChannelSpec`). What the missing exclusion
  costs is texts that do not decode; each costs the psM+O thread a permit. A producer
  adds one per cycle, so it stands still, and the interface segment with it, in a cycle
  by which as many are lost as have begun (`PeriodicallyWritten` fails, with three lost
  in the third cycle: one text that does not decode takes all that are left). Without a
  lost permit it never does (`ServedUnlessLeaked`), a psM+O thread stuck in a full queue
  included. Between restarts the psM+O partition sees nothing but what `PsmoPartition`
  says (`PsmoViewed`).
- *Clients.* No value is published as read in a cycle that lies in an outage, and a
  Modbus client is then reported as disconnected (`OutageShows`). Every client comes
  back with all of its values once its server stays up (`RecoversUnlessStale`), except
  an OPC UA client whose session was lost after it had connected: nothing resets its
  flag, so it is never connected again and reports the status `True` with errors.
- *psM+O partition.* After an interrupt every reader puts at most one more sample
  (`StopsSoon`), and the process ends (`EndsUnlessStuck`) unless a reader is in a
  `put` into the full queue, sleeps over its own digest because the source has ended,
  or waits for a permit that was lost. Each of the three happens: the run fails
  without it.
- *Interface loop.* The blocking acquires stop the event loop only in the first cycle
  of a source: the surplus permit of every later cycle is what keeps the loop from
  standing still while a source writes (`BlocksOnlyInFirstCycle`). Then the loop comes
  back to the server, and neither source starves the other (`LoopTurns`,
  `BothServed`), even though an exception skips the sleep. What stops it is a source
  that ends before its second cycle (the Modbus thread without clients does), or one
  that died after its clear while the pass over the old values raises.
- *Address space.* A pass leaves nothing behind it that is not current, except the
  variables it created, which show the value of the entry handled before (`Applied`);
  a value of its own never goes back (`NeverBackwards`). All variables converge
  (`Converges`) unless one of four obstacles comes earlier in the sample: a new entry
  before any was handled, a variable without a node, a type the conversion does not
  know, or a type that changed. Each ends every pass at that entry.
- *Intake.* The partition is registered again after every outcome (`Registered`),
  acknowledged requests are accounted for (`Accounted`), and only what passed all
  steps is stored (`VerifiedOnly`), although a request that breaks the rules makes the
  partition map its predecessor again. A request that waits while the partition
  registers stays unread; that is the only way (`AnsweredUnlessUnnoticed`), and it
  takes no failure, only a request sent before the partition is up. The same holds of a
  method that is blocked in `send` at the full queue.
- *Pull.* A mapped request leaves the table only for a puller that goes on to verify
  it (`NoneForgotten`), in any order of the two pullers' SELECTs and DELETEs and with
  locked tables. This is not to say that it is decided: one whose verification raises,
  or gets no reply of the bridge, or is interrupted by an end of the container is given
  up, since the row is removed first. The property records such requests and does not
  exclude them. In particular the thread polls before the bridge listens, and whatever
  it pulls meanwhile is given up. Nor are all requests pulled: a row with a timestamp
  that `fromisoformat` does not read is selected for ever, and so keeps all rows behind
  it in the table. This is the only way (`AllPulledUnlessBlocked`), and it is permanent
  (`UnreadableRowBlocks`).
- *Pipeline.* From the acknowledgement on, every request is refused, held in one of four
  places, decided, or on record as given up (`EndToEnd`; to the above the intake adds an
  end of its process and a locked database), and the three verifications are taken in
  order (`LifecycleSpec`). Each request in the queue comes to its end unless nobody was
  notified of it or an unreadable row is before it (`DecidedUnlessStuck`). Both pullers
  may select a row before one deletes it, so that a request is verified twice without
  any fault. It comes more often only after rejections, each of which re-saves one
  request: at most once per puller for the request itself and for each rejection
  (`AgainOnlyByRejection`). The queue hands out the greatest priority number first and
  the table the least (`HighestFirst` fails), which is also what `request.py:22` says.
- *Users.* With methods in parallel threads and restarts between any two accesses, the
  rows and roles of a user stay consistent if no two calls were about this user at the
  same time, and the methods act as on one store (`ActsAsStore`: what was checked in
  one access after the other holds at the one that writes). With one password the run
  does not see a password give way to another; the theorem covers that. If two calls
  were about one user, TLC shows two rows of one name, a hash with the salt of
  another row, and, through an id that sqlite gives out again, the row of a third user
  removed. The guard for the last administrator counts the policy and not the accounts
  (`AdminRemains` fails).

**Why the bounds are enough.** Two cycles are the first with two permits, which is where
every interleaving of producer and consumer becomes possible; three cycles with a
restart let a lost permit, a full queue and the late sample meet. Two segments are what
one producer has. `DataSource` has no bound on cycles, and its bound on permits loses no
behaviour. A queue of one is the smallest that is full with one sample and differs from
a full one only in how many samples it takes. One server per protocol is enough for
clients that do not share state but the turn of their thread; two endpoints of each
distinguish a failure at the first from one after it, and two ticks an interval that has
begun from one that has passed. The seven samples are one for each way an entry can be
missing, new, unreadable or of another type, in all orders, and three numbers tell a
value from the last, the one before and an older one. In the intake, a queue of two and
six requests fill the queue, arm and disarm the notification, and let a request wait
behind a handler; a stop at every point is one stop. The pipeline needs one request to
be rejected, one to be saved again by it and one to overtake. Two pullers are what the
reloader starts; three rows give an order and a tie to their priorities, with one row
before the unreadable one and one behind. `MaxPulls` bounds how often a request is saved
again in the run of the pull by itself; in the code and in `VorPipeline` that takes a
rejection each time, and requests that were saved without end could keep a less urgent
one in the table without end. Three rows of the table let the greatest id be deleted and
given out again by the other of two calls. The theorems below do not depend on any of
these bounds.

`CHECK_DEADLOCK FALSE` is set where the bounds exhaust the behaviour (all requests
handled) or where the system really stops (producer dead or waiting for a lost permit,
event loop blocked for ever, `main` returned or stuck in a join).

**Mutants.** The definitions marked "Mutant" are plausible mistakes in the code (a
dropped guard, a missing reset, a swapped order). `PROJECT.json` says which property
each breaks.

## Fairness

- `ShmHandoff!FairSpec`: weak fairness of the producer thread and of every consumer,
  that is of the scheduler. Nothing stronger: `sem_wait` does not serve waiters in
  turn, and nothing is assumed of the main loop that empties the queue. Bounds on
  cycles are not a stop of the producer that matters, since the properties speak of a
  producer that waits within a cycle.
- `ClientConnections!FairSpec`: both threads are scheduled and time passes (`Tick`).
  Servers come and go as they like; the premise of `RecoversUnlessStale` is that one
  stays up.
- `PsmoPartition!FairSpec`: sources, readers and the end of the main thread are
  scheduled; nothing has to be interrupted, no source has to end, and main need not
  take anything out of the queues (which after the interrupt it does not).
- `InterfaceLoop!FairSpec`: sources and the coroutine that has the loop are scheduled.
  `Resume` and `Proceed` are strongly fair, since asyncio keeps what is ready in a
  queue and serves it first come, first served: a coroutine whose sleep is over gets
  its turn if the loop comes back to its queue often enough. `Calm` is a premise of
  `LoopTurns` and `BothServed`: passes raise for a while only, or the source has
  ended. Otherwise a source could have a new text ready at each acquire, which its
  interval of a second prevents and which the model, without time, allows.
- `AddressSpace!FairSpec`: the coroutine runs on (which is what `InterfaceLoop` is
  about), and texts come. The premise of `Converges` is that from some time on they
  have the same entries.
- `RequestIntake!FairSpec`: the container is started again, the handler's thread is
  scheduled, a process told to stop stops (`time.sleep(5)` loop), and a method past its
  authorisation sends while the queue has room (which blocked method does is open).
  Clients need not submit, and nothing has to stop the process.
- `MappedRequestPull!FairSpec`: every polling thread is scheduled.
  `VorPipeline!PipelineFairSpec`: both of the above.
- `UserAdmin`: safety only.

## Proofs

All theorems hold for every value of the constants that meets the named assumptions.

`ShmHandoffProofs` (any number of segments, any mix of consumers, any queue size and
set of oversize samples):

- `TypeCorrect`: one step per action of `Next`.
- `PermitsAccounted`, `InterfaceServes`. `PermitAccounting` is not inductive by
  itself: a producer inside a cycle could have `cycle = 0` and `Granted = -1`.
  `PermitInv` adds that a cycle has begun and that interface segments leak nothing.
  The step is split into what a consumer moves (`ConsumerConserves`), what it leaves
  alone (`ConsumerLocal`) and what the producer adds (`ProducerBalance`).
- `SurplusPermitNeeded`: `CleanInv` says what a segment may contain at each place of
  the only consumer that can hold the only permit, and that the producer writes into a
  cleared one (so that `{}` does no harm); `OnePermitExcludes` takes the
  exclusion from the accounting.
- `DeliversInOrder`, `ImplementsChannel`: `OrderInv` bounds the number of the sample
  in the segment and in the consumer's hands by the last delivered and the last
  published. The refinement maps `published` to a state function of the producer's
  place; every step is a publication, a delivery or a stutter.
- `PsmoPartitionViewed`: every step between restarts is one of `View(s)!Next` or leaves
  its variables alone. What the thread and its reader hold bounds what is free, so the
  saturated count moves like that of `DataSource` (`UpToTwo`, `ViewedPermitsMove`). The
  producer's statements (`ProducerViewed`), the reader's (`ConsumerViewed`, with
  `ReadViewed` for the one step that reads and decides) and those of other segments
  (`OthersViewed`) are matched one by one. `ReadsInvariant` adds what a reader can have
  in its hands at each place.
- `StarvedForEver`: while all permits of the segment are lost, the accounting leaves
  none that is free and none with the consumer (`StarvedHaveNone`), so that neither the
  producer nor a consumer, restarted or not, can move the segment's permits.

`ClientConnectionsProofs` (any number of servers, endpoints and protocols' clients, any
retry interval):

- `TypeCorrect`, which includes that only a client taken for connected has a usable
  session.
- `OutagesShow`: `OutageShows` speaks of the sample last published, and is not
  inductive. `OutageInv` says what the outage has left of the entries of the running
  cycle and of a Modbus client's flag, by how far the thread has come: the entries hold
  no value from its first publication on, the flag is `FALSE` once the thread is past
  the client's first read, and the status follows the flag in the cycle after.
  A visit of one client is nothing to the others (`OutageElsewhere`), since the clients
  in a list are distinct.
- `LostSessionStays`: the exception in `RecoversUnlessStale` is no passing state. No
  step of a client or a server ends it.

`InterfaceLoopProofs` (any number of sources in any order):

- `TypeCorrect`, which includes that only the running coroutine is away from an await.
- `BlockingIsBounded`: `PermitInv` counts the permits of a source in the semaphore,
  with the coroutine and with the thread: exactly `cycles[s]` before the second cycle
  and at least two after. A coroutine at an acquire holds none and the thread at most
  one, so none is free only with fewer than two. That no other coroutine holds one is
  the type invariant.
- `DeadlockIsFinal`: a coroutine that waits for a source that has ended keeps the loop.

`PsmoPartitionProofs` (any sources, any queue size): `TypeCorrect`; `ReadersStopSoon`,
where `StopsSoon` is inductive with the types because it says where a reader can be
that has put its late sample; `StuckForEver`, with what a source
(`SourceLeavesCaught`) and a reader can do to one that is stuck.

`AddressSpaceProofs` (any names, types and samples, no bound on passes):

- `TypeCorrect`, strengthened by `NumberInv` and `LocalInv`: no value in a variable or
  in the locals is newer than the sample.
- `NoVariableGoesBack`: `Set` writes the number of the sample, which is not older;
  `Create` touches only names that are not listed and therefore show nothing.
- `PassApplies`: each action gets past its entry only if the entry is shown, and
  leaves those before it as they were, since the names of a sample are distinct
  (`HandleApplies`).
- `NodelessStays`: a listed name is taken for a variable that exists, so `Create` never
  comes to it again.

`RequestIntakeProofs` (any finite set of requests, any priorities, rule sets and limit
of the queue):

- `TypeCorrect`, with the limit of the queue (`QueueBound`, from the theorems on
  finite sets).
- `AlwaysRegistered`: strengthened by "no handler while the process is down".
- `OnlyVerifiedStored`: `VerifiedInv` follows a request from the queue through `msg`,
  `verified` and `current`; it is needed because `current` need not be `msg`.
- `AllAccounted`: the invariant adds that what the verifier keeps was acknowledged and
  reported, that a request is queued only once, and where the handler is when its
  request has an outcome.
- `UnnoticedStays`, from `AlwaysRegistered`: no handler works and only a submission to
  an empty queue starts one.

`VorPipelineProofs`, about `MappedRequestPull` (any requests, priorities, time stamps,
locks and crashes):

- `TypeCorrect` and `NothingForgotten`, for any set of pullers: a row enters the table
  with its request (`SavedWithRow`), and every step keeps a request somewhere
  (`KeptPreserved`).
- `UnreadableRowBlocks`, for the partition and the composition: a puller deletes only
  what it selected, which was first in the table and readable.

`VorPipelineProofs`, about the composition (any requests, pullers, stops, locks and
crashes), reuses the invariants of the components:

- `IntakeIsIntake` carries the actions of the intake over to the instance whose lemmas
  are stated in `RequestIntakeProofs`. `IInv` is the two component invariants and
  `Link`, which says what a saved request went through. A step of one component
  preserves its own invariant by its own lemma, and that of the other because all it
  does to the table is to insert a request (`IntakeFootprint`) or to remove one
  (`PullFootprint`, `IntakeBearsRemoval`).
- `NothingLost`: from `IInv` alone (`AccountedFor`).
- `LifecycleHolds`: `Phase` of one request makes one step (`OneGoes`) or none
  (`NoneGoes`).
- `AgainByRejection`, for finitely many pullers (`n` of them). The `Load` of a request
  is a potential: the times it was pulled, plus what may still come of it, which is `n`
  while it is on its way to the table, `n` while its row is there, and without a row
  the number of pullers between its SELECT and its DELETE. The first DELETE trades `n`
  for the one pull and the other pullers that have read the row; only a verification of the
  VoR partition adds `n`. `LoadInv` bounds it by `n` times the `Grounds`, its own
  verification and the number of rejections; `ReportInv` says that a request is
  reported on only once, so that a rejection adds to that number when it lets another
  request through.

`UserAdminProofs` (any users, policy, passwords and callers; any number of rows from
two on):

- `TypeCorrect`: `TypeInv` adds which method each access belongs to (`Place`), since
  the methods' arguments differ.
- `AccountsUnique`, `HashesMatch`, `AccountsHaveRoles`, `OnlyTargetRemoved`:
  `StillTrue(c)` says of each call what it read earlier (absence of the name, row id,
  salt, role) and still holds when the write that depends on it comes. `Footprint`
  says what a step can do to it: it changes rows of its own user and removes the row
  whose id it holds. By `Exclusive`, that is another user unless this one is contended
  (`OthersKept`).
- `MethodsActAsStore`: with those invariants the rows are the pairs that open
  (`OpensTheRows`, which needs one row per user and salts that match). `INSERT`,
  `DELETE` and `UPDATE` are then the three steps of the store (`InsertAdds`,
  `DeleteRemoves`, `WriteChanges`): the name is free and the user has a role, the id is
  that of all rows of the user and of no other, and the old password is the valid one
  (`RowSeen`). Everything else is a stutter, the removal of a role included, since its
  user's rows are gone.

Liveness (`ServedUnlessLeaked`, `RecoversUnlessStale`, `EndsUnlessStuck`, `LoopTurns`,
`BothServed`, `Converges`, `AnsweredUnlessUnnoticed`, `AllPulledUnlessBlocked`,
`DecidedUnlessStuck`) is model-checked only: the prover does not reason about fairness
and `ENABLED`. That most of their exceptions are no passing states, from which the
system would recover by itself, is proved: `StarvedForEver` for `ServedUnlessLeaked`,
`LostSessionStays` for `RecoversUnlessStale`, `StuckForEver` for `EndsUnlessStuck`,
`DeadlockIsFinal` for `LoopTurns` (the source that ended), `NodelessStays` for
`Converges` (the variable without a node), `UnnoticedStays` for
`AnsweredUnlessUnnoticed` (until the process ends) and `UnreadableRowBlocks` for
`AllPulledUnlessBlocked` and `DecidedUnlessStuck`. Every invariant and every action
property of a run that holds is a theorem.

## Not modelled, and why

- A node or register that fails while its server answers; certificates; the
  construction of the server and of its method nodes (`interface_setup.py`), which is
  done once by library calls before anything else runs.
- Lengths and texts: a sample is its number or its entries, a request a model value.
  Whether a text fits its segment is a constant (`Oversize`), whether a request meets
  a rule or has a rule set follows from three constants.
- Start-up orders: the partitions sleep three, five and seven seconds so that
  segments, semaphores and queue exist. The initial states assume it (a psM+O reader
  that finds none ends, and is modelled).
- A restart of the interface partition: it creates its message queue with `O_CREX` and
  never unlinks it, so it does not start a second time in the same IPC namespace.
- What acceptance and mapping verification decide: nothing depends on it, and mapping
  verification ends in `NotImplementedError` whenever it passes. That they may raise
  instead is modelled.
  The values that the flask bridge fills in are constants of its source.
- The connection pool: its connections are serialised by sqlite, and one that is
  missing or closed is an access that fails, which `UserAdmin` lets happen everywhere.
- `write_value`, `disconnect` and `stop_clients` of the clients, and the issuer
  registry: called by nothing.
- The former user manager on XML files, the demonstration servers and the
  demonstration client: not part of the running gateway; the last two are the
  environment of the models.
