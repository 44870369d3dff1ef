# A TLA+ model of NFD-ORAM

NFD is the forwarder of Named Data Networking: it receives Interests, forwards
them along the FIB, remembers them in the PIT, and returns Data along the way
the Interests came, caching it in the Content Store (CS). In this version the
packets of the CS and of the PIT are kept in two Path ORAMs.

This directory specifies the daemon, with its forwarding thread, its RIB thread
and its faces, and the tools that talk to it. TLC checks small instances; TLAPS
proves the theorems about the ORAM for every size. `PROJECT.json` lists
components, runs, mutants, the source lines of every definition, findings,
hazards and theorems.

## The system and its parts

| Part | Source | Module | Run |
|---|---|---|---|
| Path ORAM client, buckets, server storage | `daemon/table/oram/` | `Oram` (promise: `OramMem`) | `oram` |
| Content Store, policies, CS management, `nfdc cs erase` | `daemon/table/cs*`, `daemon/mgmt/cs-manager`, `tools/nfdc/cs-module` | `ContentStore` | `cs`, `cs_drain` |
| Name tree, FIB, PIT, Measurements, StrategyChoice, cleanup | `daemon/table/` | `Tables` | `tables`, `tables_assert` |
| Name tree hashtable, links and iterators | `daemon/table/name-tree*` | `NameTreeIndex` | `tables` |
| Dead Nonce List | `daemon/table/dead-nonce-list` | `DeadNonceList` | `tables` |
| Forwarding pipelines, PIT records and timers | `daemon/fw/forwarder`, `daemon/table/pit-entry` | `Forwarder` | `fw`, `fw_nack` |
| The six strategies, retransmission suppression | `daemon/fw/` | `Strategies` | `routing` |
| RIB, inherited routes, FIB updater, RIB manager | `daemon/rib/`, `daemon/mgmt/rib-manager` | `RibTree`, `Rib` | `routing`, `routing_shared` |
| Readvertise | `daemon/rib/readvertise/` | `Readvertise` | `routing` |
| Transports | `daemon/face/*transport*` | `Transport` | `faces` |
| Channels, face table, face manager | `daemon/face/*channel*`, `daemon/mgmt/face-manager` | `Channels` | `faces` |
| Protocol factories, face system, network interfaces | `daemon/face/*factory*`, `face-system` | `FaceSystem` | `faces` |
| Link service, reliability, fragmentation, reassembly | `daemon/face/*link-service*`, `lp-*` | `LinkService` | `faces` |
| Start, threads, privileges, configuration, authenticator | `daemon/main`, `daemon/nfd`, `daemon/common`, `daemon/mgmt` | `Daemon` | `daemon`, `daemon_wakeup` |
| nfdc | `tools/nfdc/` | `NfdcCommandLine`, `Nfdc` | `daemon` |
| nfd-autoreg | `tools/nfd-autoreg` | `Autoreg` | `daemon` |
| ndn-autoconfig | `tools/ndn-autoconfig/` | `Autoconf` | `daemon` |

How they interact. The daemon has a main thread, on which faces, tables,
pipelines and management run as callbacks of one event loop, and a RIB thread,
which speaks to the main thread through management commands only. A callback
runs to its end before the next one starts, so **one call, packet or timer is
one action** of a module; what interleaves is callbacks, timers, time, and the
two threads. CS and PIT call `OramInterface::access` under a mutex, so an access
is one action too. Where one module meets another, it uses the other's promise:

- `ContentStore` keeps its packets in the array of `OramMem`, which `Oram` is
  shown to implement; `Tables` does the same with the blocks of the PIT;
- `Forwarder` leaves open which eligible next hops best-route, multicast or random
  use, whether they suppress, what the Content Store still has, which packets a hop
  limit stops and when the Dead Nonce List forgets: what it shows holds for any such
  choice. `Strategies` has those decisions, and the other strategies, over pipelines
  cut down to what a strategy sees;
- `Rib` contains the FIB and the faces it sends commands about, and a wire that
  loses commands or answers; `Rib` extends `RibTree`, the pure computation;
- `Channels`, `Transport` and `LinkService` are the three views of a face: how it
  comes to be and is numbered, how its socket and handlers end, what it carries;
- `Nfdc`, `Autoreg` and `Autoconf` are processes of their own, with the part of
  the daemon that answers them.

An MC module that extends several components runs one of them in each behaviour:
its variable `part` says which, the others keep one initial state.

## The modules

### OramMem and Oram

`OramMem` is what `OramInterface::access` promises: an array of blocks, zero at
first; a read returns the last value written.

`Oram` is `OramReadPathEviction` over `ServerStorage`. Its state is
`position_map`, `stash`, `buckets` and `last`, the buffer of the latest access.
`Read` and `Write` are whole calls of `access`: the block gets a new leaf, the
path of its old leaf is absorbed into the stash, the target is read or
overwritten, and the path is written back from the deepest level up, each bucket
taking eligible blocks while it has room. The leaf drawn is any leaf. Dummy
blocks are the absence of a block; which eligible blocks are taken first (the
code: stash order) is left open. `Init` is the constructor. `ImplementsMem` is
the refinement: the content of a block is that of its copy, in stash or tree, or
zero.

### ContentStore

The record `store` is what a call works on: `table` (m_table), `queues` and
`timers` of the policy, `freeIds` (s_freeBlockIds) and `mem`, the blocks. Then
the policy's name, the limit, the two flags, and `job`, the `nfdc cs erase` in
progress. Packets are numbers in the order of the index, so that lower_bound and
the walk over a prefix are a set and its minimum.

Actions: `Insert` and `InsertIgnored` (with refresh, block allocation, refusal of
packets that exceed a block, and the evictions that follow), `Find`,
`ChangeConfig` (cs/config), `ProcessConfig` (the tables section of the
configuration file), `StartErase`, `Erase`, `OnEraseReply` and `OnEraseFailure`
(nfdc sends a cs/erase command, the daemon carries it out, nfdc decides whether to
send another; other calls fit between), `Destroy` (the destructor, after which
nothing is done with the store), and time: `BecomeStale` and `MoveToStaleQueue`.
Freshness ends a little before the event of the same moment runs, and other calls
fit between.

### Tables, NameTreeIndex, DeadNonceList

`Tables`: `ntes` is the set of names in the name tree; `fib`, `pit`, `meas` and
`sc` are the tables hanging on it; `freeIds` and `mem` are the PIT's block pool.
Names are abstract, with `Prefixes[n]`; an Interest has the name its PIT entry
hangs on and its full name, which differ for a name that ends in an implicit
digest. Actions: `AddNextHop`, `RemoveNextHop`, `PitInsert` (with the early
returns that leave the tree entry behind), `PitFind`, `PitErase`, `InsertRecord`,
`SetStrategy` and `UnsetStrategy` (with changeStrategy), `PitInfo`, `Measure`,
`MeasureExpires`, `AddFace` and `RemoveFace` (with cleanupOnFaceRemoval).

`NameTreeIndex` is the data structure below: buckets with chains, the hash of a
name as the exclusive or of its components' hashes, growth and shrinking,
and children in the order the code keeps them. `Store`, `Unstore` and `Release`
attach and detach table entries, with or without erasing what becomes empty;
`Cleanup` is cleanupOnFaceRemoval, which enumerates the tree first and erases
afterwards, so that no enumeration meets a change. `Advance` is one increment of an
iterator of each kind, `Enumeration` all of them.

`DeadNonceList` is the queue of hashes with its marks: `Add`, `Mark` and
`AdjustCapacity`, with eviction of at most EVICT_LIMIT entries at a time.

### Forwarder and Strategies

`Forwarder`: `pit` holds the entries with in-records, out-records, the satisfied
flag and the expiry timer; `dnl` the Dead Nonce List, `cs` what was inserted in
the CS, `sent` the packets the last step sent. Time is a countdown in every record
and timer. A timer at zero is due and may be late, as in an event loop with other
work: after Data has satisfied an entry, its timer is due at once, and a new Interest
may still come first. Actions: an incoming Interest ends as dropped, looping, hit,
forwarded or rejected (`DropInterest`, and the cases of `ReceiveInterest`);
`ReceiveData` with one match, several, or none; `ReceiveNack`; `NewNextHop`;
`Finalize` (the expiry timer); `Tick`; `AddFace`, `RemoveFace`; `ForgetNonce`.

`Strategies`: the record `s` holds the scenario with its strategy, the PIT records
as a strategy sees them, suppression intervals, the access strategy's last working
next hop and RTO timers, ASF's measurements and probe timer, and the tasks
self-learning has handed to the RIB thread. Actions: `ReceiveInterest`,
`ReceiveData`, `ReceiveNack`, `GainNextHop`, `LoseNextHop`, `RemoveFace`,
`RibTask`, `InterestFinalize`, `RtoTimer`, `AsfTimeout`, `ProbeTimer`,
`MeasurementsExpire`, `Tick`.

### RibTree, Rib, Readvertise

`RibTree` is the routing table as a value, with the entries, their routes and
inherited routes, and `ComputeUpdates`: the FIB changes and inherited routes that
FibUpdater works out for a registration, an unregistration and a removed face.

`Rib`: `svc` is the RIB thread (the table, the queue of updates, the batch in
progress, the FIB commands in flight, the expiration events), `fib` and `faces`
belong to the forwarding thread, `news` are face events on their way, `active` the
face dataset being fetched. Actions: `RegisterEntry`, `UnregisterEntry`,
`AnnounceExpired`, `SlRenew`, `OnRouteExpiration`, `OnNotification`,
`FetchActiveFaces`, `RemoveInvalidFaces`, `CreateFace`, `DestroyFace`, and for each
FIB command `Answer` or `Timeout`, the latter with or without the command having
been carried out. `strayed` records that one of the situations happened in which
the code lets RIB and FIB disagree (see Observations); the properties say that
nothing else makes them disagree.

`Readvertise`: `rrs` are the readvertised routes, `inFlight` the commands to the
destination, answered in any order (`AfterAddRoute`, `BeforeRemoveRoute`,
`AfterDestinationAvailable`, `AfterDestinationUnavailable`, `OnAnswer`, `OnTimer`).

### Transport, Channels, FaceSystem, LinkService

`Transport`: `t` is one transport of any of the eight kinds with its state, its
socket, the operations outstanding and the completed handlers waiting in `ready`,
first in first out. `Complete` ends an operation, `RunHandler` runs the first
handler; `Send`, `Close`, `SetPersistency`, `TimerFires`, `PingFails`, `PongTimesOut`,
`NetifStateChange`, `InternalReceive`, `UdpFromChannel` and `EthernetFromChannel` come
from elsewhere. An assertion of the code that fails ends the behaviour in another
`status`. `FreedIsNotTouched` allows the one handler that the code lets outlive its
transport: the aborted first read of an Ethernet transport whose constructor throws
(`ethernet-transport.cpp:156`).

`Channels`: `c` holds the channels with their maps, the faces and the FaceTable,
connects under way, and what each command was answered. Actions: `CreateFaceCommand`,
`UpdateFaceCommand`, `DestroyFaceCommand`, `Listen`, `IncomingPeer`,
`IncomingFails`, `ConnectCompletes`, `RunHandleConnect`, `ConnectTimesOut`,
`PeerCloses`, `PeerFaceFails`, `DeferredCloseFace`.

`FaceSystem`: `fs` holds factories, channels, multicast faces and interfaces.
`Start` is the dry run and the real one, `Reload` the one after SIGHUP or a network
change; the other actions are interfaces and addresses that come, change and go,
and multicast faces that close.

`LinkService`: `ls[n]` is the link service of each end, `wire` the packets under way,
`got`, `seen` and `sent` what was passed up, processed and sent. `SendNetPacket`
assigns sequences, fragments, marks and transmits; `ReceivePacket` handles
acknowledgements, duplicates and reassembly; `RtoTimer`, `IdleAckTimer` and
`ReassemblyTimeout` are the timers; `SetOptions`, `SetMtu` and `SendQueueChanges`
come from management and the socket.

### Daemon, NfdcCommandLine, Nfdc, Autoreg, Autoconf

`Daemon`: `main` and `rib` are the program counters of the two threads, `ribIo`,
`stopped` and `retval` what they share, `d` what configuration and commands have set,
`file` the configuration on disk. A thread's step is what it does between two
operations on shared state; the wait on the condition variable may wake up
spuriously. Sections are processed in file order, first as a dry run; strategy choices
are applied prefix by prefix, so that a failing one leaves the earlier ones made. A file
may be unreadable, a section wrong or refused by the system, and the exit code tells
them apart.

`NfdcCommandLine` is a library: the commands each module of nfdc registers, as tables
of argument definitions, and how a line of tokens is parsed against them. `Nfdc`: how
it is launched, the commands left, the one being executed, its requests under way and
the exit code, with the faces, routes, choices and content store settings of the daemon
that answers, refuses, or whose answer is lost; `updates` are the RIB updates that were
answered and are not applied yet. `Main` reads the arguments or the batch file; the loop
of `nfdc cs erase` is in `ContentStore`. `ExitZeroMeansDone` compares the state of the
daemon with the line that was typed, by a definition of its own of what a line means
(`Understood`, `Goal`): the routes, choices and settings asked for are there, with the
typed keys and values, once the updates are applied. `Autoreg`: the dataset, the
subscription and the notifications of every kind, of which only CREATED counts.
`Autoconf`: the four stages with what each may find, the connection to the hub of each
run, and the event by which the daemon runs again.

## What the runs show

Bounds are constants of the `.cfg` files, named in the modules. All passing runs
together fire every action and every disjunct of the next-state relations.

| Run | Instance | Result |
|---|---|---|
| `oram` | 3 blocks, 2 levels, 1 slot per bucket: as many blocks as slots; 2 contents | pass |
| `cs` | 5 packets, one local and one too large, 3 blocks, limits 0, 2, 4, serving on and off | pass |
| `cs_drain` | 3 packets, 2 blocks, limits 0 and 2 | violation |
| `tables` | 4 names; 2 Interests on one tree entry, a third too large for a block; 2 blocks, 2 faces, 2 strategies. Index: 4 names in 4 buckets that grow and shrink. Nonce list: 4 Nonces, capacity 3 to 6 | pass |
| `tables_assert` | the same | violation |
| `fw` | two scenarios: 1 Interest, 2 downstreams, 1 removable upstream, 2 Nonces, lifetimes 1 and 2; and 2 Interests that one /localhost packet satisfies, from an application and over an ad hoc link | pass |
| `fw_nack` | the same | violation |
| `routing` | RIB: routes to /a, /a/b, /a/b/c on 2 faces, one route per entry and face, one of them timed, one capturing; a face that comes late and may go; 3 commands, 2 lost answers. Readvertise: 3 routes, 3 identities, 2 commands in flight. Strategies: one scenario each, with 2 downstreams, 2 upstreams, 1 or 2 names, 4 packets | pass |
| `routing_shared` | the RIB alone, two routes of one entry and face | violation |
| `faces` | every kind of transport with 3 faults; 3 sets of channels with 3 faces, 2 commands and 2 faults; 6 configurations, 2 of them applied, 2 network changes; 7 link scenarios, sequences modulo 16 that wrap | pass |
| `daemon` | 10 configuration files, one unreadable, 3 events from outside; 30 command lines and batch files of nfdc; 2 faces for nfd-autoreg; 3 runs of ndn-autoconfig | pass |
| `daemon_wakeup` | the same | violation |

What the properties say, by hazard:

- **A block is lost, doubled or stale**: `OnPath`, `StashOnlyWhenRootFull`, and the
  refinement `ImplementsMem`.
- **Index, queues, timers and blocks of the CS drift apart**: `BlockAccounting`,
  `QueuesFollowTable`; **a lookup or an eviction takes the wrong entry**:
  `FindsFirstMatch`, `EvictionPriority`; **an erase stops early**:
  `ServedEraseCompletes`, for a store that serves.
- **The tree loses an entry in use, or a face leaves a pointer behind**:
  `TreeCoversTables`, `NoDanglingFace`, `PitBlockAccounting`; **strategy changes**:
  `InfoFollowsStrategy`; **iterators over a table that was resized, and the erasure of
  what they visited**: `EnumerationsAreComplete`, `CleanupLeavesNoEmpty`;
  **a list that adapts and evicts**: `RecentNoncesAreListed`.
- **Timers against packets**: `TimerCoversDownstreams`, `DataReachesDownstreams`,
  `DeadNoncesListed`, and `EntriesEnd` (liveness).
- **Strategy timers and records**: `StrategiesFindRecords`, `RetxIsSpaced`,
  `ProbingNeverStops`.
- **Incremental updates, lost answers, expiry**: `FibFollowsRib`, `TimedRoutesEnd`,
  `UpdateMakesProgress`; `RefreshNeverStops` for readvertise.
- **Closing against outstanding handlers**: `FreedIsNotTouched`, `ClosingEnds`
  (liveness); **connects, accepts and timeouts**: `ChannelMapIsItsFaces`,
  `NoFaceAfterFailure`; **reloads and network changes**: `NoStaleMcastFace`.
- **Loss, duplication, reordering, wrap-around**: `EachPacketSettlesOnce`,
  `DeliversWhatWasSent`, `AcksAreScheduled`.
- **Two threads that fail and stop each other**: `StopsLiveContext`,
  `FailureEndsBoth` (liveness); **reload that fails halfway**: `ServesAsConfigured`.
- **Chains of requests, notifications, reruns**: `ExitZeroMeansDone`,
  `AutoregCoversFaces`, `DaemonKeepsTrying`.

Why the bounds are enough to be interesting. Three blocks in three slots on paths
of two force blocks to stay in the stash; deeper trees are left to the proofs. The
CS instance reaches a full store, an empty pool, a limit beyond the capacity, every
queue and both policies. The tables have a branch, a sibling and a digest, so that an
entry has another child, a deeper entry or nothing. Two lifetimes make a downstream
outlast another; two Nonces make a retransmission differ from a loop. Three commands
on a chain of three names let a route be inherited, captured and released, with one
update queued behind another and a command repeated once. Four ready handlers let a
close meet an error, a completed write and a completed read. Two packets of up to
two fragments in flight with a loss threshold of one let each loss rule remove
fragments of the other packet, and numbers that start near the top wrap. Three events
let a daemon start, reload with failure and be stopped, or fail in between. No run
uses symmetry.

Deadlock is checked in `oram`, `tables` and `fw`, where some action is always possible.
The other runs say `CHECK_DEADLOCK FALSE`: their commands, faults and events are
bounded, and what is modelled really ends (a destroyed store, a freed face, a daemon or
tool that exited). That nothing waits for ever there is stated by properties:
`UpdateMakesProgress`, `ClosingEnds`, `FailureEndsBoth`, `DaemonKeepsTrying`,
`ProbingNeverStops`, `RefreshNeverStops`.

Fairness. `EntriesEnd`: weak fairness of `Tick` (time passes) and of `Finalize` for
each Interest (the scheduler runs a timer that is due, in the order of their times,
so none starves). `ClosingEnds`: weak fairness of `RunHandler` (the io_service runs
handlers that are ready). `FailureEndsBoth`: weak fairness of the steps of each
thread (the operating system runs both). No fairness of packets, peers, answers,
faults or signals is assumed.

### Disagreements between code and its own words

Each is a run that TLC ends with a counterexample; `findings` quotes the lines.

- `cs_drain`: the limit is capped at the number of blocks so that inserts do not
  "fail silently when the pool drains", but `Cs::insert` takes the block before it
  evicts: at the cap the pool is empty and every new packet is dropped.
- `tables_assert`: `Pit::findOrInsert` asserts that a tree entry it finds is in
  use; the insertion of an Interest too large for a block leaves one that is not.
- `fw_nack`: "the last outgoing Interest has been Nacked", but a new Interest renews an
  out-record and leaves the Nack of the earlier one on it.
- `routing_shared`: "need to update FIB with lowest cost for the same face instead of
  removing the face from the FIB", but when the costlier of two routes of one face goes,
  only the removal is sent, and the RIB keeps a route that has no next hop.
- `daemon_wakeup`: "when RIB manager fails, NFD will be terminated", but a RIB thread
  that fails before the main thread has woken up clears the pointer the main thread
  waits for, which then waits for ever.

### Observations

Met while modelling; the models contain this behaviour, and the properties that pass
are worded so that it is visible in them.

Tables and forwarding:

- cs/erase asks `Cs::find` whether more is left (`cs-manager.cpp:91`), which answers no
  when serving is disabled; `nfdc cs erase` then stops early. Hence *Served*EraseCompletes.
- `changeStrategy` does not reset the StrategyInfo of a PIT entry whose name ends in an
  implicit digest when the choice at the full name changes (`strategy-choice.cpp:237`).
- An entry used again between its Data and its timer keeps its satisfied flag
  (`forwarder.cpp:192`), and the Nonce of the new Interest is not put in the Dead Nonce
  List (`forwarder.cpp:583`). `DeadNoncesListed` reads the flag as the code does.
- A destroyed store leaves the staleness timers of its entries with the scheduler.
- Self-learning asserts at `self-learning-strategy.cpp:139` what a Nack for a broadcast
  discovery Interest contradicts.

RIB. The first three are what `strayed` stands for; the routes of the instance leave the
others out, of which the first is the subject of `routing_shared`:

- A FIB removal that times out is retried as an addition (`fib-updater.cpp:277`).
- A second answer 410 for a batch that has ended ends the next one early; it can reach
  the assertion of `rib.cpp:456`.
- The face dataset may be older than a face, whose routes are then removed.
- When a route other than the cheapest of its face goes, the "second lowest" that is
  offered to the children may be that very route (`fib-updater.cpp:159`); an update that
  makes a route dearer than another of its face may read a null `prevRoute`
  (`fib-updater.cpp:468`).
- Replacing a route does not adjust the entry's count of capturing routes (`rib.cpp:110`).

Readvertise: `withdraw` leaves the timer of a route set, which then meets the assertion
of `readvertise.cpp:149`. A route needed again while its withdrawal is unanswered is
erased by the success of that withdrawal (`readvertise.cpp:185`); `RefreshNeverStops`
excepts it.

Faces:

- The idle-acknowledgement loop (`lp-reliability.cpp:238`) does not end if the MTU leaves
  no room for an acknowledgement; the trace at `lp-reliability.cpp:342` reads a record
  that was just deleted.
- Two errors on a permanent TCP face queue two reconnects; the read that is restarted
  meets the assertion of `stream-transport.hpp:232` when the face has meanwhile changed
  state. The model ends such a behaviour in another `status`.
- A connect that succeeded and then timed out before its handler ran is answered twice.
- A listener stops listening after an accept error that is not an abort.
- A multicast group changed without its port makes no faces of the new one, since the old
  ones still have the local endpoints (`udp-factory.cpp:346`), and then closes the old
  ones; a later reload makes the new ones.
- A packet that a congestion mark makes larger than the MTU is dropped together with the
  acknowledgements it carries.
- `enable_congestion_marking` takes effect in the dry run.

Daemon and tools:

- An omitted `cs_policy` keeps the old policy on reload, against
  `tables-config-section.hpp:61-62`; a reload has no dry run, and a failing section leaves
  the earlier ones applied.
- nfd-autoreg registers prefixes on local TCP and UDP faces too, against the help text at
  `nfd-autoreg.cpp:206`; a face created between dataset and subscription is missed.
- ndn-autoconfig throws when a network change restarts it during multicast discovery.
- The RIB answers a registration before the FIB is asked (`rib-manager.cpp:233`): `nfdc
  route add` exits with 0 for a route whose face has closed meanwhile.
  `ExitZeroMeansDone` excepts routes whose face closed and routes that expired.
- A command line that nfdc does not understand, `nfdc help` included, is run as an empty
  command after its message is printed (`main.cpp:153`): the call throws, and nfdc exits
  with 1.

## What is proved

`OramProofs` proves, for every number of blocks and levels, every bucket size up
to `Bucket::max_size`, every content and every choice of leaves:

- `TypeCorrect`: `Spec => []TypeOK`.
- `PathInvariant`: `Spec => [](SingleCopy /\ OnPath)`.
- `RoomInvariant`: `Spec => [](BucketsFit /\ StashOnlyWhenRootFull)`.
- `Refinement`: `Spec => ImplementsMem`, a read returns what was last written.

Assumptions. `OramConstants` is what the constructor checks, and
`OramGeometry` the arithmetic of `P(leaf, level)`: a path has one bucket of the
store per level and starts at the root. Division and powers are beyond the
solvers, so the geometry is an assumption of the proofs, which TLC evaluates for
the small trees; `DeployedGeometry` in `MCOram` has TLC evaluate that the bucket
lies in the interval of its level for the trees the daemon builds (11 levels for
the PIT, 13 for the CS, 14 if the logarithm rounds up).

The argument. The inductive invariant is `OramInv == TypeOK /\ SingleCopy /\
OnPath`. Neither half is inductive alone: that the target is not duplicated when a
write finds no copy in the stash rests on `OnPath` (if there were a copy, it would
have been on the path just absorbed), and that the blocks left outside the path
stay on their paths rests on `SingleCopy` (the only block whose position changes
is the target, and its only copy is in the stash). `AbsorbAll`, `TargetAbsorbed`
and `UniqueCopy` say this; `WriteBackInv` shows that any write-back of a stash in
that state restores the invariant. `RoomInvariant` follows from the way a
write-back fills the root, which is on every path. `Refinement` maps a read to a
read and a write to a write, since a write-back moves blocks and keeps their
content (`WriteBackKeepsBlocks`).

Only model-checked: everything else, and in particular liveness under fairness,
which is out of the prover's reach; `NameTreeIndex`, whose hash uses the bitwise
operators the prover does not take; and what the recursive definitions compute
(`computeHash`, `ForEach`, the folds of `RibTree`), which would need induction over
data.

## Not modelled, and why

- The distribution of the leaves and what an observer learns from an access: a
  statistical matter, not a property of behaviours. The bound on the stash, which
  holds only with high probability. The branch-free selection operators of the ORAM
  are modelled by what they select.
- Encodings, signatures and certificates (library ndn-cxx); a packet is a value
  that fits a block or does not, a certificate is a name.
- Counters, logging, datasets beyond what nfdc and nfd-autoreg read from them, the
  formatting of output, the splitting of a line into tokens, the options of the other
  programs and the parsing of the configuration file's text.
- Forwarding hints and the network region table's use in forwarding: which FIB entry
  a strategy gets is its own choice in the models.
- Round trip time estimation (library) and its effect on the retransmission timeout:
  timers may fire whenever they are set, and ASF's round trip times are a constant.
- Socket options, packet capture and operating system events below the handlers.
- The composition of all components in one state space, which is out of TLC's reach:
  components meet through the promises listed above.
- ndn-autoconfig-server answers with one fixed packet and keeps no state; scripts,
  build files and headers of the ORAM that nothing includes.

## Plan

Theorems to come, strengthened to inductive invariants where needed:
`TreeCoversTables`, `PitBlockAccounting` and `NoDanglingFace` of `Tables`;
`BlockAccounting` of `ContentStore`; `TimerCoversDownstreams` of `Forwarder`;
`RecentNoncesAreListed` of `DeadNonceList`; `StopsLiveContext` of `Daemon`;
`FreedIsNotTouched` of `Transport`;
`RefreshNeverStops` of `Readvertise`; `AcksAreScheduled` of `LinkService`;
`DaemonKeepsTrying` of `Autoconf`.
