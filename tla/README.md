# A TLA+ model of the cortex-mcp mesh

cortex-mcp runs one agent (a *neuron*) per host. Neurons keep authenticated
connections to each other, gossip routes and capabilities over them, find tools
by flooding queries, relay streams for nodes that have no direct connection and
expose the whole mesh to an MCP client through a gateway. This directory holds
TLA+ modules translated from the Go code, the TLC configurations that check them
on small instances, and TLAPS proofs of the properties that hold for every
instance. `PROJECT.json` lists components, runs, mutants, the map from
definitions to source lines, hazards, findings and theorems.

Checking a run: `tlc -workers 2 -config PeerSafety.cfg MCPeerLifecycle`.
Checking the proofs of a module: `tlapm ServiceProofs.tla`.

## 1. Inventory

Paths are relative to `src/`.

| Component | State | Operations | Hard behaviour |
|---|---|---|---|
| peer lifecycle (`pkg/mesh/api/neuron.go`, `connect.go`, `health.go`, `reconnect.go`) | `peers` map, per-peer `deathOnce`, control and accept goroutines, `reconnect.running` | AddPeer, AddPeerDual, Connect, control loop, acceptDataStreams, handlePeerDeath, StartReconnectLoop, Close | two goroutines see one session die; a node reconnects while its old connection is being cleaned up; several peers die at once |
| control plane (`pkg/mesh/api/control.go`) | none of its own; dispatches frames | gossip, sonar, relay, credential and bootstrap handlers | frames read before a death and handled after it |
| gradient table (`pkg/mesh/routing/gradient.go`) | paths per target and neighbour, expiry times, gossip cache | UpdateRoute, AddDirectNeighbor, RemoveNeighbor, PurgeStale, ProcessGossip, GenerateGossip | cache invalidation, frame budget, equal costs |
| capability index (`pkg/mesh/routing/capability_index.go`) | `byCap`, `byNs`, `byNode`, `impedances`, `lastUpdated` | Update, Remove, PurgeStale, PurgeStaleExclude, Lookup, LookupByNamespace | three redundant maps, a fast path |
| gossip (`control.go`, `StartGossipTicker`) | the tables of all nodes | one frame per peer and interval | loss, failure and restart; expiry racing refresh over several hops |
| control writer and bootstrap (`async_writer.go`, `bootstrap.go`) | `writeCh` (64 slots), `writerMu`, `writerStopped`, `writerDone` | sendFrame, sendBootstrapReliable, writer goroutine, stopWriter | send on a closed channel, full queue, writer blocked on the stream |
| sonar (`routing/sonar.go`, `control.go`) | seen UUIDs with TTL, response collectors | Sonar, handleWhoHas, handleIHave, Prune | cyclic flood, dedup expiry, loss |
| relay circuits, stitching (`connect.go`, `control.go`, `routing/circuit.go`, `bufpool.go`) | `pendingCircuits`, open stream pairs, byte counters | dialRelayCircuit, handleRelayOpen/Accept, Stitch | dial inside the control loop, half-open circuits, idle watchdog |
| credential delegation (`pkg/mesh/vault`, `api/credential.go`) | vault entries, waiting calls and their one-slot channels | Store, Match, RequestCredential, request and grant handlers | grants of one call reach the channel of another; clocks that differ |
| resolver, manifest, impedance (`nucleus`) | host → addresses and expiry; stream count, load | AddEntryFull, ParseHostsContent, Merge, bootstrap chunks; Update, AddStreams, RemoveStreams | merge order, expiry; compare-and-swap loop, clamping |
| frame codec (`proto/codec.go`) | the reader's memory budget | WriteFrame, ReadFrame | limits on one side only, torn frames |
| membrane (`membrane`, `api/grpc.go`) | pending pairs, listener queue, write lock | handshake, RegisterControl, CompleteData, Deliver, Accept, compressed Write and Close | dials of one peer overlap; close against write |
| transport (`transport`) | open connections | DialSSH, DialSSHTunnel, DialProxy, DialHTTPS, Deploy | release on every error path |
| nodeset (`nodeset`) | none (pure) | parse, fold, match, set operators | padding, strides, products |
| deployment, lifecycle (`internal/mesh/cli.go`, `upgrade.go`, `transfer.go`, `tools/lifecycle`) | binary, unit, identity and process of a host; the host's lock | install, uninstall, start, stop, automatic upgrade, take-over | crash between two steps, broken upload, concurrent starts |
| reconciler (`cli.go`) | backoff per host and per round | rounds of dials | two backoffs at once |
| PKI, configuration (`pki*.go`, `config`, `import_exa.go`) | authority, identities, `mesh.toml`, vault | load or create, issue, strip, import | torn file, repeated installs |
| gateway, tools protocol (`gateway`, `tools`, `internal/mcp`) | calls and their invocations | call_tool, list_tools, tool_help, get_mesh_overview | partial failure, stale index, merge order |
| registry, result cache, stream primitives (`internal/registry`) | registered tools, last result, bounded buffers | register, detect, Execute, Push | TTL, capacity |
| diagnostic tools and collectors (`internal/registry/tools`, `internal/sys`) | none; the host's | two-sample rates, process walks, worker pools, logs, health checks | the host changes between two reads |

*Interaction.* A reader goroutine per connection calls the control handlers,
which mutate the shared gradient table and capability index under their own
locks and queue frames on other connections' writers. Both readers of a
connection report its death through one `deathOnce` to `handlePeerDeath`, which
takes the peer map's lock twice, purges both tables, stops the writer and runs
the callbacks; the last peer's death starts the reconnect loop, which dials and
calls AddPeer. The gossip ticker purges both tables and queues one frame for
every peer. No lock spans two of these components, so every boundary is an
interleaving point.

*What makes each component correct:* a dead connection leaves every table and is
reported; isolation is noticed and acted on; redundant indexes agree; caches are
never stale; advertised costs are never too low; live capabilities are known
everywhere and unreachable ones are forgotten; no send panics; a bootstrap is
complete and in order; every goroutine ends; a query finds every holder, once; a
relayed stream leads to the node its caller named, and ends when its call does;
credentials reach only the call that asked; nothing opened is left open; an
installed binary is whole and runs; a tool call is answered, with results for its
own arguments; and a tool says nothing false of what stood still while it read.
The hazards in `PROJECT.json` place these at the lines where they are at risk.

## 2. Modules

Components that meet on the network are composed: GossipMesh composes the tables
of all nodes, RelayCircuit the dials, control loops and streams of all nodes,
Sonar the handlers of all nodes, Requests the gateway, the tool connections and
the caches, Deployment the CLI, the gateway and the host. Components that share no
state are checked in one run whose `focus` variable, chosen initially, names the
component that moves; the state spaces then add up instead of multiplying, and
each property is about its component's states. The four modules that do this are

| MC module | Components |
|---|---|
| `MCCalls` | Sonar, RelayCircuit |
| `MCServices` | ControlWriter, Requests, Deployment, ThreadScan (what must make progress) |
| `MCComponents` | CapabilityIndex, GradientTable, FrameCodec, Membrane, Connections, CredentialDelegation, Nucleus, Reconciler, Configuration, NodeStart |
| `MCTools` | Requests, NodeSet, Streams, MeshOverview, Catalogue and the diagnostic tools |

### The mesh

#### PeerLifecycle (`MCPeerLifecycle`, `ServiceProofs`)
One node, a set `Conns` of connections it may come to have, each with an owner
chosen when it registers. `addPc`, `ctl`, `accepting` and `deathPc` are the
program counters of AddPeer, of the control loop, of acceptDataStreams and of
handlePeerDeath; `peers`, `routes`, `isolated`, `running` are the shared state.
An action is the code between two lock releases or blocking calls: DeathRemove
(`peers.Remove`), DeathCount (`peers.Count`), DeathPurge (gradient and capability
tables), DeathClose, DeathNotify (callbacks, StartReconnectLoop). A gossip frame
may be read before a death and handled after it (`ctl = "gossip"`), and its
routes may or may not go into the table (own routes and non-improving ones do
not). `LoopRound … LoopExit` are the reconnect goroutine, `CloseStop` and
`CloseCancel` are Close. AddPeerDual makes the same transitions as AddPeer. TLS
and yamux are abstracted to a dial that succeeds or fails and a session that is
broken or not; the resolver is the constant `Targets`.

#### CapabilityIndex ⊑ CapabilityTable (`TableProofs`)
The maps of `capability_index.go` as functions with explicit domains, each method
an action that performs all the map operations of the Go method, the fast path
of Update, the oversize filter and the per-node limit included. `CapabilityTable` is what
a caller may rely on: a table from capabilities to offering nodes with their
impedances. The refinement mapping is `Lookup`.

#### RouteTable and GradientTable (`TableProofs`)
`RouteTable` holds the table operators shared with GossipMesh. `GradientTable` is
one node's table with `gossipCache`, its key (dirty flag, impedance, budget) and
the frame budget arithmetic of GenerateGossip, with the sort's free choice among
equal costs kept as nondeterminism. The ordered path slice is abstracted to the
set of best next hops (`BestHops`), which is all its readers distinguish.

#### GossipMesh (`MCGossipMesh`, `GossipMeshProofs`)
All nodes' tables at once, over RouteTable, with connections that come up and go
down, nodes that crash and restart empty, and frames that are dropped.
`Gossip(n)` is the ticker handler of n and the handling of its frames at its
peers. `Interval` ages everything once every live node has ticked: ages count
interval boundaries, which allows all phases of the tickers. A frame may have been
read (`GossipRead`, `held`) when its connection goes; `HandleGossipFrame` merges it
later and re-creates paths over the removed peer (`control.go:85`).

#### ControlWriter (`SonarProofs`)
One connection's queue, its read-write lock, the senders, the bootstrap
goroutine with retry and abort, the writer, and stopWriter with its wait. The
test of `writerStopped` and the channel send are separate steps inside the read
lock, so the race with `close(writeCh)` is representable.

#### Sonar (`SonarProofs`)
Query set-up, BroadcastAll, the collector, handleWhoHas with dedup and hop
budget, handleIHave with its relay along the gradient, expiry of seen entries and
lossy FIFO links. The next hops towards an origin are a constant (`ReturnHop`);
it is loop-free in the run, and arbitrary in the proofs.

#### RelayCircuit (`RelayCircuitProofs`)
All nodes, their links and a set of calls. A *dial* is one run of GrpcDialer,
named by its call or by the circuit whose RelayOpen frame a control loop is
handling; `pc` is its position, `relay` the circuit it asked its next hop for,
`waiter` the one-slot channel in `relayWaiters`, `pending` the keys of
`pendingCircuits`. A control loop inside handleRelayOpenFrame reads nothing
(`Busy`). Streams are `open`, `delivered` or `closed`; `bytes` says whose data a
stream carries and `stitched` what Stitch joined it to; `owner`, a history
variable, is the call a dial is made for. The routing table is the constant
`NextHop`. Sessions break (`Break`), with the frames and streams on them, before
either end cleans up (`PeerDeath`); control queues overflow (`DialRefused`,
`AcceptDropped`); a call's context ends at any time (`CtxOver`, `CtxDone`); read
deadlines and the idle watchdog fire on circuits that are merely slow
(`LateFirstByte`, `IdleTimeout`).

#### CredentialDelegation (`ServiceProofs`)
Calls of RequestCredential at one node, each with a nonce of its own, the vaults
of its peers, request and grant frames that may be dropped, and clocks that differ
by a constant offset per peer. `handleCredentialGrantFrame` hands a grant to every
waiting call by a send that does not wait; `UnsealGrantWithNonce` checks nonce and
expiry by the caller's clock, `validateRequest` the skew by the peer's. Sealing is
perfect.

#### FrameCodec, Membrane, Connections (`ComponentProofs`)
FrameCodec is a byte stream of scaled-down frames, a writer that checks no size
and may fail in the middle, and the reader with its limit, its budget and its
loop. Membrane is the accepting side: certificate checks, pairing of control and
data connections by peer and token with expiry, the listener's queue, and the write
lock of the compressed connection. Connections runs each dialer as a list of
steps that names what a step acquires, hands over and releases when it fails.

#### Nucleus, Reconciler (`ComponentProofs`)
The resolver caches of two nodes, edited at any time, and the hand-over of one to
the other in chunks, cut in any order; a record's addresses are a set, since
nothing that reads or merges them depends on their order. The impedance with its compare-and-swap counter. The
reconciler's rounds over the configured hosts with both backoffs: one host is
dialled at a time, each way of reaching it is a step, and a dial may take any time
(`PassTime` runs during a dial), which holds up the hosts after it. The pause after
the first round is the base interval, whatever came of it.

### The host

#### Deployment (`ServiceProofs`)
One host with its binary, ".tmp" file, update file, identity, unit file and
process, the operator's CLI, a gateway that upgrades by itself, and systemd. A command
is the list of lifecycle operations of `ops.go`, executed one by one, a write in two
halves; uploads break, commands overlap, and in scenario "both" the operator's jobs
interleave with the gateway's, of which two may be scheduled on the node at a time
(`Upgrades`). They share the ".tmp" file and the update file as the code does: `file`
says where the file a job has open is by now, since another job may have renamed or
removed it, and the next upload truncates the update file while a scheduled copy still
reads it (`read_update`, `read_end`). What a file holds is its version, or a damage
named for its cause: `Cut` (one job is writing it, or was when it was interrupted),
`Short` (what an upload had brought when it was read), `Mixed` (two jobs have opened it
and not both written it), `Lost` (what a crash left of it). Nothing is synced, so
`Crash`, which may come between any two steps, loses any subset of the binary,
the identity and the unit file that were written since the host booted (`cached`).

#### NodeStart, Configuration (`ComponentProofs`)
NodeStart has the start sequence of each mode of `cli.go` and the take-over through
the abstract socket, by several processes at once. The failed bind, the dial that reads
the holder's pid, the kill, the kernel's reaping and the second bind after half a second
are steps of their own; the kernel may need longer than that (`tooSoon`). Configuration
has the authority's file with interrupted writes, reads and writes that fail and are
ignored (`lostCAs`) and the legacy path, and follows `mesh.toml` from the gateway's
file, or an imported one, to the copy on a node.

### Calls and tools

#### Requests (`ServiceProofs`), Catalogue, MeshOverview (`ReportProofs`)
Requests follows call_tool from the argument checks of the MCP server over the
gateway's routing and fan-out to the tool's connection and its result cache,
while nodes fail and return and the index is stale. Catalogue is what nodes
register, advertise and list. MeshOverview merges views taken at different times
in any order.

#### NodeSet, Streams
Range lists and node-set patterns against plain sets of integers and names; the
stream primitives against definitions over the whole input, which a history
variable keeps. Heaps and hashes are libraries.

#### CounterSamples, ProcessTools, ProcessAudit, LogTools, MachineTopology, FileHolders (`ReportProofs`), ThreadScan (`ServiceProofs`)
Tools that need several reads for one answer. Each read is a step; between them
the host changes (devices are replaced, counters wrap, processes fork and exit and
their numbers are used again, cgroups go, threads end, mounts hang, descriptors and
locks change hands). FileHolders joins socket tables, descriptors, locks and names
(`rows` is what a table lists, `told` what has a name, `shown` what is in the answer).
Its lists are sets, read in any order: the kernel promises none, and a sort leaves open
how equal keys are arranged. A list that is sorted and cut is any set with as many
elements as the limit allows of which none comes after one left out (`ListenerCuts`,
`FileCuts`, `HolderCuts`); LogTools keeps its entries by their place in the log
(`LastOf`, `CoreDumps`). ThreadScan has
the goroutines and channels of `wchan.go` and the statfs goroutines left behind.

#### StorageHealth, HostHealth (`ReportProofs`)
Tools that judge what they read at once: the state is the machine and which
commands work, the answer of a tool an operator on it. Where the Go code loops over
lines (the OOM scan, the file of a bond, the rows of conntrack) the operator is a
recursive function of the line number, so that it can be proved about; a list that
is cut is the set of its first positions (`FirstIn`).

## 3. Runs

| Run | Bounds | Shows |
|---|---|---|
| `peer_safety` | 2 identities, 2 connections, 2 loops, 2 attempts, timeout on | no connection whose cleanup has removed it is ever in the peer map again; the last of several deaths fires OnIsolated; one reconnect goroutine |
| `peer_liveness` | 1 reachable peer and a target that never answers, 2 connections, 2 loops, 2 rounds with a backoff, cancelled by Close at any step | a broken session is reported; routes of a dead peer leave although gossip was in flight; the loop ends although rounds fail, back off and are cancelled |
| `gossip_mesh` | line of 3 nodes, expiry after 3 intervals, 4 disturbances, of which late frames are some | costs never below the distance; capabilities of connected nodes spread and stay; a cut-off node forgets |
| `calls` | flood: triangle with a tail, 1 query, 2 hops, 1 lost frame; relays: line of 4, calls a→d and a→c, 3 circuits, 1 fault | answers are right and unique, the flood ends and finds every holder if no frame is lost; a stream finds its circuit, data comes out at its own target, if nothing fails the data of a call that does not give up comes out at its target, streams of abandoned calls close |
| `services` | writer: 2 senders, 3 chunks, 2 slots; requests: 2 nodes, 6 inputs, 2 upsets; deployment: the operator alone with 3 commands, a gateway alone with 2 uploads of which 1 breaks, both with 1 command and 2 uploads, 1 crash in each; scan: 4 threads, 2 workers, channels of 1, 4 mounts | no send on a closed channel, chunks in order and complete, writer and bootstrap end; every call is answered; no installed binary is one that a single job had half written, each other damage has its named cause, and an acknowledged install is complete and comes up (below); scans count everything once and return |
| `components` | see `Components.cfg` | the index is what its inverse determines and implements a plain table; the gossip cache is never stale, over budget or unstable; a credential is for its call and fresh; frames stay whole, connections pair and close; nodes come up right; what a node learns and tells is sound (below) |
| `host_tools` | see `HostTools.cfg` | results are for the call's tool, node and arguments, and recent; node sets, streams, catalogue and overview equal their references; reports are true of what stood still; trouble shows |
| `peer_isolation` (violation) | as peer_safety, unlimited attempts | finding 1 |
| `gossip_direct`, `gossip_dead` (violations) | as gossip_mesh, 3 disturbances | findings 2 and 3 |
| `relay_crossing` (violation) | line of 5 nodes, calls a→d and c→z, no fault | finding 4 |
| `cred_grant` (violation) | 2 calls, 1 peer | finding 5 |

Some properties join what their components promise, each part under its focus:

- `LinksAreSound`: the control loop hands on only whole frames, and ends rather than
  lose the frame boundary; a pair joins the two connections of one dial of a verified
  peer; a stream is accepted, queued or, after Close, closed; a failed dial leaves
  nothing open.
- `InstallsAreSound`: the installed binary is never `Cut`, wherever a job is interrupted:
  copies and SFTP uploads write beside it and rename. A `Short` one takes an upload that
  ended early or began before the last was copied, a `Mixed` one a gateway and another
  writer of the ".tmp" file at the same time, a `Lost` one a crash; the code guards
  against none of these. An acknowledged install has the CLI's binary, identity
  and an enabled and loaded unit until a crash takes one of them, with the same exception
  for an automatic upgrade that was under way. `InstallTakesEffect` is its liveness.
- `NodesComeUpRight`: of several starts on a host one runs past the lock, and one is
  left unless half a second was too short for the kernel, a step failed or a node was
  told to stop; the authority of a command is the one that signed the fleet, except for
  identities of an authority that could not be saved or read again, and after a new
  one was forced; a node's copy of the configuration dials like the gateway's and
  has no credentials; a lost host is dialled again within the two backoffs, not counting
  the time in which the dial of another host kept the reconciler.
- `KnowledgeIsSound`: a peer that was sent its whole bootstrap can dial what it was
  offered, whatever it knew before; the stream counter is exact under concurrent
  closes, and the impedance in its range under absurd loads.
- `AnswersMatchReferences`: range lists, patterns, folding, splitting and matching
  against sets; top-k, ring, dedup, aggregates against the input.
- `ReportsAreTrue`: rates do not exceed what passed; lists and trees are exact for
  processes that lived through the scan; limits are the tightest of unchanged levels;
  topology has every part that stayed; every OOM kill is told once; no tool says ok
  of clock, links, sensors or memory in whose readable data it can see trouble; nor
  of maps, pools, SATA drives and file systems, while an array that lost two members
  is ok (`raidhealth.go:192`, against the help in line 90), the status of
  get_nvme_smart_log never tells of an unwell drive (its counters do,
  `nvmesmartlog.go:206`), and a command that fails leaves errors out of the status;
  listed tools can be called; the overview is consistent in any order of merging.
- `TroubleShows`: cut lists are the newest; a listener or a descriptor that stayed is
  told with a process that held it, or counted as one that may not be read, or cut off
  for others that come first; who waits for a lock is a warning.

*Why the bounds are enough.* Two connections with two identities give both
critical cases: two peers dying at once, and one peer replaced by its own newer
connection. Two loops are what a duplicate start needs. Three chunks on two slots
force the retry path between other senders' frames. The line of three is the
smallest network with a relay, an echo and a transient loop. Four nodes are the
smallest graph in which a flood can both circle without its origin and come back
to it. Two nodes and two namespaces exercise every branch of the index: a bucket
shared by two capabilities, one emptied and one kept. Three hops have a relay that
is neither next to the caller nor next to the target, two calls through one relay
are what a mix-up of circuits needs, and one fault can fall on any step of either.
Two credential calls are what one grant in the other's channel needs; two dials of
one peer what a wrong pair needs; three starting processes have one that loses the
race for a lock already freed for another. One crash can fall on any step of any of three
commands, two uploads are what a truncation under a reader and two copies to one ".tmp"
file need, and one command beside them interleaves with both. Two workers on channels of one slot block each other both ways. Counters
of span 4 wrap within a window, logs of three lines lose either line of a kill,
lists are cut at one or two entries, and every threshold has values on both sides. Every
property has a mutant in `PROJECT.json`, a plausible slip in one definition which
makes the run fail, so none of them holds vacuously.

Named bounds: `MaxRound` (the backoff exponent saturates), `MaxAge` (ages
saturate at expiry), `MaxCost` (costs saturate), `MaxDisturbances`,
`MaxFrames` (frames written), `MaxDrops`, `MaxCircuits` (IDs that uuid.New
returns), `MaxFaults` (broken sessions, refused frames, timers that expire
although the call is alive), `MaxUpsets` (nodes that fail or leave the index),
`MaxCrashes`, `MaxUploadFaults`, `MaxCommands`, `MaxTime`, `MaxClock`,
`MaxPairTime` and `MaxRoundTime` (clocks stop), `MaxStores`, `MaxEdits`,
`MaxChanges`, `MaxCAs`, `MaxInvocations`, `MaxInstalls`, `MaxFailures`, `MaxStops`,
`MaxPush`, and the events a host may have in a run (`MaxDeviceEvents`,
`MaxProcEvents`, `MaxLogEvents`, `MaxStorageEvents`, `MaxAuditEvents`,
`MaxHostEvents`, `MaxTopoEvents`, `MaxThreadExits`, `MaxLinkChanges`,
`MaxGossips`). With `MaxFrames` finite, competing senders cannot starve the
bootstrap for ever; the code relies on the same through its rates (a retry at most
every 500 ms against a 3 s gossip interval).

Deadlock checking is off where the system may really stop: all connections used
up (PeerLifecycle), every node down (GossipMesh), and, in the runs with a focus,
when a component has done all it was asked or its host no longer changes.

*Fairness.* Weak fairness of a goroutine's next step: the Go scheduler runs every
runnable goroutine. Weak fairness of the gossip ticker and of the purge it does, and of
the control loops that have read a frame.
Strong fairness of the bootstrap's abort cases: `select` picks among ready cases
at random, and the loop returns to it. The writer's step is fair because a write
has a 5 s deadline. In RelayCircuit the last stream of a call that is over is
closed by the 5 s read deadline of acceptDataStreams, and StitchEnds is fair
because Stitch closes each side when the other ends and the 5 min idle watchdog closes
both if a half-closed side stays silent. The goroutines of a scan and the steps of a
tool call run when they can: a call's read ends because the connection of a node that
fails breaks. A fleet command goes on once begun, and systemd executes the start
job it has accepted. The control loops and callers of
CredentialDelegation run, but nothing makes their contexts end. Nothing is assumed of the network, of inbound peers, of
Close, of reconnect timeouts, or of when contexts end and dedup entries expire.

## 4. Proofs

All theorems hold for every value of the constants that satisfies the named
assumptions, which TLC evaluates in the runs. They are of three kinds:

- finite sets where something is counted, and natural bounds
  (`ConstantsAssumption`, `CapabilityAssumption`, `GradientAssumption`,
  `WriterAssumption`, `RelayAssumption`, `SonarAssumption`, `DeploymentAssumption`,
  `FrameAssumption`, `MembraneAssumption`, `NucleusAssumption`, `MeshCAAssumption`,
  `ReconcilerAssumption`, the last with the base of each backoff below its maximum;
  `CounterAssumption`, `ProcessAuditAssumption`, `StorageHealthAssumption`,
  `FileHoldersAssumption`, in which pids are positive and an object is a socket or a file;
  `LogToolsAssumption`, with a default below the maximum and a clock whose seconds are below the
  10^14 of `coredumps.go:334` and whose microseconds are not (they have not been since 1973); and `HostHealthAssumption`, which has the threshold of the
  conntrack table below 100 percent, as `usageWarnThresholdPct` is);
- the shape of the environment: a distance that obeys the triangle inequality on
  links (`MeshAssumption`); clock offsets are integers and a pattern has a length and
  a number of wildcards (`DelegationAssumption`); the inputs of a call name a tool
  of the catalogue and a node, pattern or nothing (`RequestsAssumption`); node
  identifiers are ordered, so that their ranks differ (`GradientAssumption`); a
  configuration file is a record with a list of credentials
  (`ConfigurationAssumption`); a process starts in one of the modes of the CLI
  (`NodeStartAssumption`); processes 1 and 2 always exist, and fewer processes are
  started in a scan than the clock has ticks (`ProcessAssumption`); every cgroup has a
  parent, and a root is its own (`ProcessAuditAssumption`); CPU 0 cannot go off
  line, threads of a core share its cache and the CPUs of a cache their socket
  (`MachineTopologyAssumption`); the plugin table and the gateway's own tools have
  different names and categories that exist (`CatalogueAssumption`);
- marks that are not data: no thread is named like the two marks of an idle and a
  returned worker, no mount is the empty name (`ThreadScanAssumption`), no process
  has the number 0 that stands for a free socket (`NodeStartAssumption`), and nil is
  not a list of routes (`GradientAssumption`). That the pool
  has a worker is `runtime.NumCPU()*2` (`wchan.go:87`).

Nothing is assumed of the graph, the routes, the faults or the schedule.

| Module | Theorem | Argument |
|---|---|---|
| ServiceProofs | TypeCorrect, DeadPeersStayRemoved, IsolationNeverMissed, OneReconnectLoop | `ConnInv`: a goroutine of a connection exists only after AddPeer started it. With `PeersAreOwned`, only a connection's own registration can enter it, and that precedes its death. `IsolationInv`: with an empty map and a past registration, either OnIsolated has fired or a cleanup stands between its removal and its callback and will see a zero count. `LoopInv`: a goroutine that is not idle implies the running flag until Close |
| TableProofs | IndexStaysExact, IndexImplementsTable | `IndexInv`: `byCap` and every bucket of `byNs` are given in closed form by `byNode` and `impedances`. The properties alone are not inductive, because an update removes old entries by what `byNode` lists. One lemma per helper loop, used for the forward map and each bucket |
| TableProofs | GradientTypeCorrect, CacheNeverStale, GossipIsCurrent | every mutation of a cost sets the dirty flag (`MutationsAreMarked`), so a usable cache was computed from the present table |
| TableProofs | GossipIsStable | `SentInv`: while the cache is good it holds what was sent last, with the same key. So a second call takes the hit, and it selects the same capabilities because the choice is by rank and ranks differ: the chosen set is determined, and as the nodes of rank below the k-th are mapped one to one into 0..k-1, it has at most k members. The sort's free choice among equal costs does not matter: it is made once, when the cache is filled |
| GossipMeshProofs | MeshTypeCorrect, CostsAreBounds | `MeshInv`: tables and the frames still to be merged are sound for the distance of their node and its sender, and a received cost plus the sender's impedance keeps soundness by the triangle inequality; removals only drop entries |
| SonarProofs | TypeCorrect, ClosedChannelIsNeverSentOn, BootstrapStaysInOrder | `LockInv`: the position of handlePeerDeath determines lock, flag and channel, and nobody is inside its read lock once the flag is up. `PipeInv`: while the writer lives, the queue `Holds` exactly the chunks after the last one that left it, in ascending order among other frames; one lemma each for appending a frame, appending the next chunk and taking the head |
| RelayCircuitProofs | TypeCorrect, CircuitsAreKnown, DataReachesItsTarget | `RelayInv`. `Chain`: the dials of one call form a chain with one end. `InFlight`: a RelayOpen is in one control stream only and names its owner's target. `Kept`: a circuit that was granted is in the map of its hop or stitched to its own stream; `Grants` carries this from the handler over the frame and the waiter to the open stream, so that it survives reordering, loss and a caller that gave up. `Stitches`: streams are joined along the chain only, so data stays with its owner. Nothing is assumed about the network or the routes, which may be wrong or cyclic |
| SonarProofs | SonarTypes, AnswersAreTrueAlways, NoDuplicateAnswersAlways | `SonarInv`. `CallInv`: a call owns its UUID, and a collector is registered exactly while its call is under way. `TruthInv`: every frame on a link is about some call, a WhoHas asks for what that call wants and an IHave comes from a node that has it. `OnceInv`: while the call is under way a node that has answered has the UUID in its seen set, and its answer is in one place: one frame on one link, one slot of the channel or one result. `Effect` says once what sendControl does to all links. Routes may lead in circles |
| ServiceProofs | RequestsStaySound | `ReqInv`: a cache entry is the result of its own tool on its own node for the arguments it is kept under, and expires its life after it was computed; every result on its way back answers its call. Without the part about the cache the property is not inductive: a hit hands out what another call computed |
| ServiceProofs | CredentialsStayWithTheirCall | `CredInv`: a grant is good from the moment it is sealed (its credential is stored for the host of the call whose nonce it carries, and its expiry is at most the skew plus its life after the request), whichever channel it reaches; a vault has one entry per pattern |
| ServiceProofs | InstallsStaySound | `DeployInv`. `JobsInv`: each job is what is left of its list of operations, so that its length tells what it has done. `FilesInv`: what the files and the memory of the copies may hold. `CutInv`: a ".tmp" file that is written for the first time has one job at it, which has not finished; so no rename puts it in place, although jobs overlap and write to files that others have moved. `SpoilInv` and `UploadInv`: an upload that ended is complete and nobody reads one that is open, until one is cut off or begins too early. `ProgressInv`: without overlapping commands, what the operations so far have achieved is still there, through crashes, restarts, systemd and automatic upgrades. The exceptions in the statement are those of the property |
| ServiceProofs | ScansStayComplete | `ScanInv`. `PlacesInv`: a thread is in one place of the pool (queued, offered, task, in a worker's hand, result, counted), and while the context lives no existing thread has dropped out. `ClosedInv`: a worker returns only from a closed and empty channel, unless the context has ended; so when the results are closed and drained, all threads are counted. `GroupsInv`: counts and examples add up after every step. `MountInv`: reports are of mounts begun and not under way |
| ComponentProofs | LinksStaySound | `FrameInv`: what is on the wire is the rest of a frame that was begun and then whole frames, and what the reader expects is the payload of the first, unless the stream broke; so a header is never read from the middle of a body. `MembraneInv`: a pending entry and a pair are of one dial, and a dial's data connection arrives once; a stream is with Deliver, in the queue, accepted or closed; one writer holds the lock. `ConnInv`: a table, for each chain, of what it holds at each step; failing at a step releases exactly that |
| ComponentProofs | NodesStayRight | `CAInv` ties the step of a command to the files and the authority in its memory: while an authority that was not lost has signed anything, it is the one that is read, and it alone. `ConfigInv`: a node's copy is the gateway's file without its credentials. `StartInv`: `TodoInv` says what is left of each start, `LockInv` who has the socket, `VictimInv` that who kills or tries again has read a pid, `HeirInv` who will have the socket when the present holder is gone, unless a retry came too soon, `ViewInv` what a first peer finds: one node is left although the readings are old. `RetryInv`: what is left until the next round and each host's next attempt is within the two backoffs, not counting the time in which other hosts were dialled |
| ComponentProofs | KnowledgeStaysSound | `TaughtInv`: every pair offered in the bootstrap under way is known to the peer or in a chunk still to come (the chunks may be cut anyhow, and the cache be edited between two of them), and merging loses nothing. `LoadInv`: the counter is the number of open streams; a swap that succeeds saw the present value, so it takes off what its goroutine held and never reaches the floor at zero |
| ToolProofs | ToolsReportTruly | `ToolsInv` is the conjunction of the invariants below; a step of the composition is a step of the component in focus and leaves the others alone. So `ReportsAreTrue` holds as the run checks it, for every value of the constants of nine modules |
| ToolProofs | TroubleIsNotCutOff | the same invariant, with `DumpInv` and `HoldersInv`: `TroubleShows` as the run checks it |
| ReportProofs | CounterSafety | `InWindow`: during the window the counter of a device that was not replaced has moved by what passed, modulo its span (`Moves`), unless it turned a whole round; a replaced device has counted no more than passed. The arithmetic of wrapping is in `WrapFacts` |
| ReportProofs | ProcessSafety | `PassesInv`: a process of the first pass that is still the same one has used no less since. `SeenInv`: if both readings of a number are of one process its difference is what it used. `OutcomeInv`: a list is some descending order cut at the limit, and a tree has the whole path to its top and what hangs on it |
| ReportProofs | AuditSafety | `ScanInv`: a process nothing happened to is still to be read or was read as it is. `WalkInv`: the limit found so far and the levels above the present one together give the lowest limit of the whole path, unless a level of it changed. `TasksOk`, `CgroupsOk`: parents are alive and hierarchies closed |
| ReportProofs | TopologySafety | `CoresInv`: a CPU that stayed and whose turn has passed is in a core; a core is kept under values its members have, or is the one a CPU that was off line fell into; with a still node it is the one core its members belong to. `BlockInv`: a device that stayed keeps its number, which no other takes, and so its mount |
| ReportProofs | StorageSafety, CatalogueSafety, OverviewSafety | types of what is read; a node's registry is empty or all that its features support; `OverviewInv`: the links merged and those still to merge are those reported, and the gateway's own measure stays |
| ReportProofs | LogSafety | `RingOk`: in the ring, kills ascend, a context precedes its Killed line, two contexts have the Killed line of the first between them, and only the kill under way has none. This survives the loss of the oldest line and the arrival of a new one. `OomScanned` describes the scan after each line, and `ScanKeeps` carries it over the next. The lists: in a strict order of a finite set the number of those before an element maps the set one to one onto 0..n-1 (`RanksFollow`), so that the first n are n or all (`FirstAreCounted`); `DumpInv` says that dumps are in the order of their times and the clock where the assumption puts it, so that seconds are never taken for microseconds and the one unit keeps the order |
| ReportProofs | HoldersSafety | `HoldersInv`. `WorldOk`: who is gone has nothing open, what is held is remembered, a lock has an owner. `RowsOk`: the rows have every listener, of the tables read so far, that did not move. `FoundOk`: of a socket that did not move, each holder that is the same process is still to be scanned (`ToScan`), or the socket is found, or a process was skipped. `CountedOk`: what was counted of a process that stood still and what is left of its descriptors add up to its descriptors under the path. `OpenersOk`, `JoinedOk`, `LocksOk`: what is told is of one process each, by its name. `WorldSteps` says once what a step of the kernel can change, `CutsAreFull` that who is cut off is cut off for a full list |
| ReportProofs | HostSafety | `HostInv`: the daemon and the kernel follow one clock in different units, a bond whose slaves are all up is up. `BondKnown` and `DropSums` say what the parser has after each line; rounding is monotone and off by less than a unit; a device that is missing from a list that was not cut was not listed |

*Induction over lines.* A theorem that takes an operator cannot be instantiated, so
three of these proofs do without: `EveryNumber` says that a set with 0 and successors holds
every number, proved from `LeastNumber`, and is applied to the set of line numbers for which
the description of the scan holds. `StepByStep` shows that a recursive function of
the line number exists and satisfies its equations.

*What the proofs changed.* Looking for inductive invariants showed that some
properties were true of the small instances only. That a CPU nothing happened to
is in exactly one core is false on larger machines: the cache's identifier is the
first on-line CPU of its list (`topology.go:228`), which changes when that CPU goes off line
between two readings, so that siblings are put into two cores; the property now excepts
it. The storage properties needed the case of a host without paths or drives.

The type-correctness theorems are not also run as invariants: they hold for every
instance.

Each inductive invariant was also checked by TLC, in the states of the run of its
component.

Only model-checked:

- every liveness property (`GossipMesh`'s spreading and forgetting, the ends of
  floods, calls, bootstraps, scans and installs) and the violations: TLAPS does not do fairness;
- `AnswersMatchReferences`: NodeSet and Streams compute by recursion over data whose
  shape is a tree or a heap (`RECURSIVE` operators and folds), and what such a recursion
  returns for every input is out of the prover's reach. It is the only safety property
  of the runs that no theorem states.

## 5. Findings

1. `peer_isolation`: `StartReconnectLoop` returns when `running` is set, and the
   loop clears it only in its deferred function. If the peer it has just
   reconnected to dies in between, the isolation starts no loop, although
   `health.go` says isolation triggers one (`OnIsolated` itself does fire).
2. `gossip_direct`: the direct route is entered once by AddPeer and expires like
   any other after three intervals; nothing renews it, and an echo over another
   node can replace it.
3. `gossip_dead`: a capability entry is renewed by any node that still lists it,
   so two live neighbours keep a dead node's entry alive for ever.
4. `relay_crossing`: a relay dials on inside the control loop of the peer that
   asked, with a context that never ends. On the line z-a-b-c-d, a's call to d and
   c's call to z make b dial through c in its loop for a, and through a in its loop
   for c. The two RelayAccepts wait behind the blocked loops; both loops, and with
   them gossip and sonar on both connections, stop for good. A next hop that dies
   before it answers, a dropped RelayAccept and a routing loop block a control loop
   the same way.

5. `cred_grant`: a grant is sent without waiting to the one-slot channel of every
   pending call. While another call's grant sits unread in a call's channel, its
   own grant is dropped and it waits until its context ends, although the comment says that
   "the actual requester will successfully unseal it" and no frame was lost.

Smaller disagreements between comments, documents and code, met while modelling.
Where a property would be violated by one of these it states the exception.

- *Mesh.* Close does not end peer sessions (`neuron.go:403`). handlePeerDeath removes
  by node ID and may take a newer, live connection out of the map (`health.go:91`). OnOrphaned does not
  fire when the reconnect timeout expires (`reconnect.go:22`). OnPeerLost may see a
  route that late gossip re-created (`health.go:17`). Sonar results are not sorted by
  impedance. ZstdConn.Close says it closes at once and unblocks writes
  (`zstd.go:79`) but waits for the write lock (`:83`). Control connections that are replaced
  or expire while they wait for their pair are not closed, nor are streams left in a
  closed listener. DialProxy leaks its connection if closing the response body
  fails (`proxy.go:66`).
- *Node sets.* Match cuts patterns at commas inside brackets (`nodeset.go:450`) and
  accepts n01 for n[1-3]; Split of an empty set divides by zero (`nodeset.go:292`).
- *Installation.* DialUploadBinary takes an early EOF for success (`transfer.go:132`),
  so that a truncated binary is installed. `install` with a target deploys to
  every configured host (`cli.go:826` against `docs/QUICK_START.md:86`). The SSH upgrade
  never writes the mesh.toml its comment lists. Two automatic upgrades, or an install and an
  automatic upgrade, share one temporary file (`ops.go:146`, `upgrade.go:102`), so that a
  binary two of them wrote may be put in place; the next upload truncates the update file
  while a scheduled copy reads it (`lifecycle.go:253`); and nothing is synced before the
  rename (`ops.go:150`), so that a crash may leave an empty binary. A failed automatic upgrade is not
  tried again until the node reconnects. The CLI reports a scheduled removal as done.
  Two first starts at once make two authorities; a failed read or write of the authority is
  ignored (`pki_persistence.go:101`), so that one that cannot be read is replaced and one
  that could not be written signs nodes nobody accepts later. If the kernel needs more
  than half a second to end the killed node, the new one exits too and the host has none
  (`cli.go:487`). A plain TCP dial has no timeout of its own, so that one hanging dial holds
  up the reconnection of every other host. A bad credential in mesh.toml drops the ones after
  it (`config.go:156`).
- *Tools.* get_process_tree reads a missing ancestor (`tree.go:127`) and does not end
  on a cycle of reused numbers (`tree.go:111`). A disk replaced in the window gives a
  wrapped rate (`diskstats.go:151`). get_raid_health sees an array as degraded only for
  the value 1 (`raidhealth.go:192`): one with two members gone is ok, although the help
  promises to flag arrays at reduced redundancy (`raidhealth.go:90`).
  get_nvme_smart_log is ok whatever the drives say (`nvmesmartlog.go:206`). get_pci_link_status looks for serious errors only in the list after it is
  cut (`pcilinkstatus.go:399`). query_journalctl cuts before it filters
  (`queryjournalctl.go:199`). A malformed pressure file, a drive that cannot be read and
  an unreadable conntrack maximum are notes or zeros with status ok. A scan that
  is cancelled may leave its feeder blocked (`wchan.go:155`).

## 6. What is not modelled, and approximations

- Cryptography, TLS, yamux, zstd, SSH, SFTP, systemd, protobuf and generated code:
  libraries and services, modelled by what the code relies on.
- Nearly forty diagnostic tools (inventories, tables and statistics such as
  get_routing_table, get_slab_info or the Lustre statistics): each reads files or one
  command and formats them. They keep no state, run no goroutine, compare no two reads and
  judge by at most one threshold.
- The copy goroutines of one Stitch, its watchdog's clock and the buffer pool;
  globs in node sets and group files; the HTTP and stdio front ends; logging.
- The tools' texts are abstracted to the fields they extract. Numbers keep what
  matters of them: the span at which a counter wraps, the width a numeral is
  written with, the rounding of a temperature, the unit of a time.
- GossipMesh handles a frame before its sender ticks again (frames take
  milliseconds, the interval is 3 s), every node has at least one capability,
  and a frame has room for the whole table (the default budget holds 816 routes).
  GradientTable covers the case of a small budget.
- Sonar lets a seen entry expire only after its query returned: the default query
  timeout of 1 s is shorter than the TTL of 3 s. A caller with a longer deadline
  may get duplicates. The hop budget covers every simple path, and the collector
  has room for every holder.
- RelayCircuit has one stream per circuit (its dialer opens one and IDs are unique),
  so the separate lookup and delete of acceptDataStreams are one step. Links
  that broke do not come back, and routes do not change. A node has a gRPC
  listener. Data is followed in the direction from the caller to the target, as the
  first bytes of a stream; closing a stream is one step for both of its ends.
  pendingCircuits keeps entries whose stream never comes; the model does the same,
  and only the streams in them are shown to close.
- Bootstrap chunks are numbered payloads in ControlWriter; Nucleus models what is in
  them.
- Sonar does not restart nodes (`sonar.go:336`: the counter of query identifiers
  starts again), its routes do not change, and in the run they have no loops.
- CredentialDelegation has one credential key for all calls of a node, as the code
  has. Reconciler and Membrane stop their clocks at a bound that is past every timeout.
- Deployment has one host; what another command does to another host is
  independent of it, except for the shared paths listed in section 5.

## 7. Plan

1. **Proofs**: range lists (`RangesDenoteSets`) with recursive functions in place of
   folds; that Sonar and the relay circuits implement an abstract call.
2. **Stitch**: the two copy goroutines, half-closed streams, the watchdog and
   the buffer pool. Abstract specification: a byte pipe that is either open at both
   ends or closing.
3. **Sonar over GossipMesh**: answers on tables that change and have loops, and
   nodes that restart.
