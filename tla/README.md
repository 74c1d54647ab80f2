# Verification of sfg_agent_common

TLA+ models of the stateful parts of `sfg_agent_common`, the packages every robot
("agent") of the fleet and every operator's computer run: agents announce themselves and
discover each other, the sensor streams of discovered agents are decoded on demand, and
plugins are shared. The models are written from the sources; TLC checks them on small
instances, TLAPS proves every safety property for every instance. `PROJECT.json` maps each
definition to the lines it models, and lists runs, mutants, hazards and theorems.

## 1. The system

| Component | State it keeps | Operations | What makes it correct |
|---|---|---|---|
| `AgentStatusProvider` (sfg_agent), one per agent | heartbeats left in the bootup phase, the heartbeat timer, the agent's metadata | start, heartbeat timer, service `get_metadata` | exactly the right number of quick heartbeats; answers with its metadata |
| `AgentDiscoverer` (sfg_agent) | table of discovered agents with a keepalive timer each, map of pending metadata requests | heartbeat, keepalive timeout, metadata answer, service `get_discovered_agents` | one event per change of the table; lost only if silent; found if running |
| `AgentDecoder` (sfg_agent) | table of agents, each with its lazy loaders; a listener thread | DISCOVERED and LOST events, snapshot at start, graph changes, destruction | a topic has a decoder exactly while somebody listens to it |
| `LazyComposableNodeLoader` (sfg_composition_interfaces) | state, desired state, id of the loaded node | `load`, `unload`, two service callbacks, expiry | one node at most, none forgotten, the last wish wins |
| `PluginLoader` (sfg_pluginlib) | static table: class loader, lease count, timer version by key; detached threads | `get`, `release`, thread wake-up | a leased class loader lives; an unused one lingers, then goes |
| `LocomotionControllerBase` (sfg_hardware_interface) | watchdog timer, map of actions, velocity limits | command, watchdog, `add_action`, `trigger_action`, odometry | stale commands are ignored, the robot stops when commands cease, limits are kept |
| `ViconLocalizer` (sfg_hardware_interface) | polling thread, connection, buffers of frames and of transforms | connect, frame, lookup, destruction | frames are combined with the odometry of their time; the thread goes on, and ends when told to |
| `RosFqnBuilder`, `agent_utils` (sfg_utils) | an immutable builder | set a segment, reset, build; sanitize a name | built names obey the segment rules, tell their segments and can be built in parts |
| `Republisher`, `Relay`, depthai `Camera`, bindings, messages, launch files, xacro | none worth modelling | | |

How they interact:

- Provider and discoverer: best-effort heartbeats on one topic; a metadata request per new
  agent; both sides driven by wall timers of independent phase.
- Discoverer and decoder: reliable events (queue of ten) and one snapshot request at start,
  neither of which waits for the other.
- Decoder and loaders: the decoder holds the only `shared_ptr` to each loader in `m_agents`,
  under `m_agents_mutex`, and calls `load` and `unload` from two threads; the loaders' service
  callbacks run on the executor, hold a `weak_ptr`, and may outlive the loader.
- Loaders and container: `load_node` and `unload_node` requests; other clients of the same
  container may unload nodes, and it may restart and count its ids from one again.
- Commands, watchdog and triggered actions of a controller share one mutually exclusive callback
  group: while an action runs, nothing else does.
- Tracker, odometry and localizer: frames wait in the client's buffer while the thread waits for the
  odometry of an earlier one.
- Clients and `PluginLoader`: leases are custom-deleted `shared_ptr`s; threads started by
  `release` look at the table seconds later.
- All nodes name their topics and services with `RosFqnBuilder`; agents and whoever listens to them
  must come to the same names.

Hard behaviours, in the order the models attack them: wishes that change while a request is in
flight; objects that die before their callback; listener pass against event handler; timers
that race messages; requests that are lost or die with their server; a snapshot that is overtaken
by events; threads that wake up for an entry that has been leased, released or created anew since;
a watchdog kept waiting; frames that pile up. `hazards` in `PROJECT.json`
lists them at their lines, with the properties that watch each.

## 2. Modules

| Module | Models | State and actions against the code |
|---|---|---|
| `LazyNodeLoader` | `lazy_composable_node_loader.cpp`, the container (external) | `mState`, `mDesiredState`, `mId` are the members; `call` the requests whose callback has not run; `node` the container's nodes, `reusable` the ids it may hand out again after a restart. `load()`, `unload()` and each branch of the two callbacks are one action each, because they hold `m_mutex` throughout. `alive` is "the `weak_ptr` locks" |
| `ManagedNode` | abstract specification of a loader | wanted or not; off, starting, on, stopping |
| `AgentDecoder` | `agent_decoder.cpp`, with `L == INSTANCE LazyNodeLoader` over its own loader variables | the listener thread (`listener`, `toVisit`) and the executor or destructor (`handler`, `toHandle`) each go loader by loader, holding `m_agents_mutex`; loader callbacks, container and subscribers act in between. `TopicsOf` is what an agent's metadata lists, one topic after the other, with repetitions: `m_decoders` and the entry in the making (`made`) are sequences like the vectors of the code. A name that cannot be built (`NoTopic`) makes the handler throw: what it had made is destroyed while the mutex is held (`unwinding`) and nothing is entered |
| `AgentStatusProvider` | `agent_status_provider.cpp` of all agents | timer period and ticks until due, bootup count, heartbeats under way |
| `AgentDiscoverer` | `agent_discoverer.cpp` | table, keys of the pending map, ticks until each keepalive timer fires, the last event; `MKeepalive` keeps the eight bits of `m_keepalive` |
| `AgentDiscovery` | composition of the two in real time | one action per timer, message, answer, crash; two history variables count silence |
| `DiscoveredAgents` | abstract specification of the discoverer | a table and the event of its last change |
| `DiscoveryFeed` | the events and the snapshot between the two, `get_discovered_agents_callback` of both sides; extends `DiscoveredAgents` for the discoverer's table | `queue` is the subscription's history, `request` and `response` the one request; `mAgents` the metadata in `m_agents`; history variables name the agents of which the decoder was told too little |
| `PluginLoader` | `plugin_loader.tpp` | table, leases (a lease holds the bare pointer), sleeping threads with the version they captured, history of idleness and oversleeping |
| `VelocityLimits` | `apply_velocity_limits` and the check of the limits parameters | the four steps as operators on integers. A scaled axis is kept by its signed square over a common denominator, so that no root is taken and every comparison is exact; float rounding is left out |
| `LocomotionController` | commands, watchdog and actions of `locomotion_controller_base.cpp` | `watchdog` is `m_reset_cmd_timer`; `mActionMap` has the registered actions, `running` the one that holds the callback group (one action of the model begins it, another ends it, time may pass in between); `velocity` is what `apply_cmd`, which may throw, was given last; history variables hold its twist, its age, the silence since the last accepted command, which calls failed and how long actions ran |
| `ViconLocalizer` | `vicon_localizer.cpp`, the Vicon client and tf (external) | `pc` is where the polling thread is, `frames` the client's buffer, `samples` and `odometry` the transform buffer by age; a frame is taken (`FrameSeen`, `FrameInVain`), waits for its odometry and is published (`Localize`) or given up (`GiveUp`). Transforms are the permutations of three things, the smallest group that does not commute. Each frame has its own age since it was taken, which `Tick` advances; the history variables `capture` and `late` keep the age of the frame in work and how long it had waited, apart from the `stamp` the code gives it |
| `AgentUtils` | `agent_utils.cpp` | names are sequences over an alphabet with one character of every kind the code tells apart |
| `RosFqnBuilder` | `ros_fqn_builder.cpp`, the rules of its segments, `rmw_validate_full_topic_name` (external) | the builder is a value, each call an action that replaces it; `Build` is an operator, the set of results: empty where the code throws |
| `MC*` | instances for TLC | symmetry sets, values of `TopicsOf` |
| `*Proofs` | theorems | see 5 |

What the models leave out of the code they cover: log messages, QoS other than loss and
queueing, the contents of requests (parameters, remap rules, names), the YAML parser, the
order in which unordered maps are traversed (every order is allowed). Whole callbacks are one
action where the code holds one lock, or runs in one mutually exclusive callback group, from
beginning to end and touches nothing another thread touches; the decoder's handlers are not,
because loader callbacks and subscribers interleave with them.

## 3. Runs

| Run | Question | Instance |
|---|---|---|
| `loader_alone` | Does `m_state` tell the truth, is no node forgotten, is `ManagedNode` implemented, if nobody else interferes? | two loaders in one container |
| `loader_faults` | Do one call and one node per loader survive lost calls, other clients and restarts of the container? | two loaders, all faults, four ids |
| `decoder_contract` | Do listener, handlers and destructor use the loaders as they must (`L!Spec`), never call a destroyed one, never have more for a topic than are listed? | an agent that lists a camera twice or once, another with one camera and at times one whose name is refused, two loaders, lost calls, destruction at any time; half a million states |
| `decoder_liveness` | Does the last wish win? | one agent lost and found at will, subscribers at will, two generations of loaders |
| `discovery` | Do the events tell exactly the changes of the table? Is a running agent lost only if silent, and found again and again; a dead one always lost? | the discoverer's own agent and another, bootup and steady interval 1 and 3, keepalive 3, all faults |
| `feed` | Does the decoder learn from events and snapshot, in whatever order, who is discovered? | two agents of two kinds of metadata, a queue of three |
| `plugins` | Does a leased class loader live, is the count exact, does an unused one linger and go? | two clients, keys, class loaders, three threads, which oversleep at will |
| `locomotion` | Does the robot move only while recent commands keep coming, stop otherwise, and keep within its limits? | three kinds of limits and an invalid one, twists along a diagonal and off it, timeout of two ticks, messages up to two ticks old or early, `apply_cmd` throws at will, a built-in and an added action that take a tick or none |
| `vicon` | Are frames that did not wait combined with the odometry of the moment they were taken at, does the thread catch up, and end? | two transforms of each kind that do not commute, latency of one frame, a buffer of two, a timeout of two |
| `fqn` | Do names tell their segments, can they be built in parts, do sanitized names of agents stay what they are? | every chain of calls; two components, two streams, four resources, six names, 36 names of agents |
| `discovery_pending` | violation: an agent waited for without a request | see findings |
| `discovery_keepalive256` | violation: keepalive 256 is 0 | see findings |

Every property of a passing run has a mutant: a plausible bug in a mapped definition, stated
next to it as `\* Mutant: ...`, with which TLC refutes the property under the same
configuration. Mutants are no part of any specification.

### Bounds

- `Id`, `Token`: between restarts the container counts up and the client numbers its requests for ever. The
  model reuses an identity once nothing refers to it, which no property can tell apart, and a step
  that needs a free one waits until there is one. Two loaders have two calls in flight and two
  nodes at most, and each may remember one old id: so tokens never run out where nothing is
  lost. `Loader` likewise: `FreeLoaders` in `BeginDiscovered` keeps an agent from
  being discovered while there are too few identities for its decoders. With two loaders both are needed
  for a camera that is listed twice, and an exception ends a handler after the first of two; a third would let two agents have
  three between them, whose state shares nothing, and takes TLC beyond minutes. With two loaders and one
  topic (`decoder_liveness`) an agent is found again while one older loader's calls are still in flight. In `loader_faults` four ids
  leave one to be handed out again after a restart while a loader still holds it.
- `VersionBound` caps `m_timer_version` (an unsigned of the machine) at 3: enough for
  an entry to be leased and released by both clients and once more before the first thread wakes up.
- `Timer`: at most three threads sleep at once; a fourth last release has to wait.
- `missed` and `idle` are history variables that saturate at `KeepaliveParam` and `Linger`.
- Time is in ticks: of a second in `AgentDiscovery` (the intervals are small numbers with the
  order of those in `constants.hpp`), of some seconds in `PluginLoader`. A heartbeat is received or
  lost, and a timer served, within the tick in which it is due, in every order within it.
- In `LocomotionController` speeds are small integers beyond, at and between the columns of the limits;
  `silence` and `age` saturate one tick after the values the properties tell apart; `MaxSkew` equals
  the timeout, the first age that is refused.
  Actions hold the callback group for `MaxHeld` = 1 tick between two accepted commands: long enough to outlast a watchdog
  that is due and the stamp of a command that waits; the proofs hold for every `MaxHeld`.
- `Depth` of `DiscoveryFeed` is 3 instead of 10: the queue is full and drops a LOST while it still
  holds a DISCOVERED of the same agent and an event of the other.
- In `ViconLocalizer` `Age` is how far back the model remembers odometry: the oldest that a lookup may ask
  for (the code keeps ten seconds). `BufferSize` is 2 instead of 200: frames pile up and are dropped.
  `Oldest` caps the age of frames at more than any frame that can still be published has.
- In `RosFqnBuilder` each enumeration has an enumerator for each rule and one without; names are none,
  plain, like an enumerator joined to a name, of two tokens, invalid, and beginning with a slash. Names of agents are all of up to two
  characters and five longer ones, with underscores at both ends or collapsing in the middle.
- One agent beside the discoverer's own, two loaders, two clients: the code treats each key of its
  tables alone, so that what goes wrong between two shows with two. The theorems hold for any number.

### Fairness

- `AgentDecoder`: handlers and passes of the listener continue (weak fairness; the thread
  waits a second at most and the mutex is released after each event, strong fairness for the
  beginning of a pass); the container answers; the executor runs callbacks between events
  (strong, since events may keep disabling them); a container asked to load over and over does not
  refuse for ever. No fairness is assumed of agents, subscribers, faults or destruction.
- `AgentDiscovery`: executors serve timers, messages and answers; time goes on however often
  agents crash and restart (strong fairness of `Tick`: weak fairness would let one agent restart
  infinitely often within one second); not all heartbeats of an agent are lost, nor are all its answers
  invalid (strong fairness of a valid `GetMetadataCallback`).
- `DiscoveryFeed`: the executors of both nodes serve what waits for them. Whether the request is answered and the
  subscription matched is left open.
- `PluginLoader`: every detached thread wakes up in the end, however late.
- `LocomotionController`: time goes on (strong fairness of `Tick`, which clients that trigger one action after the
  other disable again and again: an executor serves a timer that is due before requests), actions return, and a
  derived class that is told to stop again and again obeys once (strong fairness of `Stops`). The last two are assumptions
  on derived classes.
- `ViconLocalizer`: time goes on, the thread is scheduled and calls of the SDK return; of the frames that are taken as they
  come not all are in vain (occluded).

The loader has no timeout (see its ToDos at lines 78 and 133 of the source), so there
is no liveness once a request or response is lost; `decoder_liveness` has no faults. Nor is
there any for an agent whose metadata request dies: that is the first finding.

## 4. Findings

1. `discovery_pending`: `heartbeat_callback` enters an agent into
   `m_pending_get_metadata_requests` before it asks whether the service is ready and returns
   without a request if not. The entry is never removed; every later heartbeat logs "has an
   already pending metadata request" and the agent is never discovered. Likewise after a crash
   before the answer.
2. `discovery_keepalive256`: the parameter `keepalive` is stored in an `uint8_t`. Set to 256,
   the timer fires at once and a running agent is lost right after each discovery. The bound 255 is
   the hypothesis of theorem `SilenceBeforeLost`.

What else the models show of the code, where nothing in the repository says otherwise (each is a hazard of the list):

- A loader that holds the id of a node from before a restart of the container unloads whichever node has
  that id now, another loader's perhaps. `StateIsTrue` therefore holds only without faults; `NoForgottenNode`
  and `AtMostOneNode` survive, because an id that is unloaded by mistake is one node less, not one more.
- A snapshot handled after the LOST of one of its agents enters that agent for good, or until it is found and
  lost again; so do events dropped by the full queue or published before the subscription is matched.
  `AgreesUnlessMissed` says that nothing else can go wrong.
- A triggered action delays the watchdog by as long as it runs: the robot moves on meanwhile.
- A command whose `apply_cmd` throws restarts the watchdog all the same and leaves the old velocity in effect.
- If every lookup of the localizer takes as long as a frame, a backlog of frames never drains and all that is published
  combines a frame with odometry of a later time, by exactly as long as it waited (`ErrsByTheWait`). `KeepsLocalizing` supposes odometry that comes before the next frame.
- A camera that the YAML file names twice has two loaders for each of its topics, and somebody who listens gets two nodes of one name:
  neither `load_metadata` nor the decoder looks for repetitions. `OneDecoderPerEntry` says that no other way leads to a second decoder.
- A sanitized name of an agent may begin with a digit, with which no absolute name can be built.

## 5. Proofs

Proved with TLAPS for every value of the constants that satisfies the modules' assumptions:

- `LazyNodeLoaderProofs`: type correctness, `OneCallPerLoader`, `AtMostOneNode`,
  `NoForgottenNode`, `StateIsTrue`. None of the last four is inductive alone. `Core` adds, under
  all faults, that the call in flight determines `mState` (`StateFitsCall`), that a node of a loader
  with a call in flight is the one the call names (`NodeFitsCall`), that a living loader in
  Loaded names its only node and wants it (`NodeFitsState`), and that dead objects are blank;
  `OneCallPerLoader` and `AtMostOneNode` need each other through them. `Known` adds what holds only
  without some of the faults (`CallFitsNode` without any). Each action is one case of
  `CoreStep` and `KnownStep`. This covers loaders and faults beyond the runs: `NoForgottenNode` with
  other clients is proved, and model-checked only without. `BusyHasCall`: unless calls are lost, a loader that waits
  for an answer has a request in flight. `LoaderImplementsManagedNode`: without faults each step of any number of
  loaders and the container is a step or a stutter of `ManagedNode`; the phase of a loader is that of its call if it has one,
  and that of its node otherwise (`PhaseWithCall`, `PhaseWithoutCall`), and every action moves the phase of one loader only.
- `AgentDiscoveryProofs`: type correctness; `PendingIsUndiscovered` from `RequestIsKnown`
  (whoever is asked is in the pending map, an answer carries metadata); `Implementation`: each step
  of provider and discoverer is a step or a stutter of `DiscoveredAgents`;
  `SilenceBeforeLost`: for every `keepalive` up to 255 and all intervals, from
  `TimerCoversSilence`, which relates the ticks a keepalive timer has run to heartbeats sent and the
  phase of the heartbeat timer: (missed + 1) steady intervals cover what has elapsed, at any phase.
  `PhaseFitsCount`: quick heartbeats as long as some are left, and only then. Two theorems are about time that goes on:
  `StuckForEver`, that the agent of the first finding never comes back by itself, and `GoneFades`, the variant behind
  `CrashedAgentIsLost`: no step puts off the loss of a dead agent of which nothing is under way, and ticks bring it nearer.
- `PluginLoaderProofs`: type correctness (no underflow of the unsigned count),
  `CountIsExact`, `LeasedIsLoaded`, of which the invariant is the conjunction. The timer version is not needed
  for them: it is what makes a class loader linger. `UnusedLingers` needs `LingerInv`: as long as no thread has overslept, a
  sleeping thread that holds the current version will not wake up before the entry has been idle for the whole time
  (`idle + sleep >= Linger`), and of two threads of one key the one with the older version wakes up first (`InTurn`), so that none
  finds a version that counts again. `UnusedIsWatched`: an entry without leases always has a thread of its version asleep.
- `DiscoveryFeedProofs`: type correctness and `AgreesUnlessMissed`, for any number of agents and any depth of the queue. What the
  decoder will know once the queue is empty is a fold over it. `KnownInTheEnd` replaces that fold by
  what an invariant can say: metadata that no LOST of the queue takes away stay, and an agent of which the queue says nothing stays as
  it is. `FeedInv` relates these to the table (`LastTells`: the last event of an agent tells what the table
  holds) and to the snapshot under way (`AnswerIsTrue`, `Overtaken`).
- `AgentDecoderProofs`: type correctness, `OneDecoderPerEntry`, `OnlyLiveLoaders` and `KeepsLoaderContract`, for any number of
  agents, topics and loaders and all faults. The invariant `Own` says who excludes whom (`Exclusion`), that the
  loaders alive are those of the table and those in the making (`TableHoldsLoaders`), and that what the
  threads have still to do is about loaders of the table, told to unload before they are destroyed (`WorkIsInTable`).
  Since the decoder's steps are steps of `LazyNodeLoader`, the theorems of `LazyNodeLoaderProofs` are cited for its
  loaders (`P == INSTANCE LazyNodeLoaderProofs`): `DecoderKeepsLoadersSafe` restates them for the composition, `OneNodePerEntry`
  combines them with `OneDecoderPerEntry`. That one counts positions: the entry in the making, and each entry of the table,
  has at most one loader for each place of the list it was made from (`FitsListing`), and only one agent lists a topic. `NodesAreWanted` and `RestIsTidy` say what is left when all requests are answered:
  no node without a listener's wish, no wish that was dropped on the way. That is the safety half of `WatchedIsDecoded` and
  `UnwatchedIsNotDecoded`; the other half, that it comes to rest, is theirs.
- `LocomotionControllerProofs`: `AxesWithinLimits`, `SpeedWithinLimits` and `KeepsDirection` for all limits the constructor accepts
  and all commands, from one lemma per step of `apply_velocity_limits` over integers (`ScaleShrinks`,
  `ClampHolds`, `DeadBandAndMinimum`, `LimitAxisHolds`); `MovesOnlyCommanded`, `OldCommandEnds` and `NoNeedlessStop` for every
  timeout and skew, from an invariant that relates the ticks the watchdog has run to silence, to the age of the stamp and to the
  time actions ran. It needs that a watchdog is armed whenever the robot moves. `StopNears`, the variant behind
  `StopsInTheEnd`: nothing but accepted commands and failed stops puts the stop off, and ticks bring it nearer.
- `ViconLocalizerProofs`: `PublishedIsWhereSeen` and `ErrsByTheWait` for every latency, timeout and buffer and all transforms of the
  model's group. The invariant says that the client's buffer holds one frame of each of the last ticks (`FramesInTurn`), that the
  stamp of a frame is younger than the frame by as many ticks as it waited (`StampErrsByWait`), and that what was published in this
  tick was made with the odometry at the stamp (`PublishedIsMade`); an inverse undoes what it inverts. The first speaks of frames that did not wait, the second
  of all: the odometry used is that of `late` ticks after the frame was taken, fewer than the buffer has places. Type correctness,
  from compositions and inverses of transforms being transforms. `WindsDown`, the variant behind `PollingEnds`: a thread told to
  end comes nearer to its end with every step (`StepsToGo`), and gives up waiting after a bounded number of ticks.
- `RosFqnBuilderProofs`: `TypeOK`, `PartsStandAlone`, `PartsMakeTheWhole` and `NamesTellTheirSegments` for all enumerators
  and names. `BuildIsWhole` splits `Build` into what is accepted and what is joined; `Cut` and
  `JoinSome` are about joined sequences, `SameLastBefore` and `LeftOutFromTheRight` about the rules of the segments.
  `SanitizedNamesStay` and `AgentNamesStay`: a sanitized name has clean characters only, no two underscores in a row (`CollapseLeavesNoTwins`,
  by induction on the length of what has been copied) and none at its ends, and of such a name (`Clean`) sanitizing changes nothing (`CleanStays`).

The library's induction theorems take an operator as a parameter, which the provers cannot instantiate. Induction over the numbers is
therefore stated as a fact about a set of numbers (`SetInduction`, from the library's `WFMin`), and what recursive functions compute
is proved with it.

Every invariant and action property of the passing runs is a theorem. Only model-checked are the temporal ones, because fairness and ENABLED are beyond the
prover: `WatchedIsDecoded`, `UnwatchedIsNotDecoded`, `CrashedAgentIsLost`, `RunningAgentIsDiscovered`, `FeedCatchesUp`, `UnusedIsUnloaded`,
`StopsInTheEnd`, `KeepsLocalizing` and `PollingEnds`. What those rest on at the level of single steps is proved for most of them, as said above.

Assumptions worth knowing:

- `DecoderAssumption`: topics of different agents are disjoint, which the code does not ensure for names
  that are sanitized alike (a hazard of the list).
- `m_mutex` of the loader: that each of its methods and callbacks is one action, and so all that is said of loaders, rests on the lock each
  holds from its first access to its last. The lock is read off the code, not modelled.
- An exception of a callback is caught by whoever spins the executor: the decoder goes on after a name was refused. `DiscoveryFeed` supposes
  metadata whose names can be built, so that no exception ends `get_discovered_agents_callback` midway.
- The name of an agent that beats can be built: `heartbeat_callback` builds that of its service and would throw otherwise (`agent_discoverer.cpp:72`),
  but `AgentStatusProvider`'s constructor builds the same name (`agent_status_provider.cpp:44`) before it sends the first heartbeat.
- `IntervalsAssumption`: bootup heartbeats are not slower than later ones, as in `constants.hpp`.
- `BuilderAssumption`: names are sequences of words; each enumeration has the enumerators its rules name.
- Of the Vicon SDK: `GetLatencyTotal` does not count the time a frame waits in the client, and a full client drops its oldest frames. Of tf: a
  lookup between two samples is exact.

## 6. Done, left, and not to be modelled

Done: loaders, decoder, discovery, plugins, controller, localizer and names with every operation that changes state; the feed between
discoverer and decoder; the theorems above.

Left, in this order:

1. One composition of `DiscoveryFeed` and `AgentDecoder`, so that decoders are started from the feed; each
   is at present checked with the other left open.
2. For `KeepsLocalizing`, `RunningAgentIsDiscovered` and `FeedCatchesUp` what `GoneFades`, `StopNears`, `WindsDown`, `RestIsTidy` and
   `UnusedIsWatched` are for the other liveness properties: theorems that leave nothing to wait for but fairness.

Not modelled:

- `Republisher` and `Relay` pass messages from a subscription to a publisher and keep nothing between two of them; the use that the
  first makes of class loaders is that of a client of `PluginLoader`. The depthai `Camera` sets up a pipeline of its library and
  forwards its frames. Of none do the sources hold a protocol that could go wrong by order or failure.
- A restart of the discoverer in `DiscoveryFeed`: its table would start empty while the decoder's does not. Nothing in the code tells the
  decoder, which keeps such agents until they are found and lost again.
- The limit rmw sets to the length of a name: tokens are abstract.
- `try_publish_odometry`, `ros_utils` and `cpp_utils` are stateless conversions.
- Python bindings, message definitions, launch files, the Onshape exporter, xacro and CMake: no state, or no program.
