---------------------------- MODULE AgentDecoder -----------------------------
(***************************************************************************)
(* sfg_agent::AgentDecoder: for every discovered agent lazy loaders, one   *)
(* for each topic its metadata lists, loaded as long as somebody           *)
(* subscribes to the topic.                                                *)
(*                                                                         *)
(* Two threads share m_agents under m_agents_mutex: the listener thread    *)
(* visits all loaders after every change of the graph, and the executor    *)
(* runs the handlers of discovery events.  The executor also runs the      *)
(* loaders' callbacks, one at a time with those handlers; the listener     *)
(* does not keep it from that.  Which events arrive is left open.          *)
(***************************************************************************)
EXTENDS Naturals, FiniteSets, Sequences, Functions

CONSTANTS
  Agent,     \* names of agents
  Metadata,  \* what the metadata of an agent may be
  Topic,     \* output topics
  NoTopic,   \* instead of the topic of a camera whose name cannot be built
  TopicsOf,  \* by agent and metadata: the output topics of its cameras, one by one
  MayStop,   \* the node may be destroyed
  Loader, Id, NoId, NoLoader, Token, Faults  \* see LazyNodeLoader

ASSUME DecoderAssumption ==
  /\ Agent # {} /\ Metadata # {} /\ Topic # {} /\ NoTopic \notin Topic
  /\ TopicsOf \in [Agent -> [Metadata -> Seq(Topic \cup {NoTopic})]]
  /\ \A a, b \in Agent : a # b =>
       \A m, n \in Metadata : Range(TopicsOf[a][m]) \cap Range(TopicsOf[b][n]) \subseteq {NoTopic}
  /\ MayStop \in BOOLEAN
  /\ NoId \notin Id /\ NoLoader \notin Loader
  /\ Faults \subseteq {"foreign", "loss", "restart"}

VARIABLES
  alive, mState, mDesiredState, mId, call, node, reusable,  \* see LazyNodeLoader
  outputTopic,  \* the topic a loader's node publishes
  mAgents,      \* m_agents: its keys ...
  mDecoders,    \* ... and m_decoders of each entry, empty without one
  subscribed,   \* topics with a subscriber
  listener,     \* what the listener thread does
  toVisit,      \* loaders its pass has not visited yet
  handler,      \* what the executor, or the destructor, does to m_agents
  toHandle,     \* loaders it has still to call or to destroy
  subjects,     \* agents it is about to remove
  newAgent,     \* agent it is about to enter ...
  newMetadata,  \* ... its metadata ...
  made,         \* ... and the loaders made so far, its m_decoders
  mDone         \* m_done

loaderVars == <<alive, mState, mDesiredState, mId, call, node, reusable>>
listenerVars == <<listener, toVisit>>
newVars == <<newAgent, newMetadata, made>>
handlerVars == <<handler, toHandle, subjects, newVars>>
tableVars == <<outputTopic, mAgents, mDecoders>>
vars == <<loaderVars, tableVars, subscribed, listenerVars, handlerVars, mDone>>

L == INSTANCE LazyNodeLoader

\* Identities free for new loaders; the bound of the model is that there are enough.
FreeLoaders ==
  {l \in Loader : /\ ~alive[l]
                  /\ \A c \in call : c.loader # l
                  /\ \A i \in Id : node[i] # l}

DecodersOf(agents) == UNION {Range(mDecoders[a]) : a \in agents}

\* What the loop over msg->metadata.cameras goes through.
NewTopics == TopicsOf[newAgent][newMetadata]

TypeOK ==
  /\ L!TypeOK
  /\ outputTopic \in [Loader -> Topic]
  /\ mAgents \in SUBSET Agent
  /\ mDecoders \in [Agent -> Seq(Loader)]
  /\ subscribed \in SUBSET Topic
  /\ listener \in {"waiting", "visiting"}
  /\ handler \in {"idle", "discovered", "unwinding", "unload", "erase", "destroyed"}
  /\ toVisit \in SUBSET Loader /\ toHandle \in SUBSET Loader
  /\ subjects \in SUBSET Agent
  /\ newAgent \in Agent /\ newMetadata \in Metadata /\ made \in Seq(Loader)
  /\ mDone \in BOOLEAN

Init ==
  /\ L!Init
  /\ outputTopic = [l \in Loader |-> CHOOSE t \in Topic : TRUE]
  /\ mAgents = {}
  /\ mDecoders = [a \in Agent |-> <<>>]
  /\ subscribed = {}
  /\ listener = "waiting" /\ handler = "idle"
  /\ toVisit = {} /\ toHandle = {} /\ subjects = {}
  /\ newAgent = CHOOSE a \in Agent : TRUE
  /\ newMetadata = CHOOSE m \in Metadata : TRUE
  /\ made = <<>>
  /\ mDone = FALSE

-----------------------------------------------------------------------------
\* Whoever is about to touch m_agents waits for m_agents_mutex.
MutexFree == listener = "waiting" /\ handler = "idle"

\* agent_discovery_event_callback, DISCOVERED.  The event of a known agent
\* changes nothing.

\* Mutant: known agents are not told apart.
BeginDiscoveredAnyway(a, m) ==
  /\ MutexFree /\ ~mDone
  /\ Len(TopicsOf[a][m]) <= Cardinality(FreeLoaders)
  /\ handler' = "discovered"
  /\ newAgent' = a /\ newMetadata' = m
  /\ UNCHANGED <<loaderVars, tableVars, subscribed, listenerVars, toHandle, subjects, made, mDone>>

BeginDiscovered(a, m) ==
  /\ MutexFree /\ ~mDone
  /\ a \notin mAgents
  /\ Len(TopicsOf[a][m]) <= Cardinality(FreeLoaders)
  /\ handler' = "discovered"
  /\ newAgent' = a /\ newMetadata' = m
  /\ UNCHANGED <<loaderVars, tableVars, subscribed, listenerVars, toHandle, subjects, made, mDone>>

\* A camera that is listed twice gets loaders twice.
CreateDecoder(l) ==
  LET next == Len(made) + 1
  IN  /\ handler = "discovered"
      /\ next \in DOMAIN NewTopics /\ NewTopics[next] # NoTopic
      /\ L!Create(l)
      /\ outputTopic' = [outputTopic EXCEPT ![l] = NewTopics[next]]
      /\ made' = Append(made, l)
      /\ UNCHANGED <<mAgents, mDecoders, subscribed, listenerVars, handler, toHandle, subjects,
                     newAgent, newMetadata, mDone>>

\* RosFqnBuilder::build throws: the entry in the making goes with its loaders while the
\* mutex is held, and the exception is the executor's.
NameRefused ==
  LET next == Len(made) + 1
  IN  /\ handler = "discovered"
      /\ next \in DOMAIN NewTopics /\ NewTopics[next] = NoTopic
      /\ handler' = "unwinding" /\ toHandle' = Range(made)
      /\ UNCHANGED <<loaderVars, tableVars, subscribed, listenerVars, subjects, newVars, mDone>>

EndUnwinding ==
  /\ handler = "unwinding"
  /\ toHandle = {}
  /\ handler' = "idle" /\ made' = <<>>
  /\ UNCHANGED <<loaderVars, tableVars, subscribed, listenerVars, toHandle, subjects, newAgent, newMetadata, mDone>>

Emplace ==
  /\ handler = "discovered"
  /\ Len(made) = Len(NewTopics)
  /\ mAgents' = mAgents \cup {newAgent}
  /\ mDecoders' = [mDecoders EXCEPT ![newAgent] = made]
  /\ handler' = "idle" /\ made' = <<>>
  /\ UNCHANGED <<loaderVars, outputTopic, subscribed, listenerVars, toHandle, subjects, newAgent, newMetadata, mDone>>

-----------------------------------------------------------------------------
\* agent_discovery_event_callback, LOST.

\* Mutant: the agent is erased without unloading its decoders.
BeginLostErases(a) ==
  /\ MutexFree /\ ~mDone
  /\ a \in mAgents
  /\ handler' = "erase"
  /\ subjects' = {a} /\ toHandle' = DecodersOf({a})
  /\ UNCHANGED <<loaderVars, tableVars, subscribed, listenerVars, newVars, mDone>>

\* Mutant: the handler does not wait for the listener.
BeginLostUnlocked(a) ==
  /\ handler = "idle" /\ ~mDone
  /\ a \in mAgents
  /\ handler' = "unload"
  /\ subjects' = {a} /\ toHandle' = DecodersOf({a})
  /\ UNCHANGED <<loaderVars, tableVars, subscribed, listenerVars, newVars, mDone>>

BeginLost(a) ==
  /\ MutexFree /\ ~mDone
  /\ a \in mAgents
  /\ handler' = "unload"
  /\ subjects' = {a} /\ toHandle' = DecodersOf({a})
  /\ UNCHANGED <<loaderVars, tableVars, subscribed, listenerVars, newVars, mDone>>

UnloadDecoder(l) ==
  /\ handler = "unload"
  /\ l \in toHandle
  /\ L!Unload(l)
  /\ toHandle' = toHandle \ {l}
  /\ UNCHANGED <<tableVars, subscribed, listenerVars, handler, subjects, newVars, mDone>>

BeginErase ==
  /\ handler = "unload"
  /\ toHandle = {}
  /\ handler' = "erase" /\ toHandle' = DecodersOf(subjects)
  /\ UNCHANGED <<loaderVars, tableVars, subscribed, listenerVars, subjects, newVars, mDone>>

\* m_agents, or the entry in the making, holds the only pointer to a loader.
DestroyDecoder(l) ==
  /\ handler \in {"erase", "unwinding"}
  /\ l \in toHandle
  /\ L!Destroy(l)
  /\ toHandle' = toHandle \ {l}
  /\ UNCHANGED <<tableVars, subscribed, listenerVars, handler, subjects, newVars, mDone>>

EndErase ==
  /\ handler = "erase"
  /\ toHandle = {}
  /\ mAgents' = mAgents \ subjects
  /\ mDecoders' = [a \in Agent |-> IF a \in subjects THEN <<>> ELSE mDecoders[a]]
  /\ handler' = IF mDone THEN "destroyed" ELSE "idle"
  /\ subjects' = {}
  /\ UNCHANGED <<loaderVars, outputTopic, subscribed, listenerVars, toHandle, newVars, mDone>>

-----------------------------------------------------------------------------
\* listen_to_graph_events.  The listener may have looked at m_done before it
\* was set.

BeginPass ==
  /\ MutexFree
  /\ listener' = "visiting" /\ toVisit' = DecodersOf(Agent)
  /\ UNCHANGED <<loaderVars, tableVars, subscribed, handlerVars, mDone>>

\* Mutant: decoders nobody subscribes to are left alone.
VisitLoadsOnly(l) ==
  /\ listener = "visiting"
  /\ l \in toVisit
  /\ IF outputTopic[l] \in subscribed THEN L!Load(l) ELSE UNCHANGED loaderVars
  /\ toVisit' = toVisit \ {l}
  /\ UNCHANGED <<tableVars, subscribed, listener, handlerVars, mDone>>

Visit(l) ==
  /\ listener = "visiting"
  /\ l \in toVisit
  /\ IF outputTopic[l] \in subscribed THEN L!Load(l) ELSE L!Unload(l)
  /\ toVisit' = toVisit \ {l}
  /\ UNCHANGED <<tableVars, subscribed, listener, handlerVars, mDone>>

EndPass ==
  /\ listener = "visiting"
  /\ toVisit = {}
  /\ listener' = "waiting"
  /\ UNCHANGED <<loaderVars, tableVars, subscribed, toVisit, handlerVars, mDone>>

-----------------------------------------------------------------------------
\* The destructor: the executor has let go of the node; the listener is joined
\* before the decoders are unloaded.

Stop ==
  /\ MayStop /\ ~mDone
  /\ handler = "idle"
  /\ mDone' = TRUE
  /\ UNCHANGED <<loaderVars, tableVars, subscribed, listenerVars, handlerVars>>

BeginDestroy ==
  /\ mDone
  /\ listener = "waiting" /\ handler = "idle"
  /\ handler' = "unload"
  /\ subjects' = Agent /\ toHandle' = DecodersOf(Agent)
  /\ UNCHANGED <<loaderVars, tableVars, subscribed, listenerVars, newVars, mDone>>

-----------------------------------------------------------------------------
\* The rest of the executor's work, the container and the subscribers.

\* The node's callbacks share one mutually exclusive group.
LoaderCallback(c) ==
  /\ handler = "idle" /\ ~mDone
  /\ L!Callback(c)
  /\ UNCHANGED <<tableVars, subscribed, listenerVars, handlerVars, mDone>>

ContainerStep ==
  /\ \/ \E c \in call : L!Container(c) \/ L!Lose(c)
     \/ \E i \in Id : L!ForeignUnload(i)
     \/ L!ContainerRestarts
  /\ UNCHANGED <<tableVars, subscribed, listenerVars, handlerVars, mDone>>

GraphChange(t) ==
  /\ subscribed' \in {subscribed \cup {t}, subscribed \ {t}}
  /\ UNCHANGED <<loaderVars, tableVars, listenerVars, handlerVars, mDone>>

EventHandlerStep ==
  \/ \E l \in Loader : CreateDecoder(l) \/ UnloadDecoder(l) \/ DestroyDecoder(l)
  \/ NameRefused \/ EndUnwinding \/ Emplace
  \/ BeginErase \/ EndErase

ListenerStep == BeginPass \/ EndPass \/ \E l \in Loader : Visit(l)

Next ==
  \/ \E a \in Agent : BeginLost(a) \/ \E m \in Metadata : BeginDiscovered(a, m)
  \/ EventHandlerStep
  \/ ListenerStep
  \/ Stop \/ BeginDestroy
  \/ \E c \in call : LoaderCallback(c)
  \/ ContainerStep
  \/ \E t \in Topic : GraphChange(t)

Spec == Init /\ [][Next]_vars
-----------------------------------------------------------------------------
\* Fairness.  Handlers and passes of the listener go on; the listener looks at
\* the graph at least once a second, and gets the mutex between events; the
\* executor runs callbacks and the container answers.  A container asked to
\* load again and again does not refuse for ever.
CallOf(l) == {c \in call : c.loader = l}

Fairness ==
  /\ WF_vars(EventHandlerStep) /\ WF_vars(EndPass) /\ SF_vars(BeginPass)
  /\ \A l \in Loader :
       /\ WF_vars(Visit(l))
       /\ SF_vars(\E c \in CallOf(l) : LoaderCallback(c))
       /\ WF_vars(ContainerStep /\ \E c \in CallOf(l) : L!Container(c))
       /\ SF_vars(ContainerStep /\ \E c \in CallOf(l) : L!ContainerLoads(c))

FairSpec == Spec /\ Fairness

-----------------------------------------------------------------------------
\* Properties.

\* The decoder keeps the loaders' contract: whatever listener, handlers and
\* destructor do to the loaders is what LazyNodeLoader allows their owner, and a
\* loader is destroyed only after its last call was unload().
KeepsLoaderContract == L!Spec

DecodersFor(t) == {l \in Loader : alive[l] /\ outputTopic[l] = t}
Listed(t, a, m) == {i \in DOMAIN TopicsOf[a][m] : TopicsOf[a][m][i] = t}

\* However often agents are discovered and lost, and wherever an exception ends a handler, a
\* topic has no more living decoders than one agent's metadata lists it: one, unless the agent
\* names a camera twice.
OneDecoderPerEntry ==
  \A t \in Topic : \E a \in Agent, m \in Metadata :
    Cardinality(DecodersFor(t)) <= Cardinality(Listed(t, a, m))

\* Neither the listener nor a handler ever calls a loader that has been destroyed:
\* what it collected from m_agents stays there until it is done.
OnlyLiveLoaders == \A l \in toVisit \cup toHandle : alive[l]

Decoded(t) == \E i \in Id : node[i] # NoLoader /\ outputTopic[node[i]] = t
Offered(t) == \E l \in DecodersOf(Agent) : outputTopic[l] = t

\* A topic of a known agent that keeps its subscribers gets its node and keeps it.
WatchedIsDecoded ==
  \A t \in Topic : <>[](t \in subscribed /\ Offered(t)) => <>[]Decoded(t)

\* A topic without subscribers, or of an agent that was lost, is rid of its node
\* for good, also if the loader died while it was loading.
UnwatchedIsNotDecoded ==
  \A t \in Topic : <>[](t \notin subscribed \/ ~Offered(t)) => <>[]~Decoded(t)
=============================================================================
