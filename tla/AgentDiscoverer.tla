--------------------------- MODULE AgentDiscoverer ---------------------------
(***************************************************************************)
(* sfg_agent::AgentDiscoverer: it asks every agent it hears a heartbeat of *)
(* for its metadata, calls the agent discovered when the answer comes, and *)
(* lost when its keepalive timer runs out before another heartbeat.  The   *)
(* callbacks share the node's mutually exclusive callback group: each is   *)
(* one action.                                                             *)
(***************************************************************************)
EXTENDS AgentStatusProvider

CONSTANTS
  AgentName,       \* m_agent_name: the agent this discoverer runs on
  ExcludeSelf,     \* m_exclude_self
  KeepaliveParam,  \* parameter "keepalive"
  NoMetadata       \* not a metadata: entry of an agent that is not discovered

ASSUME DiscovererAssumption ==
  /\ ExcludeSelf \in BOOLEAN
  /\ KeepaliveParam \in Nat
  /\ NoMetadata \notin Metadata

VARIABLES
  mPendingGetMetadataRequests,  \* keys of m_pending_get_metadata_requests
  request,                      \* what has become of the last request to an agent
  response,                     \* the metadata an answer carries
  mDiscoveredAgents,            \* metadata by agent, NoMetadata if not discovered
  keepaliveDue,                 \* m_keepalive_timer: ticks until it fires
  event                         \* the event published by the last step

discovererVars ==
  <<mPendingGetMetadataRequests, request, response, mDiscoveredAgents, keepaliveDue, event>>

\* m_keepalive is an uint8_t.
MKeepalive == KeepaliveParam % 256
KeepaliveTicks == MKeepalive * SteadyInterval

Discovered(a) == mDiscoveredAgents[a] # NoMetadata
NoEvent == [type |-> "none"]
Event(type, a, m) == [type |-> type, agent |-> a, metadata |-> m]

DiscovererTypeOK ==
  /\ mPendingGetMetadataRequests \in SUBSET Agent
  /\ request \in [Agent -> {"none", "asked", "answered"}]
  /\ response \in [Agent -> Metadata \cup {NoMetadata}]
  /\ mDiscoveredAgents \in [Agent -> Metadata \cup {NoMetadata}]
  /\ keepaliveDue \in [Agent -> 0 .. KeepaliveTicks]
  /\ event \in {NoEvent} \cup
       {Event(t, a, m) : t \in {"DISCOVERED", "LOST"}, a \in Agent, m \in Metadata}

DiscovererInit ==
  /\ mPendingGetMetadataRequests = {}
  /\ request = [a \in Agent |-> "none"]
  /\ response = [a \in Agent |-> NoMetadata]
  /\ mDiscoveredAgents = [a \in Agent |-> NoMetadata]
  /\ keepaliveDue = [a \in Agent |-> 0]
  /\ event = NoEvent

-----------------------------------------------------------------------------
\* heartbeat_callback.

Receive(a) ==
  /\ a \in heartbeat
  /\ heartbeat' = heartbeat \ {a}
  /\ event' = NoEvent
  /\ UNCHANGED <<running, metadata, mBootupHeartbeatCount, heartbeatPeriod, heartbeatDue>>

Excluded(a) == ExcludeSelf /\ a = AgentName

HeartbeatIgnored(a) ==
  /\ Receive(a)
  /\ Excluded(a) \/ (~Discovered(a) /\ a \in mPendingGetMetadataRequests)
  /\ UNCHANGED <<mPendingGetMetadataRequests, request, response, mDiscoveredAgents, keepaliveDue>>

\* Mutant: the timer is not reset.
HeartbeatWithoutReset(a) ==
  /\ Receive(a)
  /\ ~Excluded(a) /\ Discovered(a)
  /\ UNCHANGED <<mPendingGetMetadataRequests, request, response, mDiscoveredAgents, keepaliveDue>>

HeartbeatOfDiscovered(a) ==
  /\ Receive(a)
  /\ ~Excluded(a) /\ Discovered(a)
  /\ keepaliveDue' = [keepaliveDue EXCEPT ![a] = KeepaliveTicks]
  /\ UNCHANGED <<mPendingGetMetadataRequests, request, response, mDiscoveredAgents>>

\* Whether the service is ready is known from discovery traffic that may lag
\* behind; a request to a process that is down is lost.
ServiceReady == IF "unready" \in Faults THEN BOOLEAN ELSE {TRUE}

HeartbeatOfUnknown(a) ==
  /\ Receive(a)
  /\ ~Excluded(a) /\ ~Discovered(a) /\ a \notin mPendingGetMetadataRequests
  /\ mPendingGetMetadataRequests' = mPendingGetMetadataRequests \cup {a}
  /\ \E ready \in ServiceReady :
       request' = [request EXCEPT ![a] = IF ready /\ running[a] THEN "asked" ELSE "none"]
  /\ UNCHANGED <<response, mDiscoveredAgents, keepaliveDue>>

HeartbeatCallback(a) == HeartbeatIgnored(a) \/ HeartbeatOfDiscovered(a) \/ HeartbeatOfUnknown(a)

-----------------------------------------------------------------------------
\* keepalive_callback.  Erasing the entry destroys the timer, so the callback
\* always finds it.

\* Mutant: the entry goes without a word.
KeepaliveCallbackSilent(a) ==
  /\ Discovered(a)
  /\ keepaliveDue[a] = 0
  /\ event' = NoEvent
  /\ mDiscoveredAgents' = [mDiscoveredAgents EXCEPT ![a] = NoMetadata]
  /\ UNCHANGED <<mPendingGetMetadataRequests, request, response, keepaliveDue>>
  /\ UNCHANGED providerVars

\* Mutant: the entry stays.
KeepaliveCallbackKeeps(a) ==
  /\ Discovered(a)
  /\ keepaliveDue[a] = 0
  /\ event' = Event("LOST", a, mDiscoveredAgents[a])
  /\ keepaliveDue' = [keepaliveDue EXCEPT ![a] = KeepaliveTicks]
  /\ UNCHANGED <<mPendingGetMetadataRequests, request, response, mDiscoveredAgents>>
  /\ UNCHANGED providerVars

KeepaliveCallback(a) ==
  /\ Discovered(a)
  /\ keepaliveDue[a] = 0
  /\ event' = Event("LOST", a, mDiscoveredAgents[a])
  /\ mDiscoveredAgents' = [mDiscoveredAgents EXCEPT ![a] = NoMetadata]
  /\ UNCHANGED <<mPendingGetMetadataRequests, request, response, keepaliveDue>>
  /\ UNCHANGED providerVars

-----------------------------------------------------------------------------
\* get_metadata_callback.

\* Mutant: the client stays in the map.
MetadataReceivedKeepsPending(a) ==
  /\ request[a] = "answered"
  /\ request' = [request EXCEPT ![a] = "none"]
  /\ response' = [response EXCEPT ![a] = NoMetadata]
  /\ UNCHANGED mPendingGetMetadataRequests
  /\ UNCHANGED providerVars

MetadataReceived(a) ==
  /\ request[a] = "answered"
  /\ request' = [request EXCEPT ![a] = "none"]
  /\ response' = [response EXCEPT ![a] = NoMetadata]
  /\ mPendingGetMetadataRequests' = mPendingGetMetadataRequests \ {a}
  /\ UNCHANGED providerVars

\* Mutant: the answer is not kept.
GetMetadataCallbackForgets(a) ==
  /\ MetadataReceived(a)
  /\ event' = Event("DISCOVERED", a, response[a])
  /\ UNCHANGED <<mDiscoveredAgents, keepaliveDue>>

GetMetadataCallback(a) ==
  /\ MetadataReceived(a)
  /\ mDiscoveredAgents' = [mDiscoveredAgents EXCEPT ![a] = response[a]]
  /\ keepaliveDue' = [keepaliveDue EXCEPT ![a] = KeepaliveTicks]
  /\ event' = Event("DISCOVERED", a, response[a])

\* The future is invalid or holds an exception.
GetMetadataFailed(a) ==
  /\ "invalid" \in Faults
  /\ MetadataReceived(a)
  /\ event' = NoEvent
  /\ UNCHANGED <<mDiscoveredAgents, keepaliveDue>>

-----------------------------------------------------------------------------
\* The provider's get_metadata_callback.  A request to an agent that crashes
\* before it has answered gets no answer.

Answer(a) ==
  /\ request[a] = "asked" /\ running[a]
  /\ request' = [request EXCEPT ![a] = "answered"]
  /\ response' = [response EXCEPT ![a] = metadata[a]]
  /\ event' = NoEvent
  /\ UNCHANGED <<mPendingGetMetadataRequests, mDiscoveredAgents, keepaliveDue>>
  /\ UNCHANGED providerVars

RequestDies(a) ==
  /\ request' = [request EXCEPT ![a] = IF request[a] = "asked" THEN "none" ELSE request[a]]
  /\ event' = NoEvent
  /\ UNCHANGED <<mPendingGetMetadataRequests, response, mDiscoveredAgents, keepaliveDue>>

DiscovererIdle ==
  /\ event' = NoEvent
  /\ UNCHANGED <<mPendingGetMetadataRequests, request, response, mDiscoveredAgents, keepaliveDue>>

DiscovererMayTick == \A a \in Agent : Discovered(a) => keepaliveDue[a] > 0

DiscovererTick ==
  /\ keepaliveDue' = [a \in Agent |-> IF Discovered(a) THEN keepaliveDue[a] - 1 ELSE keepaliveDue[a]]
  /\ event' = NoEvent
  /\ UNCHANGED <<mPendingGetMetadataRequests, request, response, mDiscoveredAgents>>
=============================================================================
