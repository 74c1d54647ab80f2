--------------------------- MODULE AgentDiscovery ----------------------------
(***************************************************************************)
(* The AgentStatusProviders of all agents and the AgentDiscoverer of one,  *)
(* talking over heartbeats and metadata requests, in real time.            *)
(*                                                                         *)
(* Time is urgent: a timer is served and a heartbeat received or lost      *)
(* within the tick it is due in, in any order.  Requests and answers take  *)
(* as long as they like.                                                   *)
(***************************************************************************)
EXTENDS AgentDiscoverer

VARIABLES
  missed,      \* history: heartbeats sent since the keepalive timer was started,
               \* counted up to KeepaliveParam
  interrupted  \* history: the agent was down at some time since then

vars == <<providerVars, discovererVars, missed, interrupted>>

TypeOK ==
  /\ ProviderTypeOK
  /\ DiscovererTypeOK
  /\ missed \in [Agent -> 0 .. KeepaliveParam]
  /\ interrupted \in [Agent -> BOOLEAN]

Init ==
  /\ ProviderInit
  /\ DiscovererInit
  /\ missed = [a \in Agent |-> 0]
  /\ interrupted = [a \in Agent |-> TRUE]

\* Only silence of discovered agents is counted.
Sent(a) ==
  /\ missed' = IF Discovered(a) /\ missed[a] < KeepaliveParam
                THEN [missed EXCEPT ![a] = @ + 1] ELSE missed
  /\ UNCHANGED interrupted

TimerStarted(a) ==
  /\ missed' = [missed EXCEPT ![a] = 0]
  /\ interrupted' = [interrupted EXCEPT ![a] = ~running[a]]

NothingSent == UNCHANGED <<missed, interrupted>>

AgentStarts(a) == Start(a) /\ DiscovererIdle /\ Sent(a)
AgentBeats(a) == HeartbeatTimer(a) /\ DiscovererIdle /\ Sent(a)
AgentCrashes(a) ==
  /\ Crash(a) /\ RequestDies(a)
  /\ interrupted' = [interrupted EXCEPT ![a] = TRUE]
  /\ UNCHANGED missed
AgentAnswers(a) == Answer(a) /\ NothingSent
HeartbeatLost(a) == LoseHeartbeat(a) /\ DiscovererIdle /\ NothingSent

HeartbeatArrives(a) ==
  \/ HeartbeatOfDiscovered(a) /\ TimerStarted(a)
  \/ (HeartbeatIgnored(a) \/ HeartbeatOfUnknown(a)) /\ NothingSent

MetadataArrives(a) ==
  \/ GetMetadataCallback(a) /\ TimerStarted(a)
  \/ GetMetadataFailed(a) /\ NothingSent

KeepaliveExpires(a) == KeepaliveCallback(a) /\ NothingSent

Tick ==
  /\ ProvidersMayTick /\ DiscovererMayTick
  /\ ProvidersTick /\ DiscovererTick /\ NothingSent

Next ==
  \/ \E a \in Agent :
       \/ AgentStarts(a) \/ AgentBeats(a) \/ AgentCrashes(a) \/ AgentAnswers(a)
       \/ HeartbeatLost(a) \/ HeartbeatArrives(a) \/ MetadataArrives(a)
       \/ KeepaliveExpires(a)
  \/ Tick

Spec == Init /\ [][Next]_vars

-----------------------------------------------------------------------------
\* Fairness.  Time goes on, however often agents crash and start again; the
\* executors serve what is due; a running agent answers; of the heartbeats of an
\* agent not all are lost, and of the answers not all invalid.
Fairness ==
  /\ SF_vars(Tick)
  /\ \A a \in Agent :
       /\ WF_vars(AgentBeats(a)) /\ WF_vars(AgentAnswers(a))
       /\ SF_vars(HeartbeatArrives(a))
       /\ SF_vars(GetMetadataCallback(a) /\ TimerStarted(a))
       /\ WF_vars(MetadataArrives(a)) /\ WF_vars(KeepaliveExpires(a))

FairSpec == Spec /\ Fairness

-----------------------------------------------------------------------------
\* Properties.

\* An agent that runs all the time is lost only after it has missed as many
\* heartbeats as the parameter "keepalive" tells to wait for; the one that is
\* due at the very moment the timer fires may still be on its way.
LostOnlyWhenSilent ==
  [][\A a \in Agent, m \in Metadata :
       event' = Event("LOST", a, m) /\ running[a] /\ ~interrupted[a]
         => missed[a] + 1 >= KeepaliveParam]_vars

\* An agent is never both discovered and waited for: the answer to a metadata
\* request never replaces an entry, and the timer, of a discovered agent.
PendingIsUndiscovered ==
  \A a \in mPendingGetMetadataRequests : ~Discovered(a)

\* Kept from being asked again for the sake of a request that is gone.
Stuck(a) == a \in mPendingGetMetadataRequests /\ request[a] = "none"

\* "Agent has an already pending metadata request": whoever is kept from being
\* asked again by an entry of the map has a request on its way.
PendingIsRequested == \A a \in Agent : ~Stuck(a)

\* Subscribers hear of every change of the table, and of nothing else: from the
\* events alone they know who is discovered and with which metadata.
Table == INSTANCE DiscoveredAgents WITH table <- mDiscoveredAgents
ImplementsDiscoveredAgents == Table!Spec

\* An agent that stays down is lost for good, even if its last answer comes late.
CrashedAgentIsLost ==
  \A a \in Agent : <>[]~running[a] => <>[]~Discovered(a)

\* An agent that runs is found again and again, whatever heartbeats are lost and
\* however often it was down or answered in vain, unless it got stuck.
RunningAgentIsDiscovered ==
  \A a \in Agent : <>[](running[a] /\ ~Stuck(a)) /\ ~Excluded(a) => []<>Discovered(a)
=============================================================================
