------------------------ MODULE AgentDiscoveryProofs -------------------------
(***************************************************************************)
(* Proofs about AgentDiscovery for any set of agents, any intervals and    *)
(* any faults.  Two arguments: what a request on its way knows of the      *)
(* discoverer's tables gives the refinement of DiscoveredAgents, and the   *)
(* race between the provider's and the keepalive timer gives the bound on  *)
(* the silence of a lost agent.  At the end, what becomes of agents that   *)
(* are waited for in vain, and of dead ones.                               *)
(***************************************************************************)
EXTENDS AgentDiscovery, TLAPS

\* The discoverer remembers whom it has asked, and an answer carries metadata.
RequestIsKnown ==
  \A a \in Agent :
    /\ request[a] # "none" => a \in mPendingGetMetadataRequests
    /\ request[a] = "answered" => response[a] \in Metadata

\* The keepalive timer of an agent that runs all the time outlives the
\* heartbeats that may still be missed, and the wait for the next one.
TimerCoversSilence ==
  \A a \in Agent :
    /\ ~running[a] => interrupted[a]
    /\ Discovered(a) /\ ~interrupted[a] =>
         keepaliveDue[a] + missed[a] * SteadyInterval
           >= (KeepaliveParam - 1) * SteadyInterval + heartbeatDue[a]

LEMMA KeepaliveTicksType == KeepaliveTicks \in Nat
<1>1. MKeepalive \in Nat
  BY DiscovererAssumption DEF MKeepalive
<1>2. \A j, k \in Nat : j * k \in Nat
  OBVIOUS
<1> QED BY <1>1, <1>2, IntervalsAssumption DEF KeepaliveTicks

-----------------------------------------------------------------------------
\* Type correctness.

LEMMA PublishHeartbeatType ==
  ASSUME ProviderTypeOK, NEW a \in Agent, NEW count \in 0 .. BootupCount,
         NEW period \in {BootupInterval, SteadyInterval},
         PublishHeartbeat(a, count, period)
  PROVE  /\ mBootupHeartbeatCount' \in [Agent -> 0 .. BootupCount]
         /\ heartbeatPeriod' \in [Agent -> {BootupInterval, SteadyInterval}]
         /\ heartbeatDue' \in [Agent -> 0 .. SteadyInterval]
         /\ heartbeatDue'[a] <= SteadyInterval
         /\ heartbeat' \in SUBSET Agent
<1> USE IntervalsAssumption DEF ProviderTypeOK, PublishHeartbeat
<1>1. mBootupHeartbeatCount' \in [Agent -> 0 .. BootupCount]
  OBVIOUS
<1>2. heartbeatPeriod' \in [Agent -> {BootupInterval, SteadyInterval}]
  OBVIOUS
<1>3. heartbeatPeriod'[a] \in 0 .. SteadyInterval
  BY <1>2
<1>4. heartbeatDue' \in [Agent -> 0 .. SteadyInterval]
  BY <1>3
<1> QED BY <1>1, <1>2, <1>4

\* Every state of the composition is well typed; in particular the bootup count
\* never passes below zero and no timer runs longer than its period.
LEMMA TypeStep == TypeOK /\ RequestIsKnown /\ [Next]_vars => TypeOK'
<1> SUFFICES ASSUME TypeOK, RequestIsKnown, [Next]_vars PROVE TypeOK'
  OBVIOUS
<1> USE DEF TypeOK, providerVars, discovererVars
<1>k. KeepaliveTicks \in Nat /\ SteadyInterval \in Nat /\ KeepaliveParam \in Nat
  BY KeepaliveTicksType, IntervalsAssumption, DiscovererAssumption
<1>n. NoEvent \in {NoEvent} \cup {Event(t, a, m) : t \in {"DISCOVERED", "LOST"}, a \in Agent, m \in Metadata}
  OBVIOUS
<1>s. ASSUME NEW a \in Agent, Sent(a)
      PROVE  missed' \in [Agent -> 0 .. KeepaliveParam] /\ interrupted' \in [Agent -> BOOLEAN]
  BY <1>k, <1>s DEF Sent
<1>t. ASSUME NEW a \in Agent, TimerStarted(a)
      PROVE  missed' \in [Agent -> 0 .. KeepaliveParam] /\ interrupted' \in [Agent -> BOOLEAN]
  BY <1>k, <1>t DEF TimerStarted, ProviderTypeOK
<1>1. ASSUME NEW a \in Agent, AgentStarts(a) PROVE TypeOK'
  <2>1. PublishHeartbeat(a, BootupCount, BootupInterval) /\ BootupCount \in 0 .. BootupCount
    BY <1>1, IntervalsAssumption DEF AgentStarts, Start
  <2>2. ProviderTypeOK'
    BY <1>1, <2>1, PublishHeartbeatType DEF AgentStarts, Start, ProviderTypeOK
  <2>3. DiscovererTypeOK'
    BY <1>1, <1>n DEF AgentStarts, DiscovererIdle, DiscovererTypeOK
  <2> QED BY <1>1, <1>s, <2>2, <2>3 DEF AgentStarts
<1>2. ASSUME NEW a \in Agent, AgentBeats(a) PROVE TypeOK'
  <2>1. PublishHeartbeat(a, mBootupHeartbeatCount[a], heartbeatPeriod[a])
    BY <1>2 DEF AgentBeats, HeartbeatTimer
  <2>2. mBootupHeartbeatCount[a] \in 0 .. BootupCount /\ heartbeatPeriod[a] \in {BootupInterval, SteadyInterval}
    BY DEF ProviderTypeOK
  <2>3. ProviderTypeOK'
    BY <1>2, <2>1, <2>2, PublishHeartbeatType DEF AgentBeats, HeartbeatTimer, ProviderTypeOK
  <2>4. DiscovererTypeOK'
    BY <1>2, <1>n DEF AgentBeats, DiscovererIdle, DiscovererTypeOK
  <2> QED BY <1>2, <1>s, <2>3, <2>4 DEF AgentBeats
<1>3. ASSUME NEW a \in Agent, AgentCrashes(a) PROVE TypeOK'
  BY <1>3, <1>n DEF AgentCrashes, Crash, RequestDies, ProviderTypeOK, DiscovererTypeOK
<1>4. ASSUME NEW a \in Agent, AgentAnswers(a) PROVE TypeOK'
  BY <1>4, <1>n DEF AgentAnswers, Answer, NothingSent, ProviderTypeOK, DiscovererTypeOK
<1>5. ASSUME NEW a \in Agent, HeartbeatLost(a) PROVE TypeOK'
  BY <1>5, <1>n DEF HeartbeatLost, LoseHeartbeat, DiscovererIdle, NothingSent, ProviderTypeOK, DiscovererTypeOK
<1>6. ASSUME NEW a \in Agent, HeartbeatArrives(a) PROVE TypeOK'
  <2>1. CASE HeartbeatOfDiscovered(a) /\ TimerStarted(a)
    BY <2>1, <1>n, <1>t, <1>k DEF HeartbeatOfDiscovered, Receive, ProviderTypeOK, DiscovererTypeOK
  <2>2. CASE HeartbeatIgnored(a) /\ NothingSent
    BY <2>2, <1>n DEF HeartbeatIgnored, Receive, NothingSent, ProviderTypeOK, DiscovererTypeOK
  <2>3. CASE HeartbeatOfUnknown(a) /\ NothingSent
    BY <2>3, <1>n DEF HeartbeatOfUnknown, Receive, NothingSent, ProviderTypeOK, DiscovererTypeOK
  <2> QED BY <1>6, <2>1, <2>2, <2>3 DEF HeartbeatArrives
<1>7. ASSUME NEW a \in Agent, MetadataArrives(a) PROVE TypeOK'
  <2>1. CASE GetMetadataCallback(a) /\ TimerStarted(a)
    <3>1. response[a] \in Metadata
      BY <2>1 DEF RequestIsKnown, GetMetadataCallback, MetadataReceived
    <3>2. event' \in {Event(t, b, m) : t \in {"DISCOVERED", "LOST"}, b \in Agent, m \in Metadata}
      BY <2>1, <3>1 DEF GetMetadataCallback
    <3> QED BY <2>1, <3>1, <3>2, <1>t, <1>k DEF GetMetadataCallback, MetadataReceived, ProviderTypeOK, DiscovererTypeOK
  <2>2. CASE GetMetadataFailed(a) /\ NothingSent
    BY <2>2, <1>n DEF GetMetadataFailed, MetadataReceived, NothingSent, ProviderTypeOK, DiscovererTypeOK
  <2> QED BY <1>7, <2>1, <2>2 DEF MetadataArrives
<1>8. ASSUME NEW a \in Agent, KeepaliveExpires(a) PROVE TypeOK'
  BY <1>8 DEF KeepaliveExpires, KeepaliveCallback, Discovered, NothingSent, ProviderTypeOK, DiscovererTypeOK
<1>9. ASSUME Tick PROVE TypeOK'
  BY <1>9, <1>n, <1>k DEF Tick, ProvidersMayTick, DiscovererMayTick, ProvidersTick, DiscovererTick,
     NothingSent, ProviderTypeOK, DiscovererTypeOK
<1>10. CASE UNCHANGED vars
  BY <1>10 DEF vars, ProviderTypeOK, DiscovererTypeOK
<1> QED BY <1>1, <1>2, <1>3, <1>4, <1>5, <1>6, <1>7, <1>8, <1>9, <1>10 DEF Next

-----------------------------------------------------------------------------
\* What requests know is inductive.
LEMMA KnownStep ==
  TypeOK /\ RequestIsKnown /\ PendingIsUndiscovered /\ [Next]_vars
    => RequestIsKnown' /\ PendingIsUndiscovered'
<1> SUFFICES ASSUME TypeOK, RequestIsKnown, PendingIsUndiscovered, [Next]_vars
             PROVE  RequestIsKnown' /\ PendingIsUndiscovered'
  OBVIOUS
<1> USE DEF RequestIsKnown, PendingIsUndiscovered, Discovered, TypeOK, DiscovererTypeOK,
            ProviderTypeOK, providerVars, discovererVars
<1>1. ASSUME DiscovererIdle \/ DiscovererTick \/ UNCHANGED vars
      PROVE  RequestIsKnown' /\ PendingIsUndiscovered'
  BY <1>1 DEF DiscovererIdle, DiscovererTick, vars
<1>2. ASSUME NEW a \in Agent, AgentCrashes(a)
      PROVE  RequestIsKnown' /\ PendingIsUndiscovered'
  BY <1>2 DEF AgentCrashes, RequestDies
<1>3. ASSUME NEW a \in Agent, AgentAnswers(a)
      PROVE  RequestIsKnown' /\ PendingIsUndiscovered'
  BY <1>3 DEF AgentAnswers, Answer
<1>4. ASSUME NEW a \in Agent, HeartbeatArrives(a)
      PROVE  RequestIsKnown' /\ PendingIsUndiscovered'
  <2>1. CASE HeartbeatOfDiscovered(a) \/ HeartbeatIgnored(a)
    BY <2>1 DEF HeartbeatOfDiscovered, HeartbeatIgnored
  <2>2. CASE HeartbeatOfUnknown(a)
    BY <2>2 DEF HeartbeatOfUnknown
  <2> QED BY <1>4, <2>1, <2>2 DEF HeartbeatArrives
<1>5. ASSUME NEW a \in Agent, MetadataArrives(a)
      PROVE  RequestIsKnown' /\ PendingIsUndiscovered'
  <2>1. CASE GetMetadataCallback(a)
    BY <2>1 DEF GetMetadataCallback, MetadataReceived
  <2>2. CASE GetMetadataFailed(a)
    BY <2>2 DEF GetMetadataFailed, MetadataReceived
  <2> QED BY <1>5, <2>1, <2>2 DEF MetadataArrives
<1>6. ASSUME NEW a \in Agent, KeepaliveExpires(a)
      PROVE  RequestIsKnown' /\ PendingIsUndiscovered'
  BY <1>6 DEF KeepaliveExpires, KeepaliveCallback
<1> QED BY <1>1, <1>2, <1>3, <1>4, <1>5, <1>6
        DEF Next, AgentStarts, AgentBeats, HeartbeatLost, Tick

IInv == TypeOK /\ RequestIsKnown /\ PendingIsUndiscovered

LEMMA Invariance == Spec => []IInv
<1>1. Init => IInv
  <2>1. KeepaliveTicks \in Nat
    BY KeepaliveTicksType
  <2> QED BY <2>1, IntervalsAssumption, DiscovererAssumption
      DEF Init, ProviderInit, DiscovererInit, IInv, TypeOK, ProviderTypeOK, DiscovererTypeOK,
          RequestIsKnown, PendingIsUndiscovered
<1> QED BY <1>1, TypeStep, KnownStep, PTL DEF Spec, IInv

\* Every variable keeps its type, whatever crashes, gets lost or comes late.
THEOREM TypeCorrect == Spec => []TypeOK
BY Invariance, PTL DEF IInv

\* No answer to a metadata request meets an agent that is discovered already.
THEOREM PendingIsUndiscoveredAlways == Spec => []PendingIsUndiscovered
BY Invariance, PTL DEF IInv

-----------------------------------------------------------------------------
\* The discoverer implements the table of discovered agents: every event it
\* publishes announces a change of the table, and no change goes unannounced.
THEOREM Implementation == Spec => ImplementsDiscoveredAgents
<1>1. Init => Table!Init
  BY DEF Init, DiscovererInit, Table!Init, Table!NoEvent, NoEvent
<1>2. IInv /\ [Next]_vars => [Table!Next]_(Table!tableVars)
  <2> SUFFICES ASSUME IInv, [Next]_vars PROVE [Table!Next]_(Table!tableVars)
    OBVIOUS
  <2> USE DEF Table!Next, Table!Quiet, Table!NoEvent, Table!Event, Table!tableVars, NoEvent, Event
  <2>1. ASSUME NEW a \in Agent, AgentStarts(a) \/ AgentBeats(a) \/ HeartbeatLost(a)
        PROVE  Table!Next
    BY <2>1 DEF AgentStarts, AgentBeats, HeartbeatLost, DiscovererIdle
  <2>2. ASSUME NEW a \in Agent, AgentCrashes(a) \/ AgentAnswers(a)
        PROVE  Table!Next
    BY <2>2 DEF AgentCrashes, RequestDies, AgentAnswers, Answer
  <2>3. ASSUME NEW a \in Agent, HeartbeatArrives(a)
        PROVE  Table!Next
    BY <2>3 DEF HeartbeatArrives, HeartbeatOfDiscovered, HeartbeatIgnored, HeartbeatOfUnknown, Receive
  <2>4. ASSUME NEW a \in Agent, GetMetadataCallback(a)
        PROVE  Table!Next
    <3>1. response[a] \in Metadata /\ mDiscoveredAgents[a] = NoMetadata
      BY <2>4 DEF IInv, RequestIsKnown, PendingIsUndiscovered, Discovered, GetMetadataCallback, MetadataReceived
    <3>2. Table!Discover(a)
      BY <2>4, <3>1 DEF GetMetadataCallback, Table!Discover
    <3> QED BY <3>2
  <2>5. ASSUME NEW a \in Agent, GetMetadataFailed(a)
        PROVE  Table!Next
    BY <2>5 DEF GetMetadataFailed
  <2>6. ASSUME NEW a \in Agent, KeepaliveExpires(a)
        PROVE  Table!Next
    <3>1. Table!Lose(a)
      BY <2>6 DEF KeepaliveExpires, KeepaliveCallback, Discovered, Table!Lose
    <3> QED BY <3>1
  <2>7. CASE Tick
    BY <2>7 DEF Tick, DiscovererTick
  <2>8. CASE UNCHANGED vars
    BY <2>8 DEF vars, discovererVars
  <2> QED BY <2>1, <2>2, <2>3, <2>4, <2>5, <2>6, <2>7, <2>8 DEF Next, MetadataArrives
<1> QED BY <1>1, <1>2, Invariance, PTL DEF Spec, ImplementsDiscoveredAgents, Table!Spec

-----------------------------------------------------------------------------
\* Silence of a lost agent.

LEMMA OneMoreInterval ==
  ASSUME NEW m \in Int, NEW s \in Int PROVE (m + 1) * s = m * s + s
OBVIOUS

LEMMA FewerIntervals ==
  ASSUME NEW k \in Nat, NEW m \in Nat, NEW s \in Nat \ {0}, m * s >= (k - 1) * s
  PROVE  m + 1 >= k
<1>1. SUFFICES ASSUME m + 2 <= k PROVE FALSE
  OBVIOUS
<1> DEFINE d == k - 1 - m
<1>2. d \in Nat /\ d >= 1 /\ k - 1 = d + m
  BY <1>1
<1>3. (d + m) * s = d * s + m * s
  BY <1>2
<1>4. d * s >= s
  <2>1. d * s = (d - 1) * s + s
    BY <1>2
  <2>2. (d - 1) * s \in Nat
    BY <1>2
  <2> QED BY <1>2, <2>1, <2>2
<1>5. m * s \in Nat /\ d * s \in Nat
  BY <1>2
<1> QED BY <1>2, <1>3, <1>4, <1>5

\* Unless the parameter is cut down to eight bits, the timer stays ahead.
LEMMA SilenceStep ==
  ASSUME KeepaliveParam <= 255, TypeOK, TypeOK', TimerCoversSilence, [Next]_vars
  PROVE  TimerCoversSilence'
<1> DEFINE K == KeepaliveParam
           S == SteadyInterval
           Covers(a) == keepaliveDue[a] + missed[a] * S >= (K - 1) * S + heartbeatDue[a]
<1>k. K \in Nat /\ S \in Nat \ {0} /\ KeepaliveTicks = K * S
  BY DiscovererAssumption, IntervalsAssumption DEF KeepaliveTicks, MKeepalive
<1>p. /\ (K - 1) * S \in Int /\ K * S = (K - 1) * S + S
      /\ \A m \in Nat : m * S \in Nat /\ (m + 1) * S = m * S + S
  BY <1>k
<1>t. \A a \in Agent : /\ keepaliveDue[a] \in Nat /\ keepaliveDue'[a] \in Nat
                       /\ heartbeatDue[a] \in 0 .. S /\ heartbeatDue'[a] \in 0 .. S
                       /\ missed[a] \in 0 .. K /\ missed'[a] \in 0 .. K
  BY KeepaliveTicksType DEF TypeOK, ProviderTypeOK, DiscovererTypeOK
<1>s. SUFFICES ASSUME NEW b \in Agent
               PROVE  /\ ~running'[b] => interrupted'[b]
                      /\ Discovered(b)' /\ ~interrupted'[b] => Covers(b)'
  BY DEF TimerCoversSilence
<1> DEFINE Goal == /\ ~running'[b] => interrupted'[b]
                   /\ Discovered(b)' /\ ~interrupted'[b] => Covers(b)'
<1>a. /\ ~running[b] => interrupted[b]
      /\ Discovered(b) /\ ~interrupted[b] => Covers(b)
  BY DEF TimerCoversSilence
\* A timer that has just been started, or a silence as long as K intervals, suffices.
<1>z. ASSUME keepaliveDue'[b] = K * S \/ missed'[b] = K PROVE Covers(b)'
  <2> DEFINE x == missed'[b] * S
             y == (K - 1) * S
             z == K * S
  <2>1. x \in Nat /\ y \in Int /\ z = y + S /\ (missed'[b] = K => x = z)
    BY <1>p, <1>t
  <2> HIDE DEF x, y, z
  <2>2. keepaliveDue'[b] + x >= y + heartbeatDue'[b]
    BY <1>k, <1>t, <1>z, <2>1 DEF z
  <2> QED BY <2>2 DEF x, y
<1> DEFINE SameTimers ==
      /\ keepaliveDue'[b] = keepaliveDue[b] /\ heartbeatDue'[b] = heartbeatDue[b]
      /\ missed'[b] = missed[b] /\ interrupted'[b] = interrupted[b]
      /\ running'[b] = running[b] /\ Discovered(b)' = Discovered(b)
<1>u. ASSUME SameTimers PROVE Goal
  BY <1>a, <1>u
<1> HIDE DEF Covers
<1>v. ASSUME ~Discovered(b)', running'[b] = running[b], interrupted'[b] = interrupted[b]
      PROVE  Goal
  BY <1>a, <1>v
<1> USE DEF TypeOK, ProviderTypeOK, DiscovererTypeOK, providerVars, discovererVars, NothingSent
<1>1. ASSUME NEW a \in Agent, AgentStarts(a) PROVE Goal
  <2>1. CASE a = b
    <3>1. running'[b] /\ interrupted'[b]
      BY <1>1, <1>a, <2>1 DEF AgentStarts, Start, Sent
    <3> QED BY <3>1
  <2>2. CASE a # b
    <3>1. keepaliveDue' = keepaliveDue /\ interrupted' = interrupted
          /\ mDiscoveredAgents' = mDiscoveredAgents
      BY <1>1 DEF AgentStarts, Sent, DiscovererIdle
    <3>2. heartbeatDue'[b] = heartbeatDue[b] /\ running'[b] = running[b]
      <4>1. heartbeatDue' = [heartbeatDue EXCEPT ![a] = heartbeatPeriod'[a]]
        BY <1>1 DEF AgentStarts, Start, PublishHeartbeat
      <4>2. running' = [running EXCEPT ![a] = TRUE]
        BY <1>1 DEF AgentStarts, Start
      <4>3. heartbeatDue \in [Agent -> 0 .. S] /\ running \in [Agent -> BOOLEAN]
        OBVIOUS
      <4> HIDE DEF TypeOK
      <4> QED BY <2>2, <4>1, <4>2, <4>3, Zenon
    <3>3. missed'[b] = missed[b]
      BY <1>1, <2>2 DEF AgentStarts, Sent
    <3> QED BY <1>u, <3>1, <3>2, <3>3 DEF Discovered
  <2> QED BY <2>1, <2>2
<1>2. ASSUME NEW a \in Agent, AgentBeats(a) PROVE Goal
  <2>1. CASE a = b /\ Discovered(b) /\ missed[b] < K
    <3>1. /\ heartbeatDue[b] = 0 /\ keepaliveDue'[b] = keepaliveDue[b]
          /\ missed'[b] = missed[b] + 1
          /\ interrupted' = interrupted /\ running' = running
          /\ Discovered(b)'
      BY <1>2, <2>1 DEF AgentBeats, HeartbeatTimer, Sent, DiscovererIdle, Discovered
    <3> DEFINE x == missed[b] * S
               w == missed'[b] * S
               y == (K - 1) * S
    <3>2. x \in Nat /\ w = x + S /\ y \in Int
      BY <1>p, <1>t, <3>1
    <3>3. ~interrupted[b] => keepaliveDue[b] + x >= y + heartbeatDue[b]
      BY <1>a, <2>1 DEF Covers
    <3> HIDE DEF x, w, y
    <3>4. ~interrupted[b] => keepaliveDue'[b] + w >= y + heartbeatDue'[b]
      BY <1>k, <1>t, <3>1, <3>2, <3>3
    <3> QED BY <1>a, <3>1, <3>4 DEF Covers, x, w, y
  <2>2. CASE a = b /\ Discovered(b) /\ ~(missed[b] < K)
    <3>1. missed'[b] = K /\ interrupted' = interrupted /\ running' = running
      BY <1>2, <1>t, <1>k, <2>2 DEF AgentBeats, HeartbeatTimer, Sent
    <3> QED BY <1>a, <1>z, <3>1
  <2>3. CASE a = b /\ ~Discovered(b)
    BY <1>2, <1>v, <2>3 DEF AgentBeats, HeartbeatTimer, Sent, DiscovererIdle, Discovered
  <2>4. CASE a # b
    BY <1>2, <1>u, <2>4 DEF AgentBeats, HeartbeatTimer, Sent, DiscovererIdle, PublishHeartbeat, Discovered
  <2> QED BY <2>1, <2>2, <2>3, <2>4
<1>3. ASSUME NEW a \in Agent, AgentCrashes(a) PROVE Goal
  <2>1. CASE a = b
    <3>1. interrupted'[b]
      BY <1>3, <2>1 DEF AgentCrashes
    <3> QED BY <3>1
  <2>2. CASE a # b
    BY <1>3, <1>u, <2>2 DEF AgentCrashes, Crash, RequestDies, Discovered
  <2> QED BY <2>1, <2>2
<1>4. ASSUME NEW a \in Agent, AgentAnswers(a) PROVE Goal
  BY <1>4, <1>u DEF AgentAnswers, Answer, Discovered
<1>5. ASSUME NEW a \in Agent, HeartbeatLost(a) PROVE Goal
  BY <1>5, <1>u DEF HeartbeatLost, LoseHeartbeat, DiscovererIdle, Discovered
<1>6. ASSUME NEW a \in Agent, HeartbeatArrives(a) PROVE Goal
  <2>1. CASE HeartbeatOfDiscovered(a) /\ TimerStarted(a) /\ a = b
    <3>1. keepaliveDue'[b] = K * S /\ running' = running /\ interrupted'[b] = ~running[b]
      BY <1>k, <2>1 DEF HeartbeatOfDiscovered, Receive, TimerStarted
    <3> QED BY <1>z, <3>1
  <2>2. CASE HeartbeatOfDiscovered(a) /\ TimerStarted(a) /\ a # b
    BY <1>u, <2>2 DEF HeartbeatOfDiscovered, Receive, TimerStarted, Discovered
  <2>3. CASE (HeartbeatIgnored(a) \/ HeartbeatOfUnknown(a)) /\ NothingSent
    BY <1>u, <2>3 DEF HeartbeatIgnored, HeartbeatOfUnknown, Receive, Discovered
  <2> QED BY <1>6, <2>1, <2>2, <2>3 DEF HeartbeatArrives
<1>7. ASSUME NEW a \in Agent, MetadataArrives(a) PROVE Goal
  <2>1. CASE GetMetadataCallback(a) /\ TimerStarted(a) /\ a = b
    <3>1. keepaliveDue'[b] = K * S /\ running' = running /\ interrupted'[b] = ~running[b]
      BY <1>k, <2>1 DEF GetMetadataCallback, MetadataReceived, TimerStarted
    <3> QED BY <1>z, <3>1
  <2>2. CASE GetMetadataCallback(a) /\ TimerStarted(a) /\ a # b
    BY <1>u, <2>2 DEF GetMetadataCallback, MetadataReceived, TimerStarted, Discovered
  <2>3. CASE GetMetadataFailed(a) /\ NothingSent
    BY <1>u, <2>3 DEF GetMetadataFailed, MetadataReceived, Discovered
  <2> QED BY <1>7, <2>1, <2>2, <2>3 DEF MetadataArrives
<1>8. ASSUME NEW a \in Agent, KeepaliveExpires(a) PROVE Goal
  <2>1. CASE a = b
    BY <1>8, <1>v, <2>1 DEF KeepaliveExpires, KeepaliveCallback, Discovered
  <2>2. CASE a # b
    BY <1>8, <1>u, <2>2 DEF KeepaliveExpires, KeepaliveCallback, Discovered
  <2> QED BY <2>1, <2>2
<1>9. ASSUME Tick PROVE Goal
  <2>1. CASE Discovered(b) /\ running[b]
    <3>1. /\ keepaliveDue'[b] = keepaliveDue[b] - 1 /\ heartbeatDue'[b] = heartbeatDue[b] - 1
          /\ missed' = missed /\ interrupted' = interrupted /\ running' = running
      BY <1>9, <2>1 DEF Tick, ProvidersTick, DiscovererTick
    <3> DEFINE x == missed[b] * S
               y == (K - 1) * S
    <3>2. x \in Nat /\ y \in Int
      BY <1>p, <1>t
    <3>3. ~interrupted[b] => keepaliveDue[b] + x >= y + heartbeatDue[b]
      BY <1>a, <2>1 DEF Covers
    <3> HIDE DEF x, y
    <3>4. ~interrupted[b] => keepaliveDue'[b] + x >= y + heartbeatDue'[b]
      BY <1>k, <1>t, <3>1, <3>2, <3>3
    <3> QED BY <1>a, <3>1, <3>4 DEF Covers, x, y
  <2>2. CASE ~Discovered(b)
    BY <1>9, <1>v, <2>2 DEF Tick, ProvidersTick, DiscovererTick, Discovered
  <2>3. CASE ~running[b]
    <3>1. interrupted'[b]
      BY <1>9, <1>a, <2>3 DEF Tick
    <3> QED BY <3>1
  <2> QED BY <2>1, <2>2, <2>3
<1>10. CASE UNCHANGED vars
  BY <1>10, <1>u DEF vars, Discovered
<1> QED BY <1>1, <1>2, <1>3, <1>4, <1>5, <1>6, <1>7, <1>8, <1>9, <1>10 DEF Next

\* Whatever the intervals, and however messages get lost and processes restart:
\* an agent that runs all the time is lost only after the silence that a
\* "keepalive" of at most 255 asks for.
THEOREM SilenceBeforeLost == KeepaliveParam <= 255 /\ Spec => LostOnlyWhenSilent
<1> SUFFICES ASSUME KeepaliveParam <= 255 PROVE Spec => LostOnlyWhenSilent
  OBVIOUS
<1>1. Init => TimerCoversSilence
  BY DEF Init, DiscovererInit, TimerCoversSilence, Discovered
<1>2. IInv /\ IInv' /\ TimerCoversSilence /\ [Next]_vars => TimerCoversSilence'
  BY SilenceStep DEF IInv
<1>3. ASSUME IInv, TimerCoversSilence, Next, NEW a \in Agent, NEW m \in Metadata,
             event' = Event("LOST", a, m), running[a], ~interrupted[a]
      PROVE  missed[a] + 1 >= KeepaliveParam
  <2>1. Discovered(a) /\ keepaliveDue[a] = 0
    <3>1. event'.type = "LOST" /\ event'.agent = a /\ NoEvent.type = "none"
      BY <1>3 DEF Event, NoEvent
    <3>2. event' # NoEvent
      BY <3>1
    <3>3. PICK b \in Agent : KeepaliveExpires(b) \/ GetMetadataCallback(b)
      BY <1>3, <3>2 DEF Next, AgentStarts, AgentBeats, AgentCrashes, AgentAnswers, HeartbeatLost,
         HeartbeatArrives, MetadataArrives, Tick, DiscovererIdle, RequestDies, Answer,
         HeartbeatOfDiscovered, HeartbeatIgnored, HeartbeatOfUnknown, Receive, GetMetadataFailed,
         DiscovererTick
    <3>4. KeepaliveCallback(b) /\ b = a
      BY <3>1, <3>3 DEF KeepaliveExpires, KeepaliveCallback, GetMetadataCallback, Event
    <3> QED BY <3>4 DEF KeepaliveCallback
  <2>2. missed[a] \in Nat /\ heartbeatDue[a] \in Nat /\ SteadyInterval \in Nat \ {0} /\ KeepaliveParam \in Nat
    BY <1>3, IntervalsAssumption, DiscovererAssumption DEF IInv, TypeOK, ProviderTypeOK
  <2> DEFINE x == missed[a] * SteadyInterval
             y == (KeepaliveParam - 1) * SteadyInterval
  <2>3. x \in Int /\ y \in Int
    BY <2>2
  <2>4. keepaliveDue[a] + x >= y + heartbeatDue[a]
    BY <1>3, <2>1 DEF TimerCoversSilence
  <2> HIDE DEF x, y
  <2>5. x >= y
    BY <2>1, <2>2, <2>3, <2>4
  <2> QED BY <2>2, <2>5, FewerIntervals DEF x, y
<1>4. IInv /\ TimerCoversSilence /\ [Next]_vars =>
        [\A a \in Agent, m \in Metadata :
           event' = Event("LOST", a, m) /\ running[a] /\ ~interrupted[a]
             => missed[a] + 1 >= KeepaliveParam]_vars
  BY <1>3
<1> QED BY <1>1, <1>2, <1>4, Invariance, PTL DEF Spec, LostOnlyWhenSilent
-----------------------------------------------------------------------------
\* The phases of the heartbeat timer, in step with the count that bounds the first.
PhaseFitsCount ==
  \A a \in Agent : running[a] =>
    heartbeatPeriod[a] = IF mBootupHeartbeatCount[a] = 0 THEN SteadyInterval ELSE BootupInterval

LEMMA PhaseStep == TypeOK /\ PhaseFitsCount /\ [Next]_vars => PhaseFitsCount'
<1> SUFFICES ASSUME TypeOK, PhaseFitsCount, [Next]_vars PROVE PhaseFitsCount'
  OBVIOUS
<1> USE DEF PhaseFitsCount, TypeOK, ProviderTypeOK
<1>1. ASSUME NEW a \in Agent, AgentStarts(a)
      PROVE  PhaseFitsCount'
  BY <1>1, IntervalsAssumption DEF AgentStarts, Start, PublishHeartbeat
<1>2. ASSUME NEW a \in Agent, AgentBeats(a)
      PROVE  PhaseFitsCount'
  BY <1>2, IntervalsAssumption DEF AgentBeats, HeartbeatTimer, PublishHeartbeat
<1>3. ASSUME NEW a \in Agent, AgentCrashes(a)
      PROVE  PhaseFitsCount'
  BY <1>3 DEF AgentCrashes, Crash
<1>4. ASSUME NEW a \in Agent, AgentAnswers(a) \/ KeepaliveExpires(a) \/ MetadataArrives(a)
      PROVE  PhaseFitsCount'
  BY <1>4 DEF AgentAnswers, Answer, KeepaliveExpires, KeepaliveCallback, MetadataArrives,
     GetMetadataCallback, GetMetadataFailed, MetadataReceived, providerVars
<1>5. ASSUME NEW a \in Agent, HeartbeatArrives(a) \/ HeartbeatLost(a)
      PROVE  PhaseFitsCount'
  BY <1>5 DEF HeartbeatArrives, HeartbeatOfDiscovered, HeartbeatIgnored, HeartbeatOfUnknown,
     Receive, HeartbeatLost, LoseHeartbeat
<1>6. CASE Tick
  BY <1>6 DEF Tick, ProvidersTick
<1>7. CASE UNCHANGED vars
  BY <1>7 DEF vars, providerVars
<1> QED BY <1>1, <1>2, <1>3, <1>4, <1>5, <1>6, <1>7 DEF Next

\* An agent beats quickly exactly until it has sent the heartbeats of the bootup phase, after
\* a restart as well, and never returns to that phase while it runs.
THEOREM PhaseFitsCountAlways == Spec => []PhaseFitsCount
<1>1. Init => PhaseFitsCount
  BY DEF Init, ProviderInit, PhaseFitsCount
<1> QED BY <1>1, PhaseStep, TypeCorrect, PTL DEF Spec

-----------------------------------------------------------------------------
\* The first finding, for good: an agent that is waited for without a request.

LEMMA StuckStep ==
  IInv /\ [Next]_vars => \A a \in Agent : Stuck(a) => Stuck(a)'
<1> SUFFICES ASSUME IInv, [Next]_vars, NEW a \in Agent, Stuck(a)
             PROVE  Stuck(a)'
  OBVIOUS
<1> USE DEF IInv, Stuck, TypeOK, DiscovererTypeOK
<1>1. CASE DiscovererIdle \/ DiscovererTick \/ UNCHANGED vars
  BY <1>1 DEF DiscovererIdle, DiscovererTick, vars, discovererVars
<1>2. ASSUME NEW b \in Agent, AgentCrashes(b) \/ AgentAnswers(b) \/ KeepaliveExpires(b)
      PROVE  Stuck(a)'
  BY <1>2 DEF AgentCrashes, RequestDies, AgentAnswers, Answer, KeepaliveExpires, KeepaliveCallback
<1>3. ASSUME NEW b \in Agent, HeartbeatArrives(b)
      PROVE  Stuck(a)'
  BY <1>3 DEF HeartbeatArrives, HeartbeatOfDiscovered, HeartbeatIgnored, HeartbeatOfUnknown
<1>4. ASSUME NEW b \in Agent, MetadataArrives(b)
      PROVE  Stuck(a)'
  BY <1>4 DEF MetadataArrives, GetMetadataCallback, GetMetadataFailed, MetadataReceived
<1> QED BY <1>1, <1>2, <1>3, <1>4
        DEF Next, AgentStarts, AgentBeats, HeartbeatLost, Tick

\* An agent that the map of pending requests holds without a request on its way is never
\* discovered again, whatever it does: no heartbeat, answer or restart of it helps.
THEOREM StuckForEver == \A a \in Agent : Spec => [](Stuck(a) => [](Stuck(a) /\ ~Discovered(a)))
<1> SUFFICES ASSUME NEW a \in Agent
             PROVE  Spec => [](Stuck(a) => [](Stuck(a) /\ ~Discovered(a)))
  OBVIOUS
<1>1. IInv /\ [Next]_vars => (Stuck(a) => Stuck(a)')
  BY StuckStep
<1>2. IInv /\ Stuck(a) => ~Discovered(a)
  BY DEF IInv, Stuck, PendingIsUndiscovered
<1> QED BY <1>1, <1>2, Invariance, PTL DEF Spec

-----------------------------------------------------------------------------
\* What CrashedAgentIsLost rests on: nothing is left that could keep a dead agent.

\* The agent is down, and neither a heartbeat nor an answer of it is still on its way.
Gone(a) == ~running[a] /\ a \notin heartbeat /\ request[a] # "answered"

\* Until it starts again, no step brings an agent back that is gone, or puts off the time at which
\* it is lost; and each tick brings that time nearer.
GoneFades ==
  [][\A a \in Agent : Gone(a) /\ ~running'[a] =>
       /\ Gone(a)'
       /\ Discovered(a)' => Discovered(a) /\ keepaliveDue'[a] <= keepaliveDue[a]
       /\ Discovered(a) /\ Tick => keepaliveDue'[a] = keepaliveDue[a] - 1]_vars

\* A dead agent fades from the table, however the other agents keep the discoverer busy.
THEOREM GoneFadesAlways == Spec => GoneFades
<1> DEFINE Fades(a) ==
      /\ Gone(a)'
      /\ Discovered(a)' => Discovered(a) /\ keepaliveDue'[a] <= keepaliveDue[a]
      /\ Discovered(a) /\ Tick => keepaliveDue'[a] = keepaliveDue[a] - 1
<1>1. ASSUME IInv, Next, NEW a \in Agent, Gone(a), ~running'[a]
      PROVE  Fades(a)
  <2> DEFINE Same == /\ keepaliveDue'[a] = keepaliveDue[a]
                     /\ Discovered(a)' => Discovered(a)
  <2>n. keepaliveDue[a] \in Int
    BY <1>1, KeepaliveTicksType DEF IInv, TypeOK, DiscovererTypeOK
  <2>1. CASE Tick
    BY <1>1, <2>1, <2>n DEF Tick, ProvidersTick, DiscovererTick, Gone, Discovered
  <2>2. ASSUME ~Tick, Gone(a)', Same PROVE Fades(a)
    BY <2>n, <2>2
  <2> USE <1>1 DEF IInv, TypeOK, ProviderTypeOK, DiscovererTypeOK, Gone, Discovered
  <2>3. ASSUME NEW b \in Agent, AgentStarts(b) \/ AgentBeats(b)
        PROVE  Gone(a)' /\ Same
    <3>1. b # a
      BY <2>3 DEF AgentStarts, Start, AgentBeats, HeartbeatTimer
    <3> QED BY <2>3, <3>1
        DEF AgentStarts, Start, AgentBeats, HeartbeatTimer, PublishHeartbeat, DiscovererIdle
  <2>4. ASSUME NEW b \in Agent, AgentCrashes(b) \/ HeartbeatLost(b)
        PROVE  Gone(a)' /\ Same
    BY <2>4 DEF AgentCrashes, Crash, RequestDies, HeartbeatLost, LoseHeartbeat, DiscovererIdle
  <2>5. ASSUME NEW b \in Agent, AgentAnswers(b)
        PROVE  Gone(a)' /\ Same
    BY <2>5 DEF AgentAnswers, Answer, providerVars
  <2>6. ASSUME NEW b \in Agent, HeartbeatArrives(b)
        PROVE  Gone(a)' /\ Same
    <3>1. b # a
      BY <2>6 DEF HeartbeatArrives, HeartbeatOfDiscovered, HeartbeatIgnored, HeartbeatOfUnknown, Receive
    <3> QED BY <2>6, <3>1
        DEF HeartbeatArrives, HeartbeatOfDiscovered, HeartbeatIgnored, HeartbeatOfUnknown, Receive
  <2>7. ASSUME NEW b \in Agent, MetadataArrives(b)
        PROVE  Gone(a)' /\ Same
    <3>1. b # a
      BY <2>7 DEF MetadataArrives, GetMetadataCallback, GetMetadataFailed, MetadataReceived
    <3> QED BY <2>7, <3>1
        DEF MetadataArrives, GetMetadataCallback, GetMetadataFailed, MetadataReceived, providerVars
  <2>8. ASSUME NEW b \in Agent, KeepaliveExpires(b)
        PROVE  Gone(a)' /\ Same
    BY <2>8 DEF KeepaliveExpires, KeepaliveCallback, providerVars
  <2> QED BY <2>1, <2>2, <2>3, <2>4, <2>5, <2>6, <2>7, <2>8 DEF Next
<1>2. IInv /\ [Next]_vars => [\A a \in Agent : Gone(a) /\ ~running'[a] => Fades(a)]_vars
  BY <1>1
<1> QED BY <1>2, Invariance, PTL DEF Spec, GoneFades
=============================================================================
