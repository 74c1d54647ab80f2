---------------------------- MODULE DiscoveryFeed ----------------------------
(***************************************************************************)
(* How an AgentDecoder learns of agents from the AgentDiscoverer next to   *)
(* it: by events, of which its subscription keeps the last few, and by the *)
(* answer to one request, sent at its start, for all agents discovered so  *)
(* far.  Neither waits for the other, nor for the discoverer.  What the    *)
(* decoder then does about an agent is in AgentDecoder.                    *)
(***************************************************************************)
EXTENDS DiscoveredAgents, Naturals, Sequences

CONSTANT Depth  \* events the subscription keeps, 10 in the code

ASSUME FeedAssumption == Depth \in Nat \ {0} /\ NoMetadata \notin Metadata

VARIABLES
  matched,   \* the subscription and the publisher know of each other
  queue,     \* events the subscription keeps, oldest first
  request,   \* what has become of the request
  response,  \* the table its answer carries
  mAgents,   \* metadata by agent of m_agents, NoMetadata without an entry
  lostSince, \* history: agents lost since the answer was given, until it is handled
  missed     \* history: agents of which the decoder may have been told too little

feedVars == <<matched, queue, request, response, mAgents, lostSince, missed>>
vars == <<tableVars, feedVars>>

Nobody == [a \in Agent |-> NoMetadata]
LostIn(events) == {events[i].agent : i \in {j \in DOMAIN events : events[j].type = "LOST"}}

FeedInit ==
  /\ Init
  /\ matched = FALSE /\ queue = <<>>
  /\ request = "unsent" /\ response = Nobody
  /\ mAgents = Nobody
  /\ lostSince = {} /\ missed = {}

\* The constructor.  A request to a service that is not there yet gets no answer.
StartDecoder ==
  /\ request = "unsent"
  /\ request' \in {"sent", "unanswered"}
  /\ Quiet
  /\ UNCHANGED <<matched, queue, response, mAgents, lostSince, missed>>

Match ==
  /\ request # "unsent" /\ ~matched
  /\ matched' = TRUE
  /\ Quiet
  /\ UNCHANGED <<queue, request, response, mAgents, lostSince, missed>>

-----------------------------------------------------------------------------
\* The discoverer: publish, and its get_discovered_agents_callback.

Enqueue ==
  IF ~matched THEN UNCHANGED queue
  ELSE queue' = Append(IF Len(queue) = Depth THEN Tail(queue) ELSE queue, event')

\* What happens before the answer is given is in the answer.
Missing(a) ==
  IF ~matched THEN IF request \in {"unsent", "sent"} THEN {} ELSE {a}
  ELSE IF Len(queue) = Depth THEN {Head(queue).agent} ELSE {}

Publish(a) ==
  /\ Discover(a) \/ Lose(a)
  /\ Enqueue
  /\ missed' = missed \cup Missing(a)
  /\ lostSince' = IF request = "answered" /\ event'.type = "LOST" THEN lostSince \cup {a} ELSE lostSince
  /\ UNCHANGED <<matched, request, response, mAgents>>

GetDiscoveredAgents ==
  /\ request = "sent"
  /\ request' = "answered" /\ response' = table
  /\ Quiet
  /\ UNCHANGED <<matched, queue, mAgents, lostSince, missed>>

-----------------------------------------------------------------------------
\* The decoder's executor: agent_discovery_event_callback, as to m_agents.

\* What is known of the agent after an event, if m was known before it.
Known(a, m, e) ==
  IF e.agent # a THEN m
  ELSE IF e.type = "LOST" THEN NoMetadata
  ELSE IF m = NoMetadata THEN e.metadata ELSE m

HandleEvent ==
  /\ queue # <<>>
  /\ queue' = Tail(queue)
  /\ mAgents' = [a \in Agent |-> Known(a, mAgents[a], Head(queue))]
  /\ Quiet
  /\ UNCHANGED <<matched, request, response, lostSince, missed>>

\* Mutant: the answer is taken for all there is to know.
EnteredInstead(agents) == response

\* Mutant: the loop ends at an agent that is known already.
EnteredUnlessKnown(agents) ==
  [a \in Agent |->
     IF \A b \in Agent : response[b] # NoMetadata => agents[b] = NoMetadata
       THEN response[a] ELSE agents[a]]

\* DISCOVERED for every agent of the answer.
Entered(agents) ==
  [a \in Agent |-> IF agents[a] = NoMetadata THEN response[a] ELSE agents[a]]

\* An agent that was lost after the answer was given is entered for good if the decoder
\* has handled LOST before.
HandleSnapshot ==
  /\ request = "answered"
  /\ request' = "done" /\ response' = Nobody
  /\ mAgents' = Entered(mAgents)
  /\ missed' = missed \cup {a \in lostSince \ LostIn(queue) : response[a] # NoMetadata}
  /\ lostSince' = {}
  /\ Quiet
  /\ UNCHANGED <<matched, queue>>

SnapshotFailed ==
  /\ request = "answered"
  /\ request' = "unanswered" /\ response' = Nobody
  /\ lostSince' = {}
  /\ Quiet
  /\ UNCHANGED <<matched, queue, mAgents, missed>>

FeedNext ==
  \/ \E a \in Agent : Publish(a)
  \/ StartDecoder \/ Match \/ GetDiscoveredAgents
  \/ HandleEvent \/ HandleSnapshot \/ SnapshotFailed

FeedSpec == FeedInit /\ [][FeedNext]_vars

\* Fairness: the executors of both nodes serve what waits for them.
FairFeedSpec ==
  FeedSpec /\ WF_vars(HandleEvent) /\ WF_vars(GetDiscoveredAgents)
           /\ WF_vars(HandleSnapshot \/ SnapshotFailed)

-----------------------------------------------------------------------------
\* Properties.

\* What is known of the agent after so many of the events that wait.
KnownAfter(a) ==
  LET known[n \in 0 .. Len(queue)] ==
        IF n = 0 THEN mAgents[a] ELSE Known(a, known[n - 1], queue[n])
  IN known

WillKnow(a) == KnownAfter(a)[Len(queue)]

\* The decoder, once it has handled the events it was sent, knows what the discoverer
\* does, also if the agent came and went while the request was on its way.  What it misses
\* are events dropped by the full queue or published before the subscription was matched,
\* and a LOST that overtook the answer: nothing else can go wrong.
AgreesUnlessMissed ==
  request = "done" => \A a \in Agent \ missed : WillKnow(a) = table[a]

\* An agent that stays, or stays away, is in the end known for what it is.
FeedCatchesUp ==
  \A a \in Agent, m \in Metadata \cup {NoMetadata} :
    <>[](table[a] = m /\ a \notin missed /\ request \notin {"unsent", "unanswered"})
      => <>[](mAgents[a] = m)
=============================================================================
