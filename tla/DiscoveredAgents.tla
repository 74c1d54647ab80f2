-------------------------- MODULE DiscoveredAgents ---------------------------
(***************************************************************************)
(* What an AgentDiscoverer promises its subscribers: a table of discovered *)
(* agents and, for every change of it and for nothing else, one event that *)
(* names the agent and its metadata as the table holds them.               *)
(***************************************************************************)
CONSTANTS Agent, Metadata, NoMetadata

VARIABLES
  table,  \* metadata of the discovered agents, NoMetadata for the others
  event   \* the event published by the last step, NoEvent if it published none

tableVars == <<table, event>>

NoEvent == [type |-> "none"]
Event(type, a, m) == [type |-> type, agent |-> a, metadata |-> m]

Init ==
  /\ table = [a \in Agent |-> NoMetadata]
  /\ event = NoEvent

Discover(a) ==
  /\ table[a] = NoMetadata
  /\ \E m \in Metadata :
       /\ table' = [table EXCEPT ![a] = m]
       /\ event' = Event("DISCOVERED", a, m)

Lose(a) ==
  /\ table[a] # NoMetadata
  /\ event' = Event("LOST", a, table[a])
  /\ table' = [table EXCEPT ![a] = NoMetadata]

\* Something that does not concern the table.
Quiet == event' = NoEvent /\ UNCHANGED table

Next == Quiet \/ \E a \in Agent : Discover(a) \/ Lose(a)

Spec == Init /\ [][Next]_tableVars
=============================================================================
