--------------------------- MODULE MCAgentDecoder ----------------------------
(* TLC instances of AgentDecoder. *)
EXTENDS AgentDecoder, TLC

CONSTANTS a, b, m1, m2, t1, t2

\* Two agents: one lists a camera once or twice, the other one camera, or beside it one
\* whose name is refused.
TwoAgents == [x \in {a, b} |-> [m \in {m1, m2} |->
  IF x = a THEN IF m = m1 THEN <<t1, t1>> ELSE <<t1>>
           ELSE IF m = m1 THEN <<t2>> ELSE <<t2, NoTopic>>]]
OneTopic == [x \in {a} |-> [m \in {m1} |-> <<t1>>]]

Symmetry == Permutations(Loader) \cup Permutations(Id) \cup Permutations(Token)
=============================================================================
