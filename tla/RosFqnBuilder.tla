---------------------------- MODULE RosFqnBuilder ----------------------------
(***************************************************************************)
(* sfg_utils::fqn::RosFqnBuilder: names of topics and services,            *)
(*     /<scope>/<?agent>/<?component>/<?stream>/<resource>                 *)
(* A builder is a value: every method returns a changed copy of it.  A     *)
(* behaviour is a chain of calls.  A name is a sequence of tokens, what is *)
(* between two slashes; a token is a sequence of characters and words.     *)
(***************************************************************************)
EXTENDS AgentUtils

CONSTANTS
  Component, Stream, Resource,  \* the enumerators, as words in snake case
  Name,              \* names clients give: sequences of tokens, <<>> if empty
  AgentName,         \* raw names of agents, <<>> if empty
  Variable, HostName \* SFG_AGENT_NAME, <<>> if not set, and the name of the host

Scope == {"global", "local"}
None == "none"
Word == Char \cup Scope \cup Component \cup Stream \cup Resource

ASSUME BuilderAssumption ==
  /\ "custom" \in Component \cap Stream \cap Resource
  /\ {"agent_heartbeat", "robot_description"} \subseteq Resource
  /\ None \notin Resource
  /\ Name \subseteq Seq(Seq(Word))
  /\ AgentName \cup {Variable, HostName} \subseteq Seq(Char)
  /\ HostName # <<>>

VARIABLE builder  \* m_set_segments, m_segment_values, m_resource

\* RosFqnSegment.  A segment without a value has the value <<>>.
Segment == 1 .. 5
ScopeSegment == 1
AgentSegment == 2
ComponentSegment == 3
StreamSegment == 4
ResourceSegment == 5

\* s_segment_rules.
IsRequired == {ScopeSegment, ResourceSegment}
RequiredSegments ==
  <<{}, {ScopeSegment}, {AgentSegment}, {ComponentSegment}, {ScopeSegment}>>
AllowedResources ==
  LET others == Resource \ {"agent_heartbeat", "robot_description"}
  IN <<{"agent_heartbeat", "custom"}, {"robot_description", "custom"}, others, others, {}>>

Empty == [set |-> {}, value |-> [s \in Segment |-> <<>>], resource |-> None]

With(b, s, value) == [b EXCEPT !.set = @ \cup {s}, !.value[s] = value]

\* set_segment: an enumerator and its name are joined by an underscore.
Joined(word, name) ==
  IF name = <<>> THEN <<<<word>>>> ELSE <<<<word, Underscore>> \o Head(name)>> \o Tail(name)

SetSegment(b, s, word, name) ==
  IF word = "custom"
    THEN IF name = <<>> THEN {} ELSE {With(b, s, name)}
    ELSE {With(b, s, Joined(word, name))}

SetAgent(b, name) ==
  LET given == IF name = <<>> THEN GetAgentName(Variable, HostName) ELSE name
  IN {With(b, AgentSegment, <<token>>) : token \in SanitizeAgentName(given)}

SetResource(b, resource, name) ==
  {[c EXCEPT !.resource = resource] : c \in SetSegment(b, ResourceSegment, resource, name)}

\* Mutant: the resource is remembered.
ResetKeepsResource(b, segments) ==
  [set |-> b.set \ segments,
   value |-> [s \in Segment |-> IF s \in segments THEN <<>> ELSE b.value[s]],
   resource |-> b.resource]

Reset(b, segments) ==
  [set |-> b.set \ segments,
   value |-> [s \in Segment |-> IF s \in segments THEN <<>> ELSE b.value[s]],
   resource |-> IF ResourceSegment \in segments THEN None ELSE b.resource]

-----------------------------------------------------------------------------
\* build.

\* rmw_validate_full_topic_name (external).  A name that is not absolute is told so before
\* its tokens are looked at; but a part may be given a slash to begin with.
ValidToken(token) ==
  token # <<>> /\ Head(token) \notin Digit /\ \A i \in DOMAIN token : token[i] \notin {"-", " "}
ValidName(name) == \A i \in DOMAIN name : ValidToken(name[i])
Refused(begin, name) ==
  IF begin = ScopeSegment THEN ~ValidName(name)
    ELSE Len(name) > 1 /\ Head(name) = <<>> /\ ~ValidName(Tail(name))

\* Mutant: what is required is required whether it is in the range or not.
LacksRequiredAnywhere(b, range, s) == ~(RequiredSegments[s] \subseteq b.set)

LacksRequired(b, range, s) == ~(RequiredSegments[s] \cap range \subseteq b.set)

\* Mutant: the place of the resource is that of the first segment.
LastBeforeFirst(present, s) == CHOOSE t \in present : \A u \in present : t <= u

LastBefore(present, s) ==
  CHOOSE t \in present : t < s /\ \A u \in present : u < s => u <= t

\* Mutant: a resource on its own is checked too.
MisplacedAnyway(b, begin, present) ==
  /\ ResourceSegment \in present
  /\ LET before == IF begin = ResourceSegment THEN begin ELSE LastBefore(present, ResourceSegment)
     IN b.resource \notin AllowedResources[before]

Misplaced(b, begin, present) ==
  /\ begin # ResourceSegment /\ ResourceSegment \in present
  /\ b.resource \notin AllowedResources[LastBefore(present, ResourceSegment)]

Build(b, begin, end) ==
  LET range == begin .. end
      present == {s \in range : b.value[s] # <<>>}
      Part(s) == IF s \in range THEN b.value[s] ELSE <<>>
      name == Part(1) \o Part(2) \o Part(3) \o Part(4) \o Part(5)
  IN IF \/ begin > end
        \/ ~((IsRequired \cap range) \cup {begin, end} \subseteq present)
        \/ \E s \in present : LacksRequired(b, range, s)
        \/ Misplaced(b, begin, present)
        \/ Refused(begin, name)
       THEN {} ELSE {name}

-----------------------------------------------------------------------------
CallScope == \E s \in Scope : builder' = With(builder, ScopeSegment, <<<<s>>>>)
CallAgent == \E name \in AgentName : builder' \in SetAgent(builder, name)
CallComponent == \E c \in Component, n \in Name :
  builder' \in SetSegment(builder, ComponentSegment, c, n)
CallStream == \E s \in Stream, n \in Name :
  builder' \in SetSegment(builder, StreamSegment, s, n)
CallResource == \E r \in Resource, n \in Name : builder' \in SetResource(builder, r, n)
CallReset == \E segments \in SUBSET Segment : builder' = Reset(builder, segments)

Init == builder = Empty
Next == CallScope \/ CallAgent \/ CallComponent \/ CallStream \/ CallResource \/ CallReset
Spec == Init /\ [][Next]_builder
-----------------------------------------------------------------------------
\* Properties.

\* The two records of what is set agree after any calls, and every value is a name.
TypeOK ==
  /\ builder.set = {s \in Segment : builder.value[s] # <<>>}
  /\ builder.resource \in Resource \cup {None}
  /\ (builder.resource # None) <=> (ResourceSegment \in builder.set)

\* The value of a segment in a name of that many tokens: the length tells which
\* segments are there, because optional segments are left out from the right only.
SegmentOf(name, s) ==
  CASE s = ResourceSegment -> <<Last(name)>>
    [] s < Len(name) -> <<name[s]>>
    [] OTHER -> <<>>

\* A name tells its segments, unless one was given a name with a slash in it, and the
\* resource is one that its place allows: the comment on RosFqnSegmentRule in the header.
NamesTellTheirSegments ==
  \A name \in Build(builder, ScopeSegment, ResourceSegment) :
    (\A s \in Segment : Len(builder.value[s]) <= 1) =>
      /\ \A s \in Segment : builder.value[s] = SegmentOf(name, s)
      /\ builder.resource = "agent_heartbeat" => Len(name) = 2
      /\ builder.resource = "robot_description" => Len(name) = 3
      /\ builder.resource \notin {"agent_heartbeat", "robot_description", "custom"} => Len(name) > 3

\* A whole name may be built in two parts, as namespaces and names of nodes are: if the
\* whole builds so do its parts, cut between any two of its segments.
PartsMakeTheWhole ==
  \A name \in Build(builder, ScopeSegment, ResourceSegment) :
    \A s, t \in builder.set :
      s < t /\ (s + 1 .. t - 1) \cap builder.set = {} =>
        \E head \in Build(builder, ScopeSegment, s), tail \in Build(builder, t, ResourceSegment) :
          name = head \o tail

\* Part of a name depends on the segments of its range alone, whatever else the builder
\* was told: a relative name can be built without the segments it is relative to.
PartsStandAlone ==
  \A begin, end \in Segment :
    Build(builder, begin, end) = Build(Reset(builder, Segment \ (begin .. end)), begin, end)

\* A sanitized name is its own sanitized name, so that whoever takes it from a topic
\* builds the same topics, and has no underscore at its ends, where it would meet those
\* of node names.  It may begin with a digit, which ValidToken refuses.
AgentNamesStay ==
  AgentSegment \in builder.set =>
    LET token == Head(builder.value[AgentSegment])
    IN SanitizeAgentName(token) = {token} /\ Underscore \notin {Head(token), Last(token)}
=============================================================================
