--------------------------- MODULE MCRosFqnBuilder ---------------------------
(* TLC instance of RosFqnBuilder. *)
EXTENDS RosFqnBuilder

\* An enumerator with rules of its own, or like all others, and "custom".
SomeComponents == {"camera", "custom"}
SomeStreams == {"color", "custom"}
SomeResources == {"agent_heartbeat", "robot_description", "image_raw", "custom"}

\* No name; one like an enumerator with a name; one of two tokens; an invalid one;
\* one that begins with a slash, and is invalid after it.
SomeNames == {<<>>, <<<<"A">>>>, <<<<"camera", "_", "a">>>>, <<<<"a">>, <<"a">>>>, <<<<"-">>>>,
  <<<<>>, <<"-">>>>}

\* Short names, some whose underscores are many or at the ends once sanitized.
SomeAgentNames ==
  UNION {[1 .. n -> Char] : n \in 0 .. 2} \cup
    {<<"A", "-", "_", "1">>, <<"-", "-", "a">>, <<"a", "-", "-">>, <<"-", "_", "-">>, <<"_", "a", "_">>}

NoVariable == <<>>
SomeHost == <<"A", "-", "1">>
=============================================================================
