----------------------------- MODULE AgentUtils ------------------------------
(***************************************************************************)
(* sfg_utils::agent_utils: the name of this agent, and names of agents as  *)
(* parts of topics.  A string is a sequence over an alphabet that has one  *)
(* upper-case and one lower-case letter, a digit, the underscore and a     *)
(* character of any other kind.  What throws returns {}, what returns s    *)
(* returns {s}.                                                            *)
(***************************************************************************)
EXTENDS Naturals, SequencesExt

Underscore == "_"
Char == {"A", "a", "1", Underscore, "-"}
Digit == {"1"}

\* get_agent_name: SFG_AGENT_NAME, or the name of the host.
GetAgentName(variable, hostname) == IF variable # <<>> THEN variable ELSE hostname

ToLower(c) == IF c = "A" THEN "a" ELSE c
AlnumOrUnderscore(c) == IF c = "-" THEN Underscore ELSE c

\* Of a run of underscores the first one is kept.
AddKept(name, kept, n) ==
  IF n > 1 /\ name[n - 1] = Underscore /\ name[n] = Underscore THEN kept ELSE Append(kept, name[n])
KeptUpTo(name) ==
  LET upTo[n \in 0 .. Len(name)] == IF n = 0 THEN <<>> ELSE AddKept(name, upTo[n - 1], n)
  IN upTo
CollapseUnderscores(name) == KeptUpTo(name)[Len(name)]

DropFirst(name) == IF name # <<>> /\ Head(name) = Underscore THEN Tail(name) ELSE name

\* Of a name that has become empty, back() is undefined: built without assertions
\* it reads the last byte of the string's length, which is no underscore.
DropLast(name) == IF name # <<>> /\ Last(name) = Underscore THEN Front(name) ELSE name

\* Mutant: underscores are collapsed last.
SanitizeCollapsingLast(name) ==
  LET clean == [i \in DOMAIN name |-> AlnumOrUnderscore(ToLower(name[i]))]
      sanitized == CollapseUnderscores(DropLast(DropFirst(clean)))
  IN IF sanitized = <<>> THEN {} ELSE {sanitized}

SanitizeAgentName(name) ==
  LET clean == [i \in DOMAIN name |-> AlnumOrUnderscore(ToLower(name[i]))]
      sanitized == DropLast(DropFirst(CollapseUnderscores(clean)))
  IN IF sanitized = <<>> THEN {} ELSE {sanitized}
=============================================================================
