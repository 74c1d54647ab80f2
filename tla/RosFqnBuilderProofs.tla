------------------------- MODULE RosFqnBuilderProofs -------------------------
(***************************************************************************)
(* Proofs about RosFqnBuilder for all enumerators and names, and about the *)
(* names that agent_utils sanitizes.                                       *)
(***************************************************************************)
EXTENDS RosFqnBuilder, TLAPS, SequenceTheorems, WellFoundedInduction

\* Induction over the numbers, as a fact about sets.

LEMMA LeastNumber ==
  ASSUME NEW T, T \subseteq Nat, T # {}
  PROVE  \E x \in T : \A y \in T : x <= y
<1>1. PICK x \in T : \A y \in T : ~(<<y, x>> \in OpToRel(<, Nat))
  BY NatLessThanWellFounded, WFMin
<1>2. \A y \in T : ~(y < x)
  BY <1>1 DEF OpToRel
<1>3. \A y \in T : x <= y
  BY <1>2
<1> QED
  BY <1>3

LEMMA SetInduction ==
  ASSUME NEW S, 0 \in S, \A n \in Nat : n \in S => n + 1 \in S
  PROVE  Nat \subseteq S
<1> SUFFICES ASSUME Nat \ S # {} PROVE FALSE
  OBVIOUS
<1>1. PICK x \in Nat \ S : \A y \in Nat \ S : x <= y
  BY LeastNumber
<1>2. x # 0 /\ x - 1 \in Nat /\ x - 1 \in S
  BY <1>1
<1> QED
  BY <1>1, <1>2

-----------------------------------------------------------------------------
\* What sanitizing a name of an agent leaves of it.

CleanChar == {"a", "1", Underscore}
NoTwins(s) == \A i \in 1 .. Len(s) - 1 : ~(s[i] = Underscore /\ s[i + 1] = Underscore)
Clean(token) ==
  /\ token \in Seq(CleanChar) \ {<<>>} /\ NoTwins(token)
  /\ token[1] # Underscore /\ token[Len(token)] # Underscore

\* What is kept of every beginning of a sequence is defined.
LEMMA KeptUpToIs ==
  ASSUME NEW S, NEW s \in Seq(S)
  PROVE  KeptUpTo(s) = [n \in 0 .. Len(s) |->
           IF n = 0 THEN <<>> ELSE AddKept(s, KeptUpTo(s)[n - 1], n)]
<1> DEFINE Step(f, n) == IF n = 0 THEN <<>> ELSE AddKept(s, f[n - 1], n)
           Upto == {n \in Nat : \E f : f = [i \in 0 .. n |-> Step(f, i)]}
<1>1. 0 \in Upto
  <2>1. [i \in {0} |-> <<>>] = [i \in 0 .. 0 |-> Step([j \in {0} |-> <<>>], i)]
    OBVIOUS
  <2> QED
    BY <2>1
<1>2. ASSUME NEW n \in Nat, n \in Upto PROVE n + 1 \in Upto
  <2>1. PICK f : f = [i \in 0 .. n |-> Step(f, i)]
    BY <1>2
  <2> DEFINE g == [i \in 0 .. n + 1 |-> IF i = n + 1 THEN AddKept(s, f[n], n + 1) ELSE f[i]]
  <2>2. \A i \in 0 .. n : g[i] = f[i]
    OBVIOUS
  <2>3. \A i \in 0 .. n + 1 : g[i] = Step(g, i)
    <3> TAKE i \in 0 .. n + 1
    <3>1. CASE i = n + 1
      <4>1. g[i - 1] = f[n] /\ i # 0
        BY <3>1, <2>2
      <4> QED
        BY <3>1, <4>1
    <3>2. CASE i \in 0 .. n
      <4>1. g[i] = Step(f, i)
        BY <2>1, <2>2, <3>2
      <4>2. i # 0 => g[i - 1] = f[i - 1]
        BY <2>2, <3>2
      <4> QED
        BY <4>1, <4>2
    <3> QED
      BY <3>1, <3>2
  <2>4. g = [i \in 0 .. n + 1 |-> Step(g, i)]
    BY <2>3
  <2> HIDE DEF g
  <2>5. \E f_1 : f_1 = [i \in 0 .. n + 1 |-> Step(f_1, i)]
    BY <2>4
  <2> QED
    BY <2>5
<1>3. Len(s) \in Upto
  <2> HIDE DEF Upto
  <2>1. Nat \subseteq Upto
    BY <1>1, <1>2, SetInduction
  <2> QED
    BY <2>1, LenProperties
<1> QED
  BY <1>3 DEF KeptUpTo

\* What has been kept ends with what has been read, and has no two underscores in a row.
KeptWell(s, u, n) ==
  /\ u \in Seq(CleanChar) /\ NoTwins(u)
  /\ IF n = 0 THEN u = <<>> ELSE u # <<>> /\ u[Len(u)] = s[n]
  /\ NoTwins(s) => Len(u) = n /\ \A i \in 1 .. n : u[i] = s[i]

LEMMA AddKeptKeeps ==
  ASSUME NEW s \in Seq(CleanChar), Len(s) \in Nat, NEW n \in Nat, n + 1 \in 1 .. Len(s),
         NEW u, KeptWell(s, u, n)
  PROVE  KeptWell(s, AddKept(s, u, n + 1), n + 1)
<1> DEFINE v == AddKept(s, u, n + 1)
           twin == n + 1 > 1 /\ s[n] = Underscore /\ s[n + 1] = Underscore
<1>1. /\ Len(s) \in Nat /\ n + 1 \in 1 .. Len(s) /\ s[n + 1] \in CleanChar
      /\ u \in Seq(CleanChar) /\ Len(u) \in Nat /\ n + 1 # 0 /\ (n + 1) - 1 = n
  <2>1. Len(s) \in Nat /\ n + 1 \in 1 .. Len(s) /\ n + 1 # 0 /\ (n + 1) - 1 = n
    OBVIOUS
  <2>2. s[n + 1] \in CleanChar
    BY <2>1, ElementOfSeq
  <2>3. u \in Seq(CleanChar) /\ Len(u) \in Nat
    BY LenProperties DEF KeptWell
  <2> QED
    BY <2>1, <2>2, <2>3
<1>2. CASE twin
  <2>1. v = u
    BY <1>1, <1>2 DEF AddKept
  <2>2. n \in 1 .. Len(s) - 1
    BY <1>1, <1>2
  <2>3. ~NoTwins(s)
    BY <1>2, <2>2 DEF NoTwins
  <2>4. n # 0 /\ s[n] = s[n + 1]
    BY <1>2
  <2> QED
    BY <1>1, <2>1, <2>3, <2>4 DEF KeptWell
<1>3. CASE ~twin
  <2>1. v = Append(u, s[n + 1])
    BY <1>1, <1>3 DEF AddKept
  <2> HIDE DEF v
  <2>2. /\ v \in Seq(CleanChar) /\ v # <<>> /\ Len(v) = Len(u) + 1
        /\ \A i \in 1 .. Len(u) : v[i] = u[i]
        /\ v[Len(u) + 1] = s[n + 1]
    BY <1>1, <2>1, AppendProperties
  <2>3. NoTwins(v)
    <3> SUFFICES ASSUME NEW i \in 1 .. Len(u), v[i] = Underscore, v[i + 1] = Underscore PROVE FALSE
      BY <1>1, <2>2 DEF NoTwins
    <3>1. CASE i = Len(u)
      <4>1. u # <<>> /\ n # 0 /\ u[Len(u)] = s[n]
        BY <1>1, <3>1 DEF KeptWell
      <4>2. s[n] = Underscore /\ s[n + 1] = Underscore
        BY <2>2, <3>1, <4>1
      <4> QED
        BY <1>3, <4>1, <4>2
    <3>2. CASE i # Len(u)
      <4>1. i \in 1 .. Len(u) - 1 /\ i + 1 \in 1 .. Len(u)
        BY <1>1, <3>2
      <4>2. u[i] = Underscore /\ u[i + 1] = Underscore
        BY <2>2, <4>1
      <4> QED
        BY <4>1, <4>2 DEF KeptWell, NoTwins
    <3> QED
      BY <3>1, <3>2
  <2>4. NoTwins(s) => Len(v) = n + 1 /\ \A i \in 1 .. n + 1 : v[i] = s[i]
    BY <1>1, <2>2 DEF KeptWell
  <2>5. v[Len(v)] = s[n + 1]
    BY <2>2
  <2> QED
    BY <1>1, <2>2, <2>3, <2>4, <2>5 DEF KeptWell, v
<1> QED
  BY <1>2, <1>3

\* Underscores collapse to a sequence without two in a row, and one without stays what it is.
LEMMA CollapseLeavesNoTwins ==
  ASSUME NEW s \in Seq(CleanChar)
  PROVE  /\ CollapseUnderscores(s) \in Seq(CleanChar)
         /\ NoTwins(CollapseUnderscores(s))
         /\ s # <<>> => CollapseUnderscores(s) # <<>>
         /\ NoTwins(s) => CollapseUnderscores(s) = s
<1> DEFINE Fits == {n \in Nat : n <= Len(s) => KeptWell(s, KeptUpTo(s)[n], n)}
<1>0. Len(s) \in Nat
  BY LenProperties
<1>1. 0 \in Fits
  <2>1. KeptUpTo(s)[0] = <<>>
    BY <1>0, KeptUpToIs
  <2>2. KeptWell(s, <<>>, 0)
    BY DEF KeptWell, NoTwins
  <2> QED
    BY <2>1, <2>2
<1>2. ASSUME NEW n \in Nat, n \in Fits PROVE n + 1 \in Fits
  <2> SUFFICES ASSUME n + 1 <= Len(s) PROVE KeptWell(s, KeptUpTo(s)[n + 1], n + 1)
    OBVIOUS
  <2>1. KeptWell(s, KeptUpTo(s)[n], n)
    BY <1>0, <1>2
  <2>2. n + 1 \in 0 .. Len(s) /\ n + 1 \in 1 .. Len(s) /\ n + 1 # 0 /\ (n + 1) - 1 = n
    BY <1>0
  <2>3. KeptUpTo(s)[n + 1] = AddKept(s, KeptUpTo(s)[n], n + 1)
    BY <2>2, KeptUpToIs
  <2> QED
    BY <1>0, <2>1, <2>2, <2>3, AddKeptKeeps
<1>3. KeptWell(s, CollapseUnderscores(s), Len(s))
  <2> HIDE DEF Fits
  <2>1. Nat \subseteq Fits
    BY <1>1, <1>2, SetInduction
  <2> QED
    BY <1>0, <2>1 DEF Fits, CollapseUnderscores
<1>4. NoTwins(s) => CollapseUnderscores(s) = s
  BY <1>3, SeqEqual DEF KeptWell
<1>5. s # <<>> => Len(s) # 0
  BY EmptySeq
<1> QED
  BY <1>3, <1>4, <1>5 DEF KeptWell

\* What is no letter of lower case, digit or underscore becomes one.
LEMMA LoweredIsClean ==
  ASSUME NEW name \in Seq(Char)
  PROVE  [i \in DOMAIN name |-> AlnumOrUnderscore(ToLower(name[i]))] \in Seq(CleanChar)
<1>1. Len(name) \in Nat /\ DOMAIN name = 1 .. Len(name)
  BY LenProperties
<1>2. \A i \in 1 .. Len(name) : name[i] \in Char
  BY ElementOfSeq
<1>3. \A c \in Char : AlnumOrUnderscore(ToLower(c)) \in CleanChar
  BY DEF AlnumOrUnderscore, ToLower, Char, CleanChar
<1>4. [i \in 1 .. Len(name) |-> AlnumOrUnderscore(ToLower(name[i]))] \in [1 .. Len(name) -> CleanChar]
  BY <1>2, <1>3
<1> QED
  BY <1>1, <1>4, IsASeq

\* An underscore at the beginning goes, and with it the only one there.
LEMMA DropFirstDrops ==
  ASSUME NEW s \in Seq(CleanChar), NoTwins(s)
  PROVE  /\ DropFirst(s) \in Seq(CleanChar) /\ NoTwins(DropFirst(s))
         /\ DropFirst(s) # <<>> => DropFirst(s)[1] # Underscore
         /\ s # <<>> /\ s[1] # Underscore => DropFirst(s) = s
<1>0. Len(s) \in Nat
  BY LenProperties
<1>1. CASE s # <<>> /\ s[1] = Underscore
  <2> DEFINE t == Tail(s)
  <2>1. DropFirst(s) = t
    BY <1>1 DEF DropFirst
  <2>2. /\ t \in Seq(CleanChar) /\ Len(t) = Len(s) - 1 /\ Len(s) > 0
        /\ \A i \in 1 .. Len(t) : t[i] = s[i + 1]
    BY <1>0, <1>1, HeadTailProperties, EmptySeq
  <2> HIDE DEF t
  <2>3. NoTwins(t)
    <3> SUFFICES ASSUME NEW i \in 1 .. Len(t) - 1, t[i] = Underscore, t[i + 1] = Underscore PROVE FALSE
      BY DEF NoTwins
    <3>1. i + 1 \in 1 .. Len(s) - 1 /\ i \in 1 .. Len(t) /\ i + 1 \in 1 .. Len(t)
      BY <1>0, <2>2
    <3>2. s[i + 1] = Underscore /\ s[(i + 1) + 1] = Underscore
      BY <2>2, <3>1
    <3> QED
      BY <3>1, <3>2 DEF NoTwins
  <2>4. t # <<>> => t[1] # Underscore
    <3> SUFFICES ASSUME t # <<>> PROVE t[1] # Underscore
      OBVIOUS
    <3>1. 1 \in 1 .. Len(t) /\ 1 \in 1 .. Len(s) - 1
      BY <1>0, <2>2, EmptySeq
    <3>2. t[1] = s[1 + 1]
      BY <2>2, <3>1
    <3> QED
      BY <1>1, <3>1, <3>2 DEF NoTwins
  <2> QED
    BY <1>1, <2>1, <2>2, <2>3, <2>4
<1>2. CASE s = <<>>
  BY <1>2 DEF DropFirst
<1>3. CASE s # <<>> /\ s[1] # Underscore
  <2>1. Head(s) = s[1]
    BY <1>3, HeadTailProperties
  <2> QED
    BY <1>3, <2>1 DEF DropFirst
<1> QED
  BY <1>1, <1>2, <1>3

\* So does one at the end, and the beginning stays.
LEMMA DropLastDrops ==
  ASSUME NEW s \in Seq(CleanChar), NoTwins(s), s # <<>> => s[1] # Underscore
  PROVE  /\ DropLast(s) # <<>> => Clean(DropLast(s))
         /\ Clean(s) => DropLast(s) = s
<1>0. Len(s) \in Nat
  BY LenProperties
<1>1. CASE s # <<>> /\ s[Len(s)] = Underscore
  <2> DEFINE t == SubSeq(s, 1, Len(s) - 1)
  <2>1. DropLast(s) = t
    BY <1>1 DEF DropLast, Last, Front
  <2>2. Len(s) > 0
    BY <1>0, <1>1, EmptySeq
  <2>3. /\ t \in Seq(CleanChar) /\ Len(t) = Len(s) - 1
        /\ \A i \in 1 .. Len(t) : t[i] = s[i]
    <3> DEFINE m == Len(s) - 1
    <3>1. m \in Nat /\ m \in Int /\ 1 \in Int /\ \A i \in 1 .. m : i \in 1 .. Len(s)
      BY <1>0, <2>2
    <3>2. \A i \in 1 .. m : s[i] \in CleanChar
      BY <3>1, ElementOfSeq
    <3> HIDE DEF m
    <3>3. /\ SubSeq(s, 1, m) \in Seq(CleanChar)
          /\ Len(SubSeq(s, 1, m)) = IF 1 <= m THEN m - 1 + 1 ELSE 0
          /\ \A i \in 1 .. m - 1 + 1 : SubSeq(s, 1, m)[i] = s[1 + i - 1]
      BY <3>1, <3>2, SubSeqProperties
    <3>4. m - 1 + 1 = m /\ \A i \in 1 .. m : 1 + i - 1 = i
      BY <3>1
    <3>5. /\ SubSeq(s, 1, m) \in Seq(CleanChar) /\ Len(SubSeq(s, 1, m)) = m
          /\ \A i \in 1 .. m : SubSeq(s, 1, m)[i] = s[i]
      BY <3>1, <3>3, <3>4
    <3> QED
      BY <3>5 DEF m
  <2> HIDE DEF t
  <2>4. NoTwins(t)
    BY <1>0, <2>2, <2>3 DEF NoTwins
  <2>5. t # <<>> => t[1] # Underscore /\ t[Len(t)] # Underscore
    <3> SUFFICES ASSUME t # <<>> PROVE t[1] # Underscore /\ t[Len(t)] # Underscore
      OBVIOUS
    <3>1. Len(t) \in 1 .. Len(s) - 1 /\ 1 \in 1 .. Len(t) /\ Len(t) + 1 = Len(s)
      BY <1>0, <2>2, <2>3, EmptySeq
    <3>2. t[1] = s[1] /\ t[Len(t)] = s[Len(t)] /\ s[Len(t) + 1] = Underscore
      BY <1>1, <2>3, <3>1
    <3>3. s[Len(t)] # Underscore
      BY <3>1, <3>2 DEF NoTwins
    <3> QED
      BY <1>1, <3>2, <3>3
  <2>6. t # <<>> => Clean(t)
    BY <2>3, <2>4, <2>5 DEF Clean
  <2>7. ~Clean(s)
    BY <1>1 DEF Clean
  <2> QED
    BY <2>1, <2>6, <2>7
<1>2. CASE s = <<>>
  BY <1>2 DEF DropLast, Clean
<1>3. CASE s # <<>> /\ s[Len(s)] # Underscore
  <2>1. DropLast(s) = s
    BY <1>3 DEF DropLast, Last
  <2>2. Clean(s)
    BY <1>3 DEF Clean
  <2> QED
    BY <2>1, <2>2
<1> QED
  BY <1>1, <1>2, <1>3

\* A sanitized name is clean.
LEMMA SanitizedIsClean ==
  ASSUME NEW name \in Seq(Char), NEW token \in SanitizeAgentName(name)
  PROVE  Clean(token)
<1> DEFINE clean == [i \in DOMAIN name |-> AlnumOrUnderscore(ToLower(name[i]))]
           once == CollapseUnderscores(clean)
           begun == DropFirst(once)
<1>1. clean \in Seq(CleanChar)
  BY LoweredIsClean
<1>2. token = DropLast(begun) /\ token # <<>>
  BY Zenon DEF SanitizeAgentName
<1> HIDE DEF clean
<1>3. once \in Seq(CleanChar) /\ NoTwins(once)
  BY <1>1, CollapseLeavesNoTwins
<1> HIDE DEF once
<1>4. begun \in Seq(CleanChar) /\ NoTwins(begun) /\ (begun # <<>> => begun[1] # Underscore)
  BY <1>3, DropFirstDrops
<1> HIDE DEF begun
<1> QED
  BY <1>2, <1>4, DropLastDrops

\* A clean name is its own sanitized name.
LEMMA CleanStays ==
  ASSUME NEW token, Clean(token)
  PROVE  SanitizeAgentName(token) = {token}
<1> DEFINE clean == [i \in DOMAIN token |-> AlnumOrUnderscore(ToLower(token[i]))]
<1>1. /\ token \in Seq(CleanChar) /\ token # <<>> /\ NoTwins(token)
      /\ token[1] # Underscore /\ token[Len(token)] # Underscore
  BY DEF Clean
<1>2. Underscore # "A" /\ Underscore # "-"
  BY Zenon DEF Underscore
<1>3. \A c \in CleanChar : AlnumOrUnderscore(ToLower(c)) = c
  BY <1>2 DEF AlnumOrUnderscore, ToLower, CleanChar
<1>4. clean = token
  <2>1. Len(token) \in Nat /\ DOMAIN token = 1 .. Len(token) /\ token = [i \in 1 .. Len(token) |-> token[i]]
    BY <1>1, LenProperties
  <2>2. \A i \in 1 .. Len(token) : token[i] \in CleanChar
    BY <1>1, ElementOfSeq
  <2> QED
    BY <1>3, <2>1, <2>2
<1>5. CollapseUnderscores(token) = token
  BY <1>1, CollapseLeavesNoTwins
<1>6. DropFirst(token) = token
  BY <1>1, DropFirstDrops
<1>7. DropLast(token) = token
  BY <1>1, DropLastDrops
<1> HIDE DEF clean
<1>8. DropLast(DropFirst(CollapseUnderscores(clean))) = token
  BY <1>4, <1>5, <1>6, <1>7
<1> QED
  BY <1>1, <1>8, Zenon DEF SanitizeAgentName, clean

\* Sanitizing a name a second time changes nothing, whatever the name: who takes the
\* name of an agent from a topic builds the same topics from it.
THEOREM SanitizedNamesStay ==
  \A name \in Seq(Char) : \A token \in SanitizeAgentName(name) : SanitizeAgentName(token) = {token}
  BY SanitizedIsClean, CleanStays

-----------------------------------------------------------------------------
\* What the builder holds.

\* What may be between two slashes of a name.
Token == Seq(Word)

Builder == [set : SUBSET Segment, value : [Segment -> Seq(Token)], resource : Resource \cup {None}]

\* The name of the agent, once set, is a sanitized one.
AgentIsClean ==
  AgentSegment \in builder.set =>
    \E token \in Token : Clean(token) /\ builder.value[AgentSegment] = <<token>>

IInv == builder \in Builder /\ TypeOK /\ AgentIsClean

\* SetAgent gives such a name.
LEMMA AgentIsGivenClean ==
  ASSUME NEW name \in AgentName, NEW b, NEW c \in SetAgent(b, name)
  PROVE  \E token \in Token : Clean(token) /\ c = With(b, AgentSegment, <<token>>)
<1> DEFINE given == IF name = <<>> THEN GetAgentName(Variable, HostName) ELSE name
<1>1. given \in Seq(Char)
  BY BuilderAssumption DEF GetAgentName
<1>2. PICK token \in SanitizeAgentName(given) : c = With(b, AgentSegment, <<token>>)
  BY DEF SetAgent
<1> HIDE DEF given
<1>3. Clean(token)
  BY <1>1, <1>2, SanitizedIsClean
<1>4. CleanChar \subseteq Word
  BY DEF CleanChar, Word, Char
<1>5. token \in Token
  BY <1>3, <1>4, SeqMonotonic DEF Clean, Token
<1> QED
  BY <1>2, <1>3, <1>5

\* A segment that is given a value keeps the two records of what is set in agreement.
LEMMA WithKeeps ==
  ASSUME IInv, NEW s \in Segment \ {ResourceSegment}, NEW value \in Seq(Token), value # <<>>,
         builder' = With(builder, s, value),
         s = AgentSegment => \E token \in Token : Clean(token) /\ value = <<token>>
  PROVE  IInv'
<1>1. /\ builder'.set = builder.set \cup {s}
      /\ builder'.value = [builder.value EXCEPT ![s] = value]
      /\ builder'.resource = builder.resource
      /\ builder' \in Builder
  BY DEF With, IInv, Builder
<1>2. TypeOK'
  BY <1>1 DEF IInv, Builder, TypeOK
<1>3. AgentIsClean'
  BY <1>1 DEF IInv, Builder, AgentIsClean
<1> QED
  BY <1>1, <1>2, <1>3 DEF IInv

LEMMA PairsAreSequences ==
  ASSUME NEW S, NEW a \in S, NEW b \in S
  PROVE  <<a, b>> \in Seq(S)
  OBVIOUS

\* An enumerator, joined to a name or not, is a name.
LEMMA JoinedIsName ==
  ASSUME NEW word \in Word, NEW name \in Name
  PROVE  Joined(word, name) \in Seq(Token) \ {<<>>}
<1>1. <<word>> \in Token /\ name \in Seq(Seq(Word))
  BY BuilderAssumption DEF Token
<1>2. CASE name = <<>>
  BY <1>1, <1>2 DEF Joined
<1>3. CASE name # <<>>
  <2>1. Head(name) \in Seq(Word) /\ Tail(name) \in Seq(Seq(Word))
    BY <1>1, <1>3, HeadTailProperties
  <2>2. Underscore \in Word
    BY DEF Word, Char
  <2>3. <<word, Underscore>> \in Seq(Word)
    BY <2>2, PairsAreSequences
  <2> DEFINE token == <<word, Underscore>> \o Head(name)
  <2>4. token \in Seq(Word)
    BY <2>1, <2>3, ConcatProperties
  <2> HIDE DEF token
  <2>5. <<token>> \o Tail(name) \in Seq(Seq(Word)) /\ <<token>> \o Tail(name) # <<>>
    BY <2>1, <2>4
  <2>6. Joined(word, name) = <<token>> \o Tail(name)
    BY <1>3 DEF Joined, token
  <2>7. Seq(Word) \subseteq Token
    BY DEF Token
  <2>8. Joined(word, name) \in Seq(Token)
    BY <2>5, <2>6, <2>7, SeqMonotonic
  <2> QED
    BY <2>5, <2>6, <2>8
<1> QED
  BY <1>2, <1>3

\* A name that clients give is one.
LEMMA GivenIsName == Name \subseteq Seq(Token)
<1>1. Seq(Word) \subseteq Token
  BY DEF Token
<1> QED
  BY <1>1, BuilderAssumption, SeqMonotonic

\* set_segment of a component, a stream or a resource.
LEMMA SetSegmentIsWith ==
  ASSUME NEW s \in Segment, NEW word \in Word, NEW name \in Name, NEW b,
         NEW c \in SetSegment(b, s, word, name)
  PROVE  \E value \in Seq(Token) : value # <<>> /\ c = With(b, s, value)
<1>1. CASE word = "custom"
  BY <1>1, GivenIsName DEF SetSegment
<1>2. CASE word # "custom"
  BY <1>2, JoinedIsName DEF SetSegment
<1> QED
  BY <1>1, <1>2

LEMMA InvariantStep == IInv /\ [Next]_builder => IInv'
<1> SUFFICES ASSUME IInv, [Next]_builder PROVE IInv'
  OBVIOUS
<1>0. ScopeSegment \in Segment /\ AgentSegment \in Segment /\ ComponentSegment \in Segment
      /\ StreamSegment \in Segment /\ ResourceSegment = 5
      /\ ResourceSegment \notin {ScopeSegment, AgentSegment, ComponentSegment, StreamSegment}
      /\ AgentSegment \notin {ScopeSegment, ComponentSegment, StreamSegment, ResourceSegment}
  BY DEF Segment, ScopeSegment, AgentSegment, ComponentSegment, StreamSegment, ResourceSegment
<1>1. CASE CallScope
  <2>1. PICK s \in Scope : builder' = With(builder, ScopeSegment, <<<<s>>>>)
    BY <1>1 DEF CallScope
  <2>2. <<s>> \in Token
    BY DEF Word, Token
  <2>3. <<<<s>>>> \in Seq(Token) /\ <<<<s>>>> # <<>>
    BY <2>2
  <2> QED
    BY <1>0, <2>1, <2>3, WithKeeps
<1>2. CASE CallAgent
  <2>1. PICK name \in AgentName : builder' \in SetAgent(builder, name)
    BY <1>2 DEF CallAgent
  <2>2. PICK token \in Token : Clean(token) /\ builder' = With(builder, AgentSegment, <<token>>)
    BY <2>1, AgentIsGivenClean
  <2>3. <<token>> \in Seq(Token) /\ <<token>> # <<>>
    OBVIOUS
  <2> QED
    BY <1>0, <2>2, <2>3, WithKeeps
<1>3. CASE CallComponent
  <2>1. PICK c \in Component, n \in Name : builder' \in SetSegment(builder, ComponentSegment, c, n)
    BY <1>3 DEF CallComponent
  <2>2. c \in Word
    BY DEF Word
  <2>3. PICK value \in Seq(Token) : value # <<>> /\ builder' = With(builder, ComponentSegment, value)
    BY <1>0, <2>1, <2>2, SetSegmentIsWith
  <2> QED
    BY <1>0, <2>3, WithKeeps
<1>4. CASE CallStream
  <2>1. PICK c \in Stream, n \in Name : builder' \in SetSegment(builder, StreamSegment, c, n)
    BY <1>4 DEF CallStream
  <2>2. c \in Word
    BY DEF Word
  <2>3. PICK value \in Seq(Token) : value # <<>> /\ builder' = With(builder, StreamSegment, value)
    BY <1>0, <2>1, <2>2, SetSegmentIsWith
  <2> QED
    BY <1>0, <2>3, WithKeeps
<1>5. CASE CallResource
  <2>1. PICK r \in Resource, n \in Name : builder' \in SetResource(builder, r, n)
    BY <1>5 DEF CallResource
  <2>2. PICK c \in SetSegment(builder, ResourceSegment, r, n) : builder' = [c EXCEPT !.resource = r]
    BY <2>1 DEF SetResource
  <2>3. r \in Word /\ r # None /\ ResourceSegment \in Segment
    BY BuilderAssumption DEF Word, Segment, ResourceSegment
  <2>4. PICK value \in Seq(Token) : value # <<>> /\ c = With(builder, ResourceSegment, value)
    BY <2>2, <2>3, SetSegmentIsWith
  <2>5. /\ builder' \in Builder
        /\ builder'.set = builder.set \cup {ResourceSegment}
        /\ builder'.value = [builder.value EXCEPT ![ResourceSegment] = value]
        /\ builder'.resource = r
    BY <2>2, <2>3, <2>4 DEF With, IInv, Builder
  <2>6. TypeOK'
    BY <2>3, <2>4, <2>5 DEF IInv, Builder, TypeOK
  <2>7. AgentIsClean'
    BY <1>0, <2>5 DEF IInv, Builder, AgentIsClean
  <2> QED
    BY <2>5, <2>6, <2>7 DEF IInv
<1>6. CASE CallReset
  <2>1. PICK segments \in SUBSET Segment : builder' = Reset(builder, segments)
    BY <1>6 DEF CallReset
  <2>2. <<>> \in Seq(Token)
    OBVIOUS
  <2>3. /\ builder' \in Builder
        /\ builder'.set = builder.set \ segments
        /\ builder'.value = [s \in Segment |-> IF s \in segments THEN <<>> ELSE builder.value[s]]
        /\ builder'.resource = IF ResourceSegment \in segments THEN None ELSE builder.resource
    BY <2>1, <2>2 DEF Reset, IInv, Builder
  <2>4. TypeOK'
    BY <2>3 DEF IInv, Builder, TypeOK
  <2>5. AgentIsClean'
    BY <1>0, <2>3 DEF IInv, AgentIsClean
  <2> QED
    BY <2>3, <2>4, <2>5 DEF IInv
<1>7. CASE UNCHANGED builder
  BY <1>7 DEF IInv, TypeOK, AgentIsClean
<1> QED
  BY <1>1, <1>2, <1>3, <1>4, <1>5, <1>6, <1>7 DEF Next

LEMMA Invariance == Spec => []IInv
<1>1. Init => IInv
  <2> SUFFICES ASSUME Init PROVE IInv
    OBVIOUS
  <2>1. <<>> \in Seq(Token)
    OBVIOUS
  <2>2. builder = Empty
    BY DEF Init
  <2> QED
    BY <2>1, <2>2, BuilderAssumption DEF Empty, IInv, Builder, TypeOK, AgentIsClean
<1> QED
  BY <1>1, InvariantStep, PTL DEF Spec

\* The two records of what is set agree after any calls.
THEOREM TypeCorrect == Spec => []TypeOK
BY Invariance, PTL DEF IInv

\* The name of the agent that goes into topics is its own sanitized name and has no
\* underscore at its ends, whatever name was given and whichever calls were made.
THEOREM AgentNamesStayAlways == Spec => []AgentNamesStay
<1>1. IInv => AgentNamesStay
  <2> SUFFICES ASSUME IInv, AgentSegment \in builder.set
               PROVE  LET token == Head(builder.value[AgentSegment])
                      IN SanitizeAgentName(token) = {token} /\ Underscore \notin {Head(token), Last(token)}
    BY DEF AgentNamesStay
  <2>1. PICK token \in Token : Clean(token) /\ builder.value[AgentSegment] = <<token>>
    BY DEF IInv, AgentIsClean
  <2>2. Head(builder.value[AgentSegment]) = token
    BY <2>1
  <2>3. SanitizeAgentName(token) = {token}
    BY <2>1, CleanStays
  <2>4. Underscore \notin {Head(token), Last(token)}
    <3>1. Head(token) = token[1] /\ token[1] # Underscore /\ token[Len(token)] # Underscore
      BY <2>1, HeadTailProperties DEF Clean
    <3> QED
      BY <3>1 DEF Last
  <2> QED
    BY <2>2, <2>3, <2>4
<1> QED
  BY <1>1, Invariance, PTL

-----------------------------------------------------------------------------
\* build, in parts.

Present(b, begin, end) == {s \in begin .. end : b.value[s] # <<>>}
Part(b, begin, end, s) == IF s \in begin .. end THEN b.value[s] ELSE <<>>
Whole(b, begin, end) ==
  Part(b, begin, end, 1) \o Part(b, begin, end, 2) \o Part(b, begin, end, 3)
    \o Part(b, begin, end, 4) \o Part(b, begin, end, 5)
Complete(b, begin, end) ==
  /\ (IsRequired \cap (begin .. end)) \cup {begin, end} \subseteq Present(b, begin, end)
  /\ \A s \in Present(b, begin, end) : ~LacksRequired(b, begin .. end, s)
Accepted(b, begin, end) ==
  /\ ~(begin > end)
  /\ Complete(b, begin, end)
  /\ ~Misplaced(b, begin, Present(b, begin, end))
  /\ ~Refused(begin, Whole(b, begin, end))

LEMMA BuildIsWhole ==
  ASSUME NEW b, NEW begin, NEW end
  PROVE  Build(b, begin, end) = IF Accepted(b, begin, end) THEN {Whole(b, begin, end)} ELSE {}
<1> DEFINE refused ==
      \/ begin > end
      \/ ~((IsRequired \cap (begin .. end)) \cup {begin, end} \subseteq Present(b, begin, end))
      \/ \E s \in Present(b, begin, end) : LacksRequired(b, begin .. end, s)
      \/ Misplaced(b, begin, Present(b, begin, end))
      \/ Refused(begin, Whole(b, begin, end))
<1>1. Build(b, begin, end) = IF refused THEN {} ELSE {Whole(b, begin, end)}
  BY Zenon DEF Build, Present, Whole, Part
<1>2. refused <=> ~Accepted(b, begin, end)
  BY Zenon DEF Accepted, Complete
<1> QED
  BY <1>1, <1>2, Zenon

\* Part of a name is built of the segments of its range alone.
LEMMA ResetLeavesBuild ==
  ASSUME NEW b \in Builder, NEW begin \in Segment, NEW end \in Segment
  PROVE  Build(b, begin, end) = Build(Reset(b, Segment \ (begin .. end)), begin, end)
<1> DEFINE c == Reset(b, Segment \ (begin .. end))
<1>1. /\ c.set = b.set \cap (begin .. end)
      /\ \A s \in begin .. end : c.value[s] = b.value[s]
      /\ ResourceSegment \in begin .. end => c.resource = b.resource
  BY DEF Reset, Builder, Segment, ResourceSegment
<1> HIDE DEF c
<1>2. Present(c, begin, end) = Present(b, begin, end)
  BY <1>1 DEF Present
<1>3. /\ Part(c, begin, end, 1) = Part(b, begin, end, 1)
      /\ Part(c, begin, end, 2) = Part(b, begin, end, 2)
      /\ Part(c, begin, end, 3) = Part(b, begin, end, 3)
      /\ Part(c, begin, end, 4) = Part(b, begin, end, 4)
      /\ Part(c, begin, end, 5) = Part(b, begin, end, 5)
  BY <1>1 DEF Part
<1>4. Whole(c, begin, end) = Whole(b, begin, end)
  BY <1>3 DEF Whole
<1>5. \A s : LacksRequired(c, begin .. end, s) <=> LacksRequired(b, begin .. end, s)
  BY <1>1 DEF LacksRequired
<1>6. Misplaced(c, begin, Present(b, begin, end)) <=> Misplaced(b, begin, Present(b, begin, end))
  BY <1>1 DEF Misplaced, Present
<1>7. Accepted(c, begin, end) <=> Accepted(b, begin, end)
  BY <1>2, <1>4, <1>5, <1>6 DEF Accepted, Complete
<1>8. Build(c, begin, end) = Build(b, begin, end)
  BY <1>4, <1>7, BuildIsWhole
<1> QED
  BY <1>8 DEF c

\* Part of a name depends on the segments of its range alone, whatever else the builder
\* was told, for all names and enumerators.
THEOREM PartsStandAloneAlways == Spec => []PartsStandAlone
<1>1. IInv => PartsStandAlone
  BY ResetLeavesBuild DEF IInv, PartsStandAlone
<1> QED
  BY <1>1, Invariance, PTL

-----------------------------------------------------------------------------
\* Names that are joined of parts.

C(s, t) == s \o t

LEMMA Associative == \A S : \A s, t, u \in Seq(S) : C(C(s, t), u) = C(s, C(t, u))
BY ConcatAssociative DEF C

\* A sequence of five parts, cut between any two of them.
LEMMA Cut ==
  ASSUME NEW S, NEW v \in [1 .. 5 -> Seq(S)]
  PROVE  LET whole == v[1] \o v[2] \o v[3] \o v[4] \o v[5]
         IN /\ whole = (v[1] \o <<>> \o <<>> \o <<>> \o <<>>) \o (<<>> \o v[2] \o v[3] \o v[4] \o v[5])
            /\ whole = (v[1] \o v[2] \o <<>> \o <<>> \o <<>>) \o (<<>> \o <<>> \o v[3] \o v[4] \o v[5])
            /\ whole = (v[1] \o v[2] \o v[3] \o <<>> \o <<>>) \o (<<>> \o <<>> \o <<>> \o v[4] \o v[5])
            /\ whole = (v[1] \o v[2] \o v[3] \o v[4] \o <<>>) \o (<<>> \o <<>> \o <<>> \o <<>> \o v[5])
<1> DEFINE T == Seq(S)
           none == <<>>
<1>1. none \in T /\ \A s \in T : C(s, none) = s /\ C(none, s) = s
  BY ConcatEmptySeq DEF C
<1>2. \A s, t \in T : C(s, t) \in T
  BY ConcatProperties DEF C
<1>3. \A s, t, u \in T : C(C(s, t), u) = C(s, C(t, u))
  BY Associative DEF T
<1> DEFINE a == v[1]
           b == v[2]
           c == v[3]
           d == v[4]
           e == v[5]
<1>4. a \in T /\ b \in T /\ c \in T /\ d \in T /\ e \in T
  OBVIOUS
<1> HIDE DEF T, none, a, b, c, d, e
<1> DEFINE whole == C(C(C(C(a, b), c), d), e)
<1>5. C(none, none) = none
  BY <1>1
<1>6. whole = C(C(C(C(C(a, none), none), none), none), C(C(C(C(none, b), c), d), e))
  <2>1. C(none, b) = b /\ C(a, none) = a
    BY <1>1, <1>4
  <2>2. C(b, c) \in T /\ C(C(b, c), d) \in T
    BY <1>2, <1>4
  <2>3. /\ C(C(a, b), c) = C(a, C(b, c))
        /\ C(C(a, C(b, c)), d) = C(a, C(C(b, c), d))
        /\ C(C(a, C(C(b, c), d)), e) = C(a, C(C(C(b, c), d), e))
    BY <1>3, <1>4, <2>2
  <2>4. whole = C(a, C(C(C(b, c), d), e))
    BY <2>3
  <2> QED
    BY <2>1, <2>4
<1>7. whole = C(C(C(C(C(a, b), none), none), none), C(C(C(C(none, none), c), d), e))
  <2>1. C(none, c) = c /\ C(C(a, b), none) = C(a, b)
    BY <1>1, <1>2, <1>4
  <2>2. C(a, b) \in T /\ C(c, d) \in T
    BY <1>2, <1>4
  <2>3. /\ C(C(C(a, b), c), d) = C(C(a, b), C(c, d))
        /\ C(C(C(a, b), C(c, d)), e) = C(C(a, b), C(C(c, d), e))
    BY <1>3, <1>4, <2>2
  <2> QED
    BY <1>5, <2>1, <2>3
<1>8. whole = C(C(C(C(C(a, b), c), none), none), C(C(C(C(none, none), none), d), e))
  <2>1. C(none, d) = d /\ C(C(C(a, b), c), none) = C(C(a, b), c)
    BY <1>1, <1>2, <1>4
  <2>2. C(C(a, b), c) \in T
    BY <1>2, <1>4
  <2>3. whole = C(C(C(a, b), c), C(d, e))
    BY <1>3, <1>4, <2>2
  <2> QED
    BY <1>5, <2>1, <2>3
<1>9. whole = C(C(C(C(C(a, b), c), d), none), C(C(C(C(none, none), none), none), e))
  <2>1. C(none, e) = e /\ C(C(C(C(a, b), c), d), none) = C(C(C(a, b), c), d)
    BY <1>1, <1>2, <1>4
  <2> QED
    BY <1>5, <2>1
<1> QED
  BY <1>6, <1>7, <1>8, <1>9, Zenon DEF none, C, a, b, c, d, e

\* A valid name consists of valid names.
LEMMA ValidParts ==
  ASSUME NEW S, NEW head \in Seq(S), NEW tail \in Seq(S), ValidName(head \o tail)
  PROVE  ValidName(head) /\ ValidName(tail)
<1>1. \A i \in DOMAIN head : i \in DOMAIN (head \o tail) /\ (head \o tail)[i] = head[i]
  BY ConcatProperties
<1>2. \A i \in DOMAIN tail :
        Len(head) + i \in DOMAIN (head \o tail) /\ (head \o tail)[Len(head) + i] = tail[i]
  BY ConcatProperties
<1> QED
  BY <1>1, <1>2 DEF ValidName

\* The segment before the resource is the same in all parts that have one.
LEMMA SameLastBefore ==
  ASSUME NEW present \in SUBSET Segment, NEW t \in present, t # ResourceSegment
  PROVE  LastBefore(present \cap (t .. ResourceSegment), ResourceSegment) =
         LastBefore(present, ResourceSegment)
<1> DEFINE Is(set, x) ==
      /\ x \in set /\ x < ResourceSegment
      /\ \A u \in set : u < ResourceSegment => u <= x
<1>1. present \subseteq {1, 2, 3, 4, 5} /\ ResourceSegment = 5 /\ t \in {1, 2, 3, 4}
  BY DEF Segment, ResourceSegment
<1>2. PICK x : Is(present, x)
  <2>1. CASE 4 \in present
    BY <1>1, <2>1
  <2>2. CASE 4 \notin present /\ 3 \in present
    BY <1>1, <2>2
  <2>3. CASE 4 \notin present /\ 3 \notin present /\ 2 \in present
    BY <1>1, <2>3
  <2>4. CASE 4 \notin present /\ 3 \notin present /\ 2 \notin present
    BY <1>1, <2>4
  <2> QED
    BY <2>1, <2>2, <2>3, <2>4
<1> DEFINE later == present \cap (t .. ResourceSegment)
<1>3. Is(later, x)
  BY <1>1, <1>2
<1>4. \A y : Is(present, y) => y = x
  BY <1>1, <1>2
<1>5. \A y : Is(later, y) => y = x
  BY <1>1, <1>3
<1>6. LastBefore(present, ResourceSegment) = x
  BY <1>2, <1>4 DEF LastBefore
<1>7. LastBefore(later, ResourceSegment) = x
  <2> HIDE DEF later
  <2> QED
    BY <1>3, <1>5 DEF LastBefore
<1> QED
  BY <1>6, <1>7

\* A name that is accepted is so in two parts.
LEMMA PartsAreAccepted ==
  ASSUME IInv, Accepted(builder, ScopeSegment, ResourceSegment),
         NEW s \in builder.set, NEW t \in builder.set,
         s < t, (s + 1 .. t - 1) \cap builder.set = {}
  PROVE  /\ Whole(builder, ScopeSegment, ResourceSegment) =
              Whole(builder, ScopeSegment, s) \o Whole(builder, t, ResourceSegment)
         /\ Accepted(builder, ScopeSegment, s)
         /\ Accepted(builder, t, ResourceSegment)
<1> DEFINE v == builder.value
<1>1. /\ v[1] \in Seq(Token) /\ v[2] \in Seq(Token) /\ v[3] \in Seq(Token)
      /\ v[4] \in Seq(Token) /\ v[5] \in Seq(Token)
      /\ builder.set \subseteq Segment
      /\ \A x \in Segment : x \in builder.set <=> v[x] # <<>>
  BY DEF IInv, Builder, Segment, TypeOK
<1>2. ScopeSegment = 1 /\ ResourceSegment = 5 /\ Segment = 1 .. 5 /\ s \in 1 .. 4 /\ t \in 2 .. 5
  BY <1>1 DEF ScopeSegment, ResourceSegment, Segment
<1>3. \A x \in 1 .. 5 : Part(builder, t, 5, x) = IF x > s THEN v[x] ELSE <<>>
  <2> SUFFICES ASSUME NEW x \in 1 .. 5
               PROVE  Part(builder, t, 5, x) = IF x > s THEN v[x] ELSE <<>>
    OBVIOUS
  <2>1. CASE x >= t
    BY <1>2, <2>1 DEF Part
  <2>2. CASE x <= s
    BY <1>2, <2>2 DEF Part
  <2>3. CASE s < x /\ x < t
    <3>1. v[x] = <<>>
      <4>1. x \in s + 1 .. t - 1 /\ x \in Segment
        BY <1>2, <2>3
      <4> QED
        BY <1>1, <4>1
    <3> QED
      BY <1>2, <2>3, <3>1 DEF Part
  <2> QED
    BY <1>2, <2>1, <2>2, <2>3
<1>4. \A x \in 1 .. 5 : Part(builder, 1, s, x) = IF x > s THEN <<>> ELSE v[x]
  BY <1>1, <1>2 DEF Part
<1>5. Whole(builder, 1, 5) = v[1] \o v[2] \o v[3] \o v[4] \o v[5]
  <2>1. /\ Part(builder, 1, 5, 1) = v[1] /\ Part(builder, 1, 5, 2) = v[2]
        /\ Part(builder, 1, 5, 3) = v[3] /\ Part(builder, 1, 5, 4) = v[4]
        /\ Part(builder, 1, 5, 5) = v[5]
    BY DEF Part
  <2> QED
    BY <2>1, Zenon DEF Whole
<1> DEFINE whole == v[1] \o v[2] \o v[3] \o v[4] \o v[5]
<1>11. /\ whole = (v[1] \o <<>> \o <<>> \o <<>> \o <<>>) \o (<<>> \o v[2] \o v[3] \o v[4] \o v[5])
       /\ whole = (v[1] \o v[2] \o <<>> \o <<>> \o <<>>) \o (<<>> \o <<>> \o v[3] \o v[4] \o v[5])
       /\ whole = (v[1] \o v[2] \o v[3] \o <<>> \o <<>>) \o (<<>> \o <<>> \o <<>> \o v[4] \o v[5])
       /\ whole = (v[1] \o v[2] \o v[3] \o v[4] \o <<>>) \o (<<>> \o <<>> \o <<>> \o <<>> \o v[5])
  <2>1. v \in [1 .. 5 -> Seq(Token)]
    BY DEF IInv, Builder, Segment
  <2> HIDE DEF v
  <2> QED
    BY <2>1, Cut, Zenon
<1>6. Whole(builder, 1, 5) = Whole(builder, 1, s) \o Whole(builder, t, 5)
  <2>1. CASE s = 1
    <3>1. Whole(builder, 1, s) = v[1] \o <<>> \o <<>> \o <<>> \o <<>>
      <4>1. /\ Part(builder, 1, s, 1) = v[1] /\ Part(builder, 1, s, 2) = <<>>
            /\ Part(builder, 1, s, 3) = <<>> /\ Part(builder, 1, s, 4) = <<>>
            /\ Part(builder, 1, s, 5) = <<>>
        BY <1>4, <2>1
      <4> QED
        BY <4>1, Zenon DEF Whole
    <3>2. Whole(builder, t, 5) = <<>> \o v[2] \o v[3] \o v[4] \o v[5]
      <4>1. /\ Part(builder, t, 5, 1) = <<>> /\ Part(builder, t, 5, 2) = v[2]
            /\ Part(builder, t, 5, 3) = v[3] /\ Part(builder, t, 5, 4) = v[4]
            /\ Part(builder, t, 5, 5) = v[5]
        BY <1>3, <2>1
      <4> QED
        BY <4>1, Zenon DEF Whole
    <3> QED
      BY <1>5, <1>11, <3>1, <3>2, Zenon
  <2>2. CASE s = 2
    <3>1. Whole(builder, 1, s) = v[1] \o v[2] \o <<>> \o <<>> \o <<>>
      <4>1. /\ Part(builder, 1, s, 1) = v[1] /\ Part(builder, 1, s, 2) = v[2]
            /\ Part(builder, 1, s, 3) = <<>> /\ Part(builder, 1, s, 4) = <<>>
            /\ Part(builder, 1, s, 5) = <<>>
        BY <1>4, <2>2
      <4> QED
        BY <4>1, Zenon DEF Whole
    <3>2. Whole(builder, t, 5) = <<>> \o <<>> \o v[3] \o v[4] \o v[5]
      <4>1. /\ Part(builder, t, 5, 1) = <<>> /\ Part(builder, t, 5, 2) = <<>>
            /\ Part(builder, t, 5, 3) = v[3] /\ Part(builder, t, 5, 4) = v[4]
            /\ Part(builder, t, 5, 5) = v[5]
        BY <1>3, <2>2
      <4> QED
        BY <4>1, Zenon DEF Whole
    <3> QED
      BY <1>5, <1>11, <3>1, <3>2, Zenon
  <2>3. CASE s = 3
    <3>1. Whole(builder, 1, s) = v[1] \o v[2] \o v[3] \o <<>> \o <<>>
      <4>1. /\ Part(builder, 1, s, 1) = v[1] /\ Part(builder, 1, s, 2) = v[2]
            /\ Part(builder, 1, s, 3) = v[3] /\ Part(builder, 1, s, 4) = <<>>
            /\ Part(builder, 1, s, 5) = <<>>
        BY <1>4, <2>3
      <4> QED
        BY <4>1, Zenon DEF Whole
    <3>2. Whole(builder, t, 5) = <<>> \o <<>> \o <<>> \o v[4] \o v[5]
      <4>1. /\ Part(builder, t, 5, 1) = <<>> /\ Part(builder, t, 5, 2) = <<>>
            /\ Part(builder, t, 5, 3) = <<>> /\ Part(builder, t, 5, 4) = v[4]
            /\ Part(builder, t, 5, 5) = v[5]
        BY <1>3, <2>3
      <4> QED
        BY <4>1, Zenon DEF Whole
    <3> QED
      BY <1>5, <1>11, <3>1, <3>2, Zenon
  <2>4. CASE s = 4
    <3>1. Whole(builder, 1, s) = v[1] \o v[2] \o v[3] \o v[4] \o <<>>
      <4>1. /\ Part(builder, 1, s, 1) = v[1] /\ Part(builder, 1, s, 2) = v[2]
            /\ Part(builder, 1, s, 3) = v[3] /\ Part(builder, 1, s, 4) = v[4]
            /\ Part(builder, 1, s, 5) = <<>>
        BY <1>4, <2>4
      <4> QED
        BY <4>1, Zenon DEF Whole
    <3>2. Whole(builder, t, 5) = <<>> \o <<>> \o <<>> \o <<>> \o v[5]
      <4>1. /\ Part(builder, t, 5, 1) = <<>> /\ Part(builder, t, 5, 2) = <<>>
            /\ Part(builder, t, 5, 3) = <<>> /\ Part(builder, t, 5, 4) = <<>>
            /\ Part(builder, t, 5, 5) = v[5]
        BY <1>3, <2>4
      <4> QED
        BY <4>1, Zenon DEF Whole
    <3> QED
      BY <1>5, <1>11, <3>1, <3>2, Zenon
  <2> QED
    BY <1>2, <2>1, <2>2, <2>3, <2>4
<1>7. \A begin, end \in Segment : Present(builder, begin, end) = builder.set \cap (begin .. end)
  BY <1>1, <1>2 DEF Present
<1>8. /\ 1 \in builder.set /\ 5 \in builder.set
      /\ \A x \in builder.set : RequiredSegments[x] \cap (1 .. 5) \subseteq builder.set
      /\ ~Misplaced(builder, 1, builder.set)
      /\ ValidName(Whole(builder, 1, 5))
  <2>1. Present(builder, 1, 5) = builder.set \cap (1 .. 5)
    BY <1>2, <1>7
  <2>2. Present(builder, 1, 5) = builder.set
    BY <1>1, <1>2, <2>1
  <2> QED
    BY <1>2, <2>2 DEF Accepted, Complete, LacksRequired, Refused
<1>12. /\ ValidName(Whole(builder, 1, s))
       /\ Whole(builder, t, 5) \in Seq(Token) /\ ValidName(Whole(builder, t, 5))
  <2>1. Whole(builder, 1, s) \in Seq(Token) /\ Whole(builder, t, 5) \in Seq(Token)
    <3>1. \A x \in 1 .. 5 : Part(builder, 1, s, x) \in Seq(Token) /\ Part(builder, t, 5, x) \in Seq(Token)
      <4>1. <<>> \in Seq(Token) /\ \A x \in 1 .. 5 : v[x] \in Seq(Token)
        BY <1>2 DEF IInv, Builder
      <4> QED
        BY <1>2, <1>3, <1>4, <4>1
    <3> HIDE DEF v
    <3> QED
      BY <3>1, ConcatProperties DEF Whole
  <2> QED
    BY <1>6, <1>8, <2>1, ValidParts
<1>9. Accepted(builder, 1, s)
  <2>1. Complete(builder, 1, s)
    BY <1>2, <1>7, <1>8 DEF Complete, LacksRequired, IsRequired
  <2>2. ~Misplaced(builder, 1, Present(builder, 1, s))
    BY <1>2, <1>7 DEF Misplaced
  <2>3. ~Refused(1, Whole(builder, 1, s))
    BY <1>2, <1>12 DEF Refused
  <2> QED
    BY <1>2, <2>1, <2>2, <2>3 DEF Accepted
<1>10. Accepted(builder, t, 5)
  <2>1. Complete(builder, t, 5)
    BY <1>2, <1>7, <1>8 DEF Complete, LacksRequired, IsRequired
  <2>2. ~Misplaced(builder, t, Present(builder, t, 5))
    <3>1. CASE t = 5
      BY <1>2, <3>1 DEF Misplaced
    <3>2. CASE t # 5
      <4>1. LastBefore(builder.set \cap (t .. 5), 5) = LastBefore(builder.set, 5)
        BY <1>1, <1>2, <3>2, SameLastBefore
      <4>2. Present(builder, t, 5) = builder.set \cap (t .. 5)
        BY <1>2, <1>7
      <4>3. CASE 5 \in builder.set \cap (t .. 5) /\ 5 \in builder.set
        <5>1. builder.resource \in AllowedResources[LastBefore(builder.set, 5)]
          BY <1>2, <1>8, <4>3 DEF Misplaced
        <5> QED
          BY <1>2, <4>1, <4>2, <5>1, Zenon DEF Misplaced
      <4>4. 5 \in builder.set \cap (t .. 5)
        BY <1>2, <1>8
      <4> QED
        BY <4>3, <4>4
    <3> QED
      BY <3>1, <3>2
  <2>3. ~Refused(t, Whole(builder, t, 5))
    <3> DEFINE w == Whole(builder, t, 5)
    <3>1. Len(w) > 1 => Head(w) # <<>>
      <4> HIDE DEF w
      <4>1. Len(w) > 1 => 1 \in DOMAIN w /\ Head(w) = w[1]
        BY <1>12 DEF w
      <4> QED
        BY <1>12, <4>1, Zenon DEF w, ValidName, ValidToken
    <3> QED
      BY <1>2, <1>12, <3>1, Zenon DEF Refused, ScopeSegment
  <2> QED
    BY <1>2, <2>1, <2>2, <2>3 DEF Accepted
<1> QED
  BY <1>2, <1>6, <1>9, <1>10

\* A name that builds, builds in two parts, cut between any two of its segments, for all
\* names and enumerators: build of a namespace and of the names below it.
THEOREM PartsMakeTheWholeAlways == Spec => []PartsMakeTheWhole
<1>1. IInv => PartsMakeTheWhole
  <2> SUFFICES ASSUME IInv,
                      NEW name \in Build(builder, ScopeSegment, ResourceSegment),
                      NEW s \in builder.set, NEW t \in builder.set,
                      s < t, (s + 1 .. t - 1) \cap builder.set = {}
               PROVE  \E head \in Build(builder, ScopeSegment, s),
                         tail \in Build(builder, t, ResourceSegment) : name = head \o tail
    BY DEF PartsMakeTheWhole
  <2>1. /\ Accepted(builder, ScopeSegment, ResourceSegment)
        /\ name = Whole(builder, ScopeSegment, ResourceSegment)
    BY BuildIsWhole
  <2>2. /\ name = Whole(builder, ScopeSegment, s) \o Whole(builder, t, ResourceSegment)
        /\ Accepted(builder, ScopeSegment, s)
        /\ Accepted(builder, t, ResourceSegment)
    BY <2>1, PartsAreAccepted
  <2>3. /\ Whole(builder, ScopeSegment, s) \in Build(builder, ScopeSegment, s)
        /\ Whole(builder, t, ResourceSegment) \in Build(builder, t, ResourceSegment)
    BY <2>2, BuildIsWhole
  <2> QED
    BY <2>2, <2>3
<1> QED
  BY <1>1, Invariance, PTL

-----------------------------------------------------------------------------
\* What a name tells.

LEMMA LengthOne ==
  ASSUME NEW S, NEW s \in Seq(S), s # <<>>, Len(s) <= 1
  PROVE  Len(s) = 1
<1>1. Len(s) \in Nat
  OBVIOUS
<1>2. CASE Len(s) = 0
  <2>1. s = <<>>
    BY <1>2
  <2> QED
    BY <2>1
<1> QED
  BY <1>1, <1>2

LEMMA SingleIs ==
  ASSUME NEW S, NEW s \in Seq(S), Len(s) = 1
  PROVE  s = <<s[1]>>
OBVIOUS

\* Two joined sequences, the second of length one or empty.
LEMMA JoinOne ==
  ASSUME NEW S, NEW s \in Seq(S), NEW t \in Seq(S), Len(t) <= 1, NEW p, p = s \o t
  PROVE  /\ p \in Seq(S)
         /\ Len(p) = Len(s) + Len(t)
         /\ \A i \in 1 .. Len(s) : p[i] = s[i]
         /\ Len(t) = 1 => p[Len(s) + 1] = t[1]
BY ConcatProperties

\* Five joined sequences of length one, those from n + 1 to four left out.
LEMMA JoinSome ==
  ASSUME NEW S, NEW v \in [1 .. 5 -> Seq(S)], NEW n \in 1 .. 4,
         \A i \in 1 .. n : Len(v[i]) = 1, \A i \in n + 1 .. 4 : Len(v[i]) = 0, Len(v[5]) = 1
  PROVE  LET whole == v[1] \o v[2] \o v[3] \o v[4] \o v[5]
         IN /\ Len(whole) = n + 1
            /\ \A i \in 1 .. n : whole[i] = v[i][1]
            /\ whole[n + 1] = v[5][1]
<1> DEFINE p1 == v[1]
           p2 == p1 \o v[2]
           p3 == p2 \o v[3]
           p4 == p3 \o v[4]
           p5 == p4 \o v[5]
<1> HIDE DEF p1, p2, p3, p4, p5
<1>0. /\ v[1] \in Seq(S) /\ v[2] \in Seq(S) /\ v[3] \in Seq(S) /\ v[4] \in Seq(S) /\ v[5] \in Seq(S)
      /\ Len(v[1]) = 1 /\ Len(v[5]) = 1
      /\ Len(v[2]) = IF n < 2 THEN 0 ELSE 1
      /\ Len(v[3]) = IF n < 3 THEN 0 ELSE 1
      /\ Len(v[4]) = IF n < 4 THEN 0 ELSE 1
  OBVIOUS
<1>1. p1 \in Seq(S) /\ Len(p1) = 1
  BY <1>0 DEF p1
<1>2. /\ p2 \in Seq(S)
      /\ Len(p2) = Len(p1) + Len(v[2])
      /\ \A i \in 1 .. Len(p1) : p2[i] = p1[i]
      /\ Len(v[2]) = 1 => p2[Len(p1) + 1] = v[2][1]
  <2>1. v[2] \in Seq(S) /\ Len(v[2]) <= 1
    BY <1>0
  <2>2. p2 = p1 \o v[2]
    BY Zenon DEF p2
  <2> QED
    BY <1>1, <2>1, <2>2, JoinOne
<1>3. /\ p3 \in Seq(S)
      /\ Len(p3) = Len(p2) + Len(v[3])
      /\ \A i \in 1 .. Len(p2) : p3[i] = p2[i]
      /\ Len(v[3]) = 1 => p3[Len(p2) + 1] = v[3][1]
  <2>1. v[3] \in Seq(S) /\ Len(v[3]) <= 1
    BY <1>0
  <2>2. p3 = p2 \o v[3]
    BY Zenon DEF p3
  <2>3. p2 \in Seq(S)
    BY <1>2
  <2> QED
    BY <2>1, <2>2, <2>3, JoinOne
<1>4. /\ p4 \in Seq(S)
      /\ Len(p4) = Len(p3) + Len(v[4])
      /\ \A i \in 1 .. Len(p3) : p4[i] = p3[i]
      /\ Len(v[4]) = 1 => p4[Len(p3) + 1] = v[4][1]
  <2>1. v[4] \in Seq(S) /\ Len(v[4]) <= 1
    BY <1>0
  <2>2. p4 = p3 \o v[4]
    BY Zenon DEF p4
  <2>3. p3 \in Seq(S)
    BY <1>3
  <2> QED
    BY <2>1, <2>2, <2>3, JoinOne
<1>5. /\ Len(p5) = Len(p4) + Len(v[5])
      /\ \A i \in 1 .. Len(p4) : p5[i] = p4[i]
      /\ Len(v[5]) = 1 => p5[Len(p4) + 1] = v[5][1]
  <2>1. v[5] \in Seq(S) /\ Len(v[5]) <= 1
    BY <1>0
  <2>2. p5 = p4 \o v[5]
    BY Zenon DEF p5
  <2>3. p4 \in Seq(S)
    BY <1>4
  <2> QED
    BY <2>1, <2>2, <2>3, JoinOne
<1>6. p1[1] = v[1][1]
  BY DEF p1
<1>7. /\ Len(p5) = n + 1
      /\ \A i \in 1 .. n : p5[i] = v[i][1]
      /\ p5[n + 1] = v[5][1]
  <2>1. CASE n = 1
    BY <1>0, <1>1, <1>2, <1>3, <1>4, <1>5, <1>6, <2>1
  <2>2. CASE n = 2
    BY <1>0, <1>1, <1>2, <1>3, <1>4, <1>5, <1>6, <2>2
  <2>3. CASE n = 3
    BY <1>0, <1>1, <1>2, <1>3, <1>4, <1>5, <1>6, <2>3
  <2>4. CASE n = 4
    BY <1>0, <1>1, <1>2, <1>3, <1>4, <1>5, <1>6, <2>4
  <2> QED
    BY <2>1, <2>2, <2>3, <2>4
<1> QED
  BY <1>7 DEF p1, p2, p3, p4, p5

\* Optional segments are left out from the right only: what is there reaches up to one.
LEMMA LeftOutFromTheRight ==
  ASSUME IInv, Accepted(builder, ScopeSegment, ResourceSegment)
  PROVE  \E n \in 1 .. 4 : /\ builder.set = (1 .. n) \cup {5}
                          /\ builder.resource \in AllowedResources[n]
<1>1. ScopeSegment = 1 /\ ResourceSegment = 5 /\ Segment = 1 .. 5 /\ builder.set \subseteq 1 .. 5
  BY DEF ScopeSegment, ResourceSegment, Segment, IInv, TypeOK
<1>2. Present(builder, 1, 5) = builder.set
  BY <1>1 DEF Present, IInv, TypeOK
<1>3. /\ 1 \in builder.set /\ 5 \in builder.set
      /\ \A x \in builder.set : RequiredSegments[x] \cap (1 .. 5) \subseteq builder.set
      /\ ~Misplaced(builder, 1, builder.set)
  BY <1>1, <1>2 DEF Accepted, Complete, LacksRequired
<1>4. /\ 3 \in builder.set => 2 \in builder.set
      /\ 4 \in builder.set => 3 \in builder.set
  BY <1>3 DEF RequiredSegments, AgentSegment, ComponentSegment
<1>5. PICK n \in 1 .. 4 : builder.set = (1 .. n) \cup {5}
  <2>1. CASE 4 \in builder.set
    <3>1. builder.set = (1 .. 4) \cup {5}
      BY <1>1, <1>3, <1>4, <2>1
    <3> QED
      BY <3>1
  <2>2. CASE 4 \notin builder.set /\ 3 \in builder.set
    <3>1. builder.set = (1 .. 3) \cup {5}
      BY <1>1, <1>3, <1>4, <2>2
    <3> QED
      BY <3>1
  <2>3. CASE 4 \notin builder.set /\ 3 \notin builder.set /\ 2 \in builder.set
    <3>1. builder.set = (1 .. 2) \cup {5}
      BY <1>1, <1>3, <2>3
    <3> QED
      BY <3>1
  <2>4. CASE 4 \notin builder.set /\ 3 \notin builder.set /\ 2 \notin builder.set
    <3>1. builder.set = (1 .. 1) \cup {5}
      BY <1>1, <1>3, <2>4
    <3> QED
      BY <3>1
  <2> QED
    BY <2>1, <2>2, <2>3, <2>4
<1>6. LastBefore(builder.set, 5) = n
  <2>1. /\ n \in builder.set /\ n < 5
        /\ \A u \in builder.set : u < 5 => u <= n
    BY <1>5
  <2>2. \A t \in builder.set : t < 5 /\ (\A u \in builder.set : u < 5 => u <= t) => t = n
    BY <1>5
  <2> QED
    BY <2>1, <2>2 DEF LastBefore
<1>7. builder.resource \in AllowedResources[LastBefore(builder.set, 5)]
  BY <1>1, <1>3 DEF Misplaced
<1> QED
  BY <1>5, <1>6, <1>7

\* The segments, and where the resource stands, can be read off a name, whatever the
\* enumerators and the names are, as long as no name has a slash in it.
THEOREM NamesTellTheirSegmentsAlways == Spec => []NamesTellTheirSegments
<1>1. IInv => NamesTellTheirSegments
  <2> SUFFICES ASSUME IInv, NEW name \in Build(builder, ScopeSegment, ResourceSegment),
                      \A s \in Segment : Len(builder.value[s]) <= 1
               PROVE  /\ \A s \in Segment : builder.value[s] = SegmentOf(name, s)
                      /\ builder.resource = "agent_heartbeat" => Len(name) = 2
                      /\ builder.resource = "robot_description" => Len(name) = 3
                      /\ builder.resource \notin {"agent_heartbeat", "robot_description", "custom"}
                           => Len(name) > 3
    BY DEF NamesTellTheirSegments
  <2> DEFINE v == builder.value
  <2>1. /\ Accepted(builder, ScopeSegment, ResourceSegment)
        /\ name = Whole(builder, ScopeSegment, ResourceSegment)
    BY BuildIsWhole
  <2>2. name = v[1] \o v[2] \o v[3] \o v[4] \o v[5]
    <3>1. /\ Part(builder, 1, 5, 1) = v[1] /\ Part(builder, 1, 5, 2) = v[2]
          /\ Part(builder, 1, 5, 3) = v[3] /\ Part(builder, 1, 5, 4) = v[4]
          /\ Part(builder, 1, 5, 5) = v[5]
      BY DEF Part
    <3>2. ScopeSegment = 1 /\ ResourceSegment = 5
      BY DEF ScopeSegment, ResourceSegment
    <3> QED
      BY <2>1, <3>1, <3>2, Zenon DEF Whole
  <2>3. PICK n \in 1 .. 4 : /\ builder.set = (1 .. n) \cup {5}
                            /\ builder.resource \in AllowedResources[n]
    BY <2>1, LeftOutFromTheRight
  <2>4. v \in [1 .. 5 -> Seq(Token)] /\ Segment = 1 .. 5
    BY DEF IInv, Builder, Segment
  <2>5. /\ \A i \in 1 .. 5 : i \in builder.set <=> v[i] # <<>>
        /\ \A i \in 1 .. 5 : v[i] # <<>> => Len(v[i]) = 1
    <3>1. \A i \in 1 .. 5 : i \in builder.set <=> v[i] # <<>>
      BY <2>4 DEF IInv, TypeOK
    <3>2. ASSUME NEW i \in 1 .. 5, v[i] # <<>>
          PROVE  Len(v[i]) = 1
      <4>1. v[i] \in Seq(Token) /\ Len(v[i]) <= 1
        BY <2>4
      <4> HIDE DEF v
      <4> QED
        BY <3>2, <4>1, LengthOne
    <3> QED
      BY <3>1, <3>2
  <2> HIDE DEF v
  <2>6. /\ Len(name) = n + 1
        /\ \A i \in 1 .. n : name[i] = v[i][1]
        /\ name[n + 1] = v[5][1]
    <3>1. /\ \A i \in 1 .. n : i \in builder.set /\ i \in 1 .. 5
          /\ \A i \in n + 1 .. 4 : i \notin builder.set /\ i \in 1 .. 5
          /\ 5 \in builder.set
      BY <2>3
    <3>2. \A i \in 1 .. n : Len(v[i]) = 1
      BY <2>5, <3>1
    <3>3. \A i \in n + 1 .. 4 : Len(v[i]) = 0
      <4>1. \A i \in n + 1 .. 4 : v[i] = <<>>
        BY <2>5, <3>1
      <4> QED
        BY <4>1
    <3>4. Len(v[5]) = 1
      BY <2>5, <3>1
    <3> QED
      BY <2>2, <2>4, <3>2, <3>3, <3>4, JoinSome
  <2>7. ASSUME NEW s \in Segment
        PROVE  v[s] = SegmentOf(name, s)
    <3>1. Len(v[s]) = 1 => v[s] = <<v[s][1]>>
      <4>1. v[s] \in Seq(Token)
        BY <2>4
      <4> QED
        BY <4>1, SingleIs
    <3>5. Len(name) = n + 1 /\ n + 1 \in Nat
      BY <2>6
    <3>2. CASE s = 5
      <4>1. SegmentOf(name, s) = <<name[n + 1]>>
        BY <3>2, <3>5 DEF SegmentOf, ResourceSegment, Last
      <4>2. Len(v[5]) = 1
        BY <2>3, <2>5
      <4> QED
        BY <2>6, <3>1, <3>2, <4>1, <4>2
    <3>3. CASE s <= n
      <4>1. s \in 1 .. n /\ s # 5 /\ s < Len(name) /\ Len(v[s]) = 1
        <5>1. s \in 1 .. n /\ s \in 1 .. 5 /\ s \in builder.set
          BY <2>3, <2>4, <3>3
        <5> QED
          BY <2>5, <3>5, <5>1
      <4>2. SegmentOf(name, s) = <<name[s]>>
        BY <4>1 DEF SegmentOf, ResourceSegment
      <4> QED
        BY <2>6, <3>1, <4>1, <4>2
    <3>4. CASE n < s /\ s < 5
      <4>1. v[s] = <<>>
        <5>1. s \in 1 .. 5 /\ s \notin builder.set
          BY <2>3, <2>4, <3>4
        <5> QED
          BY <2>5, <5>1
      <4>2. s # 5 /\ ~(s < Len(name))
        BY <2>4, <3>4, <3>5
      <4> QED
        BY <4>1, <4>2 DEF SegmentOf, ResourceSegment
    <3> QED
      BY <2>4, <3>2, <3>3, <3>4
  <2>8. /\ builder.resource = "agent_heartbeat" => n = 1
        /\ builder.resource = "robot_description" => n = 2
        /\ builder.resource \notin {"agent_heartbeat", "robot_description", "custom"} => n > 2
    BY <2>3 DEF AllowedResources
  <2> QED
    BY <2>6, <2>7, <2>8 DEF v
<1> QED
  BY <1>1, Invariance, PTL
=============================================================================
