------------------------ MODULE DiscoveryFeedProofs -------------------------
(***************************************************************************)
(* Proofs about DiscoveryFeed for all agents, metadata and depths of the   *)
(* queue: what the decoder is told too little of is all that can go wrong. *)
(***************************************************************************)
EXTENDS DiscoveryFeed, TLAPS, SequenceTheorems, WellFoundedInduction

MaybeMetadata == Metadata \cup {NoMetadata}
Published == [type : {"DISCOVERED", "LOST"}, agent : Agent, metadata : Metadata]

FeedTypeOK ==
  /\ table \in [Agent -> MaybeMetadata]
  /\ matched \in BOOLEAN
  /\ queue \in Seq(Published) /\ Len(queue) <= Depth
  /\ request \in {"unsent", "sent", "unanswered", "answered", "done"}
  /\ response \in [Agent -> MaybeMetadata]
  /\ mAgents \in [Agent -> MaybeMetadata]
  /\ lostSince \in SUBSET Agent /\ missed \in SUBSET Agent

Concerns(a, i) == queue[i].agent = a
Loses(a, i) == queue[i].agent = a /\ queue[i].type = "LOST"

\* The events kept of an agent end with what the table holds.
LastTells(a) ==
  \A i \in DOMAIN queue : Concerns(a, i) =>
    IF queue[i].type = "LOST"
      THEN (\A j \in DOMAIN queue : i < j => ~Concerns(a, j)) => table[a] = NoMetadata
      ELSE (\A j \in DOMAIN queue : i < j => ~Loses(a, j)) => table[a] = queue[i].metadata

\* Metadata that no event will take away again are those of the table; nor is an agent
\* unknown in the end that no event will make known.
StaysRight(a, m) == m # NoMetadata /\ a \notin LostIn(queue) => table[a] = m
StaysAway(a, m) == m = NoMetadata /\ (\A i \in DOMAIN queue : ~Concerns(a, i)) => table[a] = NoMetadata

\* The answer is out of date for those agents alone that have been lost since.
AnswerIsTrue ==
  request = "answered" =>
    \A a \in Agent \ lostSince : response[a] # NoMetadata => table[a] = response[a]

\* Whom HandleSnapshot would enter for good though it is lost.
Overtaken(a) == a \in lostSince \ LostIn(queue) /\ response[a] # NoMetadata

FeedInv ==
  /\ FeedTypeOK
  /\ AnswerIsTrue
  /\ request # "answered" => lostSince = {}
  /\ ~matched => queue = <<>> /\ (request \in {"unsent", "sent"} => mAgents = Nobody)
  /\ \A a \in Agent : LastTells(a)
  /\ \A a \in Agent \ missed :
       /\ StaysRight(a, mAgents[a])
       /\ request = "done" => StaysAway(a, mAgents[a])
       /\ request = "answered" /\ ~Overtaken(a) =>
            StaysRight(a, Entered(mAgents)[a]) /\ StaysAway(a, Entered(mAgents)[a])

-----------------------------------------------------------------------------
\* Induction over the numbers, as a fact about sets.

LEMMA LeastNumber ==
  ASSUME NEW T, T \subseteq Nat, T # {}
  PROVE  \E x \in T : \A y \in T : x <= y
<1>1. PICK x \in T : \A y \in T : ~(<<y, x>> \in OpToRel(<, Nat))
  BY NatLessThanWellFounded, WFMin
<1>2. \A y \in T : ~(y < x)
  BY <1>1 DEF OpToRel
<1>3. \A y \in T : x <= y
  BY <1>2
<1> QED
  BY <1>3

LEMMA SetInduction ==
  ASSUME NEW S, 0 \in S, \A n \in Nat : n \in S => n + 1 \in S
  PROVE  Nat \subseteq S
<1> SUFFICES ASSUME Nat \ S # {} PROVE FALSE
  OBVIOUS
<1>1. PICK x \in Nat \ S : \A y \in Nat \ S : x <= y
  BY LeastNumber
<1>2. x # 0 /\ x - 1 \in Nat /\ x - 1 \in S
  BY <1>1
<1> QED
  BY <1>1, <1>2

-----------------------------------------------------------------------------
\* What the decoder will know.

LEMMA KnownAfterIs ==
  ASSUME FeedTypeOK, NEW a
  PROVE  KnownAfter(a) = [n \in 0 .. Len(queue) |->
           IF n = 0 THEN mAgents[a] ELSE Known(a, KnownAfter(a)[n - 1], queue[n])]
<1> DEFINE Step(f, n) == IF n = 0 THEN mAgents[a] ELSE Known(a, f[n - 1], queue[n])
           Upto == {n \in Nat : \E f : f = [i \in 0 .. n |-> Step(f, i)]}
<1>1. 0 \in Upto
  <2>1. [i \in {0} |-> mAgents[a]] = [i \in 0 .. 0 |-> Step([j \in {0} |-> mAgents[a]], i)]
    OBVIOUS
  <2> QED
    BY <2>1
<1>2. ASSUME NEW n \in Nat, n \in Upto PROVE n + 1 \in Upto
  <2>1. PICK f : f = [i \in 0 .. n |-> Step(f, i)]
    BY <1>2
  <2> DEFINE g == [i \in 0 .. n + 1 |-> IF i = n + 1 THEN Known(a, f[n], queue[n + 1]) ELSE f[i]]
  <2>2. \A i \in 0 .. n : g[i] = f[i]
    OBVIOUS
  <2>3. \A i \in 0 .. n + 1 : g[i] = Step(g, i)
    <3> TAKE i \in 0 .. n + 1
    <3>1. CASE i = n + 1
      <4>1. g[i - 1] = f[n] /\ i # 0
        BY <3>1, <2>2
      <4> QED
        BY <3>1, <4>1
    <3>2. CASE i \in 0 .. n
      <4>1. g[i] = Step(f, i)
        BY <2>1, <2>2, <3>2
      <4>2. i # 0 => g[i - 1] = f[i - 1]
        BY <2>2, <3>2
      <4> QED
        BY <4>1, <4>2
    <3> QED
      BY <3>1, <3>2
  <2>4. g = [i \in 0 .. n + 1 |-> Step(g, i)]
    BY <2>3
  <2> HIDE DEF g
  <2>5. \E h : h = [i \in 0 .. n + 1 |-> Step(h, i)]
    BY <2>4
  <2> QED
    BY <2>5
<1>3. Len(queue) \in Upto
  <2> HIDE DEF Upto
  <2>1. Nat \subseteq Upto
    BY <1>1, <1>2, SetInduction
  <2> QED
    BY <2>1, LenProperties DEF FeedTypeOK
<1> QED
  BY <1>3 DEF KnownAfter

\* The events that wait tell the decoder what is in the table.
LEMMA KnownInTheEnd ==
  ASSUME FeedTypeOK, NEW a \in Agent, LastTells(a),
         StaysRight(a, mAgents[a]), StaysAway(a, mAgents[a])
  PROVE  WillKnow(a) = table[a]
<1> DEFINE k == KnownAfter(a)
           N == Len(queue)
           Untold(n) == \/ mAgents[a] = NoMetadata /\ \A i \in 1 .. n : ~Concerns(a, i)
                        \/ \E i \in 1 .. n : /\ Loses(a, i)
                                             /\ \A j \in i + 1 .. n : ~Concerns(a, j)
           Told(n) == \/ mAgents[a] = k[n] /\ \A i \in 1 .. n : ~Loses(a, i)
                      \/ \E i \in 1 .. n : /\ Concerns(a, i) /\ ~Loses(a, i)
                                           /\ k[n] = queue[i].metadata
                                           /\ \A j \in i + 1 .. n : ~Loses(a, j)
           Fits == {n \in Nat : n <= N => IF k[n] = NoMetadata THEN Untold(n) ELSE Told(n)}
<1>t. N \in Nat /\ DOMAIN queue = 1 .. N /\ \A i \in 1 .. N : queue[i] \in Published
  BY LenProperties DEF FeedTypeOK
<1>k. \A n \in 0 .. N : k[n] = IF n = 0 THEN mAgents[a] ELSE Known(a, k[n - 1], queue[n])
  BY KnownAfterIs
<1>1. 0 \in Fits
  BY <1>k, <1>t
<1>2. ASSUME NEW n \in Nat, n \in Fits PROVE n + 1 \in Fits
  <2> SUFFICES ASSUME n + 1 <= N
               PROVE  IF k[n + 1] = NoMetadata THEN Untold(n + 1) ELSE Told(n + 1)
    OBVIOUS
  <2> DEFINE e == queue[n + 1]
  <2>1. n + 1 \in 0 .. N /\ n + 1 # 0 /\ (n + 1) - 1 = n /\ n <= N /\ n + 1 \in 1 .. N
    BY <1>t
  <2>2. IF k[n] = NoMetadata THEN Untold(n) ELSE Told(n)
    BY <1>2, <2>1
  <2> HIDE DEF k, N, Fits
  <2>3. e \in Published
    BY <1>t, <2>1
  <2>4. k[n + 1] = Known(a, k[n], e)
    BY <1>k, <2>1
  <2>5. CASE e.agent # a
    <3>1. ~Concerns(a, n + 1) /\ ~Loses(a, n + 1)
      BY <2>5 DEF Concerns, Loses
    <3>2. k[n + 1] = k[n]
      BY <2>4, <2>5 DEF Known
    <3>3. Untold(n) => Untold(n + 1)
      BY <3>1
    <3>4. Told(n) => Told(n + 1)
      BY <3>1, <3>2
    <3> QED
      BY <2>2, <3>2, <3>3, <3>4
  <2>6. CASE e.agent = a /\ e.type = "LOST"
    <3>1. Loses(a, n + 1)
      BY <2>6 DEF Loses
    <3>2. k[n + 1] = NoMetadata
      BY <2>4, <2>6 DEF Known
    <3>3. Untold(n + 1)
      BY <3>1
    <3> QED
      BY <3>2, <3>3
  <2>7. CASE e.agent = a /\ e.type # "LOST"
    <3>1. Concerns(a, n + 1) /\ ~Loses(a, n + 1) /\ e.metadata # NoMetadata
      BY <2>3, <2>7, FeedAssumption DEF Concerns, Loses, Published
    <3>2. k[n + 1] = IF k[n] = NoMetadata THEN e.metadata ELSE k[n]
      BY <2>4, <2>7 DEF Known
    <3>3. CASE k[n] = NoMetadata
      <4>1. Told(n + 1)
        BY <3>1, <3>2, <3>3
      <4> QED
        BY <3>1, <3>2, <3>3, <4>1
    <3>4. CASE k[n] # NoMetadata
      <4>1. Told(n + 1)
        BY <2>2, <3>1, <3>2, <3>4
      <4> QED
        BY <3>2, <3>4, <4>1
    <3> QED
      BY <3>3, <3>4
  <2> QED
    BY <2>5, <2>6, <2>7
<1>3. IF k[N] = NoMetadata THEN Untold(N) ELSE Told(N)
  <2> HIDE DEF Fits
  <2>1. N \in Fits
    BY <1>1, <1>2, <1>t, SetInduction
  <2> QED
    BY <2>1, <1>t DEF Fits
<1> HIDE DEF k
<1>4. CASE k[N] = NoMetadata
  <2>1. CASE mAgents[a] = NoMetadata /\ \A i \in 1 .. N : ~Concerns(a, i)
    BY <1>4, <1>t, <2>1 DEF StaysAway, WillKnow, k
  <2>2. CASE \E i \in 1 .. N : Loses(a, i) /\ \A j \in i + 1 .. N : ~Concerns(a, j)
    <3>1. PICK i \in 1 .. N : Loses(a, i) /\ \A j \in i + 1 .. N : ~Concerns(a, j)
      BY <2>2
    <3>2. table[a] = NoMetadata
      BY <1>t, <3>1 DEF LastTells, Loses, Concerns
    <3> QED
      BY <1>4, <3>2 DEF WillKnow, k
  <2> QED
    BY <1>3, <1>4, <2>1, <2>2
<1>5. CASE k[N] # NoMetadata
  <2>1. CASE mAgents[a] = k[N] /\ \A i \in 1 .. N : ~Loses(a, i)
    BY <1>5, <1>t, <2>1 DEF StaysRight, LostIn, Loses, WillKnow, k
  <2>2. CASE \E i \in 1 .. N : /\ Concerns(a, i) /\ ~Loses(a, i)
                               /\ k[N] = queue[i].metadata
                               /\ \A j \in i + 1 .. N : ~Loses(a, j)
    <3>1. PICK i \in 1 .. N : /\ Concerns(a, i) /\ ~Loses(a, i)
                              /\ k[N] = queue[i].metadata
                              /\ \A j \in i + 1 .. N : ~Loses(a, j)
      BY <2>2
    <3>2. table[a] = queue[i].metadata
      BY <1>t, <3>1 DEF LastTells, Loses, Concerns
    <3> QED
      BY <3>1, <3>2 DEF WillKnow, k
  <2> QED
    BY <1>3, <1>5, <2>1, <2>2
<1> QED
  BY <1>4, <1>5


-----------------------------------------------------------------------------
\* What the steps do to the queue.

\* publish appends the event, and drops the oldest if the queue is full.
LEMMA EnqueueAppends ==
  ASSUME FeedTypeOK, matched, Enqueue, event' \in Published, NEW c, NEW d,
         d = IF Len(queue) = Depth THEN 1 ELSE 0
  PROVE  /\ queue' \in Seq(Published) /\ Len(queue') <= Depth
         /\ Len(queue') = Len(queue) - d + 1
         /\ \A i \in 1 .. Len(queue) - d : queue'[i] = queue[i + d]
         /\ queue'[Len(queue')] = event'
         /\ d = 1 => Len(queue) > 0 /\ Missing(c) = {queue[1].agent}
<1> DEFINE kept == IF Len(queue) = Depth THEN Tail(queue) ELSE queue
<1>1. Depth \in Nat \ {0} /\ queue \in Seq(Published) /\ Len(queue) \in Nat /\ Len(queue) <= Depth
  BY FeedAssumption, LenProperties DEF FeedTypeOK
<1>2. /\ kept \in Seq(Published) /\ Len(kept) = Len(queue) - d /\ Len(kept) < Depth
      /\ \A i \in 1 .. Len(kept) : kept[i] = queue[i + d]
  <2>1. CASE Len(queue) = Depth
    <3>1. queue # <<>>
      BY <1>1, <2>1, EmptySeq
    <3> QED
      BY <1>1, <2>1, <3>1, HeadTailProperties
  <2>2. CASE Len(queue) # Depth
    BY <1>1, <2>2
  <2> QED
    BY <2>1, <2>2
<1> HIDE DEF kept
<1>3. queue' = Append(kept, event')
  BY DEF Enqueue, kept
<1>4. d = 1 => Len(queue) > 0 /\ Missing(c) = {queue[1].agent}
  BY <1>1 DEF Missing
<1> QED
  BY <1>1, <1>2, <1>3, <1>4, AppendProperties

LEMMA HandledIsFirst ==
  ASSUME FeedTypeOK, queue # <<>>, queue' = Tail(queue)
  PROVE  /\ queue' \in Seq(Published)
         /\ Len(queue) \in Nat \ {0} /\ Len(queue') = Len(queue) - 1
         /\ \A i \in 1 .. Len(queue') : queue'[i] = queue[i + 1]
         /\ Head(queue) = queue[1] /\ queue[1] \in Published
<1>1. queue \in Seq(Published)
  BY DEF FeedTypeOK
<1>2. Len(queue) \in Nat \ {0}
  BY <1>1, EmptySeq
<1> QED
  BY <1>1, <1>2, HeadTailProperties, ElementOfSeq

\* What is said of an agent depends on its events alone.
LEMMA DomainIs ==
  ASSUME FeedTypeOK
  PROVE  /\ Len(queue) \in Nat /\ DOMAIN queue = 1 .. Len(queue)
         /\ \A a : a \in LostIn(queue) <=>
              \E i \in 1 .. Len(queue) : queue[i].agent = a /\ queue[i].type = "LOST"
<1>1. Len(queue) \in Nat /\ DOMAIN queue = 1 .. Len(queue)
  BY LenProperties DEF FeedTypeOK
<1> QED
  BY <1>1 DEF LostIn

\* The oldest event is gone: what was said of agents it does not concern is still true,
\* and the events kept of the one it does end with what the table holds.
LEMMA FirstGoes ==
  ASSUME FeedTypeOK, FeedTypeOK', NEW a \in Agent, LastTells(a),
         Len(queue') = Len(queue) - 1,
         \A i \in 1 .. Len(queue') : queue'[i] = queue[i + 1],
         table'[a] = table[a]
  PROVE  /\ LastTells(a)'
         /\ ~Concerns(a, 1) => /\ \A m : StaysRight(a, m) => StaysRight(a, m)'
                               /\ \A m : StaysAway(a, m) => StaysAway(a, m)'
                               /\ a \in LostIn(queue) => a \in LostIn(queue)'
         /\ a \in LostIn(queue)' => a \in LostIn(queue)
<1> USE DEF Concerns, Loses
<1> DEFINE N == Len(queue)
<1>1. /\ N \in Nat /\ DOMAIN queue = 1 .. N
      /\ Len(queue') = N - 1 /\ DOMAIN queue' = 1 .. N - 1
      /\ \A i \in 1 .. N - 1 : i + 1 \in 1 .. N /\ queue'[i] = queue[i + 1]
  BY DomainIs, LenProperties DEF FeedTypeOK
<1>2. \A i \in 1 .. N - 1 : /\ queue'[i].agent = a <=> Concerns(a, i + 1)
                           /\ Loses(a, i)' <=> Loses(a, i + 1)
  BY <1>1 DEF Concerns, Loses
<1>3. \A i \in 2 .. N : i - 1 \in 1 .. N - 1 /\ queue'[i - 1] = queue[i]
  <2> TAKE i \in 2 .. N
  <2>1. i - 1 \in 1 .. N - 1 /\ (i - 1) + 1 = i
    BY <1>1
  <2> QED
    BY <1>1, <2>1
<1> HIDE DEF N
<1>4. LastTells(a)'
  <2> SUFFICES ASSUME NEW i \in 1 .. N - 1, queue'[i].agent = a
               PROVE  IF queue'[i].type = "LOST"
                        THEN (\A j \in 1 .. N - 1 : i < j => queue'[j].agent # a) => table[a] = NoMetadata
                        ELSE (\A j \in 1 .. N - 1 : i < j => ~Loses(a, j)') => table[a] = queue'[i].metadata
    BY <1>1 DEF LastTells
  <2>1. i + 1 \in 1 .. N /\ Concerns(a, i + 1) /\ queue'[i] = queue[i + 1]
    BY <1>1, <1>2
  <2>2. (\A j \in 1 .. N - 1 : i < j => queue'[j].agent # a) =>
          \A j \in 1 .. N : i + 1 < j => ~Concerns(a, j)
    <3> SUFFICES ASSUME \A j \in 1 .. N - 1 : i < j => queue'[j].agent # a, NEW j \in 1 .. N, i + 1 < j
                 PROVE  ~Concerns(a, j)
      OBVIOUS
    <3>1. j - 1 \in 1 .. N - 1 /\ i < j - 1
      BY <1>1
    <3>2. queue'[j - 1] = queue[j]
      BY <1>3
    <3> QED
      BY <3>1, <3>2
  <2>3. (\A j \in 1 .. N - 1 : i < j => ~Loses(a, j)') =>
          \A j \in 1 .. N : i + 1 < j => ~Loses(a, j)
    <3> SUFFICES ASSUME \A j \in 1 .. N - 1 : i < j => ~Loses(a, j)', NEW j \in 1 .. N, i + 1 < j
                 PROVE  ~Loses(a, j)
      OBVIOUS
    <3>1. j - 1 \in 1 .. N - 1 /\ i < j - 1
      BY <1>1
    <3>2. queue'[j - 1] = queue[j]
      BY <1>3
    <3> QED
      BY <3>1, <3>2
  <2> QED
    BY <1>1, <2>1, <2>2, <2>3 DEF LastTells
<1>5. a \in LostIn(queue)' => a \in LostIn(queue)
  <2>1. a \in LostIn(queue)' <=> \E i \in 1 .. N - 1 : Loses(a, i)'
    BY <1>1 DEF LostIn, Loses
  <2> QED
    BY <1>1, <1>2, <2>1, DomainIs DEF N
<1>6. ASSUME ~Concerns(a, 1)
      PROVE  /\ a \in LostIn(queue) => a \in LostIn(queue)'
             /\ (\A i \in 1 .. N - 1 : queue'[i].agent # a) => \A i \in 1 .. N : ~Concerns(a, i)
  <2>1. \A i \in 1 .. N : Concerns(a, i) => queue'[i - 1].agent = a /\ i - 1 \in 1 .. N - 1
    <3> SUFFICES ASSUME NEW i \in 1 .. N, Concerns(a, i)
                 PROVE  queue'[i - 1].agent = a /\ i - 1 \in 1 .. N - 1
      OBVIOUS
    <3>1. i \in 2 .. N
      BY <1>1, <1>6
    <3> QED
      BY <1>3, <3>1
  <2>2. \A i \in 1 .. N : Loses(a, i) => queue'[i - 1].agent = a /\ queue'[i - 1].type = "LOST" /\ i - 1 \in 1 .. N - 1
    <3> SUFFICES ASSUME NEW i \in 1 .. N, Loses(a, i)
                 PROVE  queue'[i - 1].agent = a /\ queue'[i - 1].type = "LOST" /\ i - 1 \in 1 .. N - 1
      OBVIOUS
    <3>1. i \in 2 .. N
      BY <1>1, <1>6
    <3> QED
      BY <1>3, <3>1
  <2>3. a \in LostIn(queue)' <=> \E i \in 1 .. N - 1 : Loses(a, i)'
    BY <1>1 DEF LostIn, Loses
  <2> QED
    BY <2>1, <2>2, <2>3, DomainIs DEF N
<1>7. ASSUME ~Concerns(a, 1), NEW m PROVE StaysRight(a, m) => StaysRight(a, m)'
  BY <1>6, <1>7 DEF StaysRight
<1>8. ASSUME ~Concerns(a, 1), NEW m PROVE StaysAway(a, m) => StaysAway(a, m)'
  BY <1>1, <1>6, <1>8 DEF StaysAway
<1> QED
  BY <1>4, <1>5, <1>6, <1>7, <1>8


LEMMA PublishedEvent ==
  ASSUME FeedTypeOK, NEW c \in Agent, Discover(c) \/ Lose(c)
  PROVE  /\ event' \in Published /\ event'.agent = c
         /\ table' \in [Agent -> MaybeMetadata]
         /\ \A a \in Agent \ {c} : table'[a] = table[a]
         /\ event'.type = "LOST" => table[c] # NoMetadata /\ table'[c] = NoMetadata
         /\ event'.type # "LOST" => table[c] = NoMetadata /\ table'[c] = event'.metadata
<1>t. table \in [Agent -> MaybeMetadata]
  BY DEF FeedTypeOK
<1>1. CASE Discover(c)
  <2>1. PICK m \in Metadata : table' = [table EXCEPT ![c] = m] /\ event' = Event("DISCOVERED", c, m)
    BY <1>1 DEF Discover
  <2> QED
    BY <1>t, <1>1, <2>1 DEF Discover, Event, Published, MaybeMetadata
<1>2. CASE Lose(c)
  BY <1>t, <1>2 DEF Lose, Event, Published, MaybeMetadata
<1> QED
  BY <1>1, <1>2

\* An event is kept: it ends the events of its agent.  What was said of agents none of whose
\* events were dropped is still true.
LEMMA EventComes ==
  ASSUME FeedTypeOK, FeedTypeOK', matched, NEW a \in Agent, NEW c \in Agent,
         LastTells(a), Enqueue, Discover(c) \/ Lose(c)
  PROVE  /\ LastTells(a)'
         /\ a = c /\ event'.type = "LOST" => a \in LostIn(queue)'
         /\ a \in LostIn(queue)' => a \in LostIn(queue) \/ (a = c /\ event'.type = "LOST")
         /\ a \notin Missing(c) => /\ \A m : StaysRight(a, m) => StaysRight(a, m)'
                                   /\ \A m : StaysAway(a, m) => StaysAway(a, m)'
                                   /\ a \in LostIn(queue) => a \in LostIn(queue)'
<1> USE DEF Concerns, Loses
<1> DEFINE N == Len(queue)
           d == IF N = Depth THEN 1 ELSE 0
           L == N - d + 1
<1>e. /\ event' \in Published /\ event'.agent = c
      /\ \A b \in Agent \ {c} : table'[b] = table[b]
      /\ event'.type = "LOST" => table[c] # NoMetadata /\ table'[c] = NoMetadata
      /\ event'.type # "LOST" => table[c] = NoMetadata /\ table'[c] = event'.metadata
  BY PublishedEvent
<1>1. /\ N \in Nat /\ DOMAIN queue = 1 .. N /\ d \in {0, 1} /\ L \in Nat \ {0}
      /\ Len(queue') = L /\ DOMAIN queue' = 1 .. L
      /\ \A i \in 1 .. L - 1 : i + d \in 1 .. N /\ queue'[i] = queue[i + d]
      /\ queue'[L] = event'
      /\ d = 1 => Missing(c) = {queue[1].agent}
  <2>1. N \in Nat /\ DOMAIN queue = 1 .. N /\ DOMAIN queue' = 1 .. Len(queue') /\ Depth # 0
    BY DomainIs, LenProperties, FeedAssumption DEF FeedTypeOK
  <2>d. d = IF Len(queue) = Depth THEN 1 ELSE 0
    OBVIOUS
  <2> HIDE DEF d
  <2>2. /\ Len(queue') = N - d + 1
        /\ \A i \in 1 .. N - d : queue'[i] = queue[i + d]
        /\ queue'[Len(queue')] = event'
        /\ d = 1 => N > 0 /\ Missing(c) = {queue[1].agent}
    BY <1>e, <2>d, EnqueueAppends
  <2> QED
    BY <2>1, <2>2, <2>d
<1>2. \A i \in d + 1 .. N : i - d \in 1 .. L - 1 /\ queue'[i - d] = queue[i]
  <2> TAKE i \in d + 1 .. N
  <2>1. i - d \in 1 .. L - 1 /\ (i - d) + d = i
    BY <1>1
  <2> QED
    BY <1>1, <2>1
<1>l. /\ a \in LostIn(queue) <=> \E i \in 1 .. N : queue[i].agent = a /\ queue[i].type = "LOST"
      /\ a \in LostIn(queue)' <=> \E i \in 1 .. L : queue'[i].agent = a /\ queue'[i].type = "LOST"
  <2>1. a \in LostIn(queue)' <=> \E i \in 1 .. L : queue'[i].agent = a /\ queue'[i].type = "LOST"
    BY <1>1 DEF LostIn
  <2> QED
    BY <2>1, DomainIs
<1> HIDE DEF N, d, L
<1>3. LastTells(a)'
  <2> SUFFICES ASSUME NEW i \in 1 .. L, queue'[i].agent = a
               PROVE  IF queue'[i].type = "LOST"
                        THEN (\A j \in 1 .. L : i < j => queue'[j].agent # a) => table'[a] = NoMetadata
                        ELSE (\A j \in 1 .. L : i < j => ~(queue'[j].agent = a /\ queue'[j].type = "LOST"))
                               => table'[a] = queue'[i].metadata
    BY <1>1 DEF LastTells
  <2>1. CASE i = L
    <3>1. a = c /\ queue'[i] = event'
      BY <1>e, <1>1, <2>1
    <3> QED
      BY <1>e, <3>1
  <2>2. CASE i # L
    <3>1. i \in 1 .. L - 1 /\ i < L /\ L \in 1 .. L
      BY <1>1, <2>2
    <3>2. i + d \in 1 .. N /\ queue'[i] = queue[i + d]
      BY <1>1, <3>1
    <3>3. ASSUME \A j \in 1 .. L : i < j => queue'[j].agent # a
          PROVE  a # c /\ \A j \in 1 .. N : i + d < j => queue[j].agent # a
      <4>1. a # c
        BY <1>e, <1>1, <3>1, <3>3
      <4>2. ASSUME NEW j \in 1 .. N, i + d < j PROVE queue[j].agent # a
        <5>1. j \in d + 1 .. N /\ j - d \in 1 .. L /\ i < j - d
          BY <1>1, <1>2, <4>2
        <5> QED
          BY <1>2, <3>3, <5>1
      <4> QED
        BY <4>1, <4>2
    <3>4. ASSUME \A j \in 1 .. L : i < j => ~(queue'[j].agent = a /\ queue'[j].type = "LOST")
          PROVE  \A j \in 1 .. N : i + d < j => ~(queue[j].agent = a /\ queue[j].type = "LOST")
      <4>1. ASSUME NEW j \in 1 .. N, i + d < j PROVE ~(queue[j].agent = a /\ queue[j].type = "LOST")
        <5>1. j \in d + 1 .. N /\ j - d \in 1 .. L /\ i < j - d
          BY <1>1, <1>2, <4>1
        <5> QED
          BY <1>2, <3>4, <5>1
      <4> QED
        BY <4>1
    <3>5. CASE queue'[i].type = "LOST"
      <4>1. (\A j \in 1 .. L : i < j => queue'[j].agent # a) => table[a] = NoMetadata /\ a # c
        BY <1>1, <3>2, <3>3, <3>5 DEF LastTells
      <4> QED
        BY <1>e, <3>5, <4>1
    <3>6. CASE queue'[i].type # "LOST"
      <4>1. (\A j \in 1 .. L : i < j => ~(queue'[j].agent = a /\ queue'[j].type = "LOST"))
              => table[a] = queue'[i].metadata
        BY <1>1, <3>2, <3>4, <3>6 DEF LastTells
      <4>2. queue[i + d] \in Published
        BY <3>2, ElementOfSeq DEF FeedTypeOK, N
      <4>3. queue'[i].metadata # NoMetadata
        BY <3>2, <4>2, FeedAssumption DEF Published
      <4>4. a = c /\ event'.type = "LOST"
              => queue'[L].agent = a /\ queue'[L].type = "LOST"
        BY <1>e, <1>1
      <4> QED
        BY <1>e, <3>1, <3>6, <4>1, <4>3, <4>4
    <3> QED
      BY <3>5, <3>6
  <2> QED
    BY <2>1, <2>2
<1>4. ASSUME a \notin Missing(c)
      PROVE  \A i \in 1 .. N : queue[i].agent = a => i - d \in 1 .. L - 1 /\ queue'[i - d] = queue[i]
  <2> SUFFICES ASSUME NEW i \in 1 .. N, queue[i].agent = a
               PROVE  i - d \in 1 .. L - 1 /\ queue'[i - d] = queue[i]
    OBVIOUS
  <2>1. i \in d + 1 .. N
    BY <1>1, <1>4
  <2> QED
    BY <1>2, <2>1
<1>5. ASSUME a \notin Missing(c) PROVE a \in LostIn(queue) => a \in LostIn(queue)'
  <2> SUFFICES ASSUME NEW i \in 1 .. N, queue[i].agent = a /\ queue[i].type = "LOST"
               PROVE  \E j \in 1 .. L : queue'[j].agent = a /\ queue'[j].type = "LOST"
    BY <1>l
  <2>1. i - d \in 1 .. L /\ queue'[i - d] = queue[i]
    BY <1>1, <1>4, <1>5
  <2> QED
    BY <2>1
<1>6. ASSUME a \notin Missing(c), NEW m, StaysRight(a, m) PROVE StaysRight(a, m)'
  <2> SUFFICES ASSUME m # NoMetadata, a \notin LostIn(queue)' PROVE table'[a] = m
    BY DEF StaysRight
  <2>1. table[a] = m
    BY <1>5, <1>6 DEF StaysRight
  <2>2. L \in 1 .. L
    BY <1>1
  <2>3. a # c
    BY <1>e, <1>1, <1>l, <2>1, <2>2
  <2> QED
    BY <1>e, <2>1, <2>3
<1>7. ASSUME a \notin Missing(c), NEW m, StaysAway(a, m) PROVE StaysAway(a, m)'
  <2> SUFFICES ASSUME m = NoMetadata, \A i \in 1 .. L : queue'[i].agent # a PROVE table'[a] = NoMetadata
    BY <1>1 DEF StaysAway
  <2>1. a # c
    <3>1. L \in 1 .. L
      BY <1>1
    <3> QED
      BY <1>e, <1>1, <3>1
  <2>2. \A i \in 1 .. N : queue[i].agent # a
    <3> SUFFICES ASSUME NEW i \in 1 .. N, queue[i].agent = a PROVE FALSE
      OBVIOUS
    <3>1. i - d \in 1 .. L /\ queue'[i - d] = queue[i]
      BY <1>1, <1>4, <1>7
    <3> QED
      BY <3>1
  <2> QED
    BY <1>e, <1>1, <1>7, <2>1, <2>2 DEF StaysAway
<1>8. a = c /\ event'.type = "LOST" => a \in LostIn(queue)'
  <2>1. L \in 1 .. L
    BY <1>1
  <2> QED
    BY <1>e, <1>1, <1>l, <2>1
<1>9. a \in LostIn(queue)' => a \in LostIn(queue) \/ (a = c /\ event'.type = "LOST")
  <2> SUFFICES ASSUME NEW i \in 1 .. L, queue'[i].agent = a, queue'[i].type = "LOST"
               PROVE  a \in LostIn(queue) \/ (a = c /\ event'.type = "LOST")
    BY <1>l
  <2>1. CASE i = L
    BY <1>e, <1>1, <2>1
  <2>2. CASE i # L
    <3>1. i \in 1 .. L - 1
      BY <1>1, <2>2
    <3>2. i + d \in 1 .. N /\ queue'[i] = queue[i + d]
      BY <1>1, <3>1
    <3> QED
      BY <1>l, <3>2
  <2> QED
    BY <2>1, <2>2
<1> QED
  BY <1>3, <1>5, <1>6, <1>7, <1>8, <1>9


-----------------------------------------------------------------------------
\* One lemma per step that moves an event or the answer.

LEMMA TypesStay ==
  ASSUME FeedTypeOK, [FeedNext]_vars
  PROVE  FeedTypeOK'
<1> USE DEF FeedTypeOK
<1>1. ASSUME NEW c \in Agent, Publish(c) PROVE FeedTypeOK'
  <2>1. /\ event' \in Published /\ event'.agent = c
        /\ table' \in [Agent -> MaybeMetadata]
    BY <1>1, PublishedEvent DEF Publish
  <2>2. queue' \in Seq(Published) /\ Len(queue') <= Depth
    <3>1. CASE matched
      BY <1>1, <2>1, <3>1, EnqueueAppends DEF Publish
    <3>2. CASE ~matched
      BY <1>1, <3>2 DEF Publish, Enqueue
    <3> QED
      BY <3>1, <3>2
  <2>3. lostSince' \in SUBSET Agent
    BY <1>1 DEF Publish
  <2>4. missed' \in SUBSET Agent
    <3>1. CASE queue = <<>>
      <4>1. Len(queue) # Depth
        BY <3>1, FeedAssumption, EmptySeq
      <4> QED
        BY <1>1, <4>1 DEF Publish, Missing
    <3>2. CASE queue # <<>>
      <4>1. Head(queue) \in Published
        BY <3>2, HeadTailProperties
      <4>2. Head(queue).agent \in Agent
        BY <4>1 DEF Published
      <4> QED
        BY <1>1, <4>2 DEF Publish, Missing
    <3> QED
      BY <3>1, <3>2
  <2> QED
    BY <1>1, <2>1, <2>2, <2>3, <2>4 DEF Publish
<1>2. CASE HandleEvent
  <2>1. /\ queue' \in Seq(Published) /\ Len(queue) \in Nat \ {0} /\ Len(queue') = Len(queue) - 1
        /\ Head(queue) \in Published
    BY <1>2, HandledIsFirst DEF HandleEvent
  <2>2. mAgents' \in [Agent -> MaybeMetadata]
    BY <1>2, <2>1 DEF HandleEvent, Known, Published, MaybeMetadata
  <2>3. Len(queue') <= Depth
    BY <2>1, FeedAssumption
  <2> QED
    BY <1>2, <2>1, <2>2, <2>3 DEF HandleEvent, Quiet
<1>3. CASE StartDecoder \/ Match \/ GetDiscoveredAgents
  BY <1>3 DEF StartDecoder, Match, GetDiscoveredAgents, Quiet
<1>4. CASE HandleSnapshot \/ SnapshotFailed
  BY <1>4 DEF HandleSnapshot, SnapshotFailed, Entered, Nobody, MaybeMetadata, Quiet
<1>5. CASE UNCHANGED vars
  BY <1>5 DEF vars, tableVars, feedVars
<1> QED
  BY <1>1, <1>2, <1>3, <1>4, <1>5 DEF FeedNext

LEMMA PublishStep ==
  ASSUME FeedInv, FeedTypeOK', NEW c \in Agent, Publish(c)
  PROVE  FeedInv'
<1>1. /\ FeedTypeOK /\ (Discover(c) \/ Lose(c))
      /\ Enqueue
      /\ missed' = missed \cup Missing(c)
      /\ lostSince' = IF request = "answered" /\ event'.type = "LOST"
                        THEN lostSince \cup {c} ELSE lostSince
      /\ matched' = matched /\ request' = request /\ response' = response /\ mAgents' = mAgents
  BY DEF Publish, FeedInv
<1>2. /\ \A a \in Agent \ {c} : table'[a] = table[a]
      /\ event'.type = "LOST" => table[c] # NoMetadata /\ table'[c] = NoMetadata
      /\ event'.type # "LOST" => table[c] = NoMetadata /\ table'[c] = event'.metadata
  BY <1>1, PublishedEvent
<1>3. AnswerIsTrue' /\ (request' # "answered" => lostSince' = {})
  <2>1. request' # "answered" => lostSince' = {}
    BY <1>1 DEF FeedInv
  <2>2. ASSUME request = "answered", NEW a \in Agent \ lostSince', response[a] # NoMetadata
        PROVE  table'[a] = response[a]
    <3>1. a \notin lostSince /\ table[a] = response[a]
      BY <1>1, <2>2 DEF FeedInv, AnswerIsTrue
    <3> QED
      BY <1>1, <1>2, <2>2, <3>1
  <2> QED
    BY <1>1, <2>1, <2>2 DEF AnswerIsTrue
<1>4. ~matched' => queue' = <<>> /\ (request' \in {"unsent", "sent"} => mAgents' = Nobody)
  BY <1>1 DEF FeedInv, Enqueue, Nobody
<1>5. ASSUME NEW a \in Agent
      PROVE  /\ LastTells(a)'
             /\ a \notin missed' =>
                  /\ StaysRight(a, mAgents[a])'
                  /\ request = "done" => StaysAway(a, mAgents[a])'
                  /\ request = "answered" /\ ~Overtaken(a)' =>
                       StaysRight(a, Entered(mAgents)[a])' /\ StaysAway(a, Entered(mAgents)[a])'
  <2>0. /\ LastTells(a)
        /\ a \notin missed =>
             /\ StaysRight(a, mAgents[a])
             /\ request = "done" => StaysAway(a, mAgents[a])
             /\ request = "answered" /\ ~Overtaken(a) =>
                  StaysRight(a, Entered(mAgents)[a]) /\ StaysAway(a, Entered(mAgents)[a])
    BY DEF FeedInv
  <2>e. Entered(mAgents)' = Entered(mAgents)
    BY <1>1 DEF Entered
  <2>1. CASE matched
    <3>1. /\ LastTells(a)'
          /\ a = c /\ event'.type = "LOST" => a \in LostIn(queue)'
          /\ a \in LostIn(queue)' => a \in LostIn(queue) \/ (a = c /\ event'.type = "LOST")
          /\ a \notin Missing(c) => /\ \A m : StaysRight(a, m) => StaysRight(a, m)'
                                    /\ \A m : StaysAway(a, m) => StaysAway(a, m)'
                                    /\ a \in LostIn(queue) => a \in LostIn(queue)'
      BY <1>1, <2>0, <2>1, EventComes
    <3>2. ASSUME a \notin missed'
          PROVE  /\ a \notin missed /\ a \notin Missing(c)
                 /\ request = "answered" /\ ~Overtaken(a)' =>
                      ~Overtaken(a) \/ (a = c /\ event'.type = "LOST")
      BY <1>1, <3>1, <3>2 DEF Overtaken
    <3>3. ASSUME a \notin missed'
          PROVE  /\ StaysRight(a, mAgents[a])'
                 /\ request = "done" => StaysAway(a, mAgents[a])'
      BY <1>1, <2>0, <3>1, <3>2, <3>3 DEF StaysRight, StaysAway, Concerns
    <3>4. ASSUME a \notin missed', request = "answered", ~Overtaken(a)'
          PROVE  StaysRight(a, Entered(mAgents)[a])' /\ StaysAway(a, Entered(mAgents)[a])'
      <4>1. CASE ~Overtaken(a)
        BY <2>0, <2>e, <3>1, <3>2, <3>4, <4>1 DEF StaysRight, StaysAway, Concerns
      <4>2. CASE a = c /\ event'.type = "LOST"
        BY <1>2, <3>1, <4>2 DEF StaysRight, StaysAway
      <4> QED
        BY <3>2, <3>4, <4>1, <4>2
    <3> QED
      BY <1>1, <3>1, <3>3, <3>4
  <2>2. CASE ~matched
    <3>1. queue = <<>> /\ queue' = <<>>
      BY <1>1, <1>4, <2>2 DEF FeedInv
    <3>2. DOMAIN queue = {} /\ DOMAIN queue' = {} /\ LostIn(queue)' = LostIn(queue)
      BY <3>1 DEF LostIn
    <3>3. a \notin missed' => a # c \/ request \in {"unsent", "sent"}
      BY <1>1, <2>2 DEF Missing
    <3>4. ASSUME a # c PROVE table'[a] = table[a] /\ (Overtaken(a)' <=> Overtaken(a)) /\ (a \notin missed' => a \notin missed)
      BY <1>1, <1>2, <3>2, <3>4 DEF Overtaken
    <3>5. CASE a # c
      BY <1>1, <2>0, <2>e, <3>2, <3>4, <3>5 DEF LastTells, StaysRight, StaysAway, Concerns
    <3>6. CASE a = c /\ request \in {"unsent", "sent"}
      <4>1. mAgents[a] = NoMetadata /\ mAgents'[a] = NoMetadata
        BY <1>1, <2>2, <3>6 DEF FeedInv, Nobody
      <4> QED
        BY <1>1, <3>2, <3>6, <4>1 DEF LastTells, StaysRight
    <3>7. CASE a = c /\ a \in missed'
      BY <3>2, <3>7 DEF LastTells
    <3> QED
      BY <3>3, <3>5, <3>6, <3>7
  <2> QED
    BY <2>1, <2>2
<1> QED
  BY <1>1, <1>3, <1>4, <1>5 DEF FeedInv

LEMMA HandleEventStep ==
  ASSUME FeedInv, FeedTypeOK', HandleEvent
  PROVE  FeedInv'
<1> DEFINE e == queue[1]
<1>1. /\ FeedTypeOK /\ queue # <<>> /\ queue' = Tail(queue)
      /\ mAgents' = [a \in Agent |-> Known(a, mAgents[a], Head(queue))]
      /\ table' = table
      /\ matched' = matched /\ request' = request /\ response' = response
      /\ lostSince' = lostSince /\ missed' = missed
  BY DEF HandleEvent, Quiet, FeedInv
<1>2. /\ Len(queue) \in Nat \ {0} /\ Len(queue') = Len(queue) - 1
      /\ \A i \in 1 .. Len(queue') : queue'[i] = queue[i + 1]
      /\ Head(queue) = e /\ e \in Published
  BY <1>1, HandledIsFirst
<1>p. /\ DOMAIN queue = 1 .. Len(queue)
      /\ \A j \in 2 .. Len(queue) : j - 1 \in DOMAIN queue' /\ queue'[j - 1] = queue[j]
  <2>1. DOMAIN queue = 1 .. Len(queue) /\ DOMAIN queue' = 1 .. Len(queue) - 1
    BY <1>1, <1>2, DomainIs, LenProperties DEF FeedTypeOK
  <2>2. ASSUME NEW j \in 2 .. Len(queue) PROVE j - 1 \in DOMAIN queue' /\ queue'[j - 1] = queue[j]
    <3>1. j - 1 \in 1 .. Len(queue') /\ (j - 1) + 1 = j
      BY <1>2
    <3> QED
      BY <1>2, <2>1, <3>1
  <2> QED
    BY <2>1, <2>2
<1>3. AnswerIsTrue' /\ matched' /\ (request' # "answered" => lostSince' = {})
  BY <1>1 DEF FeedInv, AnswerIsTrue
<1>4. ASSUME NEW a \in Agent
      PROVE  /\ LastTells(a)'
             /\ a \notin missed' =>
                  /\ StaysRight(a, mAgents[a])'
                  /\ request' = "done" => StaysAway(a, mAgents[a])'
                  /\ request' = "answered" /\ ~Overtaken(a)' =>
                       StaysRight(a, Entered(mAgents)[a])' /\ StaysAway(a, Entered(mAgents)[a])'
  <2>0. /\ LastTells(a)
        /\ a \notin missed =>
             /\ StaysRight(a, mAgents[a])
             /\ request = "done" => StaysAway(a, mAgents[a])
             /\ request = "answered" /\ ~Overtaken(a) =>
                  StaysRight(a, Entered(mAgents)[a]) /\ StaysAway(a, Entered(mAgents)[a])
    BY DEF FeedInv
  <2>1. /\ LastTells(a)'
        /\ ~Concerns(a, 1) => /\ \A m : StaysRight(a, m) => StaysRight(a, m)'
                              /\ \A m : StaysAway(a, m) => StaysAway(a, m)'
                              /\ a \in LostIn(queue) => a \in LostIn(queue)'
        /\ a \in LostIn(queue)' => a \in LostIn(queue)
    BY <1>1, <1>2, <2>0, FirstGoes
  <2>2. /\ mAgents'[a] = Known(a, mAgents[a], e)
        /\ Entered(mAgents)[a] = IF mAgents[a] = NoMetadata THEN response[a] ELSE mAgents[a]
        /\ Entered(mAgents)'[a] = IF mAgents'[a] = NoMetadata THEN response[a] ELSE mAgents'[a]
    BY <1>1, <1>2 DEF Entered
  <2> HIDE DEF e
  <2>3. CASE e.agent # a
    <3>1. mAgents'[a] = mAgents[a] /\ Entered(mAgents)'[a] = Entered(mAgents)[a]
      BY <2>2, <2>3 DEF Known
    <3>2. ~Concerns(a, 1)
      BY <2>3 DEF Concerns, e
    <3>3. Overtaken(a) => Overtaken(a)'
      BY <1>1, <2>1 DEF Overtaken
    <3> QED
      BY <1>1, <2>0, <2>1, <3>1, <3>2, <3>3 DEF StaysRight, StaysAway, Concerns
  <2>4. CASE e.agent = a /\ e.type = "LOST"
    <3>1. mAgents'[a] = NoMetadata /\ Entered(mAgents)'[a] = response[a]
      BY <2>2, <2>4 DEF Known
    <3>2. StaysAway(a, NoMetadata)'
      <4>1. ASSUME \A i \in DOMAIN queue' : queue'[i].agent # a PROVE table[a] = NoMetadata
        <5>1. \A j \in DOMAIN queue : 1 < j => queue[j].agent # a
          BY <1>2, <1>p, <4>1
        <5> QED
          BY <1>1, <1>2, <2>0, <2>4, <5>1, DomainIs DEF LastTells, Concerns, e
      <4> QED
        BY <1>1, <4>1 DEF StaysAway, Concerns
    <3>3. ASSUME a \notin missed, request = "answered", ~Overtaken(a)'
          PROVE  StaysRight(a, response[a])' /\ StaysAway(a, response[a])'
      <4>1. StaysAway(a, response[a])'
        BY <1>1, <3>2 DEF StaysAway
      <4>2. StaysRight(a, response[a])'
        BY <1>1, <3>3 DEF StaysRight, Overtaken, FeedInv, AnswerIsTrue
      <4> QED
        BY <4>1, <4>2
    <3> QED
      BY <1>1, <2>1, <3>1, <3>2, <3>3 DEF StaysRight, StaysAway
  <2>5. CASE e.agent = a /\ e.type # "LOST"
    <3>1. mAgents'[a] # NoMetadata /\ Entered(mAgents)'[a] = mAgents'[a]
      BY <1>2, <2>2, <2>5, FeedAssumption DEF Known, Published
    <3>2. StaysRight(a, mAgents[a]) => StaysRight(a, mAgents[a])'
      <4>1. a \notin LostIn(queue)' =>
              \A j \in 2 .. Len(queue) : ~(queue[j].agent = a /\ queue[j].type = "LOST")
        <5> SUFFICES ASSUME NEW j \in 2 .. Len(queue), queue[j].agent = a, queue[j].type = "LOST"
                     PROVE  a \in LostIn(queue')
          OBVIOUS
        <5>1. j - 1 \in DOMAIN queue' /\ queue'[j - 1] = queue[j]
          BY <1>p
        <5> QED
          BY <5>1 DEF LostIn
      <4>2. CASE mAgents[a] = NoMetadata
        <5>1. mAgents'[a] = e.metadata
          BY <2>2, <2>5, <4>2 DEF Known
        <5>2. 1 \in DOMAIN queue /\ \A j \in DOMAIN queue : 1 < j => j \in 2 .. Len(queue)
          BY <1>2, <1>p
        <5>3. a \notin LostIn(queue)' => table[a] = e.metadata
          BY <2>0, <2>5, <4>1, <5>2 DEF LastTells, Concerns, Loses, e
        <5> QED
          BY <1>1, <5>1, <5>3 DEF StaysRight
      <4>3. CASE mAgents[a] # NoMetadata
        <5>1. mAgents'[a] = mAgents[a]
          BY <2>2, <2>5, <4>3 DEF Known
        <5>2. a \in LostIn(queue) => \E j \in 2 .. Len(queue) : queue[j].agent = a /\ queue[j].type = "LOST"
          <6>1. a \in LostIn(queue) => \E j \in 1 .. Len(queue) : queue[j].agent = a /\ queue[j].type = "LOST"
            BY <1>1, DomainIs
          <6> QED
            BY <2>5, <6>1 DEF e
        <5> QED
          BY <1>1, <4>1, <5>1, <5>2 DEF StaysRight
      <4> QED
        BY <4>2, <4>3
    <3> QED
      BY <1>1, <2>0, <2>1, <3>1, <3>2 DEF StaysAway, StaysRight
  <2> QED
    BY <2>3, <2>4, <2>5
<1> QED
  BY <1>1, <1>3, <1>4 DEF FeedInv


LEMMA GetDiscoveredAgentsStep ==
  ASSUME FeedInv, FeedTypeOK', GetDiscoveredAgents
  PROVE  FeedInv'
<1>1. /\ FeedTypeOK /\ request = "sent" /\ request' = "answered" /\ response' = table
      /\ table' = table /\ matched' = matched /\ queue' = queue /\ mAgents' = mAgents
      /\ lostSince' = lostSince /\ missed' = missed /\ lostSince = {}
  BY DEF GetDiscoveredAgents, Quiet, FeedInv
<1>2. AnswerIsTrue'
  BY <1>1 DEF AnswerIsTrue
<1>3. ~matched' => queue' = <<>>
  BY <1>1 DEF FeedInv
<1>4. ASSUME NEW a \in Agent
      PROVE  /\ LastTells(a)'
             /\ a \notin missed' =>
                  /\ StaysRight(a, mAgents[a])'
                  /\ StaysRight(a, Entered(mAgents)[a])' /\ StaysAway(a, Entered(mAgents)[a])'
  <2>1. LastTells(a) /\ (a \notin missed => StaysRight(a, mAgents[a]))
    BY DEF FeedInv
  <2>2. Entered(mAgents)'[a] = IF mAgents[a] = NoMetadata THEN table[a] ELSE mAgents[a]
    BY <1>1 DEF Entered
  <2>3. LastTells(a)' /\ (a \notin missed' => StaysRight(a, mAgents[a])')
    BY <1>1, <2>1 DEF LastTells, StaysRight, Concerns, Loses
  <2> QED
    BY <1>1, <2>1, <2>2, <2>3 DEF StaysRight, StaysAway
<1> QED
  BY <1>1, <1>2, <1>3, <1>4 DEF FeedInv

LEMMA HandleSnapshotStep ==
  ASSUME FeedInv, FeedTypeOK', HandleSnapshot
  PROVE  FeedInv'
<1>1. /\ FeedTypeOK /\ request = "answered" /\ request' = "done"
      /\ mAgents' = Entered(mAgents)
      /\ missed' = missed \cup {a \in lostSince \ LostIn(queue) : response[a] # NoMetadata}
      /\ lostSince' = {} /\ table' = table /\ matched' = matched /\ queue' = queue
  BY DEF HandleSnapshot, Quiet, FeedInv
<1>2. ~matched' => queue' = <<>>
  BY <1>1 DEF FeedInv
<1>3. ASSUME NEW a \in Agent
      PROVE  /\ LastTells(a)'
             /\ a \notin missed' => StaysRight(a, mAgents[a])' /\ StaysAway(a, mAgents[a])'
  <2>1. /\ LastTells(a)
        /\ a \notin missed /\ ~Overtaken(a) =>
             StaysRight(a, Entered(mAgents)[a]) /\ StaysAway(a, Entered(mAgents)[a])
    BY <1>1 DEF FeedInv
  <2>2. a \notin missed' => a \notin missed /\ ~Overtaken(a)
    BY <1>1 DEF Overtaken
  <2>3. LastTells(a)'
    BY <1>1, <2>1 DEF LastTells, Concerns, Loses
  <2> QED
    BY <1>1, <2>1, <2>2, <2>3 DEF StaysRight, StaysAway, Concerns
<1> QED
  BY <1>1, <1>2, <1>3 DEF FeedInv, AnswerIsTrue

\* What leaves the table, the events and m_agents alone, and gives no answer.
LEMMA OtherStep ==
  ASSUME FeedInv, FeedTypeOK',
         StartDecoder \/ Match \/ SnapshotFailed \/ UNCHANGED vars
  PROVE  FeedInv'
<1>0. FeedTypeOK /\ (request # "answered" => lostSince = {})
  BY DEF FeedInv
<1>1. /\ table' = table /\ queue' = queue /\ mAgents' = mAgents /\ missed' = missed
      /\ matched => matched'
      /\ \/ request' = request /\ response' = response /\ lostSince' = lostSince
         \/ request' \notin {"answered", "done"} /\ lostSince' = {}
      /\ request' \in {"unsent", "sent"} => request \in {"unsent", "sent"}
  BY <1>0 DEF StartDecoder, Match, SnapshotFailed, Quiet, vars, tableVars, feedVars
<1>2. AnswerIsTrue' /\ (request' # "answered" => lostSince' = {})
  BY <1>1 DEF FeedInv, AnswerIsTrue
<1>3. ~matched' => queue' = <<>> /\ (request' \in {"unsent", "sent"} => mAgents' = Nobody)
  BY <1>1 DEF FeedInv, Nobody
<1>4. ASSUME NEW a \in Agent
      PROVE  /\ LastTells(a)'
             /\ a \notin missed' =>
                  /\ StaysRight(a, mAgents[a])'
                  /\ request' = "done" => StaysAway(a, mAgents[a])'
                  /\ request' = "answered" /\ ~Overtaken(a)' =>
                       StaysRight(a, Entered(mAgents)[a])' /\ StaysAway(a, Entered(mAgents)[a])'
  <2>1. /\ LastTells(a)
        /\ a \notin missed =>
             /\ StaysRight(a, mAgents[a])
             /\ request = "done" => StaysAway(a, mAgents[a])
             /\ request = "answered" /\ ~Overtaken(a) =>
                  StaysRight(a, Entered(mAgents)[a]) /\ StaysAway(a, Entered(mAgents)[a])
    BY DEF FeedInv
  <2>2. LastTells(a)'
    BY <1>1, <2>1 DEF LastTells, Concerns, Loses
  <2>3. request' = "answered" => Entered(mAgents)'[a] = Entered(mAgents)[a] /\ (Overtaken(a)' <=> Overtaken(a))
    BY <1>1 DEF Entered, Overtaken
  <2> QED
    BY <1>1, <2>1, <2>2, <2>3 DEF StaysRight, StaysAway, Concerns
<1> QED
  BY <1>1, <1>2, <1>3, <1>4 DEF FeedInv

LEMMA FeedInvariance == FeedSpec => []FeedInv
<1>1. FeedInit => FeedInv
  <2> SUFFICES ASSUME FeedInit PROVE FeedInv
    OBVIOUS
  <2>1. FeedTypeOK
    <3>1. queue \in Seq(Published) /\ Len(queue) <= Depth
      BY FeedAssumption, EmptySeq DEF FeedInit
    <3>2. Nobody \in [Agent -> MaybeMetadata]
      BY DEF Nobody, MaybeMetadata
    <3> QED
      BY <3>1, <3>2 DEF FeedInit, Init, FeedTypeOK, Nobody
  <2>2. DOMAIN queue = {} /\ \A a \in Agent : mAgents[a] = NoMetadata
    BY DEF FeedInit, Nobody
  <2> QED
    BY <2>1, <2>2 DEF FeedInit, FeedInv, AnswerIsTrue, LastTells, StaysRight
<1>2. FeedInv /\ [FeedNext]_vars => FeedInv'
  <2> SUFFICES ASSUME FeedInv, [FeedNext]_vars PROVE FeedInv'
    OBVIOUS
  <2>1. FeedTypeOK'
    BY TypesStay DEF FeedInv
  <2> QED
    BY <2>1, PublishStep, HandleEventStep, GetDiscoveredAgentsStep, HandleSnapshotStep, OtherStep
    DEF FeedNext
<1> QED
  BY <1>1, <1>2, PTL DEF FeedSpec

\* No event, answer or entry is of a kind the types do not allow, and the queue never
\* holds more than it may.
THEOREM FeedTypeCorrect == FeedSpec => []FeedTypeOK
BY FeedInvariance, PTL DEF FeedInv

\* For queues of any depth, and events and snapshot in whatever order: a decoder that has the
\* answer will know, once it has handled the events that wait, what the discoverer does of
\* every agent of which nothing was dropped, published unmatched or overtaken.
THEOREM AgreesUnlessMissedAlways == FeedSpec => []AgreesUnlessMissed
<1>1. FeedInv => AgreesUnlessMissed
  BY KnownInTheEnd DEF FeedInv, AgreesUnlessMissed
<1> QED
  BY <1>1, FeedInvariance, PTL

=============================================================================
