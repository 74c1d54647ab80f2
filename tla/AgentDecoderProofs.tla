------------------------- MODULE AgentDecoderProofs --------------------------
(***************************************************************************)
(* Theorems about AgentDecoder for any number of agents, topics, loaders   *)
(* and faults.  The decoder's steps are steps of LazyNodeLoader: what      *)
(* LazyNodeLoaderProofs proves of that module holds in the composition.    *)
(***************************************************************************)
EXTENDS AgentDecoder, FiniteSetTheorems, TLAPS

\* The handler of DISCOVERED is making an entry, or taking it down again.
Making == handler \in {"discovered", "unwinding"}

\* The threads exclude each other by the mutex, and leave nothing half done.
Exclusion ==
  /\ listener = "visiting" => handler = "idle"
  /\ listener = "waiting" => toVisit = {}
  /\ handler \notin {"unwinding", "unload", "erase"} => toHandle = {}
  /\ ~Making => made = <<>>

\* The loaders that exist are those of the entries, and those an entry is made of.
TableHoldsLoaders ==
  \A l \in Loader :
    alive[l] <=> \/ /\ l \in Range(made)
                    /\ handler = "unwinding" => l \in toHandle
                 \/ /\ l \in DecodersOf(Agent)
                    /\ handler = "erase" /\ l \in DecodersOf(subjects) => l \in toHandle

\* What the threads have still to do is about loaders of the table, or of the entry that is
\* taken down.
WorkIsInTable ==
  /\ toVisit \subseteq DecodersOf(Agent)
  /\ handler \in {"unload", "erase"} => toHandle \subseteq DecodersOf(subjects)
  /\ handler = "unwinding" => toHandle \subseteq Range(made)

\* Loaders that are erased were told to unload before, or never to load.
ErasedAreUnloaded ==
  /\ handler = "unload" =>
       \A l \in DecodersOf(subjects) \ toHandle : mDesiredState[l] = "Unloaded"
  /\ handler = "erase" => \A l \in toHandle : mDesiredState[l] = "Unloaded"
  /\ \A l \in Loader : ~alive[l] \/ l \in Range(made) => mDesiredState[l] = "Unloaded"

\* The loaders publish what the metadata lists, each at its place.
FitsListing(decoders, a, m) ==
  /\ Len(decoders) <= Len(TopicsOf[a][m])
  /\ \A i \in DOMAIN decoders : outputTopic[decoders[i]] = TopicsOf[a][m][i]

EntriesFit ==
  \A a \in Agent :
    /\ a \notin mAgents => mDecoders[a] = <<>>
    /\ \E m \in Metadata : FitsListing(mDecoders[a], a, m)

\* So do those of an entry in the making, whose agent has none yet.
NewEntryFits ==
  Making =>
    /\ newAgent \notin mAgents
    /\ FitsListing(made, newAgent, newMetadata)
    /\ Range(made) \cap DecodersOf(Agent) = {}

\* The variables of the decoder itself are well typed.
OwnTypeOK ==
  /\ outputTopic \in [Loader -> Topic]
  /\ mAgents \in SUBSET Agent
  /\ mDecoders \in [Agent -> Seq(Loader)]
  /\ subscribed \in SUBSET Topic
  /\ listener \in {"waiting", "visiting"}
  /\ handler \in {"idle", "discovered", "unwinding", "unload", "erase", "destroyed"}
  /\ toVisit \in SUBSET Loader /\ toHandle \in SUBSET Loader
  /\ subjects \in SUBSET Agent
  /\ newAgent \in Agent /\ newMetadata \in Metadata /\ made \in Seq(Loader)
  /\ mDone \in BOOLEAN

\* The inductive invariant, beside the types of the loaders.
Own ==
  /\ OwnTypeOK /\ Exclusion
  /\ TableHoldsLoaders /\ WorkIsInTable /\ ErasedAreUnloaded
  /\ EntriesFit /\ NewEntryFits

-----------------------------------------------------------------------------
\* The loaders of the decoder and those of LazyNodeLoaderProofs are the same.

P == INSTANCE LazyNodeLoaderProofs

LEMMA LoaderConstantsHold == P!LoaderConstants
BY DecoderAssumption DEF P!LoaderConstants

LEMMA SameNext == [L!Next]_(L!vars) <=> [P!Next]_(P!vars)
BY DEF P!Next, P!Create, P!Load, P!InitiateLoad, P!Send, P!Unload, P!InitiateUnload, P!Drop,
       P!Destroy, P!Callback, P!LoadRefused, P!LoadUnwanted, P!LoadKept, P!UnloadRefused,
       P!UnloadDone, P!LoadAgain, P!Container, P!ContainerLoads, P!ContainerRefuses,
       P!ContainerUnloads, P!Lose, P!ForeignUnload, P!ContainerRestarts, P!Reply, P!FreshIds,
       P!Holds, P!vars, P!loaderVars, P!containerVars,
       L!Next, L!Create, L!Load, L!InitiateLoad, L!Send, L!Unload, L!InitiateUnload, L!Drop,
       L!Destroy, L!Callback, L!LoadRefused, L!LoadUnwanted, L!LoadKept, L!UnloadRefused,
       L!UnloadDone, L!LoadAgain, L!Container, L!ContainerLoads, L!ContainerRefuses,
       L!ContainerUnloads, L!Lose, L!ForeignUnload, L!ContainerRestarts, L!Reply, L!FreshIds,
       L!Holds, L!vars, L!loaderVars, L!containerVars

\* Every step of loaders and container keeps their types.
LEMMA LoadersTypeStep == L!TypeOK /\ [L!Next]_(L!vars) => L!TypeOK'
BY P!TypeStep, LoaderConstantsHold, SameNext
   DEF L!TypeOK, L!State, L!Call, P!TypeOK, P!State, P!Call

-----------------------------------------------------------------------------
\* What each step of a loader does to the fields that the decoder's invariant is about.
LEMMA CreateDoes ==
  ASSUME NEW l \in Loader, L!Create(l)
  PROVE  /\ ~alive[l] /\ alive' = [alive EXCEPT ![l] = TRUE]
         /\ mDesiredState' = mDesiredState
BY DEF L!Create

LEMMA UnloadDoes ==
  ASSUME NEW l \in Loader, L!Unload(l)
  PROVE  alive' = alive /\ mDesiredState' = [mDesiredState EXCEPT ![l] = "Unloaded"]
BY DEF L!Unload

LEMMA DestroyDoes ==
  ASSUME NEW l \in Loader, L!Destroy(l)
  PROVE  /\ alive' = [alive EXCEPT ![l] = FALSE]
         /\ mDesiredState' = [mDesiredState EXCEPT ![l] = "Unloaded"]
BY DEF L!Destroy

LEMMA CallbackDoes ==
  ASSUME NEW c, L!Callback(c)
  PROVE  alive' = alive /\ mDesiredState' = mDesiredState
BY DEF L!Callback, L!LoadRefused, L!LoadUnwanted, L!LoadKept, L!UnloadRefused, L!UnloadDone,
       L!LoadAgain

LEMMA ContainerStepDoes ==
  ASSUME ContainerStep
  PROVE  alive' = alive /\ mDesiredState' = mDesiredState
BY DEF ContainerStep, L!Container, L!ContainerLoads, L!ContainerRefuses, L!ContainerUnloads,
       L!Lose, L!ForeignUnload, L!ContainerRestarts, L!loaderVars

\* Metadata lists a topic finitely often.
LEMMA ListedIsFinite ==
  ASSUME NEW t, NEW a \in Agent, NEW m \in Metadata
  PROVE  IsFiniteSet(Listed(t, a, m)) /\ Cardinality(Listed(t, a, m)) \in Nat
<1>1. TopicsOf[a][m] \in Seq(Topic \cup {NoTopic})
  BY DecoderAssumption
<1>2. DOMAIN TopicsOf[a][m] = 1 .. Len(TopicsOf[a][m]) /\ Len(TopicsOf[a][m]) \in Int
  BY <1>1
<1>3. IsFiniteSet(DOMAIN TopicsOf[a][m])
  BY <1>2, FS_Interval
<1>4. Listed(t, a, m) \in SUBSET DOMAIN TopicsOf[a][m]
  BY DEF Listed
<1>5. IsFiniteSet(Listed(t, a, m))
  BY <1>3, <1>4, FS_Subset
<1> QED
  BY <1>5, FS_CardinalityType

\* Sequences of loaders and the sets of their elements.
LEMMA RangeFacts ==
  ASSUME NEW S, NEW s \in Seq(S), NEW x \in S
  PROVE  /\ Range(s) \subseteq S
         /\ Range(Append(s, x)) = Range(s) \cup {x}
<1>1. Range(s) \subseteq S
  BY DEF Range
<1>2. Append(s, x) \in Seq(S) /\ DOMAIN Append(s, x) = 1 .. Len(s) + 1
  OBVIOUS
<1>3. \A i \in DOMAIN s : i \in DOMAIN Append(s, x) /\ Append(s, x)[i] = s[i]
  OBVIOUS
<1>4. Append(s, x)[Len(s) + 1] = x
  OBVIOUS
<1>5. \A i \in DOMAIN Append(s, x) : i \in DOMAIN s \/ i = Len(s) + 1
  BY <1>2
<1>6. Len(s) + 1 \in DOMAIN Append(s, x)
  BY <1>2
<1> QED
  BY <1>1, <1>3, <1>4, <1>5, <1>6 DEF Range

LEMMA EmptyRange == Range(<<>>) = {}
BY DEF Range

LEMMA TopicsAreListed ==
  ASSUME NEW a \in Agent, NEW m \in Metadata
  PROVE  TopicsOf[a][m] \in Seq(Topic \cup {NoTopic})
BY DecoderAssumption

\* The loaders of a listing publish topics of it, and no other agent lists these.
LEMMA FittingTopics ==
  ASSUME OwnTypeOK, NEW a \in Agent, NEW m \in Metadata, NEW s \in Seq(Loader),
         FitsListing(s, a, m), NEW l \in Range(s)
  PROVE  outputTopic[l] \in Range(TopicsOf[a][m]) /\ outputTopic[l] # NoTopic
<1>1. PICK i \in DOMAIN s : s[i] = l
  BY DEF Range
<1>2. TopicsOf[a][m] \in Seq(Topic \cup {NoTopic})
  BY TopicsAreListed
<1>3. i \in DOMAIN TopicsOf[a][m]
  BY <1>2 DEF FitsListing
<1>4. outputTopic[l] = TopicsOf[a][m][i]
  BY <1>1 DEF FitsListing
<1>5. outputTopic[l] \in Topic
  BY <1>1 DEF OwnTypeOK
<1> QED
  BY <1>3, <1>4, <1>5, DecoderAssumption DEF Range

\* Loaders of one topic belong to one agent, since the topics of agents are disjoint.
LEMMA OneAgentPerTopic ==
  ASSUME OwnTypeOK,
         NEW a \in Agent, NEW m \in Metadata, NEW s \in Seq(Loader), FitsListing(s, a, m),
         NEW b \in Agent, NEW n \in Metadata, NEW u \in Seq(Loader), FitsListing(u, b, n),
         NEW l \in Range(s), NEW k \in Range(u), outputTopic[l] = outputTopic[k]
  PROVE  a = b
<1>1. outputTopic[l] \in Range(TopicsOf[a][m]) /\ outputTopic[l] # NoTopic
  BY FittingTopics
<1>2. outputTopic[l] \in Range(TopicsOf[b][n])
  BY FittingTopics
<1> QED
  BY <1>1, <1>2, DecoderAssumption

LEMMA EntriesAreDisjoint ==
  ASSUME OwnTypeOK, EntriesFit, NEW a \in Agent, NEW b \in Agent,
         NEW l \in Range(mDecoders[a]), l \in Range(mDecoders[b])
  PROVE  a = b
<1>1. mDecoders[a] \in Seq(Loader) /\ mDecoders[b] \in Seq(Loader)
  BY DEF OwnTypeOK
<1>2. PICK m \in Metadata : FitsListing(mDecoders[a], a, m)
  BY DEF EntriesFit
<1>3. PICK n \in Metadata : FitsListing(mDecoders[b], b, n)
  BY DEF EntriesFit
<1> QED
  BY <1>1, <1>2, <1>3, OneAgentPerTopic

-----------------------------------------------------------------------------
\* Each action keeps the invariant.

LEMMA LoadersAreTyped ==
  ASSUME L!TypeOK
  PROVE  /\ alive \in [Loader -> BOOLEAN]
         /\ mDesiredState \in [Loader -> {"Loaded", "Unloaded"}]
BY DEF L!TypeOK

\* A step that leaves the table and both threads alone.
LEMMA OthersKeepOwn ==
  ASSUME Own, UNCHANGED <<tableVars, listenerVars, handlerVars>>,
         alive' = alive, mDesiredState' = mDesiredState,
         subscribed' \in SUBSET Topic, mDone' \in BOOLEAN
  PROVE  Own'
<1> USE DEF tableVars, listenerVars, handlerVars, newVars, Making
<1>1. \A s : DecodersOf(s)' = DecodersOf(s)
  BY DEF DecodersOf
<1>2. OwnTypeOK' /\ Exclusion'
  BY DEF Own, OwnTypeOK, Exclusion
<1>3. TableHoldsLoaders' /\ WorkIsInTable'
  BY DEF Own, TableHoldsLoaders, WorkIsInTable, DecodersOf
<1>4. ErasedAreUnloaded' /\ EntriesFit' /\ NewEntryFits'
  BY DEF Own, ErasedAreUnloaded, EntriesFit, NewEntryFits, FitsListing, DecodersOf
<1> QED
  BY <1>2, <1>3, <1>4 DEF Own

LEMMA BeginDiscoveredStep ==
  ASSUME Own, NEW a \in Agent, NEW m \in Metadata, BeginDiscovered(a, m)
  PROVE  Own'
<1> USE DEF BeginDiscovered, MutexFree, loaderVars, tableVars, listenerVars, Making
<1>1. OwnTypeOK' /\ Exclusion'
  BY DEF Own, OwnTypeOK, Exclusion
<1>2. made = <<>> /\ Range(made) = {}
  BY EmptyRange DEF Own, Exclusion
<1>3. TableHoldsLoaders' /\ WorkIsInTable' /\ ErasedAreUnloaded'
  BY DEF Own, TableHoldsLoaders, WorkIsInTable, ErasedAreUnloaded, DecodersOf
<1>4. EntriesFit'
  BY DEF Own, EntriesFit, FitsListing
<1>5. FitsListing(made, a, m)
  BY <1>2, TopicsAreListed DEF FitsListing
<1>6. NewEntryFits'
  BY <1>2, <1>5 DEF NewEntryFits, FitsListing
<1> QED
  BY <1>1, <1>3, <1>4, <1>6 DEF Own

LEMMA CreateDecoderStep ==
  ASSUME L!TypeOK, Own, NEW l \in Loader, CreateDecoder(l)
  PROVE  Own'
<1> DEFINE next == Len(made) + 1
<1> USE DEF Making
<1>1. /\ handler = "discovered"
      /\ next \in DOMAIN NewTopics /\ NewTopics[next] # NoTopic
      /\ L!Create(l)
      /\ outputTopic' = [outputTopic EXCEPT ![l] = NewTopics[next]]
      /\ made' = Append(made, l)
      /\ UNCHANGED <<mAgents, mDecoders, subscribed, listenerVars, handler, toHandle, subjects,
                     newAgent, newMetadata, mDone>>
  BY DEF CreateDecoder
<1> HIDE DEF next
<1>2. ~alive[l] /\ alive' = [alive EXCEPT ![l] = TRUE] /\ mDesiredState' = mDesiredState
  BY <1>1, CreateDoes
<1>3. made \in Seq(Loader) /\ newAgent \in Agent /\ newMetadata \in Metadata
  BY DEF Own, OwnTypeOK
<1>4. Range(made') = Range(made) \cup {l}
  BY <1>1, <1>3, RangeFacts
<1>5. NewTopics \in Seq(Topic \cup {NoTopic})
  BY <1>3, TopicsAreListed DEF NewTopics
<1>6. NewTopics[next] \in Topic
  BY <1>1, <1>5
<1>7. OwnTypeOK' /\ Exclusion'
  BY <1>1, <1>3, <1>6 DEF Own, OwnTypeOK, Exclusion, listenerVars
<1>8. TableHoldsLoaders'
  BY <1>1, <1>2, <1>4, LoadersAreTyped DEF Own, TableHoldsLoaders, DecodersOf
<1>9. l \notin DecodersOf(Agent) /\ l \notin Range(made)
  BY <1>1, <1>2 DEF Own, TableHoldsLoaders
<1>10. WorkIsInTable'
  BY <1>1 DEF Own, WorkIsInTable, DecodersOf, listenerVars
<1>11. ErasedAreUnloaded'
  BY <1>1, <1>2, <1>4, LoadersAreTyped DEF Own, ErasedAreUnloaded
<1>12. \A k \in Loader : k # l => outputTopic'[k] = outputTopic[k]
  BY <1>1 DEF Own, OwnTypeOK
<1>13. EntriesFit'
  <2>1. \A a \in Agent : \A i \in DOMAIN mDecoders[a] :
          outputTopic'[mDecoders[a][i]] = outputTopic[mDecoders[a][i]]
    <3> SUFFICES ASSUME NEW a \in Agent, NEW i \in DOMAIN mDecoders[a]
                 PROVE  outputTopic'[mDecoders[a][i]] = outputTopic[mDecoders[a][i]]
      OBVIOUS
    <3>1. mDecoders[a][i] \in Loader
      BY DEF Own, OwnTypeOK
    <3>2. mDecoders[a][i] \in DecodersOf(Agent)
      BY DEF DecodersOf, Range
    <3> QED
      BY <3>1, <3>2, <1>9, <1>12
  <2> QED
    BY <1>1, <2>1 DEF Own, EntriesFit, FitsListing
<1>14. NewEntryFits'
  <2>1. newAgent' \notin mAgents' /\ Range(made)' \cap DecodersOf(Agent)' = {}
    BY <1>1, <1>4, <1>9 DEF Own, NewEntryFits, DecodersOf
  <2>2. /\ Len(made') = next /\ next <= Len(NewTopics) /\ made'[next] = l
        /\ \A i \in DOMAIN made' : i = next \/ (i \in DOMAIN made /\ made'[i] = made[i])
    BY <1>1, <1>3, <1>5 DEF next
  <2>3. \A i \in DOMAIN made : outputTopic'[made[i]] = NewTopics[i]
    <3>1. \A i \in DOMAIN made : made[i] \in Loader /\ made[i] # l
      BY <1>3, <1>9 DEF Range
    <3>2. \A i \in DOMAIN made : outputTopic[made[i]] = NewTopics[i]
      BY <1>1 DEF Own, NewEntryFits, FitsListing, NewTopics
    <3> QED
      BY <3>1, <3>2, <1>12
  <2>4. outputTopic'[l] = NewTopics[next]
    BY <1>1 DEF Own, OwnTypeOK
  <2>5. FitsListing(made, newAgent, newMetadata)'
    BY <1>1, <2>2, <2>3, <2>4 DEF FitsListing, NewTopics
  <2> QED
    BY <2>1, <2>5 DEF NewEntryFits
<1> QED
  BY <1>7, <1>8, <1>10, <1>11, <1>13, <1>14 DEF Own

LEMMA NameRefusedStep ==
  ASSUME Own, NameRefused
  PROVE  Own'
<1> USE DEF NameRefused, loaderVars, tableVars, listenerVars, newVars, Making
<1>1. Range(made) \subseteq Loader
  BY DEF Own, OwnTypeOK, Range
<1>2. OwnTypeOK' /\ Exclusion'
  BY <1>1 DEF Own, OwnTypeOK, Exclusion
<1>3. TableHoldsLoaders' /\ WorkIsInTable' /\ ErasedAreUnloaded'
  BY DEF Own, TableHoldsLoaders, WorkIsInTable, ErasedAreUnloaded, DecodersOf
<1>4. EntriesFit' /\ NewEntryFits'
  BY DEF Own, EntriesFit, NewEntryFits, FitsListing, DecodersOf
<1> QED
  BY <1>2, <1>3, <1>4 DEF Own

LEMMA EndUnwindingStep ==
  ASSUME Own, EndUnwinding
  PROVE  Own'
<1> USE DEF EndUnwinding, loaderVars, tableVars, listenerVars, Making
<1>1. OwnTypeOK' /\ Exclusion'
  BY DEF Own, OwnTypeOK, Exclusion
<1>2. DecodersOf(Agent)' = DecodersOf(Agent) /\ Range(made)' = {}
  BY EmptyRange DEF DecodersOf
<1>3. TableHoldsLoaders'
  BY <1>2 DEF Own, TableHoldsLoaders
<1>4. WorkIsInTable' /\ ErasedAreUnloaded'
  BY <1>2 DEF Own, WorkIsInTable, ErasedAreUnloaded
<1>5. EntriesFit' /\ NewEntryFits'
  BY DEF Own, EntriesFit, NewEntryFits, FitsListing
<1> QED
  BY <1>1, <1>3, <1>4, <1>5 DEF Own

LEMMA EmplaceStep ==
  ASSUME Own, Emplace
  PROVE  Own'
<1> USE DEF Emplace, loaderVars, listenerVars, Making
<1>1. mDecoders[newAgent] = <<>> /\ toHandle = {} /\ listener = "waiting" /\ toVisit = {}
  BY DEF Own, OwnTypeOK, Exclusion, EntriesFit, NewEntryFits
<1>2. \A a \in Agent : mDecoders'[a] = IF a = newAgent THEN made ELSE mDecoders[a]
  BY DEF Own, OwnTypeOK
<1>3. OwnTypeOK' /\ Exclusion'
  BY DEF Own, OwnTypeOK, Exclusion
<1>4. \A l : l \in DecodersOf(Agent)' <=> l \in DecodersOf(Agent) \/ l \in Range(made)
  BY <1>1, <1>2, EmptyRange DEF Own, OwnTypeOK, DecodersOf
<1>5. Range(made)' = {}
  BY EmptyRange
<1>6. TableHoldsLoaders'
  BY <1>4, <1>5 DEF Own, TableHoldsLoaders
<1>7. WorkIsInTable' /\ ErasedAreUnloaded'
  BY <1>1, <1>5 DEF Own, WorkIsInTable, ErasedAreUnloaded
<1>8. EntriesFit'
  <2>1. \A a \in Agent : a # newAgent =>
          /\ a \notin mAgents' => mDecoders'[a] = <<>>
          /\ \E m \in Metadata : FitsListing(mDecoders[a], a, m)
    BY <1>2 DEF Own, EntriesFit
  <2>2. FitsListing(made, newAgent, newMetadata) /\ newMetadata \in Metadata
    BY DEF Own, OwnTypeOK, NewEntryFits
  <2>3. \A a \in Agent : \E m \in Metadata : FitsListing(mDecoders'[a], a, m)
    BY <1>2, <2>1, <2>2
  <2> QED
    BY <1>2, <2>1, <2>3 DEF EntriesFit, FitsListing
<1>9. NewEntryFits'
  BY DEF NewEntryFits
<1> QED
  BY <1>3, <1>6, <1>7, <1>8, <1>9 DEF Own

\* BeginLost and BeginDestroy: the decoders of some agents are to be unloaded.
LEMMA BeginUnloadStep ==
  ASSUME Own, NEW agents \in SUBSET Agent, MutexFree,
         handler' = "unload", subjects' = agents, toHandle' = DecodersOf(agents),
         UNCHANGED <<loaderVars, tableVars, subscribed, listenerVars, newVars, mDone>>
  PROVE  Own'
<1> USE DEF MutexFree, loaderVars, tableVars, listenerVars, newVars, Making
<1>1. DecodersOf(agents) \subseteq Loader
  BY DEF Own, OwnTypeOK, DecodersOf, Range
<1>2. OwnTypeOK' /\ Exclusion'
  BY <1>1 DEF Own, OwnTypeOK, Exclusion
<1>3. DecodersOf(Agent)' = DecodersOf(Agent) /\ DecodersOf(subjects)' = DecodersOf(agents)
  BY DEF DecodersOf
<1>4. TableHoldsLoaders'
  BY <1>3 DEF Own, TableHoldsLoaders
<1>5. WorkIsInTable' /\ ErasedAreUnloaded'
  BY <1>3 DEF Own, WorkIsInTable, ErasedAreUnloaded, Exclusion
<1>6. EntriesFit' /\ NewEntryFits'
  BY DEF Own, EntriesFit, NewEntryFits, FitsListing
<1> QED
  BY <1>2, <1>4, <1>5, <1>6 DEF Own

LEMMA UnloadDecoderStep ==
  ASSUME L!TypeOK, Own, NEW l \in Loader, UnloadDecoder(l)
  PROVE  Own'
<1> USE DEF UnloadDecoder, tableVars, listenerVars, newVars, Making
<1>1. alive' = alive /\ mDesiredState' = [mDesiredState EXCEPT ![l] = "Unloaded"]
  BY UnloadDoes
<1>2. OwnTypeOK' /\ Exclusion'
  BY DEF Own, OwnTypeOK, Exclusion
<1>3. TableHoldsLoaders'
  BY <1>1 DEF Own, TableHoldsLoaders, DecodersOf
<1>4. \A k \in Loader : mDesiredState'[k] = IF k = l THEN "Unloaded" ELSE mDesiredState[k]
  BY <1>1, LoadersAreTyped
<1>5. WorkIsInTable'
  BY DEF Own, WorkIsInTable, DecodersOf
<1>6. ErasedAreUnloaded'
  <2>1. DecodersOf(subjects)' = DecodersOf(subjects) /\ DecodersOf(subjects) \subseteq Loader
    BY DEF Own, OwnTypeOK, DecodersOf, Range
  <2> QED
    BY <1>1, <1>4, <2>1 DEF Own, OwnTypeOK, ErasedAreUnloaded
<1>7. EntriesFit' /\ NewEntryFits'
  BY DEF Own, EntriesFit, NewEntryFits, FitsListing
<1> QED
  BY <1>2, <1>3, <1>5, <1>6, <1>7 DEF Own

LEMMA BeginEraseStep ==
  ASSUME Own, BeginErase
  PROVE  Own'
<1> USE DEF BeginErase, loaderVars, tableVars, listenerVars, newVars, Making
<1>1. DecodersOf(subjects) \subseteq Loader
  BY DEF Own, OwnTypeOK, DecodersOf, Range
<1>2. OwnTypeOK' /\ Exclusion'
  BY <1>1 DEF Own, OwnTypeOK, Exclusion
<1>3. DecodersOf(Agent)' = DecodersOf(Agent) /\ DecodersOf(subjects)' = DecodersOf(subjects)
  BY DEF DecodersOf
<1>4. TableHoldsLoaders' /\ WorkIsInTable' /\ ErasedAreUnloaded'
  BY <1>3 DEF Own, TableHoldsLoaders, WorkIsInTable, ErasedAreUnloaded
<1>5. EntriesFit' /\ NewEntryFits'
  BY DEF Own, EntriesFit, NewEntryFits, FitsListing
<1> QED
  BY <1>2, <1>4, <1>5 DEF Own

LEMMA DestroyDecoderStep ==
  ASSUME L!TypeOK, Own, NEW l \in Loader, DestroyDecoder(l)
  PROVE  Own'
<1> USE DEF DestroyDecoder, tableVars, listenerVars, newVars, Making
<1>1. /\ alive' = [alive EXCEPT ![l] = FALSE]
      /\ mDesiredState' = [mDesiredState EXCEPT ![l] = "Unloaded"]
  BY DestroyDoes
<1>2. OwnTypeOK' /\ Exclusion'
  BY DEF Own, OwnTypeOK, Exclusion
<1>3. DecodersOf(Agent)' = DecodersOf(Agent) /\ DecodersOf(subjects)' = DecodersOf(subjects)
  BY DEF DecodersOf
<1>4. \A k \in Loader : /\ alive'[k] <=> alive[k] /\ k # l
                        /\ mDesiredState'[k] = IF k = l THEN "Unloaded" ELSE mDesiredState[k]
  BY <1>1, LoadersAreTyped
<1>5. TableHoldsLoaders'
  <2>1. CASE handler = "erase"
    <3>1. l \in DecodersOf(subjects) /\ Range(made) = {}
      BY <2>1, EmptyRange DEF Own, WorkIsInTable, Exclusion
    <3> QED
      BY <1>3, <1>4, <2>1, <3>1 DEF Own, TableHoldsLoaders
  <2>2. CASE handler = "unwinding"
    <3>1. l \in Range(made) /\ l \notin DecodersOf(Agent)
      BY <2>2 DEF Own, WorkIsInTable, NewEntryFits
    <3> QED
      BY <1>3, <1>4, <2>2, <3>1 DEF Own, TableHoldsLoaders
  <2> QED
    BY <2>1, <2>2
<1>6. WorkIsInTable'
  BY <1>3 DEF Own, WorkIsInTable
<1>7. ErasedAreUnloaded'
  BY <1>3, <1>4 DEF Own, OwnTypeOK, ErasedAreUnloaded
<1>8. EntriesFit' /\ NewEntryFits'
  BY <1>3 DEF Own, EntriesFit, NewEntryFits, FitsListing
<1> QED
  BY <1>2, <1>5, <1>6, <1>7, <1>8 DEF Own

LEMMA EndEraseStep ==
  ASSUME Own, EndErase
  PROVE  Own'
<1> USE DEF EndErase, loaderVars, listenerVars, newVars, Making
<1>1. OwnTypeOK' /\ Exclusion'
  BY DEF Own, OwnTypeOK, Exclusion
<1>2. \A a \in Agent : mDecoders'[a] = IF a \in subjects THEN <<>> ELSE mDecoders[a]
  BY DEF Own, OwnTypeOK
<1>3. \A l : l \in DecodersOf(Agent)' <=> l \in DecodersOf(Agent) /\ l \notin DecodersOf(subjects)
  <2> SUFFICES ASSUME NEW l
               PROVE  (\E a \in Agent : l \in Range(mDecoders'[a])) <=>
                        /\ \E a \in Agent : l \in Range(mDecoders[a])
                        /\ ~\E a \in subjects : l \in Range(mDecoders[a])
    BY DEF DecodersOf, Range
  <2>1. subjects \subseteq Agent
    BY DEF Own, OwnTypeOK
  <2>2. \A a, b \in Agent : l \in Range(mDecoders[a]) /\ l \in Range(mDecoders[b]) => a = b
    BY EntriesAreDisjoint DEF Own
  <2> QED
    BY <1>2, <2>1, <2>2, EmptyRange
<1>4. TableHoldsLoaders'
  BY <1>3 DEF Own, TableHoldsLoaders
<1>5. WorkIsInTable' /\ ErasedAreUnloaded'
  BY DEF Own, OwnTypeOK, WorkIsInTable, ErasedAreUnloaded, Exclusion
<1>6. EntriesFit' /\ NewEntryFits'
  BY <1>2, TopicsAreListed DEF Own, OwnTypeOK, EntriesFit, NewEntryFits, FitsListing
<1> QED
  BY <1>1, <1>4, <1>5, <1>6 DEF Own

LEMMA BeginPassStep ==
  ASSUME Own, BeginPass
  PROVE  Own'
<1> USE DEF BeginPass, MutexFree, loaderVars, tableVars, handlerVars, newVars, Making
<1>1. DecodersOf(Agent) \subseteq Loader
  BY DEF Own, OwnTypeOK, DecodersOf, Range
<1>2. OwnTypeOK' /\ Exclusion'
  BY <1>1 DEF Own, OwnTypeOK, Exclusion
<1>3. DecodersOf(Agent)' = DecodersOf(Agent) /\ DecodersOf(subjects)' = DecodersOf(subjects)
  BY DEF DecodersOf
<1>4. TableHoldsLoaders' /\ WorkIsInTable' /\ ErasedAreUnloaded'
  BY <1>3 DEF Own, TableHoldsLoaders, WorkIsInTable, ErasedAreUnloaded
<1>5. EntriesFit' /\ NewEntryFits'
  BY DEF Own, EntriesFit, NewEntryFits, FitsListing
<1> QED
  BY <1>2, <1>4, <1>5 DEF Own

LEMMA VisitStep ==
  ASSUME L!TypeOK, Own, NEW l \in Loader, Visit(l)
  PROVE  Own'
<1> USE DEF Visit, tableVars, handlerVars, newVars, Making
<1>1. alive' = alive /\ alive[l] /\ \A k \in Loader : k # l => mDesiredState'[k] = mDesiredState[k]
  BY LoadersAreTyped DEF L!Load, L!Unload
<1>2. handler = "idle" /\ handler' = "idle" /\ Range(made) = {}
  BY EmptyRange DEF Own, Exclusion
<1>3. OwnTypeOK' /\ Exclusion'
  BY DEF Own, OwnTypeOK, Exclusion
<1>4. DecodersOf(Agent)' = DecodersOf(Agent) /\ DecodersOf(subjects)' = DecodersOf(subjects)
  BY DEF DecodersOf
<1>5. TableHoldsLoaders' /\ WorkIsInTable'
  BY <1>1, <1>2, <1>4 DEF Own, TableHoldsLoaders, WorkIsInTable
<1>6. ErasedAreUnloaded'
  BY <1>1, <1>2 DEF Own, ErasedAreUnloaded
<1>7. EntriesFit' /\ NewEntryFits'
  BY <1>4 DEF Own, EntriesFit, NewEntryFits, FitsListing
<1> QED
  BY <1>3, <1>5, <1>6, <1>7 DEF Own

LEMMA EndPassStep ==
  ASSUME Own, EndPass
  PROVE  Own'
<1> USE DEF EndPass, loaderVars, tableVars, handlerVars, newVars, Making
<1>1. OwnTypeOK' /\ Exclusion'
  BY DEF Own, OwnTypeOK, Exclusion
<1>2. DecodersOf(Agent)' = DecodersOf(Agent) /\ DecodersOf(subjects)' = DecodersOf(subjects)
  BY DEF DecodersOf
<1>3. TableHoldsLoaders' /\ WorkIsInTable' /\ ErasedAreUnloaded'
  BY <1>2 DEF Own, TableHoldsLoaders, WorkIsInTable, ErasedAreUnloaded
<1>4. EntriesFit' /\ NewEntryFits'
  BY <1>2 DEF Own, EntriesFit, NewEntryFits, FitsListing
<1> QED
  BY <1>1, <1>3, <1>4 DEF Own

LEMMA OwnStep ==
  ASSUME L!TypeOK, Own, [Next]_vars
  PROVE  Own'
<1>1. Own /\ subscribed \in SUBSET Topic /\ mDone \in BOOLEAN
  BY DEF Own, OwnTypeOK
<1>2. ASSUME NEW a \in Agent, BeginLost(a) PROVE Own'
  <2>1. {a} \in SUBSET Agent /\ MutexFree
    BY <1>2 DEF BeginLost
  <2> QED
    BY <1>1, <1>2, <2>1, BeginUnloadStep DEF BeginLost
<1>3. CASE BeginDestroy
  BY <1>1, <1>3, BeginUnloadStep DEF BeginDestroy, MutexFree
<1>4. CASE Stop
  BY <1>1, <1>4, OthersKeepOwn DEF Stop, loaderVars
<1>5. ASSUME NEW c \in call, LoaderCallback(c) PROVE Own'
  <2>1. alive' = alive /\ mDesiredState' = mDesiredState
    BY <1>5, CallbackDoes DEF LoaderCallback
  <2> QED
    BY <1>1, <1>5, <2>1, OthersKeepOwn DEF LoaderCallback
<1>6. CASE ContainerStep
  <2>1. alive' = alive /\ mDesiredState' = mDesiredState
    BY <1>6, ContainerStepDoes
  <2> QED
    BY <1>1, <1>6, <2>1, OthersKeepOwn DEF ContainerStep
<1>7. ASSUME NEW t \in Topic, GraphChange(t) PROVE Own'
  BY <1>1, <1>7, OthersKeepOwn DEF GraphChange, loaderVars
<1>8. CASE UNCHANGED vars
  BY <1>1, <1>8, OthersKeepOwn DEF vars, loaderVars
<1>9. CASE EventHandlerStep
  BY <1>1, <1>9, CreateDecoderStep, NameRefusedStep, EndUnwindingStep, EmplaceStep,
     UnloadDecoderStep, DestroyDecoderStep, BeginEraseStep, EndEraseStep DEF EventHandlerStep
<1>10. CASE ListenerStep
  BY <1>1, <1>10, BeginPassStep, VisitStep, EndPassStep DEF ListenerStep
<1>11. ASSUME NEW a \in Agent, NEW m \in Metadata, BeginDiscovered(a, m) PROVE Own'
  BY <1>1, <1>11, BeginDiscoveredStep
<1> QED
  BY <1>2, <1>3, <1>4, <1>5, <1>6, <1>7, <1>8, <1>9, <1>10, <1>11 DEF Next

-----------------------------------------------------------------------------
\* The decoder as the owner of the loaders.

\* Each step of the decoder is one of loaders and container, or none: a loader that is
\* destroyed was told to unload before, and nothing was asked of it since.
LEMMA ContractStep ==
  ASSUME Own, [Next]_vars
  PROVE  [L!Next]_(L!vars)
<1> USE DEF loaderVars
<1>1. L!vars' = L!vars <=> UNCHANGED loaderVars
  BY DEF L!vars, L!loaderVars, L!containerVars
<1>2. ASSUME NEW l \in Loader, DestroyDecoder(l) PROVE L!Next
  <2>1. alive[l] /\ mDesiredState[l] = "Unloaded"
    <3>1. CASE handler = "erase"
      <4>1. l \in DecodersOf(Agent)
        BY <1>2, <3>1 DEF DestroyDecoder, Own, OwnTypeOK, WorkIsInTable, DecodersOf
      <4> QED
        BY <1>2, <3>1, <4>1 DEF DestroyDecoder, Own, ErasedAreUnloaded, TableHoldsLoaders
    <3>2. CASE handler = "unwinding"
      BY <1>2, <3>2 DEF DestroyDecoder, Own, WorkIsInTable, ErasedAreUnloaded, TableHoldsLoaders
    <3> QED
      BY <1>2, <3>1, <3>2 DEF DestroyDecoder
  <2>2. L!Drop(l)
    BY <1>2, <2>1 DEF DestroyDecoder, L!Drop
  <2> QED
    BY <2>2 DEF L!Next
<1>3. ASSUME NEW l \in Loader, CreateDecoder(l) PROVE L!Next
  BY <1>3 DEF CreateDecoder, L!Next
<1>4. ASSUME NEW l \in Loader, UnloadDecoder(l) \/ Visit(l) PROVE L!Next
  BY <1>4 DEF UnloadDecoder, Visit, L!Next
<1>5. ASSUME NEW c \in call, LoaderCallback(c) PROVE L!Next
  BY <1>5 DEF LoaderCallback, L!Next
<1>6. CASE ContainerStep
  BY <1>6 DEF ContainerStep, L!Next
<1>7. ASSUME NEW a \in Agent, NEW m \in Metadata, BeginDiscovered(a, m) PROVE UNCHANGED loaderVars
  BY <1>7 DEF BeginDiscovered
<1>8. ASSUME NEW a \in Agent, BeginLost(a) PROVE UNCHANGED loaderVars
  BY <1>8 DEF BeginLost
<1>9. ASSUME NameRefused \/ EndUnwinding \/ Emplace \/ BeginErase \/ EndErase \/ BeginPass \/ EndPass \/ Stop \/ BeginDestroy
      PROVE  UNCHANGED loaderVars
  BY <1>9 DEF NameRefused, EndUnwinding, Emplace, BeginErase, EndErase, BeginPass, EndPass, Stop, BeginDestroy
<1>10. ASSUME NEW t \in Topic, GraphChange(t) PROVE UNCHANGED loaderVars
  BY <1>10 DEF GraphChange
<1>11. ASSUME UNCHANGED vars PROVE UNCHANGED loaderVars
  BY <1>11 DEF vars
<1> QED
  BY <1>1, <1>2, <1>3, <1>4, <1>5, <1>6, <1>7, <1>8, <1>9, <1>10, <1>11
     DEF Next, EventHandlerStep, ListenerStep

LEMMA InitIInv == Init => L!TypeOK /\ Own
<1> SUFFICES ASSUME Init PROVE L!TypeOK /\ Own
  OBVIOUS
<1>1. L!TypeOK
  BY DecoderAssumption DEF Init, L!Init, L!TypeOK, L!State, L!Call
<1>2. /\ (CHOOSE t \in Topic : TRUE) \in Topic /\ (CHOOSE a \in Agent : TRUE) \in Agent
      /\ (CHOOSE m \in Metadata : TRUE) \in Metadata
  BY DecoderAssumption
<1>3. OwnTypeOK /\ Exclusion
  <2>1. <<>> \in Seq(Loader)
    OBVIOUS
  <2> QED
    BY <1>2, <2>1 DEF Init, OwnTypeOK, Exclusion, Making
<1>4. DecodersOf(Agent) = {} /\ DecodersOf(subjects) = {} /\ Range(made) = {}
  BY EmptyRange DEF Init, DecodersOf
<1>5. TableHoldsLoaders /\ WorkIsInTable /\ ErasedAreUnloaded
  BY <1>4 DEF Init, L!Init, TableHoldsLoaders, WorkIsInTable, ErasedAreUnloaded
<1>6. EntriesFit
  <2> SUFFICES ASSUME NEW a \in Agent
               PROVE  mDecoders[a] = <<>> /\ \E m \in Metadata : FitsListing(mDecoders[a], a, m)
    BY DEF EntriesFit
  <2>1. mDecoders[a] = <<>>
    BY DEF Init
  <2>2. PICK m \in Metadata : TRUE
    BY DecoderAssumption
  <2>3. FitsListing(mDecoders[a], a, m)
    BY <2>1, TopicsAreListed DEF FitsListing
  <2> QED
    BY <2>1, <2>3
<1>7. NewEntryFits
  BY DEF Init, NewEntryFits, Making
<1> QED
  BY <1>1, <1>3, <1>5, <1>6, <1>7 DEF Own

LEMMA Invariance == Spec => [](L!TypeOK /\ Own)
<1>1. L!TypeOK /\ Own /\ [Next]_vars => (L!TypeOK /\ Own)'
  <2> SUFFICES ASSUME L!TypeOK, Own, [Next]_vars PROVE L!TypeOK' /\ Own'
    OBVIOUS
  <2>1. Own'
    BY OwnStep
  <2>2. L!TypeOK'
    BY ContractStep, LoadersTypeStep
  <2> QED
    BY <2>1, <2>2
<1> QED
  BY <1>1, InitIInv, PTL DEF Spec

-----------------------------------------------------------------------------
\* How many decoders a topic has.

\* The loaders of an agent, those of an entry in the making included.
EntryOf(a) == IF Making /\ a = newAgent THEN made ELSE mDecoders[a]

LEMMA EntryFits ==
  ASSUME Own, NEW a \in Agent
  PROVE  EntryOf(a) \in Seq(Loader) /\ \E m \in Metadata : FitsListing(EntryOf(a), a, m)
BY DEF EntryOf, Own, OwnTypeOK, EntriesFit, NewEntryFits

LEMMA LivingAreInEntries ==
  ASSUME Own, NEW l \in Loader, alive[l]
  PROVE  \E a \in Agent : l \in Range(EntryOf(a))
<1>1. CASE l \in Range(made)
  <2>1. Making
    BY <1>1, EmptyRange DEF Own, Exclusion
  <2> QED
    BY <1>1, <2>1 DEF EntryOf, Own, OwnTypeOK
<1>2. CASE l \in DecodersOf(Agent)
  <2>1. PICK a \in Agent : l \in Range(mDecoders[a])
    BY <1>2 DEF DecodersOf
  <2>2. ~(Making /\ a = newAgent)
    BY <2>1, EmptyRange DEF Own, EntriesFit, NewEntryFits
  <2> QED
    BY <2>1, <2>2 DEF EntryOf
<1> QED
  BY <1>1, <1>2 DEF Own, TableHoldsLoaders

\* The loaders of a topic are all in the entry of one agent.
LEMMA OneEntryHolds ==
  ASSUME Own, NEW t \in Topic
  PROVE  \E a \in Agent, m \in Metadata, s \in Seq(Loader) :
            FitsListing(s, a, m) /\ DecodersFor(t) \subseteq Range(s)
<1>1. CASE DecodersFor(t) = {}
  <2>1. PICK a \in Agent : TRUE
    BY DecoderAssumption
  <2> QED
    BY <1>1, <2>1, EntryFits
<1>2. ASSUME NEW l \in DecodersFor(t)
      PROVE  \E a \in Agent, m \in Metadata, s \in Seq(Loader) :
                FitsListing(s, a, m) /\ DecodersFor(t) \subseteq Range(s)
  <2>1. PICK a \in Agent : l \in Range(EntryOf(a))
    BY <1>2, LivingAreInEntries DEF DecodersFor
  <2>2. EntryOf(a) \in Seq(Loader)
    BY EntryFits
  <2>3. PICK m \in Metadata : FitsListing(EntryOf(a), a, m)
    BY EntryFits
  <2>4. ASSUME NEW k \in DecodersFor(t) PROVE k \in Range(EntryOf(a))
    <3>1. PICK b \in Agent : k \in Range(EntryOf(b))
      BY <2>4, LivingAreInEntries DEF DecodersFor
    <3>2. EntryOf(b) \in Seq(Loader)
      BY EntryFits
    <3>3. PICK n \in Metadata : FitsListing(EntryOf(b), b, n)
      BY EntryFits
    <3>4. OwnTypeOK /\ outputTopic[l] = outputTopic[k]
      BY <1>2, <2>4 DEF Own, DecodersFor
    <3>5. a = b
      BY <2>1, <2>2, <2>3, <3>1, <3>2, <3>3, <3>4, OneAgentPerTopic
    <3> QED
      BY <3>1, <3>5
  <2> QED
    BY <2>2, <2>3, <2>4
<1> QED
  BY <1>1, <1>2

\* So places in its listing can be counted instead.
LEMMA DecodersAreFew ==
  ASSUME Own, NEW t \in Topic
  PROVE  /\ IsFiniteSet(DecodersFor(t))
         /\ \E a \in Agent, m \in Metadata :
              Cardinality(DecodersFor(t)) <= Cardinality(Listed(t, a, m))
<1>1. PICK a \in Agent, m \in Metadata, s \in Seq(Loader) :
         FitsListing(s, a, m) /\ DecodersFor(t) \subseteq Range(s)
  BY OneEntryHolds
<1> DEFINE places == {i \in DOMAIN s : s[i] \in DecodersFor(t)}
           at == [i \in places |-> s[i]]
<1>2. IsFiniteSet(Listed(t, a, m)) /\ Cardinality(Listed(t, a, m)) \in Nat
  BY ListedIsFinite
<1>3. places \in SUBSET Listed(t, a, m)
  BY <1>1, TopicsAreListed DEF FitsListing, Listed, DecodersFor
<1>4. at \in Surjection(places, DecodersFor(t))
  BY <1>1 DEF Surjection, Range
<1>5. IsFiniteSet(places) /\ Cardinality(places) <= Cardinality(Listed(t, a, m))
  BY <1>2, <1>3, FS_Subset
<1>6. Cardinality(DecodersFor(t)) <= Cardinality(places) /\ IsFiniteSet(DecodersFor(t))
  BY <1>4, <1>5, FS_Surjection
<1>7. Cardinality(places) \in Nat /\ Cardinality(DecodersFor(t)) \in Nat
  BY <1>5, <1>6, FS_CardinalityType
<1> HIDE DEF places
<1>8. Cardinality(DecodersFor(t)) <= Cardinality(Listed(t, a, m))
  BY <1>2, <1>5, <1>6, <1>7
<1> QED
  BY <1>6, <1>8

-----------------------------------------------------------------------------
\* Theorems.

\* No variable of the decoder, the loaders and the container leaves its type.
THEOREM TypeCorrect == Spec => []TypeOK
<1>1. L!TypeOK /\ Own => TypeOK
  BY DEF Own, OwnTypeOK, TypeOK
<1> QED
  BY <1>1, Invariance, PTL

\* Listener, event handlers and destructor use the loaders as LazyNodeLoader lets their
\* owner do, for any number of agents and topics: they implement its specification.
THEOREM LoaderContractIsKept == Spec => KeepsLoaderContract
<1>1. L!TypeOK /\ Own /\ [Next]_vars => [L!Next]_(L!vars)
  BY ContractStep
<1>2. Init => L!Init
  BY DEF Init
<1> QED
  BY <1>1, <1>2, Invariance, PTL DEF Spec, KeepsLoaderContract, L!Spec

\* A topic never has more living decoders than the metadata of one agent lists it, as long as the
\* topics of agents are disjoint.
THEOREM OneDecoderPerEntryAlways == Spec => []OneDecoderPerEntry
<1>1. Own => OneDecoderPerEntry
  BY DecodersAreFew DEF OneDecoderPerEntry
<1> QED
  BY <1>1, Invariance, PTL

\* No thread is ever about to call or to destroy a loader that does not exist.
THEOREM OnlyLiveLoadersAlways == Spec => []OnlyLiveLoaders
<1>1. Own => OnlyLiveLoaders
  <2> SUFFICES ASSUME Own, NEW l \in toVisit \cup toHandle PROVE alive[l]
    BY DEF OnlyLiveLoaders
  <2>1. l \in Loader
    BY DEF Own, OwnTypeOK
  <2>2. CASE l \in toVisit
    <3>1. handler = "idle" /\ l \in DecodersOf(Agent)
      BY <2>2 DEF Own, OwnTypeOK, Exclusion, WorkIsInTable
    <3> QED
      BY <2>1, <3>1 DEF Own, TableHoldsLoaders
  <2>3. CASE l \in toHandle
    <3>1. CASE handler = "unwinding"
      BY <2>1, <2>3, <3>1 DEF Own, WorkIsInTable, TableHoldsLoaders
    <3>2. CASE handler # "unwinding"
      <4>1. l \in DecodersOf(Agent)
        BY <2>3, <3>2 DEF Own, OwnTypeOK, Exclusion, WorkIsInTable, DecodersOf
      <4> QED
        BY <2>1, <2>3, <4>1 DEF Own, TableHoldsLoaders
    <3> QED
      BY <3>1, <3>2
  <2> QED
    BY <2>2, <2>3
<1> QED
  BY <1>1, Invariance, PTL


-----------------------------------------------------------------------------
\* What is proved of any owner's loaders holds of the decoder's.

LEMMA LoadersInvariance == Spec => [](P!IInv /\ P!BusyHasCall)
<1>1. L!TypeOK /\ Own /\ [Next]_vars => [P!Next]_(P!vars)
  BY ContractStep, SameNext
<1>2. Init => P!Init
  BY DEF Init, L!Init, P!Init
<1>3. Spec => P!Spec
  BY <1>1, <1>2, Invariance, PTL DEF Spec, P!Spec
<1> QED
  BY <1>3, LoaderConstantsHold, P!Invariance, P!BusyHasCallAlways, PTL

\* Whatever listener, event handlers, destructor and callbacks do, and however the container
\* fails: one request per loader, one node per loader, none forgotten unless calls are lost,
\* and states that are true unless somebody else touches the container.
THEOREM DecoderKeepsLoadersSafe ==
  Spec => [](L!OneCallPerLoader /\ L!AtMostOneNode /\ L!NoForgottenNode /\ L!StateIsTrue)
<1>1. P!IInv => L!OneCallPerLoader /\ L!AtMostOneNode
  BY DEF P!IInv, P!Core, P!OneCallPerLoader, P!AtMostOneNode, L!OneCallPerLoader, L!AtMostOneNode
<1>2. P!IInv => L!NoForgottenNode /\ L!StateIsTrue
  BY DEF P!IInv, P!Known, P!NoForgottenNode, P!StateIsTrue, P!NodesOf,
         L!NoForgottenNode, L!StateIsTrue, L!NodesOf
<1> QED
  BY <1>1, <1>2, LoadersInvariance, PTL

\* A topic is published by no more nodes of living decoders than one agent's metadata lists it.
OneNodePerEntry ==
  \A t \in Topic : \E a \in Agent, m \in Metadata :
    Cardinality({i \in Id : node[i] \in DecodersFor(t)}) <= Cardinality(Listed(t, a, m))

\* However often agents are discovered and lost, and whatever the container is asked in the
\* meantime, it never holds more nodes that decode to a topic than one agent lists it, but for
\* those of agents that were lost.
THEOREM OneNodePerEntryAlways == Spec => []OneNodePerEntry
<1>1. ASSUME Own, P!IInv, NEW t \in Topic
      PROVE  \E a \in Agent, m \in Metadata :
               Cardinality({i \in Id : node[i] \in DecodersFor(t)}) <= Cardinality(Listed(t, a, m))
  <2> DEFINE nodes == {i \in Id : node[i] \in DecodersFor(t)}
             decoder == [i \in nodes |-> node[i]]
  <2>1. \A i, j \in nodes : node[i] = node[j] => i = j
    BY <1>1 DEF DecodersFor, P!IInv, P!Core, P!AtMostOneNode
  <2>2. decoder \in Injection(nodes, DecodersFor(t))
    BY <2>1 DEF Injection, IsInjective
  <2>3. IsFiniteSet(DecodersFor(t))
    BY <1>1, DecodersAreFew
  <2>4. IsFiniteSet(nodes) /\ Cardinality(nodes) <= Cardinality(DecodersFor(t))
    BY <2>2, <2>3, FS_Injection
  <2>5. Cardinality(nodes) \in Nat /\ Cardinality(DecodersFor(t)) \in Nat
    BY <2>3, <2>4, FS_CardinalityType
  <2>6. PICK a \in Agent, m \in Metadata : Cardinality(DecodersFor(t)) <= Cardinality(Listed(t, a, m))
    BY <1>1, DecodersAreFew
  <2>7. Cardinality(Listed(t, a, m)) \in Nat
    BY ListedIsFinite
  <2> HIDE DEF nodes
  <2>8. Cardinality(nodes) <= Cardinality(Listed(t, a, m))
    BY <2>4, <2>5, <2>6, <2>7
  <2> QED
    BY <2>8 DEF nodes
<1>2. Own /\ P!IInv => OneNodePerEntry
  BY <1>1 DEF OneNodePerEntry
<1> QED
  BY <1>2, Invariance, LoadersInvariance, PTL

\* No handler runs and all requests have been answered.
AtRest == handler = "idle" /\ call = {}

\* Every node in the container belongs to a decoder of a known agent that was last told to load.
NodesAreWanted ==
  AtRest /\ "loss" \notin Faults =>
    \A i \in Id : node[i] # NoLoader =>
      node[i] \in DecodersOf(Agent) /\ mDesiredState[node[i]] = "Loaded"

\* A decoder either has its node and wants it, or knows that it has none.
RestIsTidy ==
  AtRest /\ Faults = {} =>
    \A l \in DecodersOf(Agent) :
      \/ mState[l] = "Loaded" /\ L!NodesOf(l) # {} /\ mDesiredState[l] = "Loaded"
      \/ mState[l] = "Unloaded" /\ L!NodesOf(l) = {}

\* What UnwatchedIsNotDecoded rests on: once all requests are answered, no node is left of an
\* agent that was lost, nor of a topic that had no subscriber when the listener looked last.
THEOREM NodesAreWantedAtRest == Spec => []NodesAreWanted
<1>1. L!TypeOK /\ Own /\ P!IInv => NodesAreWanted
  <2> SUFFICES ASSUME L!TypeOK, Own, P!IInv, handler = "idle", call = {}, "loss" \notin Faults,
                      NEW i \in Id, node[i] # NoLoader
               PROVE  node[i] \in DecodersOf(Agent) /\ mDesiredState[node[i]] = "Loaded"
    BY DEF NodesAreWanted, AtRest
  <2>1. node[i] \in Loader
    BY DEF L!TypeOK
  <2>2. alive[node[i]] /\ mState[node[i]] = "Loaded"
    BY <2>1 DEF P!IInv, P!Known, P!NoForgottenNode
  <2>3. mDesiredState[node[i]] = "Loaded"
    BY <2>1, <2>2 DEF P!IInv, P!Core, P!NodeFitsState
  <2>4. node[i] \in DecodersOf(Agent)
    BY <2>1, <2>2, EmptyRange DEF Own, Exclusion, Making, TableHoldsLoaders
  <2> QED
    BY <2>3, <2>4
<1> QED
  BY <1>1, Invariance, LoadersInvariance, PTL

\* What WatchedIsDecoded rests on: with all requests answered no loader is left waiting, and
\* the next load() of one that lacks its node will be a request.
THEOREM RestIsTidyAlways == Spec => []RestIsTidy
<1>1. L!TypeOK /\ Own /\ P!IInv /\ P!BusyHasCall => RestIsTidy
  <2> SUFFICES ASSUME L!TypeOK, Own, P!IInv, P!BusyHasCall, handler = "idle", call = {}, Faults = {},
                      NEW l \in DecodersOf(Agent)
               PROVE  \/ mState[l] = "Loaded" /\ L!NodesOf(l) # {} /\ mDesiredState[l] = "Loaded"
                      \/ mState[l] = "Unloaded" /\ L!NodesOf(l) = {}
    BY DEF RestIsTidy, AtRest
  <2>1. l \in Loader /\ alive[l]
    <3>1. l \in Loader
      BY DEF Own, OwnTypeOK, DecodersOf, Range
    <3> QED
      BY <3>1 DEF Own, TableHoldsLoaders
  <2>2. mState[l] \in {"Loaded", "Unloaded"}
    <3>1. P!CallOf(l) = {}
      BY DEF P!CallOf
    <3>2. mState[l] \in {"Loading", "Loaded", "Unloaded", "Unloading"}
      BY <2>1 DEF L!TypeOK, L!State
    <3> QED
      BY <2>1, <3>1, <3>2 DEF P!BusyHasCall
  <2>3. CASE mState[l] = "Loaded"
    <3>1. mId[l] \in L!NodesOf(l)
      BY <2>1, <2>3 DEF P!IInv, P!Known, P!StateIsTrue, P!NodesOf, L!NodesOf
    <3>2. mDesiredState[l] = "Loaded"
      BY <2>1, <2>3, <3>1 DEF P!IInv, P!Core, P!NodeFitsState, L!NodesOf
    <3> QED
      BY <2>3, <3>1, <3>2
  <2>4. CASE mState[l] = "Unloaded"
    BY <2>1, <2>4 DEF P!IInv, P!Known, P!StateIsTrue, P!NodesOf, L!NodesOf
  <2> QED
    BY <2>2, <2>3, <2>4
<1> QED
  BY <1>1, Invariance, LoadersInvariance, PTL
=============================================================================
