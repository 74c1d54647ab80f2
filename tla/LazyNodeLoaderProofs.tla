------------------------ MODULE LazyNodeLoaderProofs ------------------------
(***************************************************************************)
(* Proofs about LazyNodeLoader for any number of loaders, ids and requests *)
(* in flight, with or without faults of the environment.                   *)
(*                                                                         *)
(* The safety invariants are not inductive: whether a node may be loaded,  *)
(* or is about to be forgotten, depends on what the one call in flight     *)
(* knows of it.  IInv says that.                                           *)
(***************************************************************************)
EXTENDS LazyNodeLoader, TLAPS

\* The state of a living loader matches its call in flight.
StateFitsCall ==
  \A c \in call : alive[c.loader] =>
    mState[c.loader] = IF c.op = "load" THEN "Loading" ELSE "Unloading"

\* While a call is in flight only its own node exists: the one a load has
\* brought, or the one an unload is to remove.
NodeFitsCall ==
  \A c \in call : \A i \in Id : node[i] = c.loader =>
    /\ c.id = i
    /\ \/ c.op = "load" /\ c.reply = "ok"
       \/ c.op = "unload" /\ c.reply = "none"

\* What a living loader's state says about its nodes.
NodeFitsState ==
  \A l \in Loader : \A i \in Id : alive[l] /\ node[i] = l =>
    /\ mState[l] # "Unloaded"
    /\ mState[l] = "Loaded" => mId[l] = i /\ mDesiredState[l] = "Loaded"

\* Without faults, a call that names a node names an existing one.
CallFitsNode ==
  Faults = {} =>
    \A c \in call :
      /\ c.op = "load" /\ c.reply = "ok" => c.id \in NodesOf(c.loader)
      /\ c.op = "unload" => c.reply # "failed"
      /\ c.op = "unload" /\ c.reply = "none" => c.id \in NodesOf(c.loader)

\* An object that does not exist has the fields the next one starts with.
DeadIsBlank ==
  \A l \in Loader : ~alive[l] => mState[l] = "Unloaded" /\ mDesiredState[l] = "Unloaded"

\* Holds whatever the environment does ...
Core ==
  /\ TypeOK /\ DeadIsBlank
  /\ OneCallPerLoader /\ AtMostOneNode
  /\ StateFitsCall /\ NodeFitsCall /\ NodeFitsState

\* What calls and states know of nodes, as long as the faults that each conjunct
\* excludes do not happen.
Known == NoForgottenNode /\ CallFitsNode /\ StateIsTrue

IInv == Core /\ Known

-----------------------------------------------------------------------------
\* async_send_request adds exactly one call, still unanswered.
LEMMA SendAddsOne ==
  ASSUME NEW pending, NEW op \in {"load", "unload"}, NEW l \in Loader,
         NEW i \in Id \cup {NoId}, call' \in Send(pending, op, l, i)
  PROVE  \E n \in Call : /\ call' = pending \cup {n}
                         /\ n.op = op /\ n.loader = l
                         /\ n.id = i /\ n.reply = "none"
<1>1. PICK t \in Token :
        call' = pending \cup
          {[token |-> t, op |-> op, loader |-> l, id |-> i, reply |-> "none"]}
  BY DEF Send
<1> DEFINE n == [token |-> t, op |-> op, loader |-> l, id |-> i, reply |-> "none"]
<1>2. n \in Call /\ n.op = op /\ n.loader = l /\ n.id = i /\ n.reply = "none"
  BY DEF Call
<1>3. call' = pending \cup {n}
  BY <1>1
<1> HIDE DEF n
<1> QED BY <1>2, <1>3

LEMMA LoadAddsOne ==
  ASSUME NEW pending, NEW l \in Loader, call' \in Send(pending, "load", l, NoId)
  PROVE  \E n \in Call : /\ call' = pending \cup {n}
                         /\ n.op = "load" /\ n.loader = l
                         /\ n.id = NoId /\ n.reply = "none"
<1>1. "load" \in {"load", "unload"} /\ NoId \in Id \cup {NoId}
  OBVIOUS
<1> QED BY <1>1, SendAddsOne

LEMMA UnloadAddsOne ==
  ASSUME NEW pending, NEW l \in Loader, NEW i \in Id \cup {NoId},
         call' \in Send(pending, "unload", l, i)
  PROVE  \E n \in Call : /\ call' = pending \cup {n}
                         /\ n.op = "unload" /\ n.loader = l
                         /\ n.id = i /\ n.reply = "none"
<1>1. "unload" \in {"load", "unload"}
  OBVIOUS
<1> QED BY <1>1, SendAddsOne

\* An answer replaces one call, whose operation and loader stay the same.
LEMMA ReplyChangesOne ==
  ASSUME NEW c \in Call, NEW r \in {"ok", "failed"}, NEW i \in Id \cup {NoId},
         Reply(c, r, i)
  PROVE  \E d \in Call : /\ call' = (call \ {c}) \cup {d}
                         /\ d.reply = r /\ d.id = i
                         /\ d.op = c.op /\ d.loader = c.loader
<1> DEFINE d == [c EXCEPT !.reply = r, !.id = i]
<1>1. d \in Call /\ d.reply = r /\ d.id = i /\ d.op = c.op /\ d.loader = c.loader
  BY DEF Call
<1>2. call' = (call \ {c}) \cup {d}
  BY DEF Reply
<1> HIDE DEF d
<1> QED BY <1>1, <1>2

-----------------------------------------------------------------------------
\* Every state Spec reaches is well typed: no callback stores an id or a state
\* the object could not hold.
LEMMA TypeStep == TypeOK /\ [Next]_vars => TypeOK'
<1> SUFFICES ASSUME TypeOK, [Next]_vars PROVE TypeOK'
  OBVIOUS
<1> USE DEF TypeOK, loaderVars, containerVars
<1>1. ASSUME NEW l \in Loader, Create(l) PROVE TypeOK'
  BY <1>1 DEF Create, State
<1>2. ASSUME NEW l \in Loader, Load(l) PROVE TypeOK'
  <2>1. CASE mState[l] = "Unloaded"
    <3>1. call' \in Send(call, "load", l, NoId)
      BY <1>2, <2>1 DEF Load, InitiateLoad
    <3>2. call' \subseteq Call
      BY <3>1, LoadAddsOne
    <3> QED BY <1>2, <2>1, <3>2 DEF Load, InitiateLoad, State
  <2>2. CASE mState[l] # "Unloaded"
    BY <1>2, <2>2 DEF Load
  <2> QED BY <2>1, <2>2
<1>3. ASSUME NEW l \in Loader, Unload(l) PROVE TypeOK'
  <2>1. CASE mState[l] = "Loaded"
    <3>1. call' \in Send(call, "unload", l, mId[l])
      BY <1>3, <2>1 DEF Unload, InitiateUnload
    <3>2. call' \subseteq Call
      BY <3>1, UnloadAddsOne
    <3> QED BY <1>3, <2>1, <3>2 DEF Unload, InitiateUnload, State
  <2>2. CASE mState[l] # "Loaded"
    BY <1>3, <2>2 DEF Unload
  <2> QED BY <2>1, <2>2
<1>4. ASSUME NEW l \in Loader, Drop(l) PROVE TypeOK'
  BY <1>4 DEF Drop, Destroy, State
<1>5. ASSUME NEW c \in call, Callback(c) PROVE TypeOK'
  <2>c. c \in Call /\ c.loader \in Loader /\ c.id \in Id \cup {NoId}
    BY DEF Call
  <2>1. CASE LoadRefused(c)
    BY <2>c, <2>1 DEF LoadRefused, State
  <2>2. CASE LoadUnwanted(c)
    <3>1. call' \in Send(call \ {c}, "unload", c.loader, c.id)
      BY <2>2 DEF LoadUnwanted, InitiateUnload
    <3>2. call' \subseteq Call
      BY <2>c, <3>1, UnloadAddsOne
    <3> QED BY <2>c, <2>2, <3>2 DEF LoadUnwanted, InitiateUnload, State
  <2>3. CASE LoadKept(c)
    BY <2>c, <2>3 DEF LoadKept, State
  <2>4. CASE UnloadRefused(c)
    BY <2>c, <2>4 DEF UnloadRefused, State
  <2>5. CASE UnloadDone(c)
    BY <2>c, <2>5 DEF UnloadDone, State
  <2>6. CASE LoadAgain(c)
    <3>1. call' \in Send(call \ {c}, "load", c.loader, NoId)
      BY <2>6 DEF LoadAgain, InitiateLoad
    <3>2. call' \subseteq Call
      BY <2>c, <3>1, LoadAddsOne DEF Call
    <3> QED BY <2>c, <2>6, <3>2 DEF LoadAgain, InitiateLoad, State
  <2> QED BY <1>5, <2>1, <2>2, <2>3, <2>4, <2>5, <2>6 DEF Callback
<1>6. ASSUME NEW c \in call, Container(c) PROVE TypeOK'
  <2>c. c \in Call /\ c.loader \in Loader /\ c.id \in Id \cup {NoId}
    BY DEF Call
  <2>1. CASE ContainerLoads(c)
    <3>1. PICK i \in FreshIds : node' = [node EXCEPT ![i] = c.loader] /\ Reply(c, "ok", i)
      BY <2>1 DEF ContainerLoads
    <3>2. i \in Id
      BY DEF FreshIds
    <3>3. call' \subseteq Call
      BY <2>c, <3>1, <3>2, ReplyChangesOne
    <3> QED BY <2>c, <2>1, <3>1, <3>2, <3>3 DEF ContainerLoads
  <2>2. CASE ContainerRefuses(c)
    <3>1. call' \subseteq Call
      BY <2>c, <2>2, ReplyChangesOne DEF ContainerRefuses
    <3> QED BY <2>2, <3>1 DEF ContainerRefuses
  <2>3. CASE ContainerUnloads(c)
    <3>1. call' \subseteq Call
      BY <2>c, <2>3, ReplyChangesOne DEF ContainerUnloads
    <3> QED BY <2>3, <3>1 DEF ContainerUnloads, Holds
  <2> QED BY <1>6, <2>1, <2>2, <2>3 DEF Container
<1>7. ASSUME NEW c \in call, Lose(c) PROVE TypeOK'
  BY <1>7 DEF Lose
<1>8. ASSUME NEW i \in Id, ForeignUnload(i) PROVE TypeOK'
  BY <1>8 DEF ForeignUnload
<1>9. CASE ContainerRestarts
  BY <1>9 DEF ContainerRestarts
<1>10. CASE UNCHANGED vars
  BY <1>10 DEF vars
<1> QED BY <1>1, <1>2, <1>3, <1>4, <1>5, <1>6, <1>7, <1>8, <1>9, <1>10 DEF Next

\* No variable of loaders, calls and container leaves its type, whatever goes wrong.
THEOREM TypeCorrect == Spec => []TypeOK
<1>1. Init => TypeOK
  BY DEF Init, TypeOK, State
<1> QED BY <1>1, TypeStep, PTL DEF Spec

-----------------------------------------------------------------------------
\* Core is inductive.
LEMMA CoreStep == Core /\ [Next]_vars => Core'
<1>a. SUFFICES ASSUME Core, [Next]_vars PROVE Core'
  OBVIOUS
<1>t. TypeOK /\ TypeOK'
  BY <1>a, TypeStep DEF Core
<1>c. \A c \in call : c \in Call /\ c.loader \in Loader /\ c.id \in Id \cup {NoId}
  BY <1>a, <1>t DEF TypeOK, Call
<1> USE DEF containerVars, TypeOK, Core, OneCallPerLoader, AtMostOneNode, StateFitsCall, NodeFitsCall, NodeFitsState, DeadIsBlank
<1>1. ASSUME NEW l \in Loader, Create(l) PROVE Core'
  BY <1>a, <1>t, <1>1 DEF Create
<1>2. ASSUME NEW l \in Loader, Load(l) PROVE Core'
  <2>1. CASE mState[l] = "Unloaded"
    <3>0. call' \in Send(call, "load", l, NoId)
      BY <1>2, <2>1 DEF Load, InitiateLoad
    <3>i. l \in Loader /\ NoId \in Id \cup {NoId}
      BY <1>t, <1>c
    <3>1. PICK n \in Call : /\ call' = call \cup {n}
                            /\ n.op = "load" /\ n.loader = l
                            /\ n.id = NoId /\ n.reply = "none"
      BY <3>0, <3>i, LoadAddsOne
    <3>2. \A c \in call : c.loader # l
      BY <1>a, <1>2, <2>1, <1>c DEF Load
    <3>3. \A i \in Id : node[i] # l
      BY <1>a, <1>2, <2>1 DEF Load
    <3>4. OneCallPerLoader'
      BY <1>a, <1>t, <1>c, <1>2, <2>1, <3>1, <3>2, <3>3 DEF Load, InitiateLoad
    <3>5. AtMostOneNode'
      BY <1>a, <1>t, <1>c, <1>2, <2>1, <3>1, <3>2, <3>3 DEF Load, InitiateLoad
    <3>6. StateFitsCall'
      BY <1>a, <1>t, <1>c, <1>2, <2>1, <3>1, <3>2, <3>3 DEF Load, InitiateLoad
    <3>7. NodeFitsCall'
      BY <1>a, <1>t, <1>c, <1>2, <2>1, <3>1, <3>2, <3>3 DEF Load, InitiateLoad
    <3>8. NodeFitsState'
      BY <1>a, <1>t, <1>c, <1>2, <2>1, <3>1, <3>2, <3>3 DEF Load, InitiateLoad
    <3>9. DeadIsBlank'
      BY <1>a, <1>t, <1>c, <1>2, <2>1, <3>1, <3>2, <3>3 DEF Load, InitiateLoad
    <3> QED BY <1>a, <1>t, <3>4, <3>5, <3>6, <3>7, <3>8, <3>9
  <2>2. CASE mState[l] # "Unloaded"
    BY <1>a, <1>t, <1>2, <2>2 DEF Load
  <2> QED BY <2>1, <2>2
<1>3. ASSUME NEW l \in Loader, Unload(l) PROVE Core'
  <2>1. CASE mState[l] = "Loaded"
    <3>0. call' \in Send(call, "unload", l, mId[l])
      BY <1>3, <2>1 DEF Unload, InitiateUnload
    <3>i. l \in Loader /\ mId[l] \in Id \cup {NoId}
      BY <1>t, <1>c
    <3>1. PICK n \in Call : /\ call' = call \cup {n}
                            /\ n.op = "unload" /\ n.loader = l
                            /\ n.id = mId[l] /\ n.reply = "none"
      BY <3>0, <3>i, UnloadAddsOne
    <3>2. \A c \in call : c.loader # l
      BY <1>a, <1>3, <2>1, <1>c DEF Unload
    <3>3. OneCallPerLoader'
      BY <1>a, <1>t, <1>c, <1>3, <2>1, <3>1, <3>2 DEF Unload, InitiateUnload
    <3>4. AtMostOneNode'
      BY <1>a, <1>t, <1>c, <1>3, <2>1, <3>1, <3>2 DEF Unload, InitiateUnload
    <3>5. StateFitsCall'
      BY <1>a, <1>t, <1>c, <1>3, <2>1, <3>1, <3>2 DEF Unload, InitiateUnload
    <3>6. NodeFitsCall'
      BY <1>a, <1>t, <1>c, <1>3, <2>1, <3>1, <3>2 DEF Unload, InitiateUnload
    <3>7. NodeFitsState'
      BY <1>a, <1>t, <1>c, <1>3, <2>1, <3>1, <3>2 DEF Unload, InitiateUnload
    <3>8. DeadIsBlank'
      BY <1>a, <1>t, <1>c, <1>3, <2>1, <3>1, <3>2 DEF Unload, InitiateUnload
    <3> QED BY <1>a, <1>t, <3>3, <3>4, <3>5, <3>6, <3>7, <3>8
  <2>2. CASE mState[l] # "Loaded"
    BY <1>a, <1>t, <1>3, <2>2 DEF Unload
  <2> QED BY <2>1, <2>2
<1>4. ASSUME NEW l \in Loader, Drop(l) PROVE Core'
  BY <1>a, <1>t, <1>4 DEF Drop, Destroy
<1>5. ASSUME NEW c \in call, Callback(c) PROVE Core'
  <2>o. \A d \in call \ {c} : d.loader # c.loader
    BY <1>a
  <2>1. CASE LoadRefused(c)
    BY <1>a, <1>t, <1>c, <2>o, <2>1 DEF LoadRefused
  <2>2. CASE LoadUnwanted(c)
    <3>0. call' \in Send(call \ {c}, "unload", c.loader, c.id)
      BY <2>2 DEF LoadUnwanted, InitiateUnload
    <3>i. c.loader \in Loader /\ c.id \in Id \cup {NoId}
      BY <1>t, <1>c
    <3>1. PICK n \in Call : /\ call' = (call \ {c}) \cup {n}
                            /\ n.op = "unload" /\ n.loader = c.loader
                            /\ n.id = c.id /\ n.reply = "none"
      BY <3>0, <3>i, UnloadAddsOne
    <3>2. OneCallPerLoader'
      BY <1>a, <1>t, <1>c, <2>o, <2>2, <3>1 DEF LoadUnwanted, InitiateUnload
    <3>3. AtMostOneNode'
      BY <1>a, <1>t, <1>c, <2>o, <2>2, <3>1 DEF LoadUnwanted, InitiateUnload
    <3>4. StateFitsCall'
      BY <1>a, <1>t, <1>c, <2>o, <2>2, <3>1 DEF LoadUnwanted, InitiateUnload
    <3>5. NodeFitsCall'
      BY <1>a, <1>t, <1>c, <2>o, <2>2, <3>1 DEF LoadUnwanted, InitiateUnload
    <3>6. NodeFitsState'
      BY <1>a, <1>t, <1>c, <2>o, <2>2, <3>1 DEF LoadUnwanted, InitiateUnload
    <3>7. DeadIsBlank'
      BY <1>a, <1>t, <1>c, <2>o, <2>2, <3>1 DEF LoadUnwanted, InitiateUnload
    <3> QED BY <1>a, <1>t, <3>2, <3>3, <3>4, <3>5, <3>6, <3>7
  <2>3. CASE LoadKept(c)
    BY <1>a, <1>t, <1>c, <2>o, <2>3 DEF LoadKept
  <2>4. CASE UnloadRefused(c)
    BY <1>a, <1>t, <1>c, <2>o, <2>4 DEF UnloadRefused
  <2>5. CASE UnloadDone(c)
    BY <1>a, <1>t, <1>c, <2>o, <2>5 DEF UnloadDone
  <2>6. CASE LoadAgain(c)
    <3>0. call' \in Send(call \ {c}, "load", c.loader, NoId)
      BY <2>6 DEF LoadAgain, InitiateLoad
    <3>i. c.loader \in Loader /\ NoId \in Id \cup {NoId}
      BY <1>t, <1>c
    <3>1. PICK n \in Call : /\ call' = (call \ {c}) \cup {n}
                            /\ n.op = "load" /\ n.loader = c.loader
                            /\ n.id = NoId /\ n.reply = "none"
      BY <3>0, <3>i, LoadAddsOne
    <3>2. OneCallPerLoader'
      BY <1>a, <1>t, <1>c, <2>o, <2>6, <3>1 DEF LoadAgain, InitiateLoad
    <3>3. AtMostOneNode'
      BY <1>a, <1>t, <1>c, <2>o, <2>6, <3>1 DEF LoadAgain, InitiateLoad
    <3>4. StateFitsCall'
      BY <1>a, <1>t, <1>c, <2>o, <2>6, <3>1 DEF LoadAgain, InitiateLoad
    <3>5. NodeFitsCall'
      BY <1>a, <1>t, <1>c, <2>o, <2>6, <3>1 DEF LoadAgain, InitiateLoad
    <3>6. NodeFitsState'
      BY <1>a, <1>t, <1>c, <2>o, <2>6, <3>1 DEF LoadAgain, InitiateLoad
    <3>7. DeadIsBlank'
      BY <1>a, <1>t, <1>c, <2>o, <2>6, <3>1 DEF LoadAgain, InitiateLoad
    <3> QED BY <1>a, <1>t, <3>2, <3>3, <3>4, <3>5, <3>6, <3>7
  <2> QED BY <1>5, <2>1, <2>2, <2>3, <2>4, <2>5, <2>6 DEF Callback
<1>6. ASSUME NEW c \in call, Container(c) PROVE Core'
  <2>o. \A d \in call \ {c} : d.loader # c.loader
    BY <1>a
  <2>1. CASE ContainerLoads(c)
    <3>1. PICK i \in Id : node' = [node EXCEPT ![i] = c.loader] /\ Reply(c, "ok", i)
      BY <2>1 DEF ContainerLoads, FreshIds
    <3>2. PICK d \in Call : /\ call' = (call \ {c}) \cup {d}
                            /\ d.reply = "ok" /\ d.id = i /\ d.op = "load" /\ d.loader = c.loader
      BY <1>c, <2>1, <3>1, ReplyChangesOne DEF ContainerLoads
    <3>3. \A j \in Id : node[j] # c.loader
      BY <1>a, <2>1 DEF ContainerLoads
    <3> QED BY <1>a, <1>t, <1>c, <2>o, <2>1, <3>1, <3>2, <3>3 DEF ContainerLoads, loaderVars
  <2>2. CASE ContainerRefuses(c)
    <3>1. PICK d \in Call : /\ call' = (call \ {c}) \cup {d}
                            /\ d.op = "load" /\ d.loader = c.loader
      BY <1>c, <2>2, ReplyChangesOne DEF ContainerRefuses
    <3>2. \A j \in Id : node[j] # c.loader
      BY <1>a, <2>2 DEF ContainerRefuses
    <3> QED BY <1>a, <1>t, <1>c, <2>o, <2>2, <3>1, <3>2 DEF ContainerRefuses, loaderVars
  <2>3. CASE ContainerUnloads(c)
    <3>1. PICK r \in {"ok", "failed"} : Reply(c, r, c.id)
      BY <2>3 DEF ContainerUnloads
    <3>2. PICK d \in Call : /\ call' = (call \ {c}) \cup {d}
                            /\ d.reply = r /\ d.id = c.id
                            /\ d.op = c.op /\ d.loader = c.loader
      <4>1. c \in Call /\ c.id \in Id \cup {NoId} /\ c.op = "unload"
        BY <1>c, <2>3 DEF ContainerUnloads
      <4> QED BY <3>1, <4>1, ReplyChangesOne
    <3>3. \A j \in Id : node'[j] # c.loader
      BY <1>a, <1>t, <1>c, <2>3, LoaderConstants DEF ContainerUnloads, Holds
    <3>4. \A j \in Id : node'[j] # NoLoader => node'[j] = node[j]
      BY <1>a, <1>t, <2>3 DEF ContainerUnloads, Holds
    <3>5. OneCallPerLoader'
      BY <1>a, <1>t, <1>c, <2>o, <2>3, <3>2, <3>3, <3>4, LoaderConstants DEF ContainerUnloads, loaderVars
    <3>6. AtMostOneNode'
      BY <1>a, <1>t, <1>c, <2>o, <2>3, <3>2, <3>3, <3>4, LoaderConstants DEF ContainerUnloads, loaderVars
    <3>7. StateFitsCall'
      BY <1>a, <1>t, <1>c, <2>o, <2>3, <3>2, <3>3, <3>4, LoaderConstants DEF ContainerUnloads, loaderVars
    <3>8. NodeFitsCall'
      BY <1>a, <1>t, <1>c, <2>o, <2>3, <3>2, <3>3, <3>4, LoaderConstants DEF ContainerUnloads, loaderVars
    <3>9. NodeFitsState'
      BY <1>a, <1>t, <1>c, <2>o, <2>3, <3>2, <3>3, <3>4, LoaderConstants DEF ContainerUnloads, loaderVars
    <3>10. DeadIsBlank'
      BY <1>a, <1>t, <1>c, <2>o, <2>3, <3>2, <3>3, <3>4, LoaderConstants DEF ContainerUnloads, loaderVars
    <3> QED BY <1>a, <1>t, <3>5, <3>6, <3>7, <3>8, <3>9, <3>10
  <2> QED BY <1>6, <2>1, <2>2, <2>3 DEF Container
<1>7. ASSUME NEW c \in call, Lose(c) PROVE Core'
  BY <1>a, <1>t, <1>7 DEF Lose, loaderVars
<1>8. ASSUME NEW i \in Id, ForeignUnload(i) PROVE Core'
  BY <1>a, <1>t, <1>c, <1>8, LoaderConstants DEF ForeignUnload, loaderVars
<1>9. CASE ContainerRestarts
  BY <1>a, <1>t, <1>c, <1>9, LoaderConstants DEF ContainerRestarts, loaderVars
<1>10. CASE UNCHANGED vars
  BY <1>a, <1>10 DEF vars, loaderVars
<1> QED BY <1>a, <1>1, <1>2, <1>3, <1>4, <1>5, <1>6, <1>7, <1>8, <1>9, <1>10 DEF Next

-----------------------------------------------------------------------------
\* Given Core, so is what calls and states know of nodes.
LEMMA KnownStep == Core /\ Known /\ [Next]_vars => Known'
<1>a. SUFFICES ASSUME Core, Known, [Next]_vars PROVE Known'
  OBVIOUS
<1>t. TypeOK /\ TypeOK'
  BY <1>a, TypeStep DEF Core
<1>c. \A c \in call : c \in Call /\ c.loader \in Loader /\ c.id \in Id \cup {NoId}
  BY <1>t DEF TypeOK, Call
<1> USE DEF containerVars, TypeOK, Core, Known, OneCallPerLoader, AtMostOneNode, StateFitsCall, NodeFitsCall,
            NodeFitsState, DeadIsBlank, NoForgottenNode, CallFitsNode, StateIsTrue, NodesOf
<1>1. ASSUME NEW l \in Loader, Create(l) PROVE Known'
  BY <1>a, <1>t, <1>c, <1>1 DEF Create
<1>2. ASSUME NEW l \in Loader, Load(l) PROVE Known'
  <2>1. CASE mState[l] = "Unloaded"
    <3>0. call' \in Send(call, "load", l, NoId)
      BY <1>2, <2>1 DEF Load, InitiateLoad
    <3>1. PICK n \in Call : /\ call' = call \cup {n}
                            /\ n.op = "load" /\ n.loader = l
                            /\ n.id = NoId /\ n.reply = "none"
      BY <3>0, LoadAddsOne
    <3>2. NoForgottenNode'
      BY <1>a, <1>t, <1>c, <1>2, <2>1, <3>1 DEF Load, InitiateLoad
    <3>3. CallFitsNode'
      BY <1>a, <1>t, <1>c, <1>2, <2>1, <3>1 DEF Load, InitiateLoad
    <3>4. StateIsTrue'
      BY <1>a, <1>t, <1>c, <1>2, <2>1, <3>1 DEF Load, InitiateLoad
    <3> QED BY <3>2, <3>3, <3>4 DEF Known
  <2>2. CASE mState[l] # "Unloaded"
    BY <1>a, <1>t, <1>2, <2>2 DEF Load
  <2> QED BY <2>1, <2>2
<1>3. ASSUME NEW l \in Loader, Unload(l) PROVE Known'
  <2>1. CASE mState[l] = "Loaded"
    <3>0. call' \in Send(call, "unload", l, mId[l])
      BY <1>3, <2>1 DEF Unload, InitiateUnload
    <3>i. mId[l] \in Id \cup {NoId}
      BY <1>t
    <3>1. PICK n \in Call : /\ call' = call \cup {n}
                            /\ n.op = "unload" /\ n.loader = l
                            /\ n.id = mId[l] /\ n.reply = "none"
      BY <3>0, <3>i, UnloadAddsOne
    <3>2. NoForgottenNode'
      BY <1>a, <1>t, <1>c, <1>3, <2>1, <3>1 DEF Unload, InitiateUnload
    <3>3. CallFitsNode'
      BY <1>a, <1>t, <1>c, <1>3, <2>1, <3>1 DEF Unload, InitiateUnload
    <3>4. StateIsTrue'
      BY <1>a, <1>t, <1>c, <1>3, <2>1, <3>1 DEF Unload, InitiateUnload
    <3> QED BY <3>2, <3>3, <3>4 DEF Known
  <2>2. CASE mState[l] # "Loaded"
    BY <1>a, <1>t, <1>3, <2>2 DEF Unload
  <2> QED BY <2>1, <2>2
<1>4. ASSUME NEW l \in Loader, Drop(l) PROVE Known'
  BY <1>a, <1>t, <1>4 DEF Drop, Destroy
<1>5. ASSUME NEW c \in call, Callback(c) PROVE Known'
  <2>o. \A d \in call \ {c} : d.loader # c.loader
    BY <1>a
  <2>1. CASE LoadRefused(c)
    BY <1>a, <1>t, <1>c, <2>o, <2>1 DEF LoadRefused
  <2>2. CASE LoadUnwanted(c)
    <3>0. call' \in Send(call \ {c}, "unload", c.loader, c.id)
      BY <2>2 DEF LoadUnwanted, InitiateUnload
    <3>1. PICK n \in Call : /\ call' = (call \ {c}) \cup {n}
                            /\ n.op = "unload" /\ n.loader = c.loader
                            /\ n.id = c.id /\ n.reply = "none"
      <4> c.loader \in Loader /\ c.id \in Id \cup {NoId}
        BY <1>c
      <4> QED BY <3>0, UnloadAddsOne
    <3>2. NoForgottenNode'
      BY <1>a, <1>t, <1>c, <2>o, <2>2, <3>1 DEF LoadUnwanted, InitiateUnload
    <3>3. CallFitsNode'
      BY <1>a, <1>t, <1>c, <2>o, <2>2, <3>1 DEF LoadUnwanted, InitiateUnload
    <3>4. StateIsTrue'
      BY <1>a, <1>t, <1>c, <2>o, <2>2, <3>1 DEF LoadUnwanted, InitiateUnload
    <3> QED BY <3>2, <3>3, <3>4 DEF Known
  <2>3. CASE LoadKept(c)
    BY <1>a, <1>t, <1>c, <2>o, <2>3 DEF LoadKept
  <2>4. CASE UnloadRefused(c)
    BY <1>a, <1>t, <1>c, <2>o, <2>4 DEF UnloadRefused
  <2>5. CASE UnloadDone(c)
    BY <1>a, <1>t, <1>c, <2>o, <2>5 DEF UnloadDone
  <2>6. CASE LoadAgain(c)
    <3>0. call' \in Send(call \ {c}, "load", c.loader, NoId)
      BY <2>6 DEF LoadAgain, InitiateLoad
    <3>1. PICK n \in Call : /\ call' = (call \ {c}) \cup {n}
                            /\ n.op = "load" /\ n.loader = c.loader
                            /\ n.id = NoId /\ n.reply = "none"
      BY <1>c, <3>0, LoadAddsOne
    <3>2. NoForgottenNode'
      BY <1>a, <1>t, <1>c, <2>o, <2>6, <3>1 DEF LoadAgain, InitiateLoad
    <3>3. CallFitsNode'
      BY <1>a, <1>t, <1>c, <2>o, <2>6, <3>1 DEF LoadAgain, InitiateLoad
    <3>4. StateIsTrue'
      BY <1>a, <1>t, <1>c, <2>o, <2>6, <3>1 DEF LoadAgain, InitiateLoad
    <3> QED BY <3>2, <3>3, <3>4 DEF Known
  <2> QED BY <1>5, <2>1, <2>2, <2>3, <2>4, <2>5, <2>6 DEF Callback
<1>6. ASSUME NEW c \in call, Container(c) PROVE Known'
  <2>o. \A d \in call \ {c} : d.loader # c.loader
    BY <1>a
  <2>1. CASE ContainerLoads(c)
    <3>1. PICK i \in Id : node[i] = NoLoader /\ node' = [node EXCEPT ![i] = c.loader] /\ Reply(c, "ok", i)
      BY <2>1 DEF ContainerLoads, FreshIds
    <3>2. PICK d \in Call : /\ call' = (call \ {c}) \cup {d}
                            /\ d.reply = "ok" /\ d.id = i
                            /\ d.op = c.op /\ d.loader = c.loader
      BY <1>c, <3>1, ReplyChangesOne
    <3>3. NoForgottenNode'
      BY <1>a, <1>t, <1>c, <2>o, <2>1, <3>1, <3>2, LoaderConstants DEF ContainerLoads, loaderVars
    <3>4. CallFitsNode'
      BY <1>a, <1>t, <1>c, <2>o, <2>1, <3>1, <3>2, LoaderConstants DEF ContainerLoads, loaderVars
    <3>5. StateIsTrue'
      BY <1>a, <1>t, <1>c, <2>o, <2>1, <3>1, <3>2, LoaderConstants DEF ContainerLoads, loaderVars
    <3> QED BY <3>3, <3>4, <3>5 DEF Known
  <2>2. CASE ContainerRefuses(c)
    <3>1. PICK d \in Call : /\ call' = (call \ {c}) \cup {d}
                            /\ d.reply = "failed" /\ d.id = NoId
                            /\ d.op = c.op /\ d.loader = c.loader
      BY <1>c, <2>2, ReplyChangesOne DEF ContainerRefuses
    <3>2. NoForgottenNode'
      BY <1>a, <1>t, <1>c, <2>o, <2>2, <3>1 DEF ContainerRefuses, loaderVars
    <3>3. CallFitsNode'
      BY <1>a, <1>t, <1>c, <2>o, <2>2, <3>1 DEF ContainerRefuses, loaderVars
    <3>4. StateIsTrue'
      BY <1>a, <1>t, <1>c, <2>o, <2>2, <3>1 DEF ContainerRefuses, loaderVars
    <3> QED BY <3>2, <3>3, <3>4 DEF Known
  <2>3. CASE ContainerUnloads(c)
    <3>1. PICK r \in {"ok", "failed"} : Reply(c, r, c.id) /\ (r = "ok" <=> Holds(c.id))
      BY <2>3 DEF ContainerUnloads
    <3>2. PICK d \in Call : /\ call' = (call \ {c}) \cup {d}
                            /\ d.reply = r /\ d.id = c.id
                            /\ d.op = c.op /\ d.loader = c.loader
      BY <1>c, <3>1, ReplyChangesOne
    <3>3. c.op = "unload" /\ c.reply = "none" /\ UNCHANGED loaderVars
      BY <2>3 DEF ContainerUnloads
    <3>4. \A j \in Id : node'[j] # c.loader
      BY <1>a, <1>t, <1>c, <2>3, LoaderConstants DEF ContainerUnloads, Holds
    <3>5. \A j \in Id : node'[j] \in Loader => node'[j] = node[j]
      BY <1>a, <1>t, <1>c, <2>3, LoaderConstants DEF ContainerUnloads, Holds
    <3>6. Faults = {} => /\ Holds(c.id)
                         /\ \A j \in Id : node[j] # c.loader => node'[j] = node[j]
      BY <1>a, <1>t, <1>c, <2>3, LoaderConstants DEF ContainerUnloads, Holds
    <3>7. NoForgottenNode'
      BY <1>a, <1>t, <1>c, <2>o, <3>1, <3>2, <3>3, <3>4, <3>5, <3>6, LoaderConstants DEF loaderVars
    <3>8. CallFitsNode'
      BY <1>a, <1>t, <1>c, <2>o, <3>1, <3>2, <3>3, <3>4, <3>5, <3>6, LoaderConstants DEF loaderVars
    <3>9. StateIsTrue'
      BY <1>a, <1>t, <1>c, <2>o, <3>1, <3>2, <3>3, <3>4, <3>5, <3>6, LoaderConstants DEF loaderVars
    <3> QED BY <3>7, <3>8, <3>9 DEF Known
  <2> QED BY <1>6, <2>1, <2>2, <2>3 DEF Container
<1>7. ASSUME NEW c \in call, Lose(c) PROVE Known'
  BY <1>a, <1>t, <1>7 DEF Lose, loaderVars
<1>8. ASSUME NEW i \in Id, ForeignUnload(i) PROVE Known'
  BY <1>a, <1>t, <1>c, <1>8, LoaderConstants DEF ForeignUnload, loaderVars
<1>9. CASE ContainerRestarts
  BY <1>a, <1>t, <1>c, <1>9, LoaderConstants DEF ContainerRestarts, loaderVars
<1>10. CASE UNCHANGED vars
  BY <1>a, <1>10 DEF vars, loaderVars
<1> QED BY <1>a, <1>1, <1>2, <1>3, <1>4, <1>5, <1>6, <1>7, <1>8, <1>9, <1>10 DEF Next

LEMMA Invariance == Spec => []IInv
<1>1. Init => Core
  BY LoaderConstants DEF Init, Core, TypeOK, State, OneCallPerLoader, AtMostOneNode,
     StateFitsCall, NodeFitsCall, NodeFitsState, DeadIsBlank
<1>2. Init => Known
  BY LoaderConstants DEF Init, Known, NoForgottenNode, CallFitsNode, StateIsTrue, NodesOf
<1> QED BY <1>1, <1>2, CoreStep, KnownStep, PTL DEF Spec, IInv

\* However load(), unload(), the callbacks and the destruction of loaders
\* interleave, and whatever the environment loses or removes, no loader has two
\* requests in the container at once.
THEOREM OneCallPerLoaderAlways == Spec => []OneCallPerLoader
BY Invariance, PTL DEF IInv, Core

\* ... and the container never holds two nodes of one loader.
THEOREM AtMostOneNodeAlways == Spec => []AtMostOneNode
BY Invariance, PTL DEF IInv, Core

\* Unless requests or responses are lost, every node in the container is known
\* to a call in flight or to a living loader in state Loaded: also the node of
\* a loader that was destroyed while its load was in flight.
THEOREM NoForgottenNodeAlways == Spec => []NoForgottenNode
BY Invariance, PTL DEF IInv, Known

\* Without faults m_state tells the truth about the container.
THEOREM StateIsTrueAlways == Spec => []StateIsTrue
BY Invariance, PTL DEF IInv, Known

-----------------------------------------------------------------------------
\* What liveness rests on: a loader that waits for an answer has a request in flight, and
\* will be told.  Without it load() and unload() would only be remembered, for ever.
BusyHasCall ==
  "loss" \notin Faults =>
    \A l \in Loader : alive[l] /\ mState[l] \in {"Loading", "Unloading"} => CallOf(l) # {}

LEMMA BusyStep == Core /\ BusyHasCall /\ [Next]_vars => BusyHasCall'
<1> SUFFICES ASSUME Core, BusyHasCall, [Next]_vars, "loss" \notin Faults,
                    NEW k \in Loader, alive'[k], mState'[k] \in {"Loading", "Unloading"}
             PROVE  \E e \in call' : e.loader = k
  BY DEF BusyHasCall, CallOf
<1>t. TypeOK /\ \A c \in call : c \in Call /\ c.loader \in Loader /\ c.id \in Id \cup {NoId}
  BY DEF Core, TypeOK, Call
<1>b. alive[k] /\ mState[k] \in {"Loading", "Unloading"} => \E e \in call : e.loader = k
  BY DEF BusyHasCall, CallOf
<1> USE DEF TypeOK
<1>1. ASSUME NEW l \in Loader, Create(l) PROVE \E e \in call' : e.loader = k
  BY <1>1, <1>t, <1>b DEF Create, Core, DeadIsBlank
<1>2. ASSUME NEW l \in Loader, Load(l) PROVE \E e \in call' : e.loader = k
  <2>1. CASE mState[l] = "Unloaded"
    <3>1. call' \in Send(call, "load", l, NoId)
      BY <1>2, <2>1 DEF Load, InitiateLoad
    <3>2. PICK n \in Call : call' = call \cup {n} /\ n.loader = l
      BY <3>1, LoadAddsOne
    <3>3. k # l => mState'[k] = mState[k] /\ alive'[k] = alive[k]
      BY <1>2, <1>t, <2>1 DEF Load, InitiateLoad
    <3> QED BY <1>b, <3>2, <3>3
  <2>2. CASE mState[l] # "Unloaded"
    BY <1>2, <1>b, <2>2 DEF Load
  <2> QED BY <2>1, <2>2
<1>3. ASSUME NEW l \in Loader, Unload(l) PROVE \E e \in call' : e.loader = k
  <2>1. CASE mState[l] = "Loaded"
    <3>1. call' \in Send(call, "unload", l, mId[l]) /\ mId[l] \in Id \cup {NoId}
      BY <1>3, <1>t, <2>1 DEF Unload, InitiateUnload
    <3>2. PICK n \in Call : call' = call \cup {n} /\ n.loader = l
      BY <3>1, UnloadAddsOne
    <3>3. k # l => mState'[k] = mState[k] /\ alive'[k] = alive[k]
      BY <1>3, <1>t, <2>1 DEF Unload, InitiateUnload
    <3> QED BY <1>b, <3>2, <3>3
  <2>2. CASE mState[l] # "Loaded"
    BY <1>3, <1>b, <2>2 DEF Unload
  <2> QED BY <2>1, <2>2
<1>4. ASSUME NEW l \in Loader, Drop(l) PROVE \E e \in call' : e.loader = k
  BY <1>4, <1>t, <1>b DEF Drop, Destroy
<1>5. ASSUME NEW c \in call, Callback(c) PROVE \E e \in call' : e.loader = k
  <2>0. alive' = alive /\ (k # c.loader => mState'[k] = mState[k]) /\ call \ {c} \subseteq call'
    BY <1>5, <1>t DEF Callback, LoadRefused, LoadUnwanted, LoadKept, UnloadRefused, UnloadDone,
       LoadAgain, InitiateUnload, InitiateLoad, Send
  <2>1. CASE k # c.loader
    BY <1>b, <2>0, <2>1
  <2>2. CASE k = c.loader
    <3>1. CASE LoadUnwanted(c)
      <4>1. call' \in Send(call \ {c}, "unload", c.loader, c.id)
        BY <3>1 DEF LoadUnwanted, InitiateUnload
      <4>2. c.loader \in Loader /\ c.id \in Id \cup {NoId}
        BY <1>t
      <4>3. PICK n \in Call : call' = (call \ {c}) \cup {n} /\ n.loader = c.loader
        BY <4>1, <4>2, UnloadAddsOne
      <4> QED BY <2>2, <4>3
    <3>2. CASE LoadAgain(c)
      <4>1. call' \in Send(call \ {c}, "load", c.loader, NoId)
        BY <3>2 DEF LoadAgain, InitiateLoad
      <4>2. PICK n \in Call : call' = (call \ {c}) \cup {n} /\ n.loader = c.loader
        BY <1>t, <4>1, LoadAddsOne
      <4> QED BY <2>2, <4>2
    <3>3. CASE LoadRefused(c) \/ LoadKept(c) \/ UnloadRefused(c) \/ UnloadDone(c)
      <4>1. mState'[k] \in {"Loaded", "Unloaded"}
        BY <1>t, <2>0, <2>2, <3>3 DEF LoadRefused, LoadKept, UnloadRefused, UnloadDone
      <4> QED BY <4>1
    <3> QED BY <1>5, <3>1, <3>2, <3>3 DEF Callback
  <2> QED BY <2>1, <2>2
<1>6. ASSUME NEW c \in call, Container(c) PROVE \E e \in call' : e.loader = k
  <2>1. alive' = alive /\ mState' = mState
    BY <1>6 DEF Container, ContainerLoads, ContainerRefuses, ContainerUnloads, loaderVars
  <2>2. \E r \in {"ok", "failed"}, i \in Id \cup {NoId} : Reply(c, r, i)
    BY <1>6, <1>t DEF Container, ContainerLoads, ContainerRefuses, ContainerUnloads, FreshIds
  <2>3. PICK d \in Call : call' = (call \ {c}) \cup {d} /\ d.loader = c.loader
    BY <1>t, <2>2, ReplyChangesOne
  <2> QED BY <1>b, <2>1, <2>3
<1>7. ASSUME NEW c \in call, Lose(c) PROVE \E e \in call' : e.loader = k
  BY <1>7 DEF Lose
<1>8. ASSUME NEW i \in Id, ForeignUnload(i) PROVE \E e \in call' : e.loader = k
  BY <1>8, <1>b DEF ForeignUnload, loaderVars
<1>9. CASE ContainerRestarts
  BY <1>9, <1>b DEF ContainerRestarts, loaderVars
<1>10. CASE UNCHANGED vars
  BY <1>10, <1>b DEF vars, loaderVars
<1> QED BY <1>1, <1>2, <1>3, <1>4, <1>5, <1>6, <1>7, <1>8, <1>9, <1>10 DEF Next

\* Unless requests or answers are lost no loader waits for an answer that will not come.
THEOREM BusyHasCallAlways == Spec => []BusyHasCall
<1>1. Init => BusyHasCall
  BY DEF Init, BusyHasCall
<1>2. IInv => Core
  BY DEF IInv
<1> QED BY <1>1, <1>2, BusyStep, Invariance, PTL DEF Spec

-----------------------------------------------------------------------------
(***************************************************************************)
(* A loader and a container nobody else touches implement ManagedNode, for *)
(* any number of loaders.                                                  *)
(***************************************************************************)

\* The phase of a loader is that of its call, if it has one, or of its node.

LEMMA PhaseWithoutCall ==
  ASSUME NEW l \in Loader, \A c \in call : c.loader # l
  PROVE  Phase(l) = IF NodesOf(l) = {} THEN "off" ELSE "on"
<1>1. CallOf(l) = {}
  BY DEF CallOf
<1> QED
  BY <1>1 DEF Phase

LEMMA PhaseWithCall ==
  ASSUME Core, Known, Faults = {}, NEW c \in call
  PROVE  Phase(c.loader) =
           IF c.op = "load" THEN (IF c.reply = "ok" THEN "on" ELSE "starting")
                            ELSE (IF c.reply = "none" THEN "stopping" ELSE "off")
<1>1. c \in Call /\ c.loader \in Loader /\ c.op \in {"load", "unload"}
  BY DEF Core, TypeOK, Call
<1>2. CallOf(c.loader) = {c}
  BY DEF Core, OneCallPerLoader, CallOf
<1>3. c.op = "load" /\ c.reply = "ok" => NodesOf(c.loader) # {}
  BY DEF Known, CallFitsNode
<1>4. c.op = "unload" /\ c.reply # "none" => NodesOf(c.loader) = {}
  BY <1>1 DEF Core, NodeFitsCall, NodesOf
<1> QED
  BY <1>1, <1>2, <1>3, <1>4 DEF Phase

\* What a step leaves of a loader.
Left(k) ==
  /\ \A c : c.loader = k => (c \in call' <=> c \in call)
  /\ \A i \in Id : node'[i] = k <=> node[i] = k

LEMMA PhaseOfOthers ==
  ASSUME NEW k \in Loader, Left(k)
  PROVE  Phase(k)' = Phase(k)
<1>1. CallOf(k)' = CallOf(k)
  BY DEF Left, CallOf
<1>2. NodesOf(k)' = NodesOf(k)
  BY DEF Left, NodesOf
<1> QED
  BY <1>1, <1>2 DEF Phase

-----------------------------------------------------------------------------
\* A step of one loader.

OthersLeft(l) == \A k \in Loader \ {l} : Left(k) /\ Wanted(k)' = Wanted(k)

\* What the owner's wish and the phase may do in one step.
Moves(l) ==
  \/ Wanted(l)' = Wanted(l) /\ Phase(l)' = Phase(l)
  \/ Wanted(l)' /\ (Phase(l)' = Phase(l) \/ (Phase(l) = "off" /\ Phase(l)' = "starting"))
  \/ ~Wanted(l)' /\ (Phase(l)' = Phase(l) \/ (Phase(l) = "on" /\ Phase(l)' = "stopping"))
  \/ /\ Wanted(l)' = Wanted(l)
     /\ \/ Phase(l) = "starting" /\ Phase(l)' \in {"on", "off"}
        \/ Phase(l) = "stopping" /\ Phase(l)' = "off"

LEMMA MovesAreSteps ==
  ASSUME NEW l \in Loader, OthersLeft(l), Moves(l)
  PROVE  [Managed!Next]_(Managed!managedVars)
<1> DEFINE w == [k \in Loader |-> Wanted(k)]
           p == [k \in Loader |-> Phase(k)]
<1>1. p' = [p EXCEPT ![l] = Phase(l)']
  <2>1. \A k \in Loader \ {l} : Phase(k)' = Phase(k)
    BY PhaseOfOthers DEF OthersLeft
  <2> QED
    BY <2>1
<1>2. w' = [w EXCEPT ![l] = Wanted(l)']
  BY DEF OthersLeft
<1>3. w[l] = Wanted(l) /\ p[l] = Phase(l)
  OBVIOUS
<1>4. (w = [w EXCEPT ![l] = Wanted(l)]) /\ (p = [p EXCEPT ![l] = Phase(l)])
  OBVIOUS
<1>5. Wanted(l)' \in BOOLEAN /\ Wanted(l) \in BOOLEAN
  BY DEF Wanted
<1> HIDE DEF w, p
<1>6. CASE Wanted(l)' = Wanted(l) /\ Phase(l)' = Phase(l)
  BY <1>1, <1>2, <1>4, <1>6 DEF Managed!managedVars, w, p
<1>7. CASE Wanted(l)' /\ (Phase(l)' = Phase(l) \/ (Phase(l) = "off" /\ Phase(l)' = "starting"))
  <2>1. Managed!Want(l)
    BY <1>1, <1>2, <1>3, <1>4, <1>5, <1>7 DEF Managed!Want, Managed!Move, w, p
  <2> QED
    BY <2>1 DEF Managed!Next
<1>8. CASE ~Wanted(l)' /\ (Phase(l)' = Phase(l) \/ (Phase(l) = "on" /\ Phase(l)' = "stopping"))
  <2>1. Managed!DoNotWant(l)
    BY <1>1, <1>2, <1>3, <1>4, <1>5, <1>8 DEF Managed!DoNotWant, Managed!Move, w, p
  <2> QED
    BY <2>1 DEF Managed!Next
<1>9. CASE Wanted(l)' = Wanted(l) /\ Phase(l) = "starting" /\ Phase(l)' \in {"on", "off"}
  <2>1. Managed!Arrive(l) \/ Managed!GiveUp(l)
    BY <1>1, <1>2, <1>3, <1>4, <1>9 DEF Managed!Arrive, Managed!GiveUp, Managed!Move, w, p
  <2> QED
    BY <2>1 DEF Managed!Next
<1>10. CASE Wanted(l)' = Wanted(l) /\ Phase(l) = "stopping" /\ Phase(l)' = "off"
  <2>1. Managed!Leave(l)
    BY <1>1, <1>2, <1>3, <1>4, <1>10 DEF Managed!Leave, Managed!Move, w, p
  <2> QED
    BY <2>1 DEF Managed!Next
<1> QED
  BY <1>6, <1>7, <1>8, <1>9, <1>10 DEF Moves

-----------------------------------------------------------------------------
\* Each action is a step of its loader.

Managing == Core /\ Known /\ Faults = {}

LEMMA OwnerSteps ==
  ASSUME Managing, Core', Known', NEW l \in Loader, Create(l) \/ Load(l) \/ Unload(l) \/ Drop(l)
  PROVE  OthersLeft(l) /\ Moves(l)
<1>t. TypeOK /\ TypeOK'
  BY DEF Managing, Core
<1>1. CASE Create(l)
  <2>1. OthersLeft(l) /\ Left(l)
    BY <1>t, <1>1 DEF Create, TypeOK, OthersLeft, Left, Wanted, containerVars
  <2>2. Wanted(l)' = Wanted(l)
    BY <1>t, <1>1 DEF Create, TypeOK, Managing, Core, DeadIsBlank, Wanted
  <2> QED
    BY <2>1, <2>2, PhaseOfOthers DEF Moves
<1>2. CASE Load(l)
  <2>1. Wanted(l)' /\ \A k \in Loader \ {l} : Wanted(k)' = Wanted(k)
    BY <1>t, <1>2 DEF Load, TypeOK, Wanted
  <2>2. CASE mState[l] = "Unloaded"
    <3>1. call' \in Send(call, "load", l, NoId) /\ UNCHANGED node
      BY <1>2, <2>2 DEF Load, InitiateLoad, containerVars
    <3>2. PICK n \in Call : /\ call' = call \cup {n}
                            /\ n.op = "load" /\ n.loader = l
                            /\ n.id = NoId /\ n.reply = "none"
      BY <3>1, LoadAddsOne
    <3>3. OthersLeft(l)
      BY <2>1, <3>1, <3>2 DEF OthersLeft, Left
    <3>4. \A c \in call : c.loader # l
      BY <1>2, <2>2 DEF Load, Managing, Core, StateFitsCall
    <3>5. NodesOf(l) = {}
      BY <1>2, <2>2 DEF Load, Managing, Core, NodeFitsState, NodesOf
    <3>6. Phase(l) = "off"
      BY <3>4, <3>5, PhaseWithoutCall
    <3>7. Phase(l)' = "starting"
      <4>1. CallOf(l)' = {n}
        BY <3>2, <3>4 DEF CallOf
      <4> QED
        BY <3>2, <4>1 DEF Phase
    <3> QED
      BY <2>1, <3>3, <3>6, <3>7 DEF Moves
  <2>3. CASE mState[l] # "Unloaded"
    <3>1. UNCHANGED <<call, node>>
      BY <1>2, <2>3 DEF Load, containerVars
    <3>2. OthersLeft(l) /\ Left(l)
      BY <2>1, <3>1 DEF OthersLeft, Left
    <3>3. Phase(l)' = Phase(l)
      BY <3>2, PhaseOfOthers
    <3>4. Moves(l)
      BY <2>1, <3>3 DEF Moves
    <3> QED
      BY <3>2, <3>4
  <2> QED
    BY <2>2, <2>3
<1>3. CASE Unload(l)
  <2>1. ~Wanted(l)' /\ \A k \in Loader \ {l} : Wanted(k)' = Wanted(k)
    BY <1>t, <1>3 DEF Unload, TypeOK, Wanted
  <2>2. CASE mState[l] = "Loaded"
    <3>1. call' \in Send(call, "unload", l, mId[l]) /\ UNCHANGED node
      BY <1>3, <2>2 DEF Unload, InitiateUnload, containerVars
    <3>2. PICK n \in Call : /\ call' = call \cup {n}
                            /\ n.op = "unload" /\ n.loader = l
                            /\ n.id = mId[l] /\ n.reply = "none"
      BY <1>t, <3>1, UnloadAddsOne DEF TypeOK
    <3>3. OthersLeft(l)
      BY <2>1, <3>1, <3>2 DEF OthersLeft, Left
    <3>4. \A c \in call : c.loader # l
      BY <1>3, <2>2 DEF Unload, Managing, Core, StateFitsCall
    <3>5. NodesOf(l) # {}
      BY <1>3, <2>2 DEF Unload, Managing, Known, StateIsTrue
    <3>6. Phase(l) = "on"
      BY <3>4, <3>5, PhaseWithoutCall
    <3>7. Phase(l)' = "stopping"
      <4>1. CallOf(l)' = {n}
        BY <3>2, <3>4 DEF CallOf
      <4> QED
        BY <3>2, <4>1 DEF Phase
    <3> QED
      BY <2>1, <3>3, <3>6, <3>7 DEF Moves
  <2>3. CASE mState[l] # "Loaded"
    <3>1. UNCHANGED <<call, node>>
      BY <1>3, <2>3 DEF Unload, containerVars
    <3>2. OthersLeft(l) /\ Left(l)
      BY <2>1, <3>1 DEF OthersLeft, Left
    <3>3. Phase(l)' = Phase(l)
      BY <3>2, PhaseOfOthers
    <3>4. Moves(l)
      BY <2>1, <3>3 DEF Moves
    <3> QED
      BY <3>2, <3>4
  <2> QED
    BY <2>2, <2>3
<1>4. CASE Drop(l)
  <2>1. OthersLeft(l) /\ Left(l)
    BY <1>t, <1>4 DEF Drop, Destroy, TypeOK, OthersLeft, Left, Wanted, containerVars
  <2>2. Wanted(l)' = Wanted(l)
    BY <1>t, <1>4 DEF Drop, Destroy, TypeOK, Wanted
  <2> QED
    BY <2>1, <2>2, PhaseOfOthers DEF Moves
<1> QED
  BY <1>1, <1>2, <1>3, <1>4

\* The callback of a call takes it away, and may send another.
LEMMA CallbackSteps ==
  ASSUME Managing, Core', Known', NEW c \in call, Callback(c)
  PROVE  OthersLeft(c.loader) /\ Moves(c.loader)
<1> DEFINE l == c.loader
<1>t. TypeOK /\ TypeOK' /\ l \in Loader /\ c.id \in Id \cup {NoId}
  BY DEF Managing, Core, TypeOK, Call
<1>u. UNCHANGED <<alive, mDesiredState, node>>
  BY DEF Callback, LoadRefused, LoadUnwanted, LoadKept, UnloadRefused, UnloadDone, LoadAgain,
         containerVars
<1>w. \A k \in Loader : Wanted(k)' = Wanted(k)
  BY <1>u DEF Wanted
<1>o. \A d \in call \ {c} : d.loader # l
  BY DEF Managing, Core, OneCallPerLoader
<1>p. Phase(l) = IF c.op = "load" THEN (IF c.reply = "ok" THEN "on" ELSE "starting")
                                  ELSE (IF c.reply = "none" THEN "stopping" ELSE "off")
  BY PhaseWithCall DEF Managing
<1>1. CASE call' = call \ {c}
  <2>1. OthersLeft(l)
    BY <1>1, <1>u, <1>w DEF OthersLeft, Left
  <2>2. Phase(l)' = IF NodesOf(l)' = {} THEN "off" ELSE "on"
    <3>1. CallOf(l)' = {}
      BY <1>1, <1>o DEF CallOf
    <3> QED
      BY <3>1 DEF Phase
  <2>3. NodesOf(l)' = NodesOf(l)
    BY <1>u DEF NodesOf
  <2>4. CASE c.op = "load" /\ c.reply = "failed"
    <3>1. NodesOf(l) = {}
      BY <2>4 DEF Managing, Core, NodeFitsCall, NodesOf
    <3> QED
      BY <1>p, <1>t, <1>w, <2>1, <2>2, <2>3, <2>4, <3>1 DEF Moves
  <2>5. CASE c.op = "load" /\ c.reply = "ok"
    <3>1. NodesOf(l) # {}
      BY <2>5 DEF Managing, Known, CallFitsNode
    <3> QED
      BY <1>p, <1>t, <1>w, <2>1, <2>2, <2>3, <2>5, <3>1 DEF Moves
  <2>6. CASE c.op = "unload" /\ c.reply = "ok"
    <3>1. NodesOf(l) = {}
      BY <2>6 DEF Managing, Core, NodeFitsCall, NodesOf
    <3> QED
      BY <1>p, <1>t, <1>w, <2>1, <2>2, <2>3, <2>6, <3>1 DEF Moves
  <2>7. ~(c.op = "unload" /\ c.reply = "failed")
    BY DEF Managing, Known, CallFitsNode
  <2> QED
    BY <2>4, <2>5, <2>6, <2>7
       DEF Callback, LoadRefused, LoadUnwanted, LoadKept, UnloadRefused, UnloadDone, LoadAgain
<1>2. CASE LoadUnwanted(c)
  <2>1. call' \in Send(call \ {c}, "unload", l, c.id)
    BY <1>2 DEF LoadUnwanted, InitiateUnload
  <2>2. PICK n \in Call : /\ call' = (call \ {c}) \cup {n}
                          /\ n.op = "unload" /\ n.loader = l
                          /\ n.id = c.id /\ n.reply = "none"
    BY <1>t, <2>1, UnloadAddsOne
  <2>3. OthersLeft(l)
    BY <1>u, <1>w, <2>2 DEF OthersLeft, Left
  <2>4. Phase(l)' = "stopping"
    <3>1. CallOf(l)' = {n}
      BY <1>o, <2>2 DEF CallOf
    <3> QED
      BY <2>2, <3>1 DEF Phase
  <2>5. ~Wanted(l)'
    BY <1>2, <1>w, <1>t DEF LoadUnwanted, Wanted
  <2> QED
    BY <1>2, <1>p, <2>3, <2>4, <2>5 DEF Moves, LoadUnwanted
<1>3. CASE LoadAgain(c)
  <2>1. call' \in Send(call \ {c}, "load", l, NoId)
    BY <1>3 DEF LoadAgain, InitiateLoad
  <2>2. PICK n \in Call : /\ call' = (call \ {c}) \cup {n}
                          /\ n.op = "load" /\ n.loader = l
                          /\ n.id = NoId /\ n.reply = "none"
    BY <1>t, <2>1, LoadAddsOne
  <2>3. OthersLeft(l)
    BY <1>u, <1>w, <2>2 DEF OthersLeft, Left
  <2>4. Phase(l)' = "starting"
    <3>1. CallOf(l)' = {n}
      BY <1>o, <2>2 DEF CallOf
    <3> QED
      BY <2>2, <3>1 DEF Phase
  <2>5. Wanted(l)'
    BY <1>3, <1>w, <1>t DEF LoadAgain, Wanted
  <2> QED
    BY <1>3, <1>p, <2>3, <2>4, <2>5 DEF Moves, LoadAgain
<1> QED
  BY <1>1, <1>2, <1>3 DEF Callback, LoadRefused, LoadKept, UnloadRefused, UnloadDone

\* The container answers a call.
LEMMA ContainerSteps ==
  ASSUME Managing, Core', Known', NEW c \in call, Container(c)
  PROVE  OthersLeft(c.loader) /\ Moves(c.loader)
<1> DEFINE l == c.loader
<1>t. TypeOK /\ l \in Loader /\ c \in Call /\ c.id \in Id \cup {NoId} /\ c.reply = "none"
  BY DEF Managing, Core, TypeOK, Call, Container, ContainerLoads, ContainerRefuses, ContainerUnloads
<1>u. UNCHANGED loaderVars
  BY DEF Container, ContainerLoads, ContainerRefuses, ContainerUnloads
<1>w. \A k \in Loader : Wanted(k)' = Wanted(k)
  BY <1>u DEF Wanted, loaderVars
<1>p. Phase(l) = IF c.op = "load" THEN "starting" ELSE "stopping"
  BY <1>t, PhaseWithCall DEF Managing
<1>q. ASSUME NEW d \in Call, call' = (call \ {c}) \cup {d}, d.loader = l, d.op = c.op
      PROVE  Phase(l)' = IF d.op = "load" THEN (IF d.reply = "ok" THEN "on" ELSE "starting")
                                          ELSE (IF d.reply = "none" THEN "stopping" ELSE "off")
  <2>1. d \in call' /\ d.op \in {"load", "unload"}
    BY <1>q DEF Call
  <2>2. CallOf(l)' = {d}
    BY <1>q DEF Managing, Core, OneCallPerLoader, CallOf
  <2>3. d.op = "load" /\ d.reply = "ok" => NodesOf(l)' # {}
    BY <1>q, <2>1 DEF Managing, Known, CallFitsNode
  <2>4. d.op = "unload" /\ d.reply # "none" => NodesOf(l)' = {}
    BY <1>q, <1>t, <2>1 DEF Core, NodeFitsCall, NodesOf
  <2> QED
    BY <1>q, <2>1, <2>2, <2>3, <2>4 DEF Phase
<1>1. CASE ContainerLoads(c)
  <2>1. PICK i \in Id : /\ node[i] = NoLoader
                        /\ node' = [node EXCEPT ![i] = c.loader] /\ Reply(c, "ok", i)
    BY <1>1 DEF ContainerLoads, FreshIds
  <2>2. PICK d \in Call : /\ call' = (call \ {c}) \cup {d}
                          /\ d.reply = "ok" /\ d.id = i /\ d.op = c.op /\ d.loader = l
    BY <1>t, <2>1, ReplyChangesOne
  <2>3. OthersLeft(l)
    BY <1>t, <1>w, <2>1, <2>2, LoaderConstants DEF OthersLeft, Left, TypeOK
  <2> QED
    BY <1>1, <1>p, <1>q, <1>t, <1>w, <2>2, <2>3 DEF Moves, ContainerLoads
<1>2. CASE ContainerRefuses(c)
  <2>1. PICK d \in Call : /\ call' = (call \ {c}) \cup {d}
                          /\ d.reply = "failed" /\ d.id = NoId /\ d.op = c.op /\ d.loader = l
    BY <1>2, <1>t, ReplyChangesOne DEF ContainerRefuses
  <2>2. OthersLeft(l)
    BY <1>2, <1>w, <2>1 DEF OthersLeft, Left, ContainerRefuses, containerVars
  <2> QED
    BY <1>2, <1>p, <1>q, <1>t, <1>w, <2>1, <2>2 DEF Moves, ContainerRefuses
<1>3. CASE ContainerUnloads(c)
  <2>1. node[c.id] = l /\ Holds(c.id)
    BY <1>3, <1>t, LoaderConstants
       DEF Managing, Known, CallFitsNode, ContainerUnloads, NodesOf, Holds
  <2>2. node' = [node EXCEPT ![c.id] = NoLoader] /\ Reply(c, "ok", c.id) /\ c.op = "unload"
    BY <1>3, <2>1 DEF ContainerUnloads
  <2>3. PICK d \in Call : /\ call' = (call \ {c}) \cup {d}
                          /\ d.reply = "ok" /\ d.id = c.id /\ d.op = c.op /\ d.loader = l
    BY <1>t, <2>2, ReplyChangesOne
  <2>4. OthersLeft(l)
    BY <1>t, <1>w, <2>1, <2>2, <2>3, LoaderConstants DEF OthersLeft, Left, TypeOK
  <2> QED
    BY <1>p, <1>q, <1>t, <1>w, <2>2, <2>3, <2>4 DEF Moves
<1> QED
  BY <1>1, <1>2, <1>3 DEF Container

-----------------------------------------------------------------------------
\* Without faults every step of a loader and of the container is a step of the abstract
\* node, or leaves it as it is, for any number of loaders.
THEOREM LoaderImplementsManagedNode ==
  ASSUME Faults = {}
  PROVE  Spec => ImplementsManagedNode
<1>1. Init => Managed!Init
  <2> SUFFICES ASSUME Init PROVE Managed!Init
    OBVIOUS
  <2>1. ASSUME NEW l \in Loader PROVE Wanted(l) = FALSE /\ Phase(l) = "off"
    <3>1. (\A c \in call : c.loader # l) /\ NodesOf(l) = {} /\ ~alive[l]
      BY LoaderConstants DEF Init, NodesOf
    <3> QED
      BY <3>1, PhaseWithoutCall DEF Wanted
  <2> QED
    BY <2>1 DEF Managed!Init
<1>2. IInv /\ IInv' /\ [Next]_vars => [Managed!Next]_(Managed!managedVars)
  <2> SUFFICES ASSUME IInv, IInv', [Next]_vars
               PROVE  [Managed!Next]_(Managed!managedVars)
    OBVIOUS
  <2>1. Managing /\ Core' /\ Known'
    BY DEF IInv, Managing
  <2>2. ASSUME NEW l \in Loader, Create(l) \/ Load(l) \/ Unload(l) \/ Drop(l)
        PROVE  [Managed!Next]_(Managed!managedVars)
    BY <2>1, <2>2, OwnerSteps, MovesAreSteps
  <2>3. ASSUME NEW c \in call, Callback(c) \/ Container(c)
        PROVE  [Managed!Next]_(Managed!managedVars)
    <3>1. c.loader \in Loader
      BY <2>1 DEF Managing, Core, TypeOK, Call
    <3>2. OthersLeft(c.loader) /\ Moves(c.loader)
      <4>1. CASE Callback(c)
        BY <2>1, <4>1, CallbackSteps
      <4>2. CASE Container(c)
        BY <2>1, <4>2, ContainerSteps
      <4> QED
        BY <2>3, <4>1, <4>2
    <3> QED
      BY <3>1, <3>2, MovesAreSteps
  <2>4. ~ContainerRestarts /\ (\A c \in call : ~Lose(c)) /\ (\A i \in Id : ~ForeignUnload(i))
    BY DEF ContainerRestarts, Lose, ForeignUnload
  <2>5. CASE UNCHANGED vars
    BY <2>5 DEF vars, loaderVars, containerVars, Managed!managedVars, Wanted, Phase, CallOf,
               NodesOf
  <2> QED
    BY <2>2, <2>3, <2>4, <2>5 DEF Next
<1> QED
  BY <1>1, <1>2, Invariance, PTL DEF Spec, ImplementsManagedNode, Managed!Spec
=============================================================================
