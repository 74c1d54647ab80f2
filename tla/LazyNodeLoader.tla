--------------------------- MODULE LazyNodeLoader ---------------------------
(***************************************************************************)
(* sfg_composition_interfaces::LazyComposableNodeLoader: objects that load *)
(* a composable node into a component container on demand, and the         *)
(* container they share.                                                   *)
(*                                                                         *)
(* load(), unload() and the two service callbacks hold m_mutex throughout, *)
(* so each is one action.  Between a request and its callback anything may *)
(* happen: the owner changes its mind, or drops the loader altogether (the *)
(* callbacks hold only a weak_ptr).                                        *)
(***************************************************************************)
CONSTANTS
  Loader,     \* identities of loader objects, reused once nothing refers to them
  Id,         \* unique ids the container gives to nodes
  NoId,       \* m_id of a loader that never stored an id (0 in the code)
  NoLoader,   \* owner of an id that names no node
  Token,      \* sequence numbers of service requests in flight
  Faults      \* which faults of the environment occur: "foreign", "loss", "restart"

ASSUME LoaderConstants ==
  /\ NoId \notin Id
  /\ NoLoader \notin Loader
  /\ Faults \subseteq {"foreign", "loss", "restart"}

VARIABLES
  alive,          \* the object exists: some shared_ptr holds it
  mState,         \* m_state
  mDesiredState,  \* m_desired_state
  mId,            \* m_id
  call,           \* requests whose callback has not run
  node,           \* container: the loader each node was loaded for
  reusable        \* ids of its former lives, which it may hand out once more

loaderVars == <<alive, mState, mDesiredState, mId>>
containerVars == <<node, reusable>>
vars == <<loaderVars, call, containerVars>>

State == {"Loading", "Loaded", "Unloaded", "Unloading"}
Call == [token : Token, op : {"load", "unload"}, loader : Loader,
         id : Id \cup {NoId}, reply : {"none", "ok", "failed"}]

TypeOK ==
  /\ alive \in [Loader -> BOOLEAN]
  /\ mState \in [Loader -> State]
  /\ mDesiredState \in [Loader -> {"Loaded", "Unloaded"}]
  /\ mId \in [Loader -> Id \cup {NoId}]
  /\ call \in SUBSET Call
  /\ node \in [Id -> Loader \cup {NoLoader}]
  /\ reusable \in SUBSET Id

Init ==
  /\ alive = [l \in Loader |-> FALSE]
  /\ mState = [l \in Loader |-> "Unloaded"]
  /\ mDesiredState = [l \in Loader |-> "Unloaded"]
  /\ mId = [l \in Loader |-> NoId]
  /\ call = {}
  /\ node = [i \in Id |-> NoLoader]
  /\ reusable = {}

-----------------------------------------------------------------------------
\* Requests.

\* The possible sets of pending calls after async_send_request adds one.
Send(pending, op, l, i) ==
  {pending \cup {[token |-> t, op |-> op, loader |-> l, id |-> i, reply |-> "none"]} :
     t \in Token \ {c.token : c \in pending}}

InitiateLoad(l, pending) ==
  /\ mState' = [mState EXCEPT ![l] = "Loading"]
  /\ call' \in Send(pending, "load", l, NoId)

InitiateUnload(l, i, pending) ==
  /\ mState' = IF alive[l] THEN [mState EXCEPT ![l] = "Unloading"] ELSE mState
  /\ call' \in Send(pending, "unload", l, i)

-----------------------------------------------------------------------------
\* The owner.

\* make_shared: a new object, whose identity nothing refers to any more.
Create(l) ==
  /\ ~alive[l]
  /\ \A c \in call : c.loader # l
  /\ \A i \in Id : node[i] # l
  /\ alive' = [alive EXCEPT ![l] = TRUE]
  /\ UNCHANGED <<mState, mDesiredState, mId, call, containerVars>>

\* Mutant: the desired state is confused with the state.
LoadDesiringLoading(l) ==
  /\ alive[l]
  /\ mDesiredState' = [mDesiredState EXCEPT ![l] = "Loading"]
  /\ \/ mState[l] = "Unloaded" /\ InitiateLoad(l, call)
     \/ mState[l] # "Unloaded" /\ UNCHANGED <<mState, call>>
  /\ UNCHANGED <<alive, mId, containerVars>>

\* Mutant: a load is repeated while the first one is in flight.
LoadUnlessLoaded(l) ==
  /\ alive[l]
  /\ mDesiredState' = [mDesiredState EXCEPT ![l] = "Loaded"]
  /\ \/ mState[l] # "Loaded" /\ InitiateLoad(l, call)
     \/ mState[l] = "Loaded" /\ UNCHANGED <<mState, call>>
  /\ UNCHANGED <<alive, mId, containerVars>>

Load(l) ==
  /\ alive[l]
  /\ mDesiredState' = [mDesiredState EXCEPT ![l] = "Loaded"]
  /\ \/ mState[l] = "Unloaded" /\ InitiateLoad(l, call)
     \/ mState[l] # "Unloaded" /\ UNCHANGED <<mState, call>>
  /\ UNCHANGED <<alive, mId, containerVars>>

Unload(l) ==
  /\ alive[l]
  /\ mDesiredState' = [mDesiredState EXCEPT ![l] = "Unloaded"]
  /\ \/ mState[l] = "Loaded" /\ InitiateUnload(l, mId[l], call)
     \/ mState[l] # "Loaded" /\ UNCHANGED <<mState, call>>
  /\ UNCHANGED <<alive, mId, containerVars>>

\* The last shared_ptr goes.  The fields of an object that does not exist have
\* the values the next one of its identity starts with.
Destroy(l) ==
  /\ alive' = [alive EXCEPT ![l] = FALSE]
  /\ mState' = [mState EXCEPT ![l] = "Unloaded"]
  /\ mDesiredState' = [mDesiredState EXCEPT ![l] = "Unloaded"]
  /\ mId' = [mId EXCEPT ![l] = NoId]
  /\ UNCHANGED <<call, containerVars>>

\* The owner's contract, kept by AgentDecoder: the last call is unload().
Drop(l) ==
  /\ alive[l]
  /\ mDesiredState[l] = "Unloaded"
  /\ Destroy(l)

-----------------------------------------------------------------------------
\* load_callback.

\* Mutant: a refused load leaves the state alone.
LoadRefusedStaysLoading(c) ==
  /\ c.op = "load" /\ c.reply = "failed"
  /\ call' = call \ {c}
  /\ UNCHANGED loaderVars /\ UNCHANGED containerVars

LoadRefused(c) ==
  /\ c.op = "load" /\ c.reply = "failed"
  /\ mState' = IF alive[c.loader] THEN [mState EXCEPT ![c.loader] = "Unloaded"] ELSE mState
  /\ call' = call \ {c}
  /\ UNCHANGED <<alive, mDesiredState, mId, containerVars>>

\* Mutant: an expired loader is not cleaned up after.
LoadUnwantedIgnoresExpired(c) ==
  /\ c.op = "load" /\ c.reply = "ok"
  /\ \/ ~alive[c.loader] /\ call' = call \ {c} /\ UNCHANGED mState
     \/ /\ alive[c.loader] /\ mDesiredState[c.loader] = "Unloaded"
        /\ InitiateUnload(c.loader, c.id, call \ {c})
  /\ UNCHANGED <<alive, mDesiredState, mId, containerVars>>

\* Mutant: the unwanted node is forgotten instead of unloaded.
LoadUnwantedForgets(c) ==
  /\ c.op = "load" /\ c.reply = "ok"
  /\ ~alive[c.loader] \/ mDesiredState[c.loader] = "Unloaded"
  /\ mState' = [mState EXCEPT ![c.loader] = "Unloaded"]
  /\ call' = call \ {c}
  /\ UNCHANGED <<alive, mDesiredState, mId, containerVars>>

LoadUnwanted(c) ==
  /\ c.op = "load" /\ c.reply = "ok"
  /\ ~alive[c.loader] \/ mDesiredState[c.loader] = "Unloaded"
  /\ InitiateUnload(c.loader, c.id, call \ {c})
  /\ UNCHANGED <<alive, mDesiredState, mId, containerVars>>

\* Mutant: the id of the node is not stored.
LoadKeptWithoutId(c) ==
  /\ c.op = "load" /\ c.reply = "ok"
  /\ alive[c.loader] /\ mDesiredState[c.loader] = "Loaded"
  /\ mState' = [mState EXCEPT ![c.loader] = "Loaded"]
  /\ call' = call \ {c}
  /\ UNCHANGED <<alive, mDesiredState, mId, containerVars>>

LoadKept(c) ==
  /\ c.op = "load" /\ c.reply = "ok"
  /\ alive[c.loader] /\ mDesiredState[c.loader] = "Loaded"
  /\ mId' = [mId EXCEPT ![c.loader] = c.id]
  /\ mState' = [mState EXCEPT ![c.loader] = "Loaded"]
  /\ call' = call \ {c}
  /\ UNCHANGED <<alive, mDesiredState, containerVars>>

\* unload_callback.

UnloadRefused(c) ==
  /\ c.op = "unload" /\ c.reply = "failed"
  /\ mState' = IF alive[c.loader] THEN [mState EXCEPT ![c.loader] = "Loaded"] ELSE mState
  /\ call' = call \ {c}
  /\ UNCHANGED <<alive, mDesiredState, mId, containerVars>>

UnloadDone(c) ==
  /\ c.op = "unload" /\ c.reply = "ok"
  /\ ~alive[c.loader] \/ mDesiredState[c.loader] = "Unloaded"
  /\ mState' = IF alive[c.loader] THEN [mState EXCEPT ![c.loader] = "Unloaded"] ELSE mState
  /\ call' = call \ {c}
  /\ UNCHANGED <<alive, mDesiredState, mId, containerVars>>

\* Mutant: the node is loaded again whether it is wanted or not.
LoadAgainUnasked(c) ==
  /\ c.op = "unload" /\ c.reply = "ok"
  /\ alive[c.loader]
  /\ InitiateLoad(c.loader, call \ {c})
  /\ UNCHANGED <<alive, mDesiredState, mId, containerVars>>

LoadAgain(c) ==
  /\ c.op = "unload" /\ c.reply = "ok"
  /\ alive[c.loader] /\ mDesiredState[c.loader] = "Loaded"
  /\ InitiateLoad(c.loader, call \ {c})
  /\ UNCHANGED <<alive, mDesiredState, mId, containerVars>>

Callback(c) ==
  \/ LoadRefused(c) \/ LoadUnwanted(c) \/ LoadKept(c)
  \/ UnloadRefused(c) \/ UnloadDone(c) \/ LoadAgain(c)

-----------------------------------------------------------------------------
\* The container and the network (external).

Reply(c, r, i) == call' = (call \ {c}) \cup {[c EXCEPT !.reply = r, !.id = i]}

\* The container counts ids up and never reuses one, until it starts anew: here, an id
\* nothing refers to, or one of a former life.
FreshIds ==
  {i \in Id : /\ node[i] = NoLoader
              /\ \/ i \in reusable
                 \/ /\ \A c \in call : c.id # i
                    /\ \A l \in Loader : mId[l] # i}

ContainerLoads(c) ==
  /\ c.op = "load" /\ c.reply = "none"
  /\ \E i \in FreshIds : /\ node' = [node EXCEPT ![i] = c.loader]
                         /\ reusable' = reusable \ {i}
                         /\ Reply(c, "ok", i)
  /\ UNCHANGED loaderVars

ContainerRefuses(c) ==
  /\ c.op = "load" /\ c.reply = "none"
  /\ Reply(c, "failed", NoId)
  /\ UNCHANGED loaderVars /\ UNCHANGED containerVars

Holds(i) == i \in Id /\ node[i] # NoLoader

\* Unloading fails exactly when the id names no node.
ContainerUnloads(c) ==
  /\ c.op = "unload" /\ c.reply = "none"
  /\ \/ /\ Holds(c.id)
        /\ node' = [node EXCEPT ![c.id] = NoLoader]
        /\ Reply(c, "ok", c.id)
     \/ /\ ~Holds(c.id)
        /\ Reply(c, "failed", c.id)
        /\ UNCHANGED node
  /\ UNCHANGED loaderVars /\ UNCHANGED reusable

\* Another client of the container unloads a node.
ForeignUnload(i) ==
  /\ "foreign" \in Faults
  /\ node[i] # NoLoader
  /\ node' = [node EXCEPT ![i] = NoLoader]
  /\ UNCHANGED loaderVars /\ UNCHANGED <<call, reusable>>

\* The container's process starts anew, without nodes, and counts ids from one again.
ContainerRestarts ==
  /\ "restart" \in Faults
  /\ node' = [i \in Id |-> NoLoader]
  /\ reusable' = Id
  /\ UNCHANGED loaderVars /\ UNCHANGED call

\* A request sent while the service is not matched, or its response, is gone.
Lose(c) ==
  /\ "loss" \in Faults
  /\ call' = call \ {c}
  /\ UNCHANGED loaderVars /\ UNCHANGED containerVars

Container(c) == ContainerLoads(c) \/ ContainerRefuses(c) \/ ContainerUnloads(c)

Next ==
  \/ \E l \in Loader : Create(l) \/ Load(l) \/ Unload(l) \/ Drop(l)
  \/ \E c \in call : Callback(c) \/ Container(c) \/ Lose(c)
  \/ \E i \in Id : ForeignUnload(i)
  \/ ContainerRestarts

Spec == Init /\ [][Next]_vars

CallOf(l) == {c \in call : c.loader = l}
NodesOf(l) == {i \in Id : node[i] = l}

-----------------------------------------------------------------------------
\* Properties.

\* However load(), unload() and the callbacks interleave, a loader never has
\* two requests racing each other in the container.
OneCallPerLoader ==
  \A c, d \in call : c.loader = d.loader => c = d

\* The container never runs two copies of one loader's node, not even while
\* requests or responses get lost or other clients unload nodes.
AtMostOneNode ==
  \A i, j \in Id : node[i] \in Loader /\ node[i] = node[j] => i = j

\* No node is forgotten: a node in the container is known by its id to a call
\* in flight or to a living loader in state Loaded.  A loader dropped while its
\* load was in flight does not leave its node behind.
NoForgottenNode ==
  "loss" \notin Faults =>
    \A i \in Id : node[i] \in Loader =>
      \/ \E c \in call : c.loader = node[i] /\ c.id = i
      \/ alive[node[i]] /\ mState[node[i]] = "Loaded" /\ mId[node[i]] = i

\* m_state tells the truth while nobody else touches the container: Loaded
\* means the node m_id names is there, Unloaded means no node is.
StateIsTrue ==
  Faults = {} =>
    \A l \in Loader : alive[l] =>
      /\ mState[l] = "Loaded" => mId[l] \in NodesOf(l)
      /\ mState[l] = "Unloaded" => NodesOf(l) = {}

\* The abstract node: wanted as long as the living loader's desired state is
\* Loaded; its phase is what the container has done of the last request.
Wanted(l) == alive[l] /\ mDesiredState[l] = "Loaded"

Phase(l) ==
  CASE \E c \in CallOf(l) : c.op = "load" /\ c.reply # "ok" -> "starting"
    [] \E c \in CallOf(l) : c.op = "unload" /\ c.reply = "none" -> "stopping"
    [] OTHER -> IF NodesOf(l) = {} THEN "off" ELSE "on"

Managed == INSTANCE ManagedNode WITH
  wanted <- [l \in Loader |-> Wanted(l)],
  phase <- [l \in Loader |-> Phase(l)]

\* The loader and a container nobody else touches implement the abstract node:
\* no load sets out unwanted, no unload while wanted, no second load before the
\* first arrived or was refused.
ImplementsManagedNode == Managed!Spec
=============================================================================
