----------------------------- MODULE ManagedNode -----------------------------
(***************************************************************************)
(* What a LazyComposableNodeLoader promises its owner, with no requests,   *)
(* callbacks, ids or mutexes: the owner wants a node or not, and the node  *)
(* goes round off - starting - on - stopping - off.  It only sets out      *)
(* towards "on" while wanted and towards "off" while not wanted; a node    *)
(* that is on its way arrives whatever the owner wants by then.            *)
(***************************************************************************)
CONSTANT Loader

VARIABLES wanted, phase

managedVars == <<wanted, phase>>

Init ==
  /\ wanted = [l \in Loader |-> FALSE]
  /\ phase = [l \in Loader |-> "off"]

Move(l, from, to) == phase[l] = from /\ phase' = [phase EXCEPT ![l] = to]

\* The owner makes up its mind; the node may react at once.
Want(l) ==
  /\ wanted' = [wanted EXCEPT ![l] = TRUE]
  /\ UNCHANGED phase \/ Move(l, "off", "starting")

DoNotWant(l) ==
  /\ wanted' = [wanted EXCEPT ![l] = FALSE]
  /\ UNCHANGED phase \/ Move(l, "on", "stopping")

\* Otherwise the node reacts later.
Begin(l) == wanted[l] /\ Move(l, "off", "starting") /\ UNCHANGED wanted
Arrive(l) == Move(l, "starting", "on") /\ UNCHANGED wanted
GiveUp(l) == Move(l, "starting", "off") /\ UNCHANGED wanted
Retire(l) == ~wanted[l] /\ Move(l, "on", "stopping") /\ UNCHANGED wanted
Leave(l) == Move(l, "stopping", "off") /\ UNCHANGED wanted

Next ==
  \E l \in Loader :
    \/ Want(l) \/ DoNotWant(l)
    \/ Begin(l) \/ Arrive(l) \/ GiveUp(l) \/ Retire(l) \/ Leave(l)

Spec == Init /\ [][Next]_managedVars
=============================================================================
