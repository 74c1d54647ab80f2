------------------------ MODULE LocomotionController -------------------------
(***************************************************************************)
(* sfg_hardware_interface::LocomotionControllerBase: commands that are     *)
(* recent are limited and applied; a watchdog stops the robot when they    *)
(* cease.  apply_cmd belongs to the derived class and may throw, and so do *)
(* the actions that clients trigger.  The callbacks share the node's       *)
(* mutually exclusive callback group, which an action holds until it       *)
(* returns.  Time passes in ticks; a timer that is due is served within    *)
(* its tick unless an action holds it up.                                  *)
(***************************************************************************)
EXTENDS VelocityLimits

CONSTANTS
  Command,     \* twists that may be received
  NonFinite,   \* a twist with a value that is infinite or not a number
  Limits,      \* values of the limits parameters
  CmdTimeout,  \* m_cmd_timeout
  MaxSkew,     \* bound of the model on how old, or how early, a message may be
  MayThrow,    \* apply_cmd may throw
  Action,      \* names of actions
  BuiltIn,     \* those the constructor registers: arm, disarm, emergency_stop
  NoAction,
  MaxHeld      \* bound of the model on the ticks actions take between two commands

Kind == {"linear", "angular"}

ASSUME ControllerAssumption ==
  /\ Command \subseteq [Kind -> Vector3]
  /\ NonFinite \notin Command
  /\ Limits \subseteq [Kind -> LimitsMatrix]
  /\ CmdTimeout \in Nat \ {0} /\ MaxSkew \in Nat
  /\ MayThrow \in BOOLEAN
  /\ BuiltIn \subseteq Action /\ NoAction \notin Action
  /\ MaxHeld \in Nat

VARIABLES
  mLimits,   \* m_linear_limits, m_angular_limits
  velocity,  \* what apply_cmd has been given last without throwing
  commanded, \* history: the twist that velocity was made of
  watchdog,  \* m_reset_cmd_timer: ticks until it fires, Cancelled if it does not
  silence,   \* history: ticks since a command was accepted, up to MaxSilence
  age,       \* history: ticks since the velocity's stamp, up to MaxAge
  failed,    \* history: calls of apply_cmd that threw since the velocity was set
  mActionMap,\* names of the actions that are registered
  running,   \* the action that runs and holds the callback group, or NoAction
  held       \* history: ticks actions have run since a command was accepted

twistVars == <<velocity, commanded, age, failed>>
vars == <<mLimits, velocity, commanded, watchdog, silence, age, failed, mActionMap, running, held>>

Cancelled == -1
MaxSilence == CmdTimeout + MaxHeld + 1
MaxAge == 2 * CmdTimeout + MaxHeld
NoTwist == [k \in Kind |-> [a \in Axis |-> 0]]
Standstill == [k \in Kind |-> Zero]
Moving == \E k \in Kind, a \in Axis : velocity[k].square[a] # 0

TypeOK ==
  /\ mLimits \in Limits
  /\ velocity \in [Kind -> Velocity]
  /\ commanded \in Command \cup {NoTwist}
  /\ watchdog \in {Cancelled} \cup 0 .. CmdTimeout
  /\ silence \in 0 .. MaxSilence
  /\ age \in -CmdTimeout .. MaxAge
  /\ failed \in SUBSET {"cmd", "stop"}
  /\ mActionMap \in SUBSET Action
  /\ running \in mActionMap \cup {NoAction}
  /\ held \in 0 .. MaxHeld

Init ==
  /\ mLimits \in {l \in Limits : \A k \in Kind : ValidLimits(l[k])}
  /\ velocity = Standstill /\ commanded = NoTwist
  /\ watchdog = CmdTimeout
  /\ silence = CmdTimeout + 1
  /\ age = 0 /\ failed = {}
  /\ mActionMap = BuiltIn /\ running = NoAction /\ held = 0

ApplyCmd(u, twist, old) ==
  velocity' = u /\ commanded' = twist /\ age' = old /\ failed' = {}
ApplyCmdThrows(call) ==
  MayThrow /\ failed' = failed \cup {call} /\ UNCHANGED <<velocity, commanded, age>>

-----------------------------------------------------------------------------
\* cmd_vel_callback, for a message stamped "old" ticks ago.

\* Mutant: a message that is just too old is accepted.
InTimeOrJustNot(old) == Abs(old) <= CmdTimeout

InTime(old) == Abs(old) < CmdTimeout

\* Mutant: the watchdog is reset first thing.
CommandIgnoredResets(old, cmd) ==
  /\ running = NoAction
  /\ ~InTime(old) \/ cmd = NonFinite
  /\ watchdog' = CmdTimeout
  /\ UNCHANGED <<mLimits, twistVars, silence, mActionMap, running, held>>

CommandIgnored(old, cmd) ==
  /\ running = NoAction
  /\ ~InTime(old) \/ cmd = NonFinite
  /\ UNCHANGED vars

Limited(cmd) == [k \in Kind |-> ApplyVelocityLimits(cmd[k], mLimits[k])]

\* Mutant: the watchdog is not reset.
CommandAcceptedOnly(old, cmd) ==
  /\ running = NoAction
  /\ InTime(old) /\ cmd # NonFinite
  /\ ApplyCmd(Limited(cmd), cmd, old) \/ ApplyCmdThrows("cmd")
  /\ watchdog' = IF watchdog = Cancelled THEN CmdTimeout ELSE watchdog
  /\ silence' = 0 /\ held' = 0
  /\ UNCHANGED <<mLimits, mActionMap, running>>

CommandAccepted(old, cmd) ==
  /\ running = NoAction
  /\ InTime(old) /\ cmd # NonFinite
  /\ ApplyCmd(Limited(cmd), cmd, old) \/ ApplyCmdThrows("cmd")
  /\ watchdog' = CmdTimeout
  /\ silence' = 0 /\ held' = 0
  /\ UNCHANGED <<mLimits, mActionMap, running>>

CmdVelCallback(old, cmd) == CommandIgnored(old, cmd) \/ CommandAccepted(old, cmd)

-----------------------------------------------------------------------------
\* reset_cmd_callback: the timer is cancelled once the robot has been stopped.

\* Mutant: the timer is cancelled before the robot is stopped.
StopFailsCancelled ==
  /\ running = NoAction /\ watchdog = 0
  /\ ApplyCmdThrows("stop")
  /\ watchdog' = Cancelled
  /\ UNCHANGED <<mLimits, silence, mActionMap, running, held>>

Stops ==
  /\ running = NoAction /\ watchdog = 0
  /\ ApplyCmd(Standstill, NoTwist, 0)
  /\ watchdog' = Cancelled
  /\ UNCHANGED <<mLimits, silence, mActionMap, running, held>>

StopFails ==
  /\ running = NoAction /\ watchdog = 0
  /\ ApplyCmdThrows("stop")
  /\ watchdog' = CmdTimeout
  /\ UNCHANGED <<mLimits, silence, mActionMap, running, held>>

ResetCmdCallback == Stops \/ StopFails

-----------------------------------------------------------------------------
\* Actions.

\* add_action, which refuses a name that is registered.
AddAction(name) ==
  /\ name \notin mActionMap
  /\ mActionMap' = mActionMap \cup {name}
  /\ UNCHANGED <<mLimits, twistVars, watchdog, silence, running, held>>

\* trigger_action_callback: a name that is unknown is answered at once.
TriggerAction(name) ==
  /\ running = NoAction /\ name \in mActionMap
  /\ running' = name
  /\ UNCHANGED <<mLimits, twistVars, watchdog, silence, mActionMap, held>>

\* The action returns or throws, which the answer says in either case.
ActionEnds ==
  /\ running # NoAction
  /\ running' = NoAction
  /\ UNCHANGED <<mLimits, twistVars, watchdog, silence, mActionMap, held>>

Tick ==
  /\ running = NoAction => watchdog # 0
  /\ running # NoAction => held < MaxHeld
  /\ watchdog' = IF watchdog \in {Cancelled, 0} THEN watchdog ELSE watchdog - 1
  /\ silence' = IF silence < MaxSilence THEN silence + 1 ELSE silence
  /\ age' = IF Moving /\ age < MaxAge THEN age + 1 ELSE age
  /\ held' = IF running = NoAction THEN held ELSE held + 1
  /\ UNCHANGED <<mLimits, velocity, commanded, failed, mActionMap, running>>

Next ==
  \/ \E old \in -MaxSkew .. MaxSkew, cmd \in Command \cup {NonFinite} : CmdVelCallback(old, cmd)
  \/ ResetCmdCallback
  \/ \E name \in Action : AddAction(name) \/ TriggerAction(name)
  \/ ActionEnds
  \/ Tick

Spec == Init /\ [][Next]_vars

\* Fairness.  Time goes on and actions end; the executor serves timers before
\* requests, and a stop that is tried again and again is obeyed in the end.
Fairness == SF_vars(Tick) /\ WF_vars(ActionEnds) /\ SF_vars(Stops)
FairSpec == Spec /\ Fairness

-----------------------------------------------------------------------------
\* Properties.

\* The robot moves only while commands keep coming: CmdTimeout after the last one
\* that was accepted it is told to stop, whatever was ignored in between, unless
\* telling it failed.  Actions that were triggered put this off by as long as they
\* ran, but nothing else does.
MovesOnlyCommanded ==
  Moving /\ "stop" \notin failed => silence <= CmdTimeout + held

\* A command is obeyed for less than twice the timeout after its stamp, one half
\* on the way and one half in effect, and for as long as actions ran, unless a later
\* call threw: commands that throw restart the watchdog and leave the old velocity
\* in effect.
OldCommandEnds == Moving /\ failed = {} => age < 2 * CmdTimeout + held

\* The watchdog never stops a robot whose commands arrive in time.
NoNeedlessStop ==
  [][Moving /\ ~Moving' /\ silence' # 0 => silence >= CmdTimeout]_vars

\* If commands cease the robot stops for good, also if stopping fails at first.
StopsInTheEnd == <>[](silence > 0) => <>[]~Moving

\* Whatever command is received, each axis stands still or moves within its limits:
\* neither scaling nor the dead band lets it fall below its minimum.
AxesWithinLimits == \A k \in Kind : AxesWithin(velocity[k], mLimits[k])

\* The total speed exceeds the maximum only by axes that were raised to their minimum.
SpeedWithinLimits == \A k \in Kind : SpeedWithin(velocity[k], mLimits[k])

\* No axis ever moves against its command, nor at all if it was not commanded to.
KeepsDirection ==
  \A k \in Kind, a \in Axis :
    LET moves == velocity[k].square[a]
    IN moves # 0 => moves * commanded[k][a] > 0
=============================================================================
