--------------------------- MODULE ViconLocalizer ----------------------------
(***************************************************************************)
(* sfg_hardware_interface::ViconLocalizer: a thread takes frames from a    *)
(* tracker and tells where odometry's origin is on the map, from where the *)
(* tracker saw the robot's marker and what odometry said at that time.     *)
(*                                                                         *)
(* Time passes in ticks, the time from a frame to the next; what was i     *)
(* ticks ago has the age i.  The thread is quick: what it can do, it does  *)
(* within a tick.  Transforms are a group that does not commute.           *)
(***************************************************************************)
EXTENDS Integers, Sequences, Functions

CONSTANTS
  OdometryPose, TrackedPose,  \* odom -> base_link, map -> marker: some transforms
  MarkerToBaseLink,           \* marker -> base_link, which never changes
  Latency,                    \* GetLatencyTotal: the age of a frame that arrives
  BufferSize,                 \* m_buffer_size
  Timeout                     \* how long lookupTransform waits for odometry

Transform == {p \in [1 .. 3 -> 1 .. 3] : IsInjective(p)}
Compose(p, q) == [i \in 1 .. 3 |-> p[q[i]]]

ASSUME LocalizerAssumption ==
  /\ OdometryPose \cup TrackedPose \cup {MarkerToBaseLink} \subseteq Transform
  /\ OdometryPose # {}
  /\ Latency \in Nat /\ BufferSize \in Nat \ {0} /\ Timeout \in Nat \ {0}

VARIABLES
  odometry,   \* by age: odom -> base_link, as the robot moved
  samples,    \* ages of the odometry in m_transform_buffer
  connected,  \* m_client.IsConnected()
  frames,     \* the client's buffer, oldest first: map -> marker, and its age since it was taken
  pc,         \* what m_client_polling_thread does
  frame,      \* map -> marker in the frame it processes ...
  stamp,      \* ... the age of the stamp it was given ...
  published,  \* ... and the transform made of it and broadcast in this tick
  capture,    \* history: the age of that frame since it was taken ...
  late,       \* ... and the ticks it had been in the buffer
  mDone       \* m_done, or rclcpp was shut down

frameVars == <<frame, stamp, published, capture, late>>
threadVars == <<pc, frameVars>>
worldVars == <<odometry, samples>>
vars == <<worldVars, connected, frames, threadVars, mDone>>

\* The model remembers as much as a lookup may ask for; the code ten seconds.
Age == 0 .. Latency + Timeout
NoTransform == <<>>

\* Nothing that still matters is older: the bound of the model on the age of frames.
Oldest == Latency + BufferSize + Timeout
Older(age) == IF age < Oldest THEN age + 1 ELSE age

Init ==
  /\ odometry \in [Age -> OdometryPose] /\ \A i \in Age : odometry[i] = odometry[0]
  /\ samples = {} /\ connected = FALSE /\ frames = <<>>
  /\ pc = "connecting" /\ frame = NoTransform /\ stamp = 0 /\ published = NoTransform
  /\ capture = 0 /\ late = 0
  /\ mDone = FALSE

-----------------------------------------------------------------------------
\* initialize_client.

ConnectWhateverIsDone ==  \* Mutant: the loop does not look at m_done.
  /\ pc = "connecting"
  /\ connected' \in BOOLEAN
  /\ pc' = IF connected' THEN "initializing" ELSE "retrying"
  /\ UNCHANGED <<worldVars, frames, frameVars, mDone>>

Connect ==
  /\ pc = "connecting" /\ ~mDone
  /\ connected' \in BOOLEAN
  /\ pc' = IF connected' THEN "initializing" ELSE "retrying"
  /\ UNCHANGED <<worldVars, frames, frameVars, mDone>>

\* Without segment data the thread returns, and leaves the client connected, even if m_done was
\* set since it was looked at.
Initialize ==
  /\ pc = "initializing"
  /\ pc' \in {"failed"} \cup (IF connected THEN {"polling"} ELSE {})
  /\ UNCHANGED <<worldVars, connected, frames, frameVars, mDone>>

-----------------------------------------------------------------------------
\* poll_client.

\* A connection that is lost is not made again.
StopPolling ==
  /\ \/ pc \in {"connecting", "initializing", "polling"} /\ mDone
     \/ pc = "polling" /\ ~connected
  /\ pc' = "ended" /\ connected' = FALSE
  /\ UNCHANGED <<worldVars, frames, frameVars, mDone>>

NoFrame ==
  /\ pc = "polling" /\ connected /\ ~mDone
  /\ frames = <<>>
  /\ pc' = "asleep"
  /\ UNCHANGED <<worldVars, connected, frames, frameVars, mDone>>

GetFrame ==
  /\ pc = "polling" /\ connected /\ ~mDone
  /\ frames # <<>>
  /\ frame' = Head(frames).pose /\ frames' = Tail(frames)
  /\ capture' = Head(frames).age /\ late' = Head(frames).age - Latency
  /\ published' = NoTransform
  /\ UNCHANGED <<worldVars, connected, mDone>>

-----------------------------------------------------------------------------
\* process_frame.

\* Mutant: an exception ends the thread.
FrameInVainEnds == GetFrame /\ pc' = "dead" /\ UNCHANGED stamp

\* The subject is not known, its marker is occluded, or the transform from the
\* marker to the base link has not been heard of.
FrameInVain == GetFrame /\ UNCHANGED <<pc, stamp>>

\* Mutant: the latency is forgotten.
FrameSeenNow == GetFrame /\ pc' = "waiting" /\ stamp' = 0

\* The stamp is the time of the call less the latency, whenever the frame came.
FrameSeen == GetFrame /\ pc' = "waiting" /\ stamp' = Latency

\* lookupTransform (external) interpolates but does not extrapolate.
CanTransform(i) == \E j, k \in samples : j <= i /\ i <= k

LookupTransform(i) == odometry[i]

MapToOdom(mapToMarker, odomToBaseLink) ==
  Compose(Compose(mapToMarker, MarkerToBaseLink), AntiFunction(odomToBaseLink))

Localize ==
  /\ pc = "waiting" /\ CanTransform(stamp)
  /\ published' = MapToOdom(frame, LookupTransform(stamp))
  /\ pc' = "polling"
  /\ UNCHANGED <<worldVars, connected, frames, frame, stamp, capture, late, mDone>>

GiveUp ==
  /\ pc = "waiting" /\ ~CanTransform(stamp) /\ stamp = Latency + Timeout
  /\ pc' = "polling"
  /\ UNCHANGED <<worldVars, connected, frames, frameVars, mDone>>

-----------------------------------------------------------------------------
\* The destructor sets m_done and joins the thread.
Destroy ==
  /\ ~mDone
  /\ mDone' = TRUE
  /\ UNCHANGED <<worldVars, connected, frames, threadVars>>

LoseConnection ==
  /\ connected /\ connected' = FALSE
  /\ UNCHANGED <<worldVars, frames, threadVars, mDone>>

\* tf: odometry, which a locomotion controller sends, arrives after a while or not at all.
OdometryArrives(i) ==
  /\ i \in Age \ samples
  /\ samples' = samples \cup {i}
  /\ UNCHANGED <<odometry, connected, frames, threadVars, mDone>>

Quick ==
  \/ pc = "polling"
  \/ pc = "waiting" /\ (CanTransform(stamp) \/ stamp = Latency + Timeout)

\* A frame arrives with the age of its latency; the oldest gives way.
FramesTick ==
  LET older == [k \in DOMAIN frames |-> [frames[k] EXCEPT !.age = Older(@)]]
      kept == IF Len(older) = BufferSize THEN Tail(older) ELSE older
  IN  IF connected /\ pc \in {"polling", "asleep", "waiting"}
        THEN \E new \in TrackedPose : frames' = Append(kept, [pose |-> new, age |-> Latency])
        ELSE frames' = older

Tick ==
  /\ ~Quick
  /\ \E new \in OdometryPose :
       odometry' = [i \in Age |-> IF i = 0 THEN new ELSE odometry[i - 1]]
  /\ samples' = {i + 1 : i \in samples} \cap Age
  /\ stamp' = IF pc = "waiting" THEN stamp + 1 ELSE stamp
  /\ pc' = CASE pc = "retrying" -> "connecting" [] pc = "asleep" -> "polling" [] OTHER -> pc
  /\ published' = NoTransform
  /\ FramesTick /\ capture' = Older(capture)
  /\ UNCHANGED <<connected, frame, late, mDone>>

ThreadStep ==
  Connect \/ Initialize \/ StopPolling \/ NoFrame \/ FrameInVain \/ FrameSeen \/ Localize \/ GiveUp

Next ==
  ThreadStep \/ Destroy \/ LoseConnection \/ Tick \/ \E i \in Age : OdometryArrives(i)

Spec == Init /\ [][Next]_vars

-----------------------------------------------------------------------------
\* Fairness: time goes on, the thread is scheduled, and of the frames that are taken
\* as they come not all are in vain.
Fairness ==
  /\ WF_vars(Tick) /\ WF_vars(ThreadStep)
  /\ SF_vars(FrameSeen /\ late' = 0)

FairSpec == Spec /\ Fairness

-----------------------------------------------------------------------------
\* Properties.

Fresh == published # NoTransform /\ late = 0

\* A transform made of a frame that had not waited in the buffer puts the base link, by way of what
\* odometry says of the moment the tracker took the frame, where the tracker saw it: however long
\* the lookup had to wait, and however the robot moved in the meantime.
PublishedIsWhereSeen ==
  Fresh =>
    /\ capture \in Age
    /\ Compose(published, odometry[capture]) = Compose(frame, MarkerToBaseLink)

\* While odometry is as quick as the tracker, and comes before the next frame does, the
\* localizer catches up with frames that piled up before and localizes from fresh ones
\* again and again, as long as the connection it initialized lasts.  If every frame has
\* to wait until the next one, those that piled up stay, and all it takes are late.
KeepsLocalizing ==
  <>[](connected /\ ~mDone /\ pc # "failed" /\ \E i \in samples : i <= Latency + 1) => []<>Fresh

\* The destructor does not wait for ever: the thread ends whatever it is at.
PollingEnds == mDone ~> pc \in {"ended", "failed"}
=============================================================================
