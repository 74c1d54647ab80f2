------------------------ MODULE ViconLocalizerProofs -------------------------
(***************************************************************************)
(* Theorems about ViconLocalizer: what is published, for all transforms,   *)
(* latencies and timeouts; and that a thread told to end has a bounded way *)
(* to go.                                                                  *)
(***************************************************************************)
EXTENDS ViconLocalizer, TLAPS

Phase == {"connecting", "retrying", "initializing", "polling", "asleep", "waiting", "failed", "ended"}
Frame == [pose : TrackedPose, age : Latency .. Oldest]

LocalizerTypeOK ==
  /\ odometry \in [Age -> OdometryPose]
  /\ samples \subseteq Age
  /\ connected \in BOOLEAN /\ mDone \in BOOLEAN
  /\ frames \in Seq(Frame) /\ Len(frames) <= BufferSize
  /\ pc \in Phase
  /\ frame \in TrackedPose \cup {NoTransform} /\ (pc = "waiting" => frame \in TrackedPose)
  /\ stamp \in Age
  /\ published \in Transform \cup {NoTransform}
  /\ capture \in 0 .. Oldest /\ late \in 0 .. Oldest - Latency

\* The client's buffer holds one frame of each of the last ticks, and none before it is read.
FramesInTurn ==
  /\ pc \in {"connecting", "retrying", "initializing", "failed"} => frames = <<>>
  /\ pc = "ended" => ~connected
  /\ connected => \A k \in DOMAIN frames : frames[k].age = Latency + Len(frames) - k

\* The stamp of a frame is too young by as long as the frame had waited.
StampErrsByWait ==
  pc = "waiting" \/ published # NoTransform =>
    late < BufferSize /\ capture = stamp + late

\* What is published was made of the frame and of odometry at its stamp.
PublishedIsMade ==
  published # NoTransform => published = MapToOdom(frame, odometry[stamp])

\* The inductive invariant, beside the types.
IInv == FramesInTurn /\ StampErrsByWait /\ PublishedIsMade

LEMMA ConstantsAreNumbers ==
  /\ Latency \in Nat /\ Timeout \in Nat
  /\ BufferSize \in Nat \ {0} /\ Oldest = Latency + BufferSize + Timeout
  /\ 0 \in Age /\ Latency \in Age /\ Latency + Timeout \in Age
BY LocalizerAssumption, SMT DEF Age, Oldest

\* The inverse of a transform undoes it.
LEMMA InverseUndoes ==
  ASSUME NEW q \in Transform, NEW i \in 1 .. 3
  PROVE  q[i] \in 1 .. 3 /\ AntiFunction(q)[q[i]] = i
<1>1. q \in [1 .. 3 -> 1 .. 3] /\ \A j, k \in 1 .. 3 : q[j] = q[k] => j = k
  BY DEF Transform, IsInjective
<1>2. q[i] \in Range(q) /\ DOMAIN q = 1 .. 3
  BY <1>1 DEF Range
<1>3. AntiFunction(q) = [t \in Range(q) |-> CHOOSE s \in DOMAIN q : t \in Range(q) => q[s] = t]
  BY DEF AntiFunction, Inverse
<1>4. AntiFunction(q)[q[i]] = CHOOSE s \in DOMAIN q : q[i] \in Range(q) => q[s] = q[i]
  BY <1>2, <1>3
<1>5. \E s \in DOMAIN q : q[i] \in Range(q) => q[s] = q[i]
  BY <1>2
<1> QED
  BY <1>1, <1>2, <1>4, <1>5

-----------------------------------------------------------------------------
\* Types: what is made of transforms is one, and the client's buffer is bounded.

LEMMA ComposeIsTransform ==
  ASSUME NEW p \in Transform, NEW q \in Transform
  PROVE  Compose(p, q) \in Transform
<1>1. /\ p \in [1 .. 3 -> 1 .. 3] /\ \A j, k \in 1 .. 3 : p[j] = p[k] => j = k
      /\ q \in [1 .. 3 -> 1 .. 3] /\ \A j, k \in 1 .. 3 : q[j] = q[k] => j = k
  BY DEF Transform, IsInjective
<1>2. Compose(p, q) \in [1 .. 3 -> 1 .. 3]
  BY <1>1 DEF Compose
<1>3. \A j, k \in 1 .. 3 : Compose(p, q)[j] = Compose(p, q)[k] => j = k
  BY <1>1 DEF Compose
<1> QED
  BY <1>2, <1>3 DEF Transform, IsInjective

\* An injection of three things into themselves reaches all of them.
LEMMA TransformReachesAll ==
  ASSUME NEW q \in Transform, NEW i \in 1 .. 3
  PROVE  \E j \in 1 .. 3 : q[j] = i
<1>1. q \in [1 .. 3 -> 1 .. 3] /\ \A j, k \in 1 .. 3 : q[j] = q[k] => j = k
  BY DEF Transform, IsInjective
<1>2. q[1] \in 1 .. 3 /\ q[2] \in 1 .. 3 /\ q[3] \in 1 .. 3
  BY <1>1
<1>3. q[1] # q[2] /\ q[1] # q[3] /\ q[2] # q[3]
  BY <1>1
<1>4. q[1] = i \/ q[2] = i \/ q[3] = i
  BY <1>2, <1>3
<1> QED
  BY <1>4

LEMMA InverseIsTransform ==
  ASSUME NEW q \in Transform
  PROVE  AntiFunction(q) \in Transform
<1> DEFINE r == AntiFunction(q)
<1>1. q \in [1 .. 3 -> 1 .. 3] /\ Range(q) = 1 .. 3
  BY TransformReachesAll DEF Transform, Range
<1>2. r = [t \in 1 .. 3 |-> r[t]]
  BY <1>1 DEF AntiFunction, Inverse
<1>3. \A t \in 1 .. 3 : \E j \in 1 .. 3 : q[j] = t /\ r[t] = j
  BY TransformReachesAll, InverseUndoes
<1> HIDE DEF r
<1>4. r \in [1 .. 3 -> 1 .. 3]
  BY <1>2, <1>3
<1>5. \A j, k \in 1 .. 3 : r[j] = r[k] => j = k
  BY <1>3
<1> QED
  BY <1>4, <1>5 DEF Transform, IsInjective, r

LEMMA OlderIsBounded ==
  /\ \A age \in 0 .. Oldest : Older(age) \in 0 .. Oldest
  /\ \A age \in Latency .. Oldest : Older(age) \in Latency .. Oldest
BY ConstantsAreNumbers, SMT DEF Older

\* The buffer after a tick: what was in it is a tick older.
OlderFrames == [k \in DOMAIN frames |-> [frames[k] EXCEPT !.age = Older(@)]]

LEMMA OlderFramesAre ==
  ASSUME frames \in Seq(Frame)
  PROVE  /\ OlderFrames \in Seq(Frame) /\ Len(OlderFrames) = Len(frames)
         /\ DOMAIN OlderFrames = DOMAIN frames
         /\ \A k \in DOMAIN frames : OlderFrames[k].age = Older(frames[k].age)
<1>1. ASSUME NEW f \in Frame
      PROVE  [f EXCEPT !.age = Older(@)] \in Frame /\ [f EXCEPT !.age = Older(@)].age = Older(f.age)
  BY OlderIsBounded DEF Frame
<1>2. \A k \in DOMAIN frames : frames[k] \in Frame
  OBVIOUS
<1>3. DOMAIN frames = 1 .. Len(frames) /\ Len(frames) \in Nat
  OBVIOUS
<1>4. \A k \in DOMAIN frames : OlderFrames[k] \in Frame /\ OlderFrames[k].age = Older(frames[k].age)
  BY <1>1, <1>2 DEF OlderFrames
<1>5. DOMAIN OlderFrames = 1 .. Len(frames) /\ OlderFrames = [k \in 1 .. Len(frames) |-> OlderFrames[k]]
  BY <1>3 DEF OlderFrames
<1> HIDE DEF Frame
<1>6. OlderFrames \in Seq(Frame) /\ Len(OlderFrames) = Len(frames)
  BY <1>3, <1>4, <1>5
<1> QED
  BY <1>3, <1>4, <1>5, <1>6

LEMMA FramesTickDoes ==
  ASSUME FramesTick
  PROVE  \/ frames' = OlderFrames /\ ~(connected /\ pc \in {"polling", "asleep", "waiting"})
         \/ /\ connected /\ pc \in {"polling", "asleep", "waiting"}
            /\ \E new \in TrackedPose :
                 frames' = Append(IF Len(OlderFrames) = BufferSize THEN Tail(OlderFrames) ELSE OlderFrames,
                                  [pose |-> new, age |-> Latency])
BY DEF FramesTick, OlderFrames

LEMMA FramesTickKeepsTypes ==
  ASSUME frames \in Seq(Frame), Len(frames) <= BufferSize, FramesTick
  PROVE  frames' \in Seq(Frame) /\ Len(frames') <= BufferSize
<1>1. OlderFrames \in Seq(Frame) /\ Len(OlderFrames) = Len(frames) /\ Len(frames) \in Nat
  BY OlderFramesAre
<1>2. ASSUME NEW new \in TrackedPose,
             frames' = Append(IF Len(OlderFrames) = BufferSize THEN Tail(OlderFrames) ELSE OlderFrames,
                              [pose |-> new, age |-> Latency])
      PROVE  frames' \in Seq(Frame) /\ Len(frames') <= BufferSize
  <2> DEFINE f == [pose |-> new, age |-> Latency]
  <2>1. f \in Frame
    BY ConstantsAreNumbers DEF Frame
  <2> HIDE DEF f
  <2>2. CASE Len(OlderFrames) = BufferSize
    <3>1. Tail(OlderFrames) \in Seq(Frame) /\ Len(Tail(OlderFrames)) = BufferSize - 1
      BY <1>1, <2>2, ConstantsAreNumbers
    <3>2. frames' = Append(Tail(OlderFrames), f)
      BY <1>2, <2>2 DEF f
    <3> QED
      BY <2>1, <3>1, <3>2, ConstantsAreNumbers
  <2>3. CASE Len(OlderFrames) # BufferSize
    <3>1. frames' = Append(OlderFrames, f)
      BY <1>2, <2>3 DEF f
    <3> QED
      BY <1>1, <2>1, <2>3, <3>1, ConstantsAreNumbers
  <2> QED
    BY <2>2, <2>3
<1> QED
  BY <1>1, <1>2, FramesTickDoes

LEMMA TypeStep == LocalizerTypeOK /\ [Next]_vars => LocalizerTypeOK'
<1> SUFFICES ASSUME LocalizerTypeOK, [Next]_vars PROVE LocalizerTypeOK'
  OBVIOUS
<1> USE DEF LocalizerTypeOK, worldVars, frameVars, threadVars
<1>c. /\ MarkerToBaseLink \in Transform /\ OdometryPose \subseteq Transform /\ TrackedPose \subseteq Transform
      /\ BufferSize \in Nat \ {0}
  BY LocalizerAssumption
<1>1. CASE Connect \/ Initialize \/ StopPolling \/ NoFrame \/ GiveUp
  BY <1>1 DEF Connect, Initialize, StopPolling, NoFrame, GiveUp, Phase
<1>2. CASE FrameInVain \/ FrameSeen
  <2>1. GetFrame
    BY <1>2 DEF FrameInVain, FrameSeen
  <2>2. /\ frames # <<>> /\ frames \in Seq(Frame) /\ Len(frames) \in Nat
        /\ frame' = Head(frames).pose /\ frames' = Tail(frames)
        /\ capture' = Head(frames).age /\ late' = Head(frames).age - Latency
    BY <2>1 DEF GetFrame
  <2>3. /\ Head(frames) \in Frame /\ frames' \in Seq(Frame)
        /\ Len(frames') = Len(frames) - 1 /\ Len(frames) >= 1
    BY <2>2
  <2>4. pc' \in Phase /\ stamp' \in Age
    BY <1>2, ConstantsAreNumbers DEF FrameInVain, FrameSeen, Phase
  <2>5. frame' \in TrackedPose /\ Head(frames).age \in Latency .. Oldest
    BY <2>2, <2>3 DEF Frame
  <2>6. capture' \in 0 .. Oldest /\ late' \in 0 .. Oldest - Latency /\ Len(frames') <= BufferSize
    BY <1>c, <2>2, <2>3, <2>5, ConstantsAreNumbers
  <2> QED
    BY <2>1, <2>3, <2>4, <2>5, <2>6 DEF GetFrame
<1>3. CASE Localize
  <2>1. frame \in Transform /\ odometry[stamp] \in Transform
    BY <1>3, <1>c DEF Localize
  <2>2. published' \in Transform
    BY <1>3, <1>c, <2>1, ComposeIsTransform, InverseIsTransform DEF Localize, MapToOdom, LookupTransform
  <2> QED
    BY <1>3, <2>2 DEF Localize, Phase
<1>4. CASE Destroy \/ LoseConnection \/ (\E i \in Age : OdometryArrives(i))
  BY <1>4 DEF Destroy, LoseConnection, OdometryArrives
<1>5. CASE Tick
  <2>1. odometry' \in [Age -> OdometryPose]
    <3>1. PICK new \in OdometryPose :
            odometry' = [i \in Age |-> IF i = 0 THEN new ELSE odometry[i - 1]]
      BY <1>5 DEF Tick
    <3>2. \A i \in Age : i # 0 => odometry[i - 1] \in OdometryPose
      BY ConstantsAreNumbers DEF Age
    <3> QED
      BY <3>1, <3>2
  <2>2. stamp' \in Age
    <3>1. stamp \in Age /\ stamp' = (IF pc = "waiting" THEN stamp + 1 ELSE stamp)
      BY <1>5 DEF Tick
    <3>2. pc = "waiting" => stamp # Latency + Timeout
      BY <1>5 DEF Tick, Quick
    <3> HIDE DEF LocalizerTypeOK
    <3> QED
      BY <3>1, <3>2, ConstantsAreNumbers DEF Age
  <2>3. frames' \in Seq(Frame) /\ Len(frames') <= BufferSize
    BY <1>5, FramesTickKeepsTypes DEF Tick
  <2>5. capture' \in 0 .. Oldest
    BY <1>5, OlderIsBounded DEF Tick
  <2>4. pc' \in Phase /\ (pc' = "waiting" => pc = "waiting") /\ samples' \subseteq Age
    BY <1>5 DEF Tick, Phase
  <2> QED
    BY <1>5, <2>1, <2>2, <2>3, <2>4, <2>5 DEF Tick
<1>6. CASE UNCHANGED vars
  BY <1>6 DEF vars
<1> QED
  BY <1>1, <1>2, <1>3, <1>4, <1>5, <1>6 DEF Next, ThreadStep

\* Nothing leaves its type: whatever is published is a transform, the frames of a client that the
\* thread does not keep up with are bounded, and no lookup is older than what the buffer remembers.
THEOREM LocalizerTypeCorrect == Spec => []LocalizerTypeOK
<1>1. Init => LocalizerTypeOK
  <2> SUFFICES ASSUME Init PROVE LocalizerTypeOK
    OBVIOUS
  <2>1. frames \in Seq(Frame) /\ Len(frames) = 0 /\ Len(frames) <= BufferSize
    BY LocalizerAssumption DEF Init
  <2>2. late \in 0 .. Oldest - Latency /\ capture \in 0 .. Oldest
    BY LocalizerAssumption, SMT DEF Init, Oldest
  <2>3. stamp \in Age /\ pc \in Phase /\ pc # "waiting"
    BY ConstantsAreNumbers DEF Init, Phase
  <2> QED
    BY <2>1, <2>2, <2>3 DEF Init, LocalizerTypeOK
<1> QED
  BY <1>1, TypeStep, PTL DEF Spec

-----------------------------------------------------------------------------
\* What is published.

\* Frames grow older one tick apart; the newest is as old as its latency.
LEMMA FramesStayInTurn ==
  ASSUME LocalizerTypeOK, FramesInTurn, Tick
  PROVE  FramesInTurn'
<1>1. frames \in Seq(Frame) /\ Len(frames) \in Nat /\ Len(frames) <= BufferSize
  BY DEF LocalizerTypeOK
<1>2. /\ OlderFrames \in Seq(Frame) /\ Len(OlderFrames) = Len(frames)
      /\ DOMAIN OlderFrames = 1 .. Len(frames)
      /\ \A k \in 1 .. Len(frames) : OlderFrames[k].age = Older(frames[k].age)
  BY <1>1, OlderFramesAre
<1>3. connected => \A k \in 1 .. Len(frames) : OlderFrames[k].age = Latency + Len(frames) + 1 - k
  BY <1>1, <1>2, ConstantsAreNumbers DEF FramesInTurn, Older
<1>4. CASE connected /\ pc \in {"polling", "asleep", "waiting"}
  <2>1. PICK new \in TrackedPose :
          frames' = Append(IF Len(OlderFrames) = BufferSize THEN Tail(OlderFrames) ELSE OlderFrames,
                           [pose |-> new, age |-> Latency])
    BY <1>4, FramesTickDoes DEF Tick
  <2> DEFINE kept == IF Len(OlderFrames) = BufferSize THEN Tail(OlderFrames) ELSE OlderFrames
             f == [pose |-> new, age |-> Latency]
  <2>2. kept \in Seq(Frame) /\ \A k \in DOMAIN kept : kept[k].age = Latency + Len(kept) + 1 - k
    <3>1. CASE Len(OlderFrames) = BufferSize
      <4>1. /\ Tail(OlderFrames) \in Seq(Frame) /\ Len(Tail(OlderFrames)) = Len(frames) - 1
            /\ \A k \in 1 .. Len(frames) - 1 : Tail(OlderFrames)[k] = OlderFrames[k + 1]
        BY <1>1, <1>2, <3>1, ConstantsAreNumbers
      <4>2. \A k \in 1 .. Len(frames) - 1 : k + 1 \in 1 .. Len(frames) /\ k \in Int
        BY <1>1
      <4>3. \A k \in 1 .. Len(frames) - 1 :
              Tail(OlderFrames)[k].age = Latency + Len(frames) + 1 - (k + 1)
        BY <1>3, <1>4, <4>1, <4>2
      <4>4. DOMAIN Tail(OlderFrames) = 1 .. Len(frames) - 1
        BY <4>1
      <4>5. \A k \in DOMAIN Tail(OlderFrames) :
              Tail(OlderFrames)[k].age = Latency + Len(Tail(OlderFrames)) + 1 - k
        <5> SUFFICES ASSUME NEW k \in 1 .. Len(frames) - 1
                     PROVE  Latency + Len(frames) + 1 - (k + 1) = Latency + (Len(frames) - 1) + 1 - k
          BY <4>1, <4>3, <4>4
        <5> QED
          BY <1>1, ConstantsAreNumbers
      <4> QED
        BY <3>1, <4>1, <4>5
    <3>2. CASE Len(OlderFrames) # BufferSize
      BY <1>2, <1>3, <1>4, <3>2
    <3> QED
      BY <3>1, <3>2
  <2> HIDE DEF kept, f
  <2>3. frames' = Append(kept, f) /\ f.age = Latency
    BY <2>1 DEF kept, f
  <2>4. /\ Len(frames') = Len(kept) + 1 /\ Len(kept) \in Nat
        /\ DOMAIN frames' = 1 .. Len(kept) + 1
        /\ \A k \in DOMAIN kept : frames'[k] = kept[k]
        /\ frames'[Len(kept) + 1] = f
        /\ DOMAIN kept = 1 .. Len(kept)
    BY <2>2, <2>3
  <2>5. ASSUME NEW k \in DOMAIN frames' PROVE frames'[k].age = Latency + Len(frames') - k
    <3>1. CASE k = Len(kept) + 1
      BY <2>3, <2>4, <3>1, ConstantsAreNumbers
    <3>2. CASE k \in 1 .. Len(kept)
      BY <2>2, <2>4, <3>2, ConstantsAreNumbers
    <3> QED
      BY <2>4, <2>5, <3>1, <3>2
  <2>6. pc' \notin {"connecting", "retrying", "initializing", "failed", "ended"}
    BY <1>4 DEF Tick
  <2> QED
    BY <2>5, <2>6 DEF FramesInTurn
<1>5. CASE ~(connected /\ pc \in {"polling", "asleep", "waiting"})
  <2>1. frames' = OlderFrames /\ connected' = connected
    BY <1>5, FramesTickDoes DEF Tick
  <2>2. frames = <<>> => frames' = <<>>
    BY <1>2, <2>1
  <2>3. ~connected \/ frames = <<>>
    BY <1>5 DEF LocalizerTypeOK, Phase, FramesInTurn
  <2>4. connected' => \A k \in DOMAIN frames' : frames'[k].age = Latency + Len(frames') - k
    BY <2>1, <2>2, <2>3
  <2>5. /\ pc' \in {"connecting", "retrying", "initializing", "failed"} => frames' = <<>>
        /\ pc' = "ended" => ~connected'
    BY <2>1, <2>2 DEF Tick, FramesInTurn
  <2> QED
    BY <2>4, <2>5 DEF FramesInTurn
<1> QED
  BY <1>4, <1>5

\* Taking the head of the buffer leaves the others where they are in turn.
LEMMA GetFrameStep ==
  ASSUME LocalizerTypeOK, FramesInTurn, GetFrame
  PROVE  /\ late' \in 0 .. BufferSize - 1 /\ capture' = Latency + late'
         /\ \A k \in DOMAIN frames' : frames'[k].age = Latency + Len(frames') - k
<1>1. /\ frames \in Seq(Frame) /\ Len(frames) \in Nat /\ Len(frames) >= 1 /\ Len(frames) <= BufferSize
      /\ frames' = Tail(frames) /\ capture' = Head(frames).age /\ late' = Head(frames).age - Latency
      /\ DOMAIN frames = 1 .. Len(frames)
  BY DEF GetFrame, LocalizerTypeOK
<1>2. \A k \in 1 .. Len(frames) : frames[k].age = Latency + Len(frames) - k
  BY <1>1 DEF GetFrame, FramesInTurn
<1>3. Head(frames) = frames[1]
  BY <1>1
<1>4. /\ Len(Tail(frames)) = Len(frames) - 1 /\ DOMAIN Tail(frames) = 1 .. Len(frames) - 1
      /\ \A k \in 1 .. Len(frames) - 1 : Tail(frames)[k] = frames[k + 1]
  BY <1>1
<1>5. \A k \in 1 .. Len(frames) - 1 : k + 1 \in 1 .. Len(frames) /\ k \in Int
  BY <1>1
<1>6. \A k \in 1 .. Len(frames) - 1 : Tail(frames)[k].age = Latency + Len(frames) - (k + 1)
  BY <1>2, <1>4, <1>5
<1>7. \A k \in DOMAIN frames' : frames'[k].age = Latency + Len(frames') - k
  BY <1>1, <1>4, <1>5, <1>6, ConstantsAreNumbers
<1>8. Head(frames).age = Latency + Len(frames) - 1
  BY <1>1, <1>2, <1>3
<1> QED
  BY <1>1, <1>7, <1>8, ConstantsAreNumbers

LEMMA TickStep ==
  ASSUME LocalizerTypeOK, IInv, Tick
  PROVE  IInv'
<1>1. FramesInTurn'
  BY FramesStayInTurn DEF IInv
<1>2. published' = NoTransform
  BY DEF Tick
<1>3. StampErrsByWait'
  <2>1. pc' = "waiting" => pc = "waiting"
    BY DEF Tick
  <2>2. ASSUME pc = "waiting" PROVE late' < BufferSize /\ capture' = stamp' + late'
    <3>1. /\ stamp \in Age /\ stamp # Latency + Timeout
          /\ stamp' = stamp + 1 /\ late' = late /\ capture' = Older(capture)
      BY <2>2 DEF Tick, Quick, LocalizerTypeOK
    <3>2. late \in Nat /\ late < BufferSize /\ capture = stamp + late
      BY <2>2, ConstantsAreNumbers DEF IInv, StampErrsByWait, LocalizerTypeOK
    <3>3. capture < Oldest
      BY <3>1, <3>2, ConstantsAreNumbers DEF Age
    <3> QED
      BY <3>1, <3>2, <3>3, ConstantsAreNumbers DEF Older, Age
  <2> QED
    BY <1>2, <2>1, <2>2 DEF StampErrsByWait
<1>4. PublishedIsMade'
  BY <1>2 DEF PublishedIsMade
<1> QED
  BY <1>1, <1>3, <1>4 DEF IInv

LEMMA ThreadStepKeeps ==
  ASSUME LocalizerTypeOK, IInv, ThreadStep
  PROVE  IInv'
<1>1. odometry' = odometry
  BY DEF ThreadStep, Connect, Initialize, StopPolling, NoFrame, FrameInVain, FrameSeen,
         GetFrame, Localize, GiveUp, worldVars
<1>2. CASE Connect \/ Initialize \/ StopPolling \/ NoFrame \/ GiveUp
  <2>1. UNCHANGED <<frames, frameVars>> /\ pc' # "waiting"
    BY <1>2 DEF Connect, Initialize, StopPolling, NoFrame, GiveUp
  <2>2. FramesInTurn'
    <3>1. CASE Connect
      BY <2>1, <3>1 DEF Connect, IInv, FramesInTurn
    <3>2. CASE Initialize \/ StopPolling \/ NoFrame \/ GiveUp
      BY <2>1, <3>2 DEF Initialize, StopPolling, NoFrame, GiveUp, IInv, FramesInTurn
    <3> QED
      BY <1>2, <3>1, <3>2
  <2>3. StampErrsByWait' /\ PublishedIsMade'
    BY <1>1, <2>1 DEF IInv, StampErrsByWait, PublishedIsMade, frameVars
  <2> QED
    BY <2>2, <2>3 DEF IInv
<1>3. CASE FrameInVain \/ FrameSeen
  <2>1. GetFrame /\ published' = NoTransform /\ pc' \in {"polling", "waiting"}
    BY <1>3 DEF FrameInVain, FrameSeen, GetFrame
  <2>2. /\ late' \in 0 .. BufferSize - 1 /\ capture' = Latency + late'
        /\ \A k \in DOMAIN frames' : frames'[k].age = Latency + Len(frames') - k
    BY <2>1, GetFrameStep DEF IInv
  <2>3. pc' = "waiting" => stamp' = Latency
    BY <1>3 DEF FrameInVain, FrameSeen, GetFrame
  <2>4. FramesInTurn' /\ PublishedIsMade'
    BY <2>1, <2>2 DEF FramesInTurn, PublishedIsMade
  <2>5. StampErrsByWait'
    BY <2>1, <2>2, <2>3, ConstantsAreNumbers DEF StampErrsByWait
  <2> QED
    BY <2>4, <2>5 DEF IInv
<1>4. CASE Localize
  <2>1. UNCHANGED <<connected, frames, frame, stamp, capture, late>> /\ pc = "waiting" /\ pc' = "polling"
    BY <1>4 DEF Localize
  <2>2. published' = MapToOdom(frame, odometry[stamp])
    BY <1>4 DEF Localize, LookupTransform
  <2>3. FramesInTurn' /\ StampErrsByWait'
    BY <2>1 DEF IInv, FramesInTurn, StampErrsByWait
  <2>4. PublishedIsMade'
    BY <1>1, <2>1, <2>2 DEF PublishedIsMade
  <2> QED
    BY <2>3, <2>4 DEF IInv
<1> QED
  BY <1>2, <1>3, <1>4 DEF ThreadStep

LEMMA Invariance == Spec => [](LocalizerTypeOK /\ IInv)
<1>1. Init => IInv
  BY DEF Init, IInv, FramesInTurn, StampErrsByWait, PublishedIsMade
<1>2. LocalizerTypeOK /\ IInv /\ [Next]_vars => IInv'
  <2> SUFFICES ASSUME LocalizerTypeOK, IInv, [Next]_vars PROVE IInv'
    OBVIOUS
  <2>1. CASE Destroy \/ UNCHANGED vars \/ \E i \in Age : OdometryArrives(i)
    <3>1. UNCHANGED <<odometry, connected, frames, threadVars>>
      BY <2>1 DEF Destroy, OdometryArrives, vars, worldVars
    <3> QED
      BY <3>1 DEF IInv, FramesInTurn, StampErrsByWait, PublishedIsMade, threadVars, frameVars
  <2>2. CASE LoseConnection
    BY <2>2 DEF LoseConnection, IInv, FramesInTurn, StampErrsByWait, PublishedIsMade,
       worldVars, threadVars, frameVars
  <2> QED
    BY <2>1, <2>2, TickStep, ThreadStepKeeps DEF Next
<1> QED
  BY <1>1, <1>2, LocalizerTypeCorrect, PTL DEF Spec

\* What is published puts the base link where the tracker saw it, by way of what odometry said as
\* much later than the frame was taken as it had waited in the buffer.
ErrsByTheWait ==
  published # NoTransform =>
    /\ late \in 0 .. BufferSize - 1 /\ capture - late \in Age
    /\ Compose(published, odometry[capture - late]) = Compose(frame, MarkerToBaseLink)

\* For all transforms, which need not commute, all latencies, buffers and waits for odometry: the
\* time of a frame that piled up is wrong by its wait, which is less than the buffer is long, and by
\* nothing else.
THEOREM ErrsByTheWaitAlways == Spec => []ErrsByTheWait
<1>1. LocalizerTypeOK /\ IInv => ErrsByTheWait
  <2> SUFFICES ASSUME LocalizerTypeOK, IInv, published # NoTransform
               PROVE  /\ late \in 0 .. BufferSize - 1 /\ capture - late \in Age
                      /\ Compose(published, odometry[capture - late]) = Compose(frame, MarkerToBaseLink)
    BY DEF ErrsByTheWait
  <2> DEFINE seen == Compose(frame, MarkerToBaseLink)
             q == odometry[stamp]
  <2>1. q \in Transform
    BY LocalizerAssumption DEF LocalizerTypeOK
  <2>2. \A i \in 1 .. 3 : q[i] \in 1 .. 3 /\ AntiFunction(q)[q[i]] = i
    BY <2>1, InverseUndoes
  <2>3. published = Compose(seen, AntiFunction(q))
    BY DEF IInv, PublishedIsMade, MapToOdom
  <2>4. seen = [i \in 1 .. 3 |-> seen[i]]
    BY DEF Compose
  <2> HIDE DEF seen, q
  <2>5. \A i \in 1 .. 3 : published[q[i]] = seen[i]
    BY <2>2, <2>3 DEF Compose
  <2>6. Compose(published, q) = seen
    BY <2>4, <2>5 DEF Compose
  <2>7. late \in 0 .. BufferSize - 1 /\ capture - late = stamp /\ stamp \in Age
    BY ConstantsAreNumbers DEF IInv, StampErrsByWait, LocalizerTypeOK, Age
  <2> QED
    BY <2>6, <2>7 DEF seen, q
<1> QED
  BY <1>1, Invariance, PTL

\* A frame that had not waited is combined with the odometry of the moment it was taken.
THEOREM PublishedIsWhereSeenAlways == Spec => []PublishedIsWhereSeen
<1>1. LocalizerTypeOK /\ ErrsByTheWait => PublishedIsWhereSeen
  <2> SUFFICES ASSUME LocalizerTypeOK, ErrsByTheWait, Fresh
               PROVE  capture \in Age /\ Compose(published, odometry[capture]) = Compose(frame, MarkerToBaseLink)
    BY DEF PublishedIsWhereSeen
  <2>1. capture - late = capture
    BY ConstantsAreNumbers DEF Fresh, LocalizerTypeOK
  <2> QED
    BY <2>1 DEF ErrsByTheWait, Fresh
<1> QED
  BY <1>1, LocalizerTypeCorrect, ErrsByTheWaitAlways, PTL

-----------------------------------------------------------------------------
\* What PollingEnds rests on: the thread has a bounded way to go.

\* How far from its end the thread is, once it is told to end.
StepsToGo(p) ==
  CASE p \in {"ended", "failed"} -> 0
    [] p \in {"connecting", "polling"} -> 1
    [] p \in {"initializing", "retrying", "asleep", "waiting"} -> 2

\* Once m_done is set it stays set; the thread takes no frame any more and comes nearer to its end
\* with each of its steps, and a lookup is given up after a bounded number of ticks.
WindsDown ==
  [][mDone =>
       /\ mDone' /\ frame' = frame
       /\ pc' = pc \/ StepsToGo(pc') < StepsToGo(pc)
       /\ ThreadStep => pc' # pc
       /\ Tick /\ pc \in {"retrying", "asleep"} => pc' # pc
       /\ Tick /\ pc = "waiting" => stamp' = stamp + 1 /\ stamp' <= Latency + Timeout]_vars

\* The destructor's join waits for a bounded number of the thread's steps and of ticks, in whatever phase
\* it meets the thread.
THEOREM WindsDownAlways == Spec => WindsDown
<1> DEFINE Winds ==
       /\ mDone' /\ frame' = frame
       /\ pc' = pc \/ StepsToGo(pc') < StepsToGo(pc)
       /\ ThreadStep => pc' # pc
       /\ Tick /\ pc \in {"retrying", "asleep"} => pc' # pc
       /\ Tick /\ pc = "waiting" => stamp' = stamp + 1 /\ stamp' <= Latency + Timeout
<1>1. ASSUME LocalizerTypeOK, Next, mDone PROVE Winds
  <2> USE DEF StepsToGo
  <2>1. CASE Tick
    <3>1. /\ mDone' /\ frame' = frame
          /\ pc' = pc \/ StepsToGo(pc') < StepsToGo(pc)
          /\ pc \in {"retrying", "asleep"} => pc' # pc
      BY <1>1, <2>1 DEF Tick
    <3>2. pc = "waiting" => stamp' = stamp + 1 /\ stamp' <= Latency + Timeout
      BY <1>1, <2>1, ConstantsAreNumbers DEF Tick, Quick, LocalizerTypeOK, Age
    <3>3. ThreadStep => pc' # pc
      BY <1>1, <2>1 DEF ThreadStep, Connect, Initialize, StopPolling, NoFrame, FrameInVain, FrameSeen,
         GetFrame, Localize, GiveUp, Tick, Quick
    <3> QED
      BY <3>1, <3>2, <3>3
  <2>2. CASE ThreadStep /\ ~Tick
    <3>1. Initialize \/ StopPolling \/ Localize \/ GiveUp
      BY <1>1, <2>2 DEF ThreadStep, Connect, NoFrame, FrameInVain, FrameSeen, GetFrame
    <3>2. /\ mDone' /\ frame' = frame
          /\ \/ pc \in {"connecting", "initializing", "polling"} /\ pc' = "ended"
             \/ pc = "waiting" /\ pc' = "polling"
             \/ pc = "initializing" /\ pc' \in {"failed", "polling"}
      BY <1>1, <3>1 DEF Initialize, StopPolling, Localize, GiveUp, frameVars
    <3>3. StepsToGo(pc') < StepsToGo(pc) /\ pc' # pc
      BY <3>2
    <3> QED
      BY <2>2, <3>2, <3>3
  <2>3. CASE ~ThreadStep /\ ~Tick
    <3>1. Destroy \/ LoseConnection \/ \E i \in Age : OdometryArrives(i)
      BY <1>1, <2>3 DEF Next
    <3> QED
      BY <1>1, <2>3, <3>1 DEF Destroy, LoseConnection, OdometryArrives, threadVars, frameVars
  <2> QED
    BY <2>1, <2>2, <2>3
<1>2. LocalizerTypeOK /\ [Next]_vars => [mDone => Winds]_vars
  BY <1>1
<1> QED
  BY <1>2, LocalizerTypeCorrect, PTL DEF Spec, WindsDown
=============================================================================
