---------------------------- MODULE Observation ----------------------------
(***************************************************************************)
(* The way of an attitude from the IMU driver into the input of the        *)
(* policy's network.                                                       *)
(*                                                                         *)
(*   driver      publishes samples, as AttitudeSource says                 *)
(*   inference   per tick: build_obs; in RLControl assemble, flatten,      *)
(*               stack and run; publish_imu                                *)
(*   executor    read_imu (publish_imu), or a reset of the policy          *)
(*                                                                         *)
(* Both threads call RobotInterface::get_quat and get_ang_vel, which       *)
(* convert into one buffer of the robot and return a reference to it: the  *)
(* caller copies it when the driver's mutex is long released.  Copies are  *)
(* not atomic: a quaternion moves in two halves.  (q_body_ is written and  *)
(* read like quat_buf_, just before it; it is left out.)                   *)
(*                                                                         *)
(* A value is the number of the sample it was computed from, 0 where       *)
(* nothing was computed yet.  There is one policy, without motion, that    *)
(* observes ang_vel and gravity_b: what the halves of a quaternion         *)
(* contribute to gravity_b are two elements.  What is written again before *)
(* it is read (the locals, the segments, the policy's flat observation) is *)
(* forgotten when it has been read.                                        *)
(***************************************************************************)
EXTENDS Integers, Sequences

CONSTANTS
    FrameStack,     \* frame_stack of the policy
    StackOrder,     \* its stack_order
    MaxSample       \* bound: samples the driver publishes

ASSUME ObservationAssumption ==
    /\ FrameStack \in Nat \ {0}
    /\ StackOrder \in {"FrameMajor", "ObsMajor"}
    /\ MaxSample \in Nat

VARIABLES
    latest,           \* the sample the driver's getters return
    work,             \* thread -> what it is doing
    pc,               \* thread -> its next step
    raw,              \* thread -> raw in get_quat, get_ang_vel
    quat_buf_,        \* of the robot: two halves
    ang_vel_buf_,     \* of the robot
    obs,              \* the tick's RobotObs: two halves of quat; ang_vel
    quat_buffer_,     \* of the node: two halves
    ang_vel_buffer_,  \* of the node
    obs_segments,     \* of the policy: ang_vel and gravity_b
    is_first_frame,   \* of the policy
    input_buffer_,    \* of its runner
    (* history *)
    since,            \* no reader of this tick began when latest was less
    read_start,       \* latest when read_imu began
    overlapped,       \* read_imu ran at some time of the tick
    frames,           \* the observations of the last FrameStack ticks
    episode           \* "new"; "running"; "split" by a reset inside a tick

robotVars   == <<quat_buf_, ang_vel_buf_>>
bufferVars  == <<quat_buffer_, ang_vel_buffer_>>
runtimeVars == <<obs_segments, is_first_frame, input_buffer_>>
tickVars    == <<since, read_start, overlapped>>
frameVars   == <<frames, episode>>
vars == <<latest, work, pc, raw, robotVars, obs, bufferVars, runtimeVars,
          tickVars, frameVars>>

Threads == {"inference", "executor"}
Samples == 0 .. MaxSample
Halves  == {1, 2}

threadVars == <<work, pc>>
Working(t, w) == work[t] = w
At(t, step)   == pc[t] = step
Goto(t, step) == pc' = [pc EXCEPT ![t] = step] /\ UNCHANGED work
Turn(t, w, step) ==
    work' = [work EXCEPT ![t] = w] /\ pc' = [pc EXCEPT ![t] = step]
---------------------------------------------------------------------------
(* Observations, flat and stacked.  Indices start at 1.                    *)

obs_num == 3    \* of sizes 1 (ang_vel) and 2 (gravity_b)

Elements   == 1 .. obs_num
InputSize  == FrameStack * obs_num
NoQuat     == [h \in Halves |-> 0]
NoObs      == [quat |-> NoQuat, ang_vel |-> 0]
NoSegments == [ang_vel |-> 0, gravity_b |-> NoQuat]
NoFrames   == [k \in 1 .. FrameStack |-> [e \in Elements |-> 0]]

Flatten(segments) ==
    [e \in Elements |->
        IF e = 1 THEN segments.ang_vel ELSE segments.gravity_b[e - 1]]

(* A bug: reset empties the buffer instead of zeroing it.                  *)
Cleared_Empty == <<>>

(* The input buffer after a reset.                                         *)
Cleared == [i \in 1 .. InputSize |-> 0]

(* A bug: the oldest frame of the field is overwritten, not the frames     *)
(* moved.                                                                  *)
StackField_NoMove(buffer, input_offset, new, obs_offset, size, first) ==
    LET last == input_offset + (FrameStack - 1) * size
    IN  [i \in 1 .. InputSize |->
            CASE i <= input_offset \/ i > last + size -> buffer[i]
              [] first /\ i > input_offset /\ i <= last + size ->
                   new[obs_offset + 1 + ((i - input_offset - 1) % size)]
              [] ~first /\ i > input_offset + size /\ i <= last + size ->
                   buffer[i]
              [] ~first /\ i > input_offset /\ i <= input_offset + size ->
                   new[obs_offset + i - input_offset]]

(* One field of size elements at input_offset: its oldest frame leaves and *)
(* the new one enters behind the others; or the first one stands for all.  *)
StackField(buffer, input_offset, new, obs_offset, size, first) ==
    LET last == input_offset + (FrameStack - 1) * size
    IN  [i \in 1 .. InputSize |->
            CASE i <= input_offset \/ i > last + size -> buffer[i]
              [] first /\ i > input_offset /\ i <= last + size ->
                   new[obs_offset + 1 + ((i - input_offset - 1) % size)]
              [] ~first /\ i > input_offset /\ i <= last ->
                   buffer[i + size]
              [] ~first /\ i > last /\ i <= last + size ->
                   new[obs_offset + i - last]]

(* In frame major order the whole observation is the only field.           *)
stack_frames(buffer, new, first) ==
    IF StackOrder = "FrameMajor"
    THEN StackField(buffer, 0, new, 0, obs_num, first)
    ELSE StackField(StackField(buffer, 0, new, 0, 1, first),
                    FrameStack, new, 1, 2, first)

(* Where the network expects element e of the k-th of its frames.          *)
Place(k, e) ==
    CASE StackOrder = "FrameMajor"         -> (k - 1) * obs_num + e
      [] StackOrder = "ObsMajor" /\ e = 1 -> k
      [] StackOrder = "ObsMajor" /\ e > 1 -> FrameStack + (k - 1) * 2 + e - 1
---------------------------------------------------------------------------
Init ==
    /\ latest = 0
    /\ work = [t \in Threads |-> "none"]
    /\ pc = [t \in Threads |-> "none"]
    /\ raw = [t \in Threads |-> 0]
    /\ quat_buf_ = NoQuat /\ ang_vel_buf_ = 0
    /\ obs = NoObs
    /\ quat_buffer_ = NoQuat /\ ang_vel_buffer_ = 0
    /\ obs_segments = NoSegments
    /\ is_first_frame = TRUE
    /\ input_buffer_ = [i \in 1 .. InputSize |-> 0]
    /\ since = 0 /\ read_start = 0 /\ overlapped = FALSE
    /\ frames = NoFrames
    /\ episode = "new"

(* The driver; its getters and this are atomic under imu_mutex_.           *)
Publish ==
    /\ latest < MaxSample
    /\ latest' = latest + 1
    /\ UNCHANGED <<threadVars, raw, robotVars, obs, bufferVars, runtimeVars, tickVars,
                   frameVars>>
---------------------------------------------------------------------------
(* A tick or read_imu ends.                                                *)
Return(t) ==
    /\ Turn(t, "none", "none")
    /\ IF t = "inference"
       THEN /\ obs' = NoObs
            /\ since' = 0
            /\ overlapped' = FALSE
            /\ UNCHANGED read_start
       ELSE /\ read_start' = 0
            /\ UNCHANGED <<obs, since, overlapped>>

(* get_quat, and the caller's copy: obs.quat of build_obs, or quat_buffer_ *)
(* of get_gravity_b_obs and publish_imu.                                   *)

QuatRaw(t) ==
    /\ At(t, "q_raw")
    /\ raw' = [raw EXCEPT ![t] = latest]
    /\ Goto(t, "q_buf1")
    /\ UNCHANGED <<latest, robotVars, obs, bufferVars, runtimeVars, tickVars,
                   frameVars>>

(* A bug: build_obs, the policy and publish_imu take what the last caller  *)
(* left and convert for the next.                                          *)
QuatConvert_Late(t) ==
    /\ \/ At(t, "q_buf1") /\ Goto(t, "q_buf2") /\ UNCHANGED <<quat_buf_, raw>>
       \/ At(t, "q_buf2") /\ Goto(t, "q_copy1")
          /\ quat_buf_' = [quat_buf_ EXCEPT ![2] = raw[t]]
          /\ raw' = [raw EXCEPT ![t] = 0]
    /\ UNCHANGED <<latest, ang_vel_buf_, obs, bufferVars, runtimeVars,
                   tickVars, frameVars>>

QuatConvert(t) ==
    /\ \/ At(t, "q_buf1") /\ Goto(t, "q_buf2")
          /\ quat_buf_' = [quat_buf_ EXCEPT ![1] = raw[t]]
          /\ UNCHANGED raw
       \/ At(t, "q_buf2") /\ Goto(t, "q_copy1")
          /\ quat_buf_' = [quat_buf_ EXCEPT ![2] = raw[t]]
          /\ raw' = [raw EXCEPT ![t] = 0]
    /\ UNCHANGED <<latest, ang_vel_buf_, obs, bufferVars, runtimeVars,
                   tickVars, frameVars>>

QuatCopy(t) ==
    \E h \in Halves :
      /\ At(t, IF h = 1 THEN "q_copy1" ELSE "q_copy2")
      /\ Goto(t, IF h = 1 THEN "q_copy2"
                 ELSE IF Working(t, "policy") THEN "gravity_b" ELSE "a_raw")
      /\ IF Working(t, "build_obs")
         THEN obs' = [obs EXCEPT !.quat[h] = quat_buf_[h]] /\ UNCHANGED quat_buffer_
         ELSE quat_buffer_' = [quat_buffer_ EXCEPT ![h] = quat_buf_[h]]
              /\ UNCHANGED obs
      /\ UNCHANGED <<latest, raw, robotVars, ang_vel_buffer_, runtimeVars,
                     tickVars, frameVars>>

(* get_ang_vel, likewise.                                                  *)
AngRaw(t) ==
    /\ At(t, "a_raw")
    /\ raw' = [raw EXCEPT ![t] = latest]
    /\ Goto(t, "a_buf")
    /\ UNCHANGED <<latest, robotVars, obs, bufferVars, runtimeVars, tickVars,
                   frameVars>>

AngConvert(t) ==
    /\ At(t, "a_buf")
    /\ ang_vel_buf_' = raw[t]
    /\ raw' = [raw EXCEPT ![t] = 0]
    /\ Goto(t, "a_copy")
    /\ UNCHANGED <<latest, quat_buf_, obs, bufferVars, runtimeVars, tickVars,
                   frameVars>>

AngCopy(t) ==
    /\ At(t, "a_copy")
    /\ \/ /\ Working(t, "build_obs")
          /\ obs' = [obs EXCEPT !.ang_vel = ang_vel_buf_]
          /\ Goto(t, "decide")
          /\ UNCHANGED <<ang_vel_buffer_, tickVars>>
       \/ /\ Working(t, "policy")
          /\ ang_vel_buffer_' = ang_vel_buf_
          /\ Goto(t, "ang_vel")
          /\ UNCHANGED <<obs, tickVars>>
       \/ /\ Working(t, "publish_imu")
          /\ ang_vel_buffer_' = ang_vel_buf_
          /\ Return(t)
    /\ UNCHANGED <<latest, raw, robotVars, quat_buffer_, runtimeVars,
                   frameVars>>
---------------------------------------------------------------------------
(* The inference thread.                                                   *)

Tick ==
    /\ At("inference", "none")
    /\ Turn("inference", "build_obs", "q_raw")
    /\ overlapped' = Working("executor", "publish_imu")
    /\ since' = IF overlapped' THEN read_start ELSE latest
    /\ UNCHANGED <<latest, raw, robotVars, obs, bufferVars, runtimeVars,
                   read_start, frameVars>>

(* RLControl is in control or another state.  A reset has asked for Idle   *)
(* before it touches the policy: no policy tick begins inside one.         *)
Decide ==
    /\ Working("inference", "build_obs") /\ At("inference", "decide")
    /\ \/ ~Working("executor", "reset") /\ Turn("inference", "policy", "a_raw")
       \/ Turn("inference", "publish_imu", "q_raw")
    /\ UNCHANGED <<latest, raw, robotVars, obs, bufferVars, runtimeVars,
                   tickVars, frameVars>>

(* assemble: get_ang_vel_obs, ...                                          *)
FillAngVel ==
    /\ At("inference", "ang_vel")
    /\ obs_segments' = [obs_segments EXCEPT !.ang_vel = ang_vel_buffer_]
    /\ Goto("inference", "q_raw")
    /\ UNCHANGED <<latest, raw, robotVars, obs, bufferVars, is_first_frame,
                   input_buffer_, tickVars, frameVars>>

(* ... get_gravity_b_obs, ...                                              *)
FillGravity ==
    /\ At("inference", "gravity_b")
    /\ obs_segments' = [obs_segments EXCEPT !.gravity_b = quat_buffer_]
    /\ Goto("inference", "stack")
    /\ UNCHANGED <<latest, raw, robotVars, obs, bufferVars, is_first_frame,
                   input_buffer_, tickVars, frameVars>>

(* ... where check_fall_down throws out of the tick before the segment is  *)
(* filled, or check_joint_limits, in a later source, after it was.         *)
Violation ==
    /\ At("inference", "gravity_b") \/ At("inference", "stack")
    /\ Return("inference")
    /\ obs_segments' = NoSegments
    /\ UNCHANGED <<latest, raw, robotVars, bufferVars, is_first_frame,
                   input_buffer_, frameVars>>

(* flatten and stack_frames.                                               *)
Stack ==
    /\ At("inference", "stack")
    /\ input_buffer_' =
         stack_frames(input_buffer_, Flatten(obs_segments), is_first_frame)
    /\ obs_segments' = NoSegments
    /\ frames' =
         LET new == Flatten(obs_segments)
         IN  CASE episode = "new"     -> [k \in 1 .. FrameStack |-> new]
               [] episode = "running" ->
                    [k \in 1 .. FrameStack |->
                        IF k < FrameStack THEN frames[k + 1] ELSE new]
               [] episode = "split"   -> frames
    /\ episode' = IF episode = "new" THEN "running" ELSE episode
    /\ Goto("inference", "first")
    /\ UNCHANGED <<latest, raw, robotVars, obs, bufferVars, is_first_frame,
                   tickVars>>

FirstDone ==
    /\ At("inference", "first")
    /\ is_first_frame' = FALSE
    /\ Goto("inference", "run")
    /\ UNCHANGED <<latest, raw, robotVars, obs, bufferVars, obs_segments,
                   input_buffer_, tickVars, frameVars>>

(* runner.run(); the actions it computes are InferenceNode's.              *)
Run ==
    /\ At("inference", "run")
    /\ Turn("inference", "publish_imu", "q_raw")
    /\ UNCHANGED <<latest, raw, robotVars, obs, bufferVars, runtimeVars,
                   tickVars, frameVars>>
---------------------------------------------------------------------------
(* The executor, one callback after the other.                             *)

ReadImu ==
    /\ At("executor", "none")
    /\ Turn("executor", "publish_imu", "q_raw")
    /\ read_start' = latest
    /\ overlapped' = ~At("inference", "none")
    /\ UNCHANGED <<latest, raw, robotVars, obs, bufferVars, runtimeVars,
                   since, frameVars>>

ResetBegin ==
    /\ At("executor", "none")
    /\ Turn("executor", "reset", "r_segments")
    /\ episode' = IF Working("inference", "policy") THEN "split" ELSE "new"
    /\ frames' = NoFrames
    /\ UNCHANGED <<latest, raw, robotVars, obs, bufferVars, runtimeVars,
                   tickVars>>

(* reset_policy and ModelRunner::reset.                                    *)
ResetPolicy ==
    /\ Working("executor", "reset")
    /\ \/ /\ At("executor", "r_segments") /\ Goto("executor", "r_input")
          /\ obs_segments' = NoSegments
          /\ UNCHANGED <<input_buffer_, is_first_frame>>
       \/ /\ At("executor", "r_input") /\ Goto("executor", "r_first")
          /\ input_buffer_' = Cleared
          /\ UNCHANGED <<obs_segments, is_first_frame>>
       \/ /\ At("executor", "r_first") /\ Turn("executor", "none", "none")
          /\ is_first_frame' = TRUE
          /\ UNCHANGED <<obs_segments, input_buffer_>>
    /\ UNCHANGED <<latest, raw, robotVars, obs, bufferVars, tickVars,
                   frameVars>>
---------------------------------------------------------------------------
Getters(t) == QuatRaw(t) \/ QuatConvert(t) \/ QuatCopy(t)
                \/ AngRaw(t) \/ AngConvert(t) \/ AngCopy(t)

Next ==
    \/ Publish
    \/ \E t \in Threads : Getters(t)
    \/ Tick \/ Decide \/ FillAngVel \/ FillGravity \/ Violation
    \/ Stack \/ FirstDone \/ Run
    \/ ReadImu \/ ResetBegin \/ ResetPolicy

Spec == Init /\ [][Next]_vars
---------------------------------------------------------------------------
Works == {"none", "build_obs", "policy", "publish_imu", "reset"}
Steps == {"none", "q_raw", "q_buf1", "q_buf2", "q_copy1", "q_copy2", "a_raw",
          "a_buf", "a_copy", "decide", "ang_vel", "gravity_b", "stack",
          "first", "run", "r_segments", "r_input", "r_first"}

(* Types; the flat observation and the input keep their sizes.             *)
TypeOK ==
    /\ latest \in Samples
    /\ work \in [Threads -> Works] /\ pc \in [Threads -> Steps]
    /\ raw \in [Threads -> Samples]
    /\ quat_buf_ \in [Halves -> Samples] /\ ang_vel_buf_ \in Samples
    /\ obs \in [quat : [Halves -> Samples], ang_vel : Samples]
    /\ quat_buffer_ \in [Halves -> Samples] /\ ang_vel_buffer_ \in Samples
    /\ obs_segments \in [ang_vel : Samples, gravity_b : [Halves -> Samples]]
    /\ is_first_frame \in BOOLEAN
    /\ input_buffer_ \in [1 .. InputSize -> Samples]
    /\ since \in Samples /\ read_start \in Samples
    /\ overlapped \in BOOLEAN
    /\ frames \in [1 .. FrameStack -> [Elements -> Samples]]
    /\ episode \in {"new", "running", "split"}

(* build_obs has read the attitude; get_gravity_b_obs has read it again.   *)
ObsRead     == At("inference", "decide")
                 \/ work["inference"] \in {"policy", "publish_imu"}
GravityRead == At("inference", "gravity_b")

(* No attitude a tick judges the posture by, or the policy observes, is    *)
(* older than the tick and the read_imu it ran into, in any of its parts   *)
(* (but the zeros of a reset that came into the middle of the tick).       *)
AttitudeIsFresh ==
    /\ ObsRead => /\ \A h \in Halves : obs.quat[h] >= since
                  /\ obs.ang_vel >= since
    /\ GravityRead => /\ \A h \in Halves : quat_buffer_[h] >= since
                      /\ episode # "split" => obs_segments.ang_vel >= since

(* Unless read_imu ran at the same time, the posture is judged by one      *)
(* sample, the policy observes one sample, and what was read later is not  *)
(* older ("these calls are mutex-protected inside RobotInterface").        *)
AttitudeIsWhole ==
    ~overlapped =>
      /\ ObsRead => obs.quat[1] = obs.quat[2] /\ obs.quat[2] <= obs.ang_vel
      /\ GravityRead => /\ quat_buffer_[1] = quat_buffer_[2]
                        /\ obs_segments.ang_vel <= quat_buffer_[1]
                        /\ episode # "split" =>
                             obs.ang_vel <= obs_segments.ang_vel

(* What the network is run on are the last observations of its episode,    *)
(* the first one repeated for those that are missing, each in its place;   *)
(* unless a reset came into the middle of a tick and none since then.      *)
InputIsHistory ==
    At("inference", "run") /\ episode = "running" =>
        \A k \in 1 .. FrameStack, e \in Elements :
            input_buffer_[Place(k, e)] = frames[k][e]
=============================================================================
