------------------------- MODULE ObservationProofs -------------------------
(***************************************************************************)
(* What holds of the observation for any number of samples, any            *)
(* frame_stack and both stack orders: types, how old and how whole the     *)
(* attitude of a tick is, and what the network is run on.                  *)
(***************************************************************************)
EXTENDS Observation, TLAPS

I == "inference"
E == "executor"

QuatSteps == {"q_raw", "q_buf1", "q_buf2", "q_copy1", "q_copy2"}
AngSteps  == {"a_raw", "a_buf", "a_copy"}

---------------------------------------------------------------------------
(* Arithmetic of the stack.                                                *)

LEMMA StackSize == FrameStack \in Nat /\ FrameStack >= 1 /\ InputSize \in Nat
BY ObservationAssumption DEF InputSize, obs_num

LEMMA SampleBound == MaxSample \in Nat /\ 0 \in Samples
BY ObservationAssumption DEF Samples

(* Every element of every frame has its place in the input.                *)
LEMMA PlaceType ==
    ASSUME NEW k \in 1 .. FrameStack, NEW e \in Elements
    PROVE  Place(k, e) \in 1 .. InputSize
<1> USE StackSize DEF InputSize, Elements, obs_num
<1>1. CASE StackOrder = "FrameMajor" BY <1>1 DEF Place
<1>2. CASE StackOrder = "ObsMajor"
  <2>1. CASE e = 1 BY <1>2, <2>1 DEF Place
  <2>2. CASE e > 1 BY <1>2, <2>2 DEF Place
  <2> QED BY <2>1, <2>2
<1> QED BY <1>1, <1>2, ObservationAssumption

(* The one field of frame major order.                                     *)
LEMMA FrameField ==
    ASSUME NEW buffer \in [1 .. InputSize -> Samples],
           NEW new \in [Elements -> Samples], NEW first \in BOOLEAN,
           NEW out, out = StackField(buffer, 0, new, 0, obs_num, first)
    PROVE  /\ out \in [1 .. InputSize -> Samples]
           /\ \A k \in 1 .. FrameStack, e \in Elements :
                out[(k - 1) * 3 + e] =
                  IF first \/ k = FrameStack THEN new[e]
                  ELSE buffer[k * 3 + e]
<1> USE StackSize DEF InputSize, Elements, obs_num
<1>1. CASE first
  <2>1. ASSUME NEW i \in 1 .. InputSize
        PROVE  out[i] = new[1 + ((i - 1) % 3)] /\ 1 + ((i - 1) % 3) \in 1 .. 3
    BY <1>1 DEF StackField
  <2>2. ASSUME NEW k \in 1 .. FrameStack, NEW e \in Elements
        PROVE  (k - 1) * 3 + e \in 1 .. InputSize
               /\ 1 + (((k - 1) * 3 + e - 1) % 3) = e
    OBVIOUS
  <2>3. out = [i \in 1 .. InputSize |-> out[i]] BY DEF StackField
  <2>4. \A i \in 1 .. InputSize : out[i] \in Samples BY <2>1
  <2>5. out \in [1 .. InputSize -> Samples] BY <2>3, <2>4
  <2>6. ASSUME NEW k \in 1 .. FrameStack, NEW e \in Elements
        PROVE  out[(k - 1) * 3 + e] = new[e]
    BY <2>1, <2>2
  <2> HIDE DEF InputSize, Elements
  <2> QED BY <1>1, <2>5, <2>6
<1>2. CASE ~first
  <2>1. ASSUME NEW i \in 1 .. InputSize
        PROVE  /\ i <= (FrameStack - 1) * 3 => out[i] = buffer[i + 3]
               /\ i > (FrameStack - 1) * 3 =>
                    out[i] = new[i - (FrameStack - 1) * 3]
    BY <1>2 DEF StackField
  <2>2. out = [i \in 1 .. InputSize |-> out[i]] BY DEF StackField
  <2>3. \A i \in 1 .. InputSize : out[i] \in Samples BY <2>1
  <2>4. ASSUME NEW k \in 1 .. FrameStack, NEW e \in Elements
        PROVE  out[(k - 1) * 3 + e] =
                 IF k = FrameStack THEN new[e] ELSE buffer[k * 3 + e]
    BY <2>1
  <2> QED BY <1>2, <2>2, <2>3, <2>4
<1> QED BY <1>1, <1>2

(* The two fields of observation major order: the one before ...           *)
LEMMA AngField ==
    ASSUME NEW buffer \in [1 .. InputSize -> Samples],
           NEW new \in [Elements -> Samples], NEW first \in BOOLEAN,
           NEW out, out = StackField(buffer, 0, new, 0, 1, first)
    PROVE  /\ out \in [1 .. InputSize -> Samples]
           /\ \A i \in 1 .. InputSize :
                out[i] = IF i > FrameStack THEN buffer[i]
                         ELSE IF first \/ i = FrameStack THEN new[1]
                         ELSE buffer[i + 1]
<1> USE StackSize DEF InputSize, Elements, obs_num
<1>1. out = [i \in 1 .. InputSize |-> out[i]] BY DEF StackField
<1>2. CASE first
  <2>1. ASSUME NEW i \in 1 .. InputSize
        PROVE  out[i] = IF i > FrameStack THEN buffer[i] ELSE new[1]
    <3>1. 1 + ((i - 1) % 1) = 1 OBVIOUS
    <3> QED BY <1>2, <3>1 DEF StackField
  <2>2. \A i \in 1 .. InputSize : out[i] \in Samples BY <2>1
  <2>3. out \in [1 .. InputSize -> Samples] BY <1>1, <2>2
  <2> HIDE DEF InputSize
  <2> QED BY <1>2, <2>1, <2>3
<1>3. CASE ~first
  <2>1. ASSUME NEW i \in 1 .. InputSize
        PROVE  out[i] = IF i > FrameStack THEN buffer[i]
                        ELSE IF i = FrameStack THEN new[1] ELSE buffer[i + 1]
    BY <1>3 DEF StackField
  <2> QED BY <1>1, <1>3, <2>1
<1> QED BY <1>2, <1>3

(* ... and the one behind it.                                              *)
LEMMA GravityField ==
    ASSUME NEW buffer \in [1 .. InputSize -> Samples],
           NEW new \in [Elements -> Samples], NEW first \in BOOLEAN,
           NEW out, out = StackField(buffer, FrameStack, new, 1, 2, first)
    PROVE  /\ out \in [1 .. InputSize -> Samples]
           /\ \A i \in 1 .. FrameStack : out[i] = buffer[i]
           /\ \A k \in 1 .. FrameStack, j \in {1, 2} :
                out[FrameStack + (k - 1) * 2 + j] =
                  IF first \/ k = FrameStack THEN new[j + 1]
                  ELSE buffer[FrameStack + k * 2 + j]
<1> USE StackSize DEF InputSize, Elements, obs_num
<1>1. out = [i \in 1 .. InputSize |-> out[i]] BY DEF StackField
<1>2. CASE first
  <2>1. ASSUME NEW i \in 1 .. InputSize
        PROVE  out[i] = IF i <= FrameStack THEN buffer[i]
                        ELSE new[2 + ((i - FrameStack - 1) % 2)]
    BY <1>2 DEF StackField
  <2>2. ASSUME NEW i \in 1 .. InputSize
        PROVE  2 + ((i - FrameStack - 1) % 2) \in 1 .. 3
    OBVIOUS
  <2>3. ASSUME NEW k \in 1 .. FrameStack, NEW j \in {1, 2}
        PROVE  /\ FrameStack + (k - 1) * 2 + j \in 1 .. InputSize
               /\ ~(FrameStack + (k - 1) * 2 + j <= FrameStack)
               /\ 2 + ((FrameStack + (k - 1) * 2 + j - FrameStack - 1) % 2)
                    = j + 1
    OBVIOUS
  <2>4. \A i \in 1 .. InputSize : out[i] \in Samples BY <2>1, <2>2
  <2>5. out \in [1 .. InputSize -> Samples] BY <1>1, <2>4
  <2>6. ASSUME NEW k \in 1 .. FrameStack, NEW j \in {1, 2}
        PROVE  out[FrameStack + (k - 1) * 2 + j] = new[j + 1]
    <3> DEFINE i == FrameStack + (k - 1) * 2 + j
    <3>1. /\ i \in 1 .. InputSize /\ ~(i <= FrameStack)
          /\ 2 + ((i - FrameStack - 1) % 2) = j + 1
      BY <2>3
    <3> HIDE DEF i, InputSize
    <3>2. out[i] = new[2 + ((i - FrameStack - 1) % 2)] BY <2>1, <3>1
    <3>3. out[i] = new[j + 1] BY <3>1, <3>2
    <3> QED BY <3>3 DEF i
  <2>7. \A i \in 1 .. FrameStack : out[i] = buffer[i] BY <2>1
  <2> HIDE DEF InputSize, Elements
  <2> QED BY <1>2, <2>5, <2>6, <2>7
<1>3. CASE ~first
  <2>1. ASSUME NEW i \in 1 .. InputSize
        PROVE  out[i] =
                 IF i <= FrameStack THEN buffer[i]
                 ELSE IF i <= FrameStack + (FrameStack - 1) * 2
                      THEN buffer[i + 2]
                 ELSE new[1 + i - (FrameStack + (FrameStack - 1) * 2)]
    BY <1>3 DEF StackField
  <2>2. \A i \in 1 .. InputSize : out[i] \in Samples BY <2>1
  <2>3. ASSUME NEW k \in 1 .. FrameStack, NEW j \in {1, 2}
        PROVE  out[FrameStack + (k - 1) * 2 + j] =
                 IF k = FrameStack THEN new[j + 1]
                 ELSE buffer[FrameStack + k * 2 + j]
    BY <2>1
  <2>4. \A i \in 1 .. FrameStack : out[i] = buffer[i] BY <2>1
  <2> QED BY <1>1, <1>3, <2>2, <2>3, <2>4
<1> QED BY <1>2, <1>3

(* Element e of the k-th frame, after one call of stack_frames, is that of *)
(* the frame behind it, or the new one.                                    *)
THEOREM StackCorrect ==
    ASSUME NEW buffer \in [1 .. InputSize -> Samples],
           NEW new \in [Elements -> Samples], NEW first \in BOOLEAN
    PROVE  /\ stack_frames(buffer, new, first) \in [1 .. InputSize -> Samples]
           /\ \A k \in 1 .. FrameStack, e \in Elements :
                stack_frames(buffer, new, first)[Place(k, e)] =
                  IF first \/ k = FrameStack THEN new[e]
                  ELSE buffer[Place(k + 1, e)]
<1> USE StackSize DEF Elements, obs_num
<1>1. CASE StackOrder = "FrameMajor"
  <2> DEFINE out == StackField(buffer, 0, new, 0, obs_num, first)
  <2>1. stack_frames(buffer, new, first) = out BY <1>1 DEF stack_frames
  <2>2. \A k, e : Place(k, e) = (k - 1) * 3 + e BY <1>1 DEF Place
  <2>3. /\ out \in [1 .. InputSize -> Samples]
        /\ \A k \in 1 .. FrameStack, e \in Elements :
             out[(k - 1) * 3 + e] =
               IF first \/ k = FrameStack THEN new[e] ELSE buffer[k * 3 + e]
    BY FrameField
  <2>4. \A k \in 1 .. FrameStack : (k + 1 - 1) * 3 = k * 3 OBVIOUS
  <2> HIDE DEF out
  <2> QED BY <2>1, <2>2, <2>3, <2>4
<1>2. CASE StackOrder = "ObsMajor"
  <2> DEFINE mid == StackField(buffer, 0, new, 0, 1, first)
             out == StackField(mid, FrameStack, new, 1, 2, first)
  <2>1. stack_frames(buffer, new, first) = out BY <1>2 DEF stack_frames
  <2>2. /\ mid \in [1 .. InputSize -> Samples]
        /\ \A i \in 1 .. InputSize :
             mid[i] = IF i > FrameStack THEN buffer[i]
                      ELSE IF first \/ i = FrameStack THEN new[1]
                      ELSE buffer[i + 1]
    BY AngField
  <2> HIDE DEF mid
  <2>3. /\ out \in [1 .. InputSize -> Samples]
        /\ \A i \in 1 .. FrameStack : out[i] = mid[i]
        /\ \A k \in 1 .. FrameStack, j \in {1, 2} :
             out[FrameStack + (k - 1) * 2 + j] =
               IF first \/ k = FrameStack THEN new[j + 1]
               ELSE mid[FrameStack + k * 2 + j]
    BY <2>2, GravityField
  <2> HIDE DEF out
  <2>4. ASSUME NEW k \in 1 .. FrameStack
        PROVE  out[Place(k, 1)] = IF first \/ k = FrameStack THEN new[1]
                                  ELSE buffer[Place(k + 1, 1)]
    <3>1. Place(k, 1) = k /\ Place(k + 1, 1) = k + 1 BY <1>2 DEF Place
    <3>2. k \in 1 .. InputSize BY DEF InputSize
    <3> QED BY <2>2, <2>3, <3>1, <3>2
  <2>5. ASSUME NEW k \in 1 .. FrameStack, NEW j \in {1, 2}
        PROVE  out[Place(k, j + 1)] =
                 IF first \/ k = FrameStack THEN new[j + 1]
                 ELSE buffer[Place(k + 1, j + 1)]
    <3>1. /\ Place(k, j + 1) = FrameStack + (k - 1) * 2 + j
          /\ Place(k + 1, j + 1) = FrameStack + k * 2 + j
      BY <1>2 DEF Place
    <3>2. k # FrameStack => /\ FrameStack + k * 2 + j \in 1 .. InputSize
                            /\ FrameStack + k * 2 + j > FrameStack
      BY DEF InputSize
    <3> QED BY <2>2, <2>3, <3>1, <3>2
  <2>6. \A e \in Elements : e = 1 \/ \E j \in {1, 2} : e = j + 1 OBVIOUS
  <2> QED BY <2>1, <2>3, <2>4, <2>5, <2>6
<1> QED BY <1>1, <1>2, ObservationAssumption

---------------------------------------------------------------------------
(* Types.                                                                  *)

LEMMA FlattenType ==
    ASSUME NEW s \in [ang_vel : Samples, gravity_b : [Halves -> Samples]]
    PROVE  Flatten(s) \in [Elements -> Samples]
<1> USE DEF Elements, obs_num
<1>1. ASSUME NEW e \in Elements
      PROVE  (IF e = 1 THEN s.ang_vel ELSE s.gravity_b[e - 1]) \in Samples
  <2>1. CASE e = 1 BY <2>1
  <2>2. CASE e # 1
    <3>1. e - 1 \in Halves BY <2>2 DEF Halves
    <3> QED BY <2>2, <3>1
  <2> QED BY <2>1, <2>2
<1> QED BY <1>1 DEF Flatten

LEMMA SegmentsType ==
    NoSegments \in [ang_vel : Samples, gravity_b : [Halves -> Samples]]
BY SampleBound DEF NoSegments, NoQuat

LEMMA ObsType == NoObs \in [quat : [Halves -> Samples], ang_vel : Samples]
BY SampleBound DEF NoObs, NoQuat

LEMMA TypeInit == Init => TypeOK
<1> SUFFICES ASSUME Init PROVE TypeOK
  OBVIOUS
<1> USE SampleBound DEF Init
<1>1. /\ work \in [Threads -> Works] /\ pc \in [Threads -> Steps]
      /\ raw \in [Threads -> Samples]
  BY DEF Works, Steps
<1>2. quat_buf_ \in [Halves -> Samples] /\ quat_buffer_ \in [Halves -> Samples]
  BY DEF NoQuat
<1>3. input_buffer_ \in [1 .. InputSize -> Samples]
  OBVIOUS
<1>4. frames \in [1 .. FrameStack -> [Elements -> Samples]]
  BY DEF NoFrames
<1> QED BY <1>1, <1>2, <1>3, <1>4, ObsType, SegmentsType DEF TypeOK

(* One action after the other.                                             *)
LEMMA TypeNext == TypeOK /\ [Next]_vars => TypeOK'
<1> SUFFICES ASSUME TypeOK, [Next]_vars PROVE TypeOK'
  OBVIOUS
<1> USE SampleBound DEF threadVars, robotVars, bufferVars, runtimeVars,
                        tickVars, frameVars, At, Working
<1>t. ASSUME NEW t \in Threads, NEW step \in Steps, Goto(t, step)
      PROVE  work' \in [Threads -> Works] /\ pc' \in [Threads -> Steps]
  BY <1>t DEF Goto, TypeOK
<1>u. ASSUME NEW t \in Threads, NEW w \in Works, NEW step \in Steps,
             Turn(t, w, step)
      PROVE  work' \in [Threads -> Works] /\ pc' \in [Threads -> Steps]
  BY <1>u DEF Turn, TypeOK
<1>i. I \in Threads /\ E \in Threads BY DEF I, E, Threads
<1>1. CASE Publish BY <1>1 DEF Publish, TypeOK, Samples
<1>2. ASSUME NEW t \in Threads, QuatRaw(t) PROVE TypeOK'
  <2>1. work' \in [Threads -> Works] /\ pc' \in [Threads -> Steps]
    BY <1>2, <1>t DEF QuatRaw, Steps
  <2> QED BY <1>2, <2>1 DEF QuatRaw, TypeOK
<1>3. ASSUME NEW t \in Threads, QuatConvert(t) PROVE TypeOK'
  <2>1. work' \in [Threads -> Works] /\ pc' \in [Threads -> Steps]
    BY <1>3, <1>t DEF QuatConvert, Steps
  <2>2. raw' \in [Threads -> Samples] /\ quat_buf_' \in [Halves -> Samples]
    BY <1>3 DEF QuatConvert, TypeOK
  <2> QED BY <1>3, <2>1, <2>2 DEF QuatConvert, TypeOK
<1>4. ASSUME NEW t \in Threads, QuatCopy(t) PROVE TypeOK'
  <2>1. work' \in [Threads -> Works] /\ pc' \in [Threads -> Steps]
    BY <1>4, <1>t DEF QuatCopy, Steps
  <2>2. /\ obs' \in [quat : [Halves -> Samples], ang_vel : Samples]
        /\ quat_buffer_' \in [Halves -> Samples]
    <3>1. PICK h \in Halves :
            IF Working(t, "build_obs")
            THEN obs' = [obs EXCEPT !.quat[h] = quat_buf_[h]]
                 /\ UNCHANGED quat_buffer_
            ELSE quat_buffer_' = [quat_buffer_ EXCEPT ![h] = quat_buf_[h]]
                 /\ UNCHANGED obs
      BY <1>4 DEF QuatCopy
    <3> QED BY <3>1 DEF TypeOK
  <2> QED BY <1>4, <2>1, <2>2 DEF QuatCopy, TypeOK
<1>5. ASSUME NEW t \in Threads, AngRaw(t) PROVE TypeOK'
  <2>1. work' \in [Threads -> Works] /\ pc' \in [Threads -> Steps]
    BY <1>5, <1>t DEF AngRaw, Steps
  <2> QED BY <1>5, <2>1 DEF AngRaw, TypeOK
<1>6. ASSUME NEW t \in Threads, AngConvert(t) PROVE TypeOK'
  <2>1. work' \in [Threads -> Works] /\ pc' \in [Threads -> Steps]
    BY <1>6, <1>t DEF AngConvert, Steps
  <2> QED BY <1>6, <2>1 DEF AngConvert, TypeOK
<1>r. ASSUME NEW t \in Threads, Return(t)
      PROVE  /\ work' \in [Threads -> Works] /\ pc' \in [Threads -> Steps]
             /\ since' \in Samples /\ read_start' \in Samples
             /\ overlapped' \in BOOLEAN
             /\ obs' \in [quat : [Halves -> Samples], ang_vel : Samples]
  <2>1. work' \in [Threads -> Works] /\ pc' \in [Threads -> Steps]
    BY <1>r, <1>u DEF Return, Steps, Works
  <2> QED BY <1>r, <2>1, ObsType DEF Return, TypeOK
<1>7. ASSUME NEW t \in Threads, AngCopy(t) PROVE TypeOK'
  <2>1. CASE Working(t, "build_obs")
          /\ obs' = [obs EXCEPT !.ang_vel = ang_vel_buf_]
          /\ Goto(t, "decide") /\ UNCHANGED <<ang_vel_buffer_, tickVars>>
    <3>1. work' \in [Threads -> Works] /\ pc' \in [Threads -> Steps]
      BY <2>1, <1>t DEF Steps
    <3> QED BY <1>7, <2>1, <3>1 DEF AngCopy, TypeOK
  <2>2. CASE Working(t, "policy") /\ ang_vel_buffer_' = ang_vel_buf_
          /\ Goto(t, "ang_vel") /\ UNCHANGED <<obs, tickVars>>
    <3>1. work' \in [Threads -> Works] /\ pc' \in [Threads -> Steps]
      BY <2>2, <1>t DEF Steps
    <3> QED BY <1>7, <2>2, <3>1 DEF AngCopy, TypeOK
  <2>3. CASE Working(t, "publish_imu") /\ ang_vel_buffer_' = ang_vel_buf_
          /\ Return(t)
    BY <1>7, <2>3, <1>r DEF AngCopy, TypeOK
  <2> QED BY <1>7, <2>1, <2>2, <2>3 DEF AngCopy
<1>8. CASE Tick
  <2>1. work' \in [Threads -> Works] /\ pc' \in [Threads -> Steps]
    BY <1>8, <1>i, <1>u DEF Tick, Steps, Works, I
  <2>2. overlapped' \in BOOLEAN /\ since' \in Samples
    BY <1>8 DEF Tick, TypeOK
  <2> QED BY <1>8, <2>1, <2>2 DEF Tick, TypeOK
<1>9. CASE Decide
  <2>1. work' \in [Threads -> Works] /\ pc' \in [Threads -> Steps]
    BY <1>9, <1>i, <1>u DEF Decide, Steps, Works, I
  <2> QED BY <1>9, <2>1 DEF Decide, TypeOK
<1>10. CASE FillAngVel
  <2>1. work' \in [Threads -> Works] /\ pc' \in [Threads -> Steps]
    BY <1>10, <1>i, <1>t DEF FillAngVel, Steps, I
  <2> QED BY <1>10, <2>1 DEF FillAngVel, TypeOK
<1>11. CASE FillGravity
  <2>1. work' \in [Threads -> Works] /\ pc' \in [Threads -> Steps]
    BY <1>11, <1>i, <1>t DEF FillGravity, Steps, I
  <2> QED BY <1>11, <2>1 DEF FillGravity, TypeOK
<1>12. CASE Violation
  BY <1>12, <1>i, <1>r, SegmentsType DEF Violation, TypeOK, I
<1>13. CASE Stack
  <2>1. work' \in [Threads -> Works] /\ pc' \in [Threads -> Steps]
    BY <1>13, <1>i, <1>t DEF Stack, Steps, I
  <2>2. Flatten(obs_segments) \in [Elements -> Samples]
    BY FlattenType DEF TypeOK
  <2>3. input_buffer_' \in [1 .. InputSize -> Samples]
    BY <1>13, <2>2, StackCorrect DEF Stack, TypeOK
  <2>4. frames' \in [1 .. FrameStack -> [Elements -> Samples]]
    <3> DEFINE new == Flatten(obs_segments)
    <3>1. new \in [Elements -> Samples] BY <2>2
    <3> HIDE DEF new
    <3>2. [k \in 1 .. FrameStack |-> new]
            \in [1 .. FrameStack -> [Elements -> Samples]]
      BY <3>1
    <3>3. [k \in 1 .. FrameStack |->
             IF k < FrameStack THEN frames[k + 1] ELSE new]
            \in [1 .. FrameStack -> [Elements -> Samples]]
      BY <3>1, StackSize DEF TypeOK
    <3>4. frames' = CASE episode = "new" -> [k \in 1 .. FrameStack |-> new]
                      [] episode = "running" ->
                           [k \in 1 .. FrameStack |->
                              IF k < FrameStack THEN frames[k + 1] ELSE new]
                      [] episode = "split" -> frames
      BY <1>13 DEF Stack, new
    <3>5. episode \in {"new", "running", "split"}
          /\ frames \in [1 .. FrameStack -> [Elements -> Samples]]
      BY DEF TypeOK
    <3> QED BY <3>2, <3>3, <3>4, <3>5
  <2>5. episode' \in {"new", "running", "split"} BY <1>13 DEF Stack, TypeOK
  <2> QED BY <1>13, <2>1, <2>3, <2>4, <2>5, SegmentsType DEF Stack, TypeOK
<1>14. CASE FirstDone
  <2>1. work' \in [Threads -> Works] /\ pc' \in [Threads -> Steps]
    BY <1>14, <1>i, <1>t DEF FirstDone, Steps, I
  <2> QED BY <1>14, <2>1 DEF FirstDone, TypeOK
<1>15. CASE Run
  <2>1. work' \in [Threads -> Works] /\ pc' \in [Threads -> Steps]
    BY <1>15, <1>i, <1>u DEF Run, Steps, Works, I
  <2> QED BY <1>15, <2>1 DEF Run, TypeOK
<1>16. CASE ReadImu
  <2>1. work' \in [Threads -> Works] /\ pc' \in [Threads -> Steps]
    BY <1>16, <1>i, <1>u DEF ReadImu, Steps, Works, E
  <2>2. overlapped' \in BOOLEAN BY <1>16 DEF ReadImu
  <2> QED BY <1>16, <2>1, <2>2 DEF ReadImu, TypeOK
<1>17. CASE ResetBegin
  <2>1. work' \in [Threads -> Works] /\ pc' \in [Threads -> Steps]
    BY <1>17, <1>i, <1>u DEF ResetBegin, Steps, Works, E
  <2>2. frames' \in [1 .. FrameStack -> [Elements -> Samples]]
    BY <1>17 DEF ResetBegin, NoFrames
  <2>3. episode' \in {"new", "running", "split"} BY <1>17 DEF ResetBegin
  <2> QED BY <1>17, <2>1, <2>2, <2>3 DEF ResetBegin, TypeOK
<1>18. CASE ResetPolicy
  <2>1. work' \in [Threads -> Works] /\ pc' \in [Threads -> Steps]
    BY <1>18, <1>i, <1>t, <1>u DEF ResetPolicy, Steps, Works, E
  <2>2. Cleared \in [1 .. InputSize -> Samples] BY DEF Cleared
  <2> QED BY <1>18, <2>1, <2>2, SegmentsType DEF ResetPolicy, TypeOK
<1>19. CASE UNCHANGED vars BY <1>19 DEF vars, TypeOK
<1> QED
  BY <1>1, <1>2, <1>3, <1>4, <1>5, <1>6, <1>7, <1>8, <1>9, <1>10, <1>11,
     <1>12, <1>13, <1>14, <1>15, <1>16, <1>17, <1>18, <1>19
  DEF Next, Getters

(* Whatever the threads interleave, every index, segment and buffer has    *)
(* its size, and the flat observation fits the network's input.            *)
THEOREM TypeCorrect == Spec => []TypeOK
BY TypeInit, TypeNext, PTL DEF Spec

---------------------------------------------------------------------------
(* What each thread may be doing at each step.                             *)

CtlInv ==
    /\ work[I] \in {"none", "build_obs", "policy", "publish_imu"}
    /\ work[I] = "none" => pc[I] = "none"
    /\ work[I] = "build_obs" =>
         pc[I] \in QuatSteps \cup AngSteps \cup {"decide"}
    /\ work[I] = "policy" =>
         pc[I] \in QuatSteps \cup AngSteps
                     \cup {"ang_vel", "gravity_b", "stack", "first", "run"}
    /\ work[I] = "publish_imu" => pc[I] \in QuatSteps \cup AngSteps
    /\ work[E] \in {"none", "publish_imu", "reset"}
    /\ work[E] = "none" => pc[E] = "none"
    /\ work[E] = "publish_imu" => pc[E] \in QuatSteps \cup AngSteps
    /\ work[E] = "reset" => pc[E] \in {"r_segments", "r_input", "r_first"}
    /\ work[E] = "reset" /\ work[I] = "policy" => episode = "split"


LEMMA CtlInit == Init => CtlInv
BY DEF Init, CtlInv, Threads, I, E

LEMMA CtlNext == TypeOK /\ CtlInv /\ [Next]_vars => CtlInv'
<1> SUFFICES ASSUME TypeOK, CtlInv, [Next]_vars PROVE CtlInv'
  OBVIOUS
<1> USE DEF CtlInv, TypeOK, threadVars, frameVars, At, Working, Goto, Turn,
            Return, QuatSteps, AngSteps, I, E, Threads
<1>1. CASE Publish BY <1>1 DEF Publish
<1>2. ASSUME NEW t \in Threads, QuatRaw(t) PROVE CtlInv'
  BY <1>2 DEF QuatRaw
<1>3. ASSUME NEW t \in Threads, QuatConvert(t) PROVE CtlInv'
  BY <1>3 DEF QuatConvert
<1>4. ASSUME NEW t \in Threads, QuatCopy(t) PROVE CtlInv'
  BY <1>4 DEF QuatCopy, Halves
<1>5. ASSUME NEW t \in Threads, AngRaw(t) PROVE CtlInv'
  BY <1>5 DEF AngRaw
<1>6. ASSUME NEW t \in Threads, AngConvert(t) PROVE CtlInv'
  BY <1>6 DEF AngConvert
<1>7. ASSUME NEW t \in Threads, AngCopy(t) PROVE CtlInv'
  BY <1>7 DEF AngCopy
<1>8. CASE Tick BY <1>8 DEF Tick
<1>9. CASE Decide BY <1>9 DEF Decide
<1>10. CASE FillAngVel BY <1>10 DEF FillAngVel
<1>11. CASE FillGravity BY <1>11 DEF FillGravity
<1>12. CASE Violation BY <1>12 DEF Violation
<1>13. CASE Stack BY <1>13 DEF Stack
<1>14. CASE FirstDone BY <1>14 DEF FirstDone
<1>15. CASE Run BY <1>15 DEF Run
<1>16. CASE ReadImu BY <1>16 DEF ReadImu
<1>17. CASE ResetBegin BY <1>17 DEF ResetBegin
<1>18. CASE ResetPolicy BY <1>18 DEF ResetPolicy
<1>19. CASE UNCHANGED vars BY <1>19 DEF vars
<1> QED
  BY <1>1, <1>2, <1>3, <1>4, <1>5, <1>6, <1>7, <1>8, <1>9, <1>10, <1>11,
     <1>12, <1>13, <1>14, <1>15, <1>16, <1>17, <1>18, <1>19
  DEF Next, Getters

---------------------------------------------------------------------------
(* The numbers of samples a tick compares, and the shapes they are in.     *)
Numbers ==
    /\ latest \in Nat /\ since \in Nat /\ read_start \in Nat
    /\ work \in [Threads -> Works] /\ pc \in [Threads -> Steps]
    /\ raw \in [Threads -> Nat]
    /\ quat_buf_ \in [Halves -> Nat] /\ ang_vel_buf_ \in Nat
    /\ obs \in [quat : [Halves -> Nat], ang_vel : Nat]
    /\ quat_buffer_ \in [Halves -> Nat] /\ ang_vel_buffer_ \in Nat
    /\ obs_segments \in [ang_vel : Nat, gravity_b : [Halves -> Nat]]

LEMMA NumbersHold == TypeOK => Numbers
<1> SUFFICES ASSUME TypeOK PROVE Numbers
  OBVIOUS
<1>1. \A x \in Samples : x \in Nat BY SampleBound DEF Samples
<1>2. \A D, f : f \in [D -> Samples] => f \in [D -> Nat] BY <1>1
<1>3. /\ obs \in [quat : [Halves -> Nat], ang_vel : Nat]
      /\ obs_segments \in [ang_vel : Nat, gravity_b : [Halves -> Nat]]
  BY <1>1, <1>2 DEF TypeOK
<1> QED BY <1>1, <1>2, <1>3 DEF TypeOK, Numbers

---------------------------------------------------------------------------
(* Freshness.                                                              *)

InTick  == work[I] # "none"
Reading == work[E] = "publish_imu"

(* How far build_obs has come: steps it has left behind.                   *)
Beyond(steps) == InTick /\ ~(work[I] = "build_obs" /\ pc[I] \in steps)

(* Nothing that is still to be converted is older than since, and what the *)
(* tick has converted or copied once stays so, whoever writes it again.    *)
FreshInv ==
    /\ since <= latest /\ read_start <= latest
    /\ pc[I] \in {"q_buf1", "q_buf2", "a_buf"} => raw[I] >= since
    /\ pc[E] \in {"q_buf1", "q_buf2", "a_buf"} => raw[E] >= read_start
    /\ InTick /\ Reading => since <= read_start
    /\ Beyond({"q_raw", "q_buf1"}) => quat_buf_[1] >= since
    /\ Beyond({"q_raw", "q_buf1", "q_buf2"}) => quat_buf_[2] >= since
    /\ Beyond(QuatSteps \cup {"a_raw", "a_buf"}) => ang_vel_buf_ >= since
    /\ Beyond({"q_raw", "q_buf1", "q_buf2", "q_copy1"}) =>
         obs.quat[1] >= since
    /\ Beyond(QuatSteps) => obs.quat[2] >= since
    /\ Beyond(QuatSteps \cup AngSteps) => obs.ang_vel >= since
    /\ work[I] = "policy" =>
         /\ pc[I] = "ang_vel" => ang_vel_buffer_ >= since
         /\ pc[I] \in QuatSteps \cup {"gravity_b"} =>
              episode = "split" \/ obs_segments.ang_vel >= since
         /\ pc[I] \in {"q_copy2", "gravity_b"} => quat_buffer_[1] >= since
         /\ pc[I] = "gravity_b" => quat_buffer_[2] >= since

LEMMA FreshInit == Init => FreshInv
BY DEF Init, FreshInv, Beyond, InTick, Reading, Threads, I, E

LEMMA FreshNext ==
    TypeOK /\ CtlInv /\ FreshInv /\ [Next]_vars => FreshInv'
<1> SUFFICES ASSUME Numbers, CtlInv, FreshInv, [Next]_vars PROVE FreshInv'
  BY NumbersHold
<1> USE DEF Numbers, CtlInv, FreshInv, Beyond, InTick, Reading,
            threadVars, robotVars, bufferVars, runtimeVars, tickVars,
            frameVars, At, Working, Goto, Turn, QuatSteps, AngSteps, I, E,
            Threads, Halves
<1>1. CASE Publish BY <1>1 DEF Publish
<1>2. ASSUME NEW t \in Threads, QuatRaw(t) PROVE FreshInv'
  <2>1. CASE t = I BY <1>2, <2>1 DEF QuatRaw
  <2>2. CASE t = E BY <1>2, <2>2 DEF QuatRaw
  <2> QED BY <2>1, <2>2 DEF Threads, I, E
<1>3. ASSUME NEW t \in Threads, QuatConvert(t) PROVE FreshInv'
  <2>1. CASE t = I BY <1>3, <2>1 DEF QuatConvert
  <2>2. CASE t = E BY <1>3, <2>2 DEF QuatConvert
  <2> QED BY <2>1, <2>2 DEF Threads, I, E
<1>4. ASSUME NEW t \in Threads, QuatCopy(t) PROVE FreshInv'
  <2>1. CASE t = I BY <1>4, <2>1 DEF QuatCopy, Halves
  <2>2. CASE t = E BY <1>4, <2>2 DEF QuatCopy, Halves
  <2> QED BY <2>1, <2>2 DEF Threads, I, E
<1>5. ASSUME NEW t \in Threads, AngRaw(t) PROVE FreshInv'
  <2>1. CASE t = I BY <1>5, <2>1 DEF AngRaw
  <2>2. CASE t = E BY <1>5, <2>2 DEF AngRaw
  <2> QED BY <2>1, <2>2 DEF Threads, I, E
<1>6. ASSUME NEW t \in Threads, AngConvert(t) PROVE FreshInv'
  <2>1. CASE t = I BY <1>6, <2>1 DEF AngConvert
  <2>2. CASE t = E BY <1>6, <2>2 DEF AngConvert
  <2> QED BY <2>1, <2>2 DEF Threads, I, E
<1>7. ASSUME NEW t \in Threads, AngCopy(t) PROVE FreshInv'
  <2>1. CASE t = I BY <1>7, <2>1 DEF AngCopy, Return
  <2>2. CASE t = E BY <1>7, <2>2 DEF AngCopy, Return
  <2> QED BY <2>1, <2>2 DEF Threads, I, E
<1>8. CASE Tick
  <2>1. ~Reading => since' = latest BY <1>8 DEF Tick
  <2>2. Reading => since' = read_start BY <1>8 DEF Tick
  <2>3. /\ work[I] = "none" /\ work'[I] = "build_obs" /\ pc'[I] = "q_raw"
        /\ work'[E] = work[E] /\ pc'[E] = pc[E]
        /\ UNCHANGED <<latest, read_start, raw>>
    BY <1>8 DEF Tick
  <2> QED BY <2>1, <2>2, <2>3
<1>9. CASE Decide BY <1>9 DEF Decide
<1>10. CASE FillAngVel BY <1>10 DEF FillAngVel
<1>11. CASE FillGravity BY <1>11 DEF FillGravity
<1>12. CASE Violation BY <1>12 DEF Violation, Return
<1>13. CASE Stack BY <1>13 DEF Stack
<1>14. CASE FirstDone BY <1>14 DEF FirstDone
<1>15. CASE Run BY <1>15 DEF Run
<1>16. CASE ReadImu BY <1>16 DEF ReadImu
<1>17. CASE ResetBegin BY <1>17 DEF ResetBegin
<1>18. CASE ResetPolicy BY <1>18 DEF ResetPolicy
<1>19. CASE UNCHANGED vars BY <1>19 DEF vars
<1> QED
  BY <1>1, <1>2, <1>3, <1>4, <1>5, <1>6, <1>7, <1>8, <1>9, <1>10,
     <1>11, <1>12, <1>13, <1>14, <1>15, <1>16, <1>17, <1>18, <1>19
  DEF Next, Getters

LEMMA FreshImplies == CtlInv /\ FreshInv => AttitudeIsFresh
BY DEF CtlInv, FreshInv, AttitudeIsFresh, ObsRead, GravityRead, Beyond,
       InTick, At, QuatSteps, AngSteps, Halves, I, E

(* Whatever read_imu and resets a tick runs into, it judges the posture,   *)
(* and its policy observes, nothing older than its beginning, or that of   *)
(* the read_imu it found or was found by.                                  *)
THEOREM FreshCorrect == Spec => []AttitudeIsFresh
<1>1. Init => TypeOK /\ CtlInv /\ FreshInv BY TypeInit, CtlInit, FreshInit
<1>2. TypeOK /\ CtlInv /\ FreshInv /\ [Next]_vars
        => (TypeOK /\ CtlInv /\ FreshInv)'
  BY TypeNext, CtlNext, FreshNext
<1>3. TypeOK /\ CtlInv /\ FreshInv => AttitudeIsFresh BY FreshImplies
<1> QED BY <1>1, <1>2, <1>3, PTL DEF Spec

---------------------------------------------------------------------------
(* Wholeness.                                                              *)

(* Alone with the buffers, the tick finds in them what it put there.       *)
WholeInv ==
    /\ overlapped \/ ~InTick \/ ~Reading
    /\ ~overlapped /\ InTick =>
       /\ pc[I] \in {"q_buf1", "q_buf2", "a_buf"} => raw[I] <= latest
       /\ pc[I] = "q_buf2" => quat_buf_[1] = raw[I]
       /\ pc[I] \in {"q_copy1", "q_copy2"} =>
            quat_buf_[1] = quat_buf_[2] /\ quat_buf_[2] <= latest
       /\ work[I] = "build_obs" =>
            /\ pc[I] = "q_copy2" => obs.quat[1] = quat_buf_[1]
            /\ pc[I] \in AngSteps => obs.quat[1] = obs.quat[2]
                                       /\ obs.quat[2] <= latest
            /\ pc[I] = "a_buf" => obs.quat[2] <= raw[I]
            /\ pc[I] = "a_copy" => obs.quat[2] <= ang_vel_buf_
                                     /\ ang_vel_buf_ <= latest
       /\ Beyond(QuatSteps \cup AngSteps) =>
            /\ obs.quat[1] = obs.quat[2] /\ obs.quat[2] <= obs.ang_vel
            /\ obs.ang_vel <= latest
       /\ work[I] = "policy" =>
            /\ pc[I] = "a_buf" => obs.ang_vel <= raw[I]
            /\ pc[I] = "a_copy" => obs.ang_vel <= ang_vel_buf_
                                     /\ ang_vel_buf_ <= latest
            /\ pc[I] = "ang_vel" => obs.ang_vel <= ang_vel_buffer_
                                      /\ ang_vel_buffer_ <= latest
            /\ pc[I] \in QuatSteps \cup {"gravity_b"} =>
                 /\ obs_segments.ang_vel <= latest
                 /\ episode = "split" \/ obs.ang_vel <= obs_segments.ang_vel
            /\ pc[I] \in {"q_buf1", "q_buf2"} => obs_segments.ang_vel <= raw[I]
            /\ pc[I] \in {"q_copy1", "q_copy2"} =>
                 obs_segments.ang_vel <= quat_buf_[1]
            /\ pc[I] = "q_copy2" => quat_buffer_[1] = quat_buf_[1]
            /\ pc[I] = "gravity_b" =>
                 /\ quat_buffer_[1] = quat_buffer_[2]
                 /\ obs_segments.ang_vel <= quat_buffer_[1]

LEMMA WholeInit == Init => WholeInv
BY DEF Init, WholeInv, Beyond, InTick, Reading, Threads, I, E

LEMMA WholeNext ==
    TypeOK /\ CtlInv /\ WholeInv /\ [Next]_vars => WholeInv'
<1> SUFFICES ASSUME TypeOK, Numbers, CtlInv, WholeInv, [Next]_vars
             PROVE  WholeInv'
  BY NumbersHold
<1> USE DEF Numbers, CtlInv, WholeInv, Beyond, InTick, Reading,
            threadVars, robotVars, bufferVars, runtimeVars, tickVars,
            frameVars, At, Working, Goto, Turn, QuatSteps, AngSteps, I, E,
            Threads, Halves
<1>1. CASE Publish BY <1>1 DEF Publish
<1>2. ASSUME NEW t \in Threads, QuatRaw(t) PROVE WholeInv'
  <2>1. CASE t = I BY <1>2, <2>1 DEF QuatRaw
  <2>2. CASE t = E BY <1>2, <2>2 DEF QuatRaw
  <2> QED BY <2>1, <2>2 DEF Threads, I, E
<1>3. ASSUME NEW t \in Threads, QuatConvert(t) PROVE WholeInv'
  <2>1. CASE t = I BY <1>3, <2>1 DEF QuatConvert
  <2>2. CASE t = E BY <1>3, <2>2 DEF QuatConvert
  <2> QED BY <2>1, <2>2 DEF Threads, I, E
<1>4. ASSUME NEW t \in Threads, QuatCopy(t) PROVE WholeInv'
  <2>1. CASE t = I BY <1>4, <2>1 DEF QuatCopy, Halves
  <2>2. CASE t = E BY <1>4, <2>2 DEF QuatCopy, Halves
  <2> QED BY <2>1, <2>2 DEF Threads, I, E
<1>5. ASSUME NEW t \in Threads, AngRaw(t) PROVE WholeInv'
  <2>1. CASE t = I BY <1>5, <2>1 DEF AngRaw
  <2>2. CASE t = E BY <1>5, <2>2 DEF AngRaw
  <2> QED BY <2>1, <2>2 DEF Threads, I, E
<1>6. ASSUME NEW t \in Threads, AngConvert(t) PROVE WholeInv'
  <2>1. CASE t = I BY <1>6, <2>1 DEF AngConvert
  <2>2. CASE t = E BY <1>6, <2>2 DEF AngConvert
  <2> QED BY <2>1, <2>2 DEF Threads, I, E
<1>7. ASSUME NEW t \in Threads, AngCopy(t) PROVE WholeInv'
  <2>1. CASE t = I BY <1>7, <2>1 DEF AngCopy, Return
  <2>2. CASE t = E BY <1>7, <2>2 DEF AngCopy, Return
  <2> QED BY <2>1, <2>2 DEF Threads, I, E
<1>8. CASE Tick BY <1>8 DEF Tick
<1>9. CASE Decide BY <1>9 DEF Decide
<1>10. CASE FillAngVel BY <1>10 DEF FillAngVel
<1>11. CASE FillGravity BY <1>11 DEF FillGravity
<1>12. CASE Violation BY <1>12 DEF Violation, Return
<1>13. CASE Stack BY <1>13 DEF Stack
<1>14. CASE FirstDone BY <1>14 DEF FirstDone
<1>15. CASE Run BY <1>15 DEF Run
<1>16. CASE ReadImu
  <2>1. CASE pc[I] = "none"
    <3>1. work[I] = "none" /\ work'[I] = "none" BY <1>16, <2>1 DEF ReadImu
    <3> QED BY <3>1
  <2>2. CASE pc[I] # "none"
    <3>1. overlapped' = TRUE BY <1>16, <2>2, Zenon DEF ReadImu
    <3> QED BY <3>1
  <2> QED BY <2>1, <2>2
<1>17. CASE ResetBegin BY <1>17 DEF ResetBegin
<1>18. CASE ResetPolicy BY <1>18 DEF ResetPolicy, NoSegments
<1>19. CASE UNCHANGED vars BY <1>19 DEF vars
<1> QED
  BY <1>1, <1>2, <1>3, <1>4, <1>5, <1>6, <1>7, <1>8, <1>9, <1>10,
     <1>11, <1>12, <1>13, <1>14, <1>15, <1>16, <1>17, <1>18, <1>19
  DEF Next, Getters

LEMMA WholeImplies == CtlInv /\ WholeInv => AttitudeIsWhole
BY DEF CtlInv, WholeInv, AttitudeIsWhole, ObsRead, GravityRead, Beyond,
       InTick, At, QuatSteps, AngSteps, I, E

(* A tick that no read_imu runs into takes each attitude from one sample.  *)
THEOREM WholeCorrect == Spec => []AttitudeIsWhole
<1>1. Init => TypeOK /\ CtlInv /\ WholeInv BY TypeInit, CtlInit, WholeInit
<1>2. TypeOK /\ CtlInv /\ WholeInv /\ [Next]_vars
        => (TypeOK /\ CtlInv /\ WholeInv)'
  BY TypeNext, CtlNext, WholeNext
<1>3. TypeOK /\ CtlInv /\ WholeInv => AttitudeIsWhole BY WholeImplies
<1> QED BY <1>1, <1>2, <1>3, PTL DEF Spec

---------------------------------------------------------------------------
(* The stack.                                                              *)

(* The input holds the frames, each in its place.                          *)
Placed ==
    \A k \in 1 .. FrameStack, e \in Elements :
        input_buffer_[Place(k, e)] = frames[k][e]

(* The flag is set for a new episode once the reset has reached it, and    *)
(* cleared after the first tick of one; a reset inside a tick splits it.   *)
FlagInv ==
    /\ work[I] = "policy" /\ pc[I] \in {"first", "run"} => episode # "new"
    /\ episode = "new" /\ work[E] # "reset" => is_first_frame
    /\ episode = "running" =>
         work[E] # "reset" /\ (is_first_frame => pc[I] = "first")

HistInv == FlagInv /\ (episode = "running" => Placed)

LEMMA FlagNext ==
    TypeOK /\ CtlInv /\ FlagInv /\ [Next]_vars => FlagInv'
<1> SUFFICES ASSUME TypeOK, CtlInv, FlagInv, [Next]_vars PROVE FlagInv'
  OBVIOUS
<1> USE DEF CtlInv, FlagInv, TypeOK, threadVars, runtimeVars, frameVars,
            At, Working, Goto, Turn, Return, QuatSteps, AngSteps, I, E,
            Threads
<1>1. CASE Publish BY <1>1 DEF Publish
<1>2. ASSUME NEW t \in Threads, QuatRaw(t) PROVE FlagInv'
  BY <1>2 DEF QuatRaw
<1>3. ASSUME NEW t \in Threads, QuatConvert(t) PROVE FlagInv'
  BY <1>3 DEF QuatConvert
<1>4. ASSUME NEW t \in Threads, QuatCopy(t) PROVE FlagInv'
  BY <1>4 DEF QuatCopy, Halves
<1>5. ASSUME NEW t \in Threads, AngRaw(t) PROVE FlagInv'
  BY <1>5 DEF AngRaw
<1>6. ASSUME NEW t \in Threads, AngConvert(t) PROVE FlagInv'
  BY <1>6 DEF AngConvert
<1>7. ASSUME NEW t \in Threads, AngCopy(t) PROVE FlagInv'
  BY <1>7 DEF AngCopy
<1>8. CASE Tick BY <1>8 DEF Tick
<1>9. CASE Decide BY <1>9 DEF Decide
<1>10. CASE FillAngVel BY <1>10 DEF FillAngVel
<1>11. CASE FillGravity BY <1>11 DEF FillGravity
<1>12. CASE Violation BY <1>12 DEF Violation
<1>13. CASE Stack BY <1>13 DEF Stack
<1>14. CASE FirstDone BY <1>14 DEF FirstDone
<1>15. CASE Run BY <1>15 DEF Run
<1>16. CASE ReadImu BY <1>16 DEF ReadImu
<1>17. CASE ResetBegin BY <1>17 DEF ResetBegin
<1>18. CASE ResetPolicy BY <1>18 DEF ResetPolicy
<1>19. CASE UNCHANGED vars BY <1>19 DEF vars
<1> QED
  BY <1>1, <1>2, <1>3, <1>4, <1>5, <1>6, <1>7, <1>8, <1>9, <1>10, <1>11,
     <1>12, <1>13, <1>14, <1>15, <1>16, <1>17, <1>18, <1>19
  DEF Next, Getters

(* Only Stack, ResetBegin and ResetPolicy touch the input or the frames.   *)
LEMMA StackFrame ==
    ASSUME [Next]_vars, ~Stack, ~ResetBegin, ~ResetPolicy
    PROVE  UNCHANGED <<input_buffer_, frames, episode>>
BY DEF Next, Getters, vars, Publish, QuatRaw, QuatConvert, QuatCopy, AngRaw,
       AngConvert, AngCopy, Tick, Decide, FillAngVel, FillGravity, Violation,
       FirstDone, Run, ReadImu, runtimeVars, frameVars

(* The step that matters: the new frame enters behind the others.          *)
LEMMA PlacedStack ==
    ASSUME TypeOK, CtlInv, FlagInv, episode = "running" => Placed, Stack,
           episode' = "running"
    PROVE  Placed'
<1> DEFINE new == Flatten(obs_segments)
<1>1. work[I] = "policy"
  BY DEF Stack, At, CtlInv, QuatSteps, AngSteps, I
<1>2. new \in [Elements -> Samples] BY FlattenType DEF TypeOK
<1>3. input_buffer_' = stack_frames(input_buffer_, new, is_first_frame)
  BY DEF Stack
<1>4. input_buffer_ \in [1 .. InputSize -> Samples]
      /\ is_first_frame \in BOOLEAN
  BY DEF TypeOK
<1> HIDE DEF new
<1>5. \A k \in 1 .. FrameStack, e \in Elements :
        input_buffer_'[Place(k, e)] =
          IF is_first_frame \/ k = FrameStack THEN new[e]
          ELSE input_buffer_[Place(k + 1, e)]
  BY <1>2, <1>3, <1>4, StackCorrect
<1>6. CASE episode = "new"
  <2>1. is_first_frame BY <1>1, <1>6 DEF FlagInv, CtlInv
  <2>2. frames' = [k \in 1 .. FrameStack |-> new]
    BY <1>6 DEF Stack, new
  <2> QED BY <1>5, <2>1, <2>2 DEF Placed
<1>7. CASE episode = "running"
  <2>1. ~is_first_frame BY <1>7 DEF FlagInv, Stack, At, I
  <2>2. frames' = [k \in 1 .. FrameStack |->
                     IF k < FrameStack THEN frames[k + 1] ELSE new]
    BY <1>7 DEF Stack, new
  <2>3. ASSUME NEW k \in 1 .. FrameStack, NEW e \in Elements
        PROVE  input_buffer_'[Place(k, e)] = frames'[k][e]
    <3>1. CASE k = FrameStack
      BY <1>5, <2>2, <3>1, StackSize
    <3>2. CASE k # FrameStack
      <4>1. k < FrameStack /\ k + 1 \in 1 .. FrameStack
        BY <3>2, StackSize
      <4>2. input_buffer_[Place(k + 1, e)] = frames[k + 1][e]
        BY <1>7, <4>1 DEF Placed
      <4>3. input_buffer_'[Place(k, e)] = input_buffer_[Place(k + 1, e)]
        BY <1>5, <2>1, <3>2
      <4> QED BY <2>2, <4>1, <4>2, <4>3
    <3> QED BY <3>1, <3>2
  <2> QED BY <2>3 DEF Placed
<1> QED BY <1>6, <1>7 DEF Stack

LEMMA HistNext ==
    TypeOK /\ CtlInv /\ HistInv /\ [Next]_vars => HistInv'
<1> SUFFICES ASSUME TypeOK, CtlInv, HistInv, [Next]_vars PROVE HistInv'
  OBVIOUS
<1>1. FlagInv /\ (episode = "running" => Placed) BY DEF HistInv
<1>2. FlagInv' BY <1>1, FlagNext
<1>3. ASSUME episode' = "running" PROVE Placed'
  <2>1. CASE Stack BY <1>1, <1>3, <2>1, PlacedStack
  <2>2. CASE ResetBegin BY <1>3, <2>2 DEF ResetBegin
  <2>3. CASE ResetPolicy
    <3>1. episode = "running" /\ work[E] = "reset"
      BY <1>3, <2>3 DEF ResetPolicy, frameVars, Working, E
    <3> QED BY <1>1, <3>1 DEF FlagInv
  <2>4. CASE ~Stack /\ ~ResetBegin /\ ~ResetPolicy
    <3>1. UNCHANGED <<input_buffer_, frames, episode>>
      BY <2>4, StackFrame
    <3> QED BY <1>1, <1>3, <3>1 DEF Placed
  <2> QED BY <2>1, <2>2, <2>3, <2>4
<1> QED BY <1>2, <1>3 DEF HistInv

LEMMA HistInit == Init => HistInv
BY DEF Init, HistInv, FlagInv, Threads, I, E

(* The network is run on the last observations of the episode, for any     *)
(* frame_stack, in the order its configuration names.                      *)
THEOREM HistoryCorrect == Spec => []InputIsHistory
<1>1. Init => TypeOK /\ CtlInv /\ HistInv BY TypeInit, CtlInit, HistInit
<1>2. TypeOK /\ CtlInv /\ HistInv /\ [Next]_vars
        => (TypeOK /\ CtlInv /\ HistInv)'
  BY TypeNext, CtlNext, HistNext
<1>3. TypeOK /\ CtlInv /\ HistInv => InputIsHistory
  BY DEF HistInv, Placed, InputIsHistory
<1> QED BY <1>1, <1>2, <1>3, PTL DEF Spec
=============================================================================
