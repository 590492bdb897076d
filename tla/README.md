# Verification of xh_deploy

xh_deploy is the deployment stack of a walking robot: a ROS 2 node
(`src/src/inference`) runs neural policies and sends joint targets to DM motors
over SocketCAN (`src/src/motors`), with the attitude read from a serial IMU
(`src/src/imu`). This directory holds TLA+ models of its concurrent core, the
TLC configurations that check them on small instances, and TLAPS proofs of the
properties that matter most. `PROJECT.json` lists every definition with the
source lines it stands for, the runs, the hazards and the theorems.

## 1. The system

### Threads

| thread | code | what it does |
| --- | --- | --- |
| main / executor | `inference_node.cpp:259-284` | one ROS callback or service at a time (all belong to one mutually exclusive callback group); after `rclcpp::shutdown` the same thread runs the node's destructor |
| inference | `inference_node.cpp:171-241` | every policy period: observe, run the state machine, check the posture, publish; holds `mode_mutex_` from `Run` on |
| control | `inference_node.cpp:144-169` | every control period: filter `act_`, send it to the motors |
| pool workers | `robot_interface.cpp:275-292` | one task per CAN interface while `exec_motors_parallel` waits for them |
| can_tx, can_rx | `socket_can.cpp:60-176` | per interface: write the queued frames, read answers and call the drivers back |
| serial_rx | `serial_port.cpp` | feed the IMU parser byte by byte |

### Components, their state, and what makes them correct

**StateMachine** (`state_machine.hpp`, the four states, `state_base.hpp`). State:
the current mode, the request slot (`forced_next_state_`, `force_pending_`), the
clocks of StandUp and JointDamping, `is_running_`, `act_`. Operations: `Run`,
`ForceTransition`, and `OnEnter`, `Run`, `GetNextStateName`, `OnExit`,
`LoseControlJudge` of each state. The slot is written by the executor and by the
safety callback and taken by `Run`, with no lock; its two fields are a plain
`StateName` and a plain `bool`, so one thread may see the stores of another in either
order. *Correct when* a pause is not lost in the slot all the same, the policy is
engaged only after its stand-up, and no policy step follows a violation.

**PolicyManager** (`policy_manager.*`). State: `active_idx_` and one runtime state
per policy (first-frame flag, frame stack, motion frame). `mode_mutex_` protects it
from LB, not from a reset; a tick reads `active_idx_` up to a dozen times. *Correct
when* a tick works with one policy and never asks a motion for a frame it does not have.

**InferenceNode** (`inference_node.*`, `ros_interface.cpp`, `obs_manager.cpp`).
Ties the above together; joystick buttons A, B, X, LB, RB and the services act on
all of it from the executor. *Correct when*, besides the above, damping and stand-up
come to an end, a pause reaches Idle, and a shutdown ends with the motors disabled.

**RobotInterface** (`robot_interface.*`). State: `is_init_`, `joint_q_` and its
like under `joint_mutex_`, `motor_target_` and the motors under `motors_mutex_`.
Called by the control thread (`apply_action`), the executor (everything else) and
the inference thread (getters). *Correct when* nobody reads half-converted joints,
the motors are in the power state `is_init_` claims, a service returns, and an
offline motor ends the run.

**DmMotorDriver** (`dm_motor_driver.*`). State: `response_count_`, the values of the
last answer, the control mode. Every command counts up after it has transmitted,
every answer sets the count to zero from the receive thread. *Correct when* the
verdict "offline" agrees with the answers heard.

**MotorsSocketCAN** (`socket_can.*`). State: a lock-free transmit queue of bounded
size, `receiving_`, the callback table, the socket. *Correct when* frames keep their
order and are written at most once, an accepted frame gets its turn, and the
destructor closes the socket after both threads have ended.

**DmImuDriver** and **SerialPort** (`dm_imu_driver.*`, `serial_port.*`). State: the
receive buffer, the last sample, `running_`, `callback_`, the port. The reader thread
runs from `open` on, before the callback is installed; the set-up is written blind.
*Correct when* what is published is one measurement, in order and once, the parser
comes back into step after a lost byte, and the port is closed after its thread.

**Observation**: what RobotInterface's two attitude getters, the node's buffers,
**ObservationAssembler** (`observation_assembler.*`), the input of **ModelRunner**
and `is_first_frame` do together on the way from the IMU driver to the network, with
the inference thread and the executor on it at once and no lock of their own.
*Correct when* a tick's attitude is not stale and comes from one sample, and the
network runs on the last frames of its episode, each in its place.

**SafetyMonitor** matters to the others because it calls back and throws.
`IMUSocketCAN` is used by no driver of this tree; the Python bindings hold no state; ONNX Runtime, yaml-cpp and
cnpy are vendored.

### How they interact

    joystick, services ──> executor ──ForceTransition──> StateMachine <── inference thread
                              │  │                          │                │
                              │  └─ reset, LB, RB ──> PolicyManager <────────┘
                              │                             │ act_
                              └── init, zero, reset ──> RobotInterface <── control thread
                                  read_imu              │   ^── get_quat, get_ang_vel ── IMU driver <── serial_rx
                                                        │  tasks per interface
                                                   DmMotorDriver ──transmit──> MotorsSocketCAN ──> bus
                                                        ^───────── can_rx callback ──┘

### What is hard here

Two plain fields used as one slot by two threads, which may see each other's stores out
of order; an index read again and again within a tick that a reset may change; a runtime reset that does not take the lock a tick
holds; checks made once before work that takes seconds; two threads that fill and
send one target vector under two holds of its lock; a counter raced for by sender
and receiver; a condition variable notified without its mutex; a FIFO that may drop
what nobody confirms; an exception that unwinds two locks and ends the run; a byte
stream without a length field that may begin anywhere; buffers that two threads fill
and read through references. The hazards are listed with their lines in `PROJECT.json`.

## 2. The modules

| module | models | states and actions in the code |
| --- | --- | --- |
| `StateMachine` | the state machine's data and the operations of the four states | operators for each shared access of `Run` and `ForceTransition` |
| `PolicyManager` | `PolicyManager` | `set_active`, `reset_policy`, `reset_all` in its two parts, the step of a motion frame |
| `InferenceNode` | the node: extends the two above with program counters for the inference thread, the control thread and the executor; one action per shared access | the inference tick (`BuildObs` to `InferenceEnd`), `RLControlState::Run` with each read of `active_idx_`, by itself, by its fillers and by `step_motion_frame`, as a step of its own, `ButtonA` ... `MotorService`, `Reset*`, the destructor |
| `SafeModes` | the abstract specification of the node: an automaton of modes with no threads, requests or clocks | refined by `InferenceNode` (`KeepsSafeModes`) |
| `SocketCan` | `MotorsSocketCAN` with any number of callers, its two threads, the callback table and its destructor | one action per access to the queue, the condition variable, the socket and the table |
| `LossyFifo` | the abstract specification of an interface: frames in order, each at most once, any may be lost | refined by `SocketCan` (`ImplementsLossyFifo`) |
| `RobotInterface` | `RobotInterface` and the DM drivers | a member function is a script of steps (lock, write the target, batch, convert, store); `Begin`, `Turn`, `End` are `exec_motors_parallel`; `Transmit` and `CountUp` are the two halves of every driver command; `CanRxCbk` is the callback. Between driver and motor is a lossy FIFO, which is what `SocketCan` was shown to be |
| `ImuDriver` | `DmIMUDriver` over `IMUSerialPort`, byte by byte, with an external IMU and line | the constructor's commands (`SendCommand`), `ReadByte` with the four outcomes of `parse_byte`, the end and the error of `serial_rx`, `close` |
| `AttitudeSource` | the abstract specification of an IMU driver: one measurement at a time, in order, each at most once | refined by `ImuDriver` (`ImplementsAttitudeSource`) |
| `Observation` | the attitude from the driver's getters to the input of the network: the buffers of `RobotInterface` and the node, `build_obs`, two fillers, `flatten`, `stack_frames`, `is_first_frame`, `reset_policy` | each getter in three kinds of step (read the driver, convert, copy), for the tick and for `read_imu`; the driver is a counter of samples, which is what `ImuDriver` was shown to be |
| `MCInferenceNode`, `MCRobotInterface`, `MCImuDriver` | values of the function-valued constants for TLC | |
| `InferenceNodeProofs`, `SocketCanProofs`, `RobotInterfaceProofs`, `ImuDriverProofs`, `ImuSourceProofs`, `ObservationProofs` | the theorems | |

History variables (`paused`, `tripped`; `missed`; `silent`, `lost`, `zeroed`;
`measured`, `complete`; `since`, `read_start`, `overlapped`, `frames`, `episode`)
record what happened for the properties; the code's own state never depends on
them, but for `silent`, which bounds the number of calls (`CallBound`). Definitions whose names carry a
suffix (`RunEnter_ClearsRequest`, `Transmit_Silent`, ...) are plausible bugs next to
the definition they replace: each property is shown to fail with one of them.

`InferenceNode` sees of the robot only `is_init_`, an offline exception and the
destructor; `RobotInterface` sees of the node only who calls it, and when.
`Observation` sees of the node whether a tick runs the policy and whether a reset is
under way; that no policy tick begins inside a reset, because the reset asks for Idle
first, is what `InferenceNode` shows (`PauseHonoured`).

In `ImuDriver` a byte is a tuple. A literal byte is its value, a payload byte says
whose payload it is, unless it happens to be the header's 55, and a CRC is a function
of the bytes before it: two frames can then be mixed up by the parser exactly where
their bytes allow it. In `Observation` a value is the number of the sample it was
computed from, so that age and mixture can be read off it.

## 3. The runs

| run | question | instance | size |
| --- | --- | --- | --- |
| `NodeSafety` | Once a reset has asked for Idle, is that never lost (`PauseHonoured`), and does at most one output follow (`OneOutputAfterPause`)? Is no policy step taken after a violation (`NoPolicyAfterViolation`)? Does the node implement `SafeModes`? | one policy, buttons A, B, X, LB, six services, time steps 1..2 | 5.1 M states |
| `NodePolicies` | Types; does what one tick refers to belong to one policy but for a reset (`RefsMixOnlyByReset`); is a loader asked for frames it has (`MotionFrameInRange`)? | three policies, motions of 2, 1 and 2 frames, the first of them on policy 0; A with its reset, LB, RB, init | 9.0 M states |
| `NodeLiveness` | `DampingReturns`, `StandUpFinishes`, `ResetReachesIdle`, `ShutdownCompletes` | one policy, A, LB, init, a stand-up and a damping of one time step | 0.5 M states |
| `CanFifo` | Does the sender sleep over work only if a notification was missed; is the socket closed last; is the interface a lossy FIFO; does a frame get its turn under traffic; does close return? | two motors, two callers, queue of 2, one retry | 0.15 M states |
| `RobotPower` | Types; does the motor's power follow `is_init_` (`PowerFollowsInit`); are joints read only when converted (`JointsConverted`); is the offline verdict right (`OfflineVerdict`); does a service return (`CallReturns`); does an offline motor end the run (`OfflineEndsRun`)? | one motor in the ankle, two frames in the channel, threshold 1 | 0.7 M states |
| `ImuFrames` | Types; did a frame begin as one (`FrameBegan`); is what is published one measurement, in order (`ImplementsAttitudeSource`); does the parser come back into step (`Resynchronises`); is the port closed (`DestructorReturns`)? | payloads of one byte, which is a 55 or not, one damaged byte in every frame, samples numbered modulo 2, an IMU that starts without gyroscope and with quaternion | 1.3 M states |
| `Observation` | Types; how old is the attitude (`AttitudeIsFresh`), is it of one sample (`AttitudeIsWhole`), does the network see the last frames of its episode (`InputIsHistory`)? | three frames in observation major order, two samples | 13.2 M states |

Bounds. Three policies are the fewest with which LB and RB choose between motions
and policy 0; motions of one and two frames are at their end at once and after
one step, and with two on policy 0 and one on policy 1 the frame of one is beyond the other.
Time moves by 1 or 2 per tick in `NodeSafety`, so that a duration can be met exactly and be
overshot. A queue of two can be empty, partly full and full, and two frames can
overtake each other. Two callers are enough for one notification to cover for
another. One motor in the ankle can be read, declared offline and left unconverted;
the proofs about `RobotInterface` hold for any number. A channel of two frames holds an enable behind a disable and overflows.
`CallBound` keeps the operator from calling on while no motor answers, since
`response_count_` would grow for ever; it still passes the threshold, which is
where it matters. A payload that is a 55 or not can begin a false frame or not, which
is what keeps a parser that is out of step out of step; one damaged byte per frame puts
it there, again and again, in any phase of the set-up and of the frame (`ImuSourceProofs`
has any number below a sub-frame's length); a frame has the length of
a sample, so that a mixture is of two consecutive samples, which two numbers tell
apart. Two samples suffice to make two halves differ twice; three frames have a first,
a middle and a last, and the theorems hold for any `frame_stack` and both orders.

### What the code says and does not do

Each of these runs violates one property that quotes a message or a comment.

| run | what it shows |
| --- | --- |
| `NodeSafetyStop` | "the next tick will be in JointDamping": a button handled between the violation and the next `Run` overwrites the request, and the robot goes to Idle |
| `NodeService` | "Inference is running, cannot set zeros.": the test is made once, the policy may start during the work |
| `NodeRestart` | "reset on policy switch / restart": after damping the policy restarts with its old runtime state |
| `CanStranded` | "Motors deinitialized successfully": without further traffic the last frame may stay queued, its notification having fallen between the sender's test and its sleep |
| `RobotReset` | "Joints reset successfully": the control thread overwrites `motor_target_` before `reset_joints` sends it |

Others were met while modelling and have no run of their own:

- `state_machine.hpp:35` promises "an immediate transition on the NEXT Run() call". When
  the flag is seen ahead of its target, or `Run` reads between the two stores of a second
  request, the call clears the flag with the target before: the new request is lost, or an
  older one carried out in its place, so that a button meant to stop the policy may start a
  stand-up (`RunTake` with the executor at `late`). A pause survives this only because
  `reset_runtime_state` (`inference_node.cpp:12`) repeats the request, which is what
  `PauseHonoured` shows; a request for StandUp, which nobody repeats, may simply be lost.
- `inference_node.cpp:266` announces "Any state -> JointDamping (safety fallback, auto-return
  3s)". Only RLControl looks at the posture and only its fillers at the limits: no violation is
  raised in Idle or StandUp, and `SafeModes`, which the node implements, has no step from
  StandUp to JointDamping. From Idle there is one, by a request from RLControl that comes
  late.
- `obs_manager.cpp:40-44` reads `active_idx_` for the loader and again for the frame. A
  reset in between asks the loader of the policy before for the frame of policy 0. With a motion
  on policy 0 that frame may be beyond the loader's; `MotionFrameInRange` excepts this case
  (without the exception TLC finds it), and it is the only one. Without a motion on policy 0
  the frame is 0.
- A tick that is under way when a reset begins writes the policy's output over the default
  posture the reset wrote (`rl_control_state.hpp:107`). `OneOutputAfterPause` bounds this
  to one output; the control thread sends it until the next mode writes another.
- `socket_can.cpp:170` logs a failure whenever the retry count is full, although the
  fourth write may have succeeded.
- `ros_interface.cpp:204` logs "RL control requested (will start after stand-up)" when B
  is pressed in a stand-up and stores nothing (`DecideB`): without LB the robot stands
  for ever.
- `inference_node.cpp:81` says of `get_quat` and `get_ang_vel` that "these calls are
  mutex-protected inside RobotInterface". They are not (`robot_interface.hpp:75-96`):
  when `read_imu` runs at the same time, half of a quaternion may be of one sample and
  half of another. `AttitudeIsWhole` has to except exactly these ticks.
- The parser tests neither the end bytes nor the headers of the second and third
  sub-frame. A lost end byte makes the frame complete with the first byte of the next
  sample, which is then lost as a header; when a whole sub-frame is lost, the frame ends
  with the first sub-frames of the next sample, its three CRCs are right, and it is published
  (TLC finds this as soon as the line may damage as many bytes of a frame); and an IMU that did not hear `turn_on_gyro`
  has its acceleration read as a rate (`AttitudeSource` promises nothing before the
  second whole sample, for this reason).
- A reset inside a policy tick zeroes a segment the tick has filled, so that the network
  may run on zeros, and `rl_control_state.hpp:81` may clear the `is_first_frame` the reset
  has set, so that the next episode begins without repeating its first frame.
  `InputIsHistory` and `AttitudeIsFresh` except such episodes.

### Fairness

Every thread is a loop (or a call already made) that the scheduler keeps running:
weak fairness for the inference thread, the control thread, the executor's
unfinished work, the sender, the receiver, the destructors and the tasks of a
batch. In an RL tick the layout of the observation comes to an end: the actions between
two fillers are in a loop of the model, which `RLAssemble` leaves (strongly fair, since the
loop passes through other steps). What the operator does is never fair, nor are the bus, the motors or a
signal. `TrafficSpec` of `SocketCan` adds that frames keep coming, because the
control thread sends to each motor in every period while the motors are
initialised; `CanStranded` is the same question without it. In `RobotInterface`
taking a mutex is strongly fair: the only thread that comes back for it by itself
is the control thread, which sleeps between two turns; the others wait on the
mutex and get it. In `ImuDriver` the IMU sends when it is not being set, and (strongly
fair) a sample without a 55 at the end of its payloads comes again and again: with one
there for ever the parser would begin every frame inside a payload and never come back
into step. Damage is not fair. It may go on for ever, but not within one frame (`MaxLost`).

What the properties except: `DampingReturns`, `StandUpFinishes` and `ResetReachesIdle` a
lost `is_init_` or a shutdown, `Resynchronises` a serial thread that has ended, an IMU
that was not set up and a line that never stops damaging bytes, `DestructorReturns` a process that crashed.

## 4. The proofs

All theorems are for any values of the constants, from the assumptions named in the
modules (`DurationAssumption`, `PolicyAssumption`, `NodeAssumption`, `CanAssumption`,
`RobotAssumption`, `ImuAssumption`,
`ObservationAssumption`): durations are natural numbers, there is at least one policy and
motion indices name policies with a motion, bounds are positive, `CloseChain` is a
set of motors. None is about the size of an instance.

**InferenceNode.** `TypeCorrect`, by thread and by conjunct. `PausesHonoured` and
`OutputsEnd` rest on `PauseInv`. It follows a request for Idle through the slot without
assuming which of its two stores is seen first: when `reset_runtime_state` comes to repeat
the request, the handler has left a target other than StandUp in the slot, and nobody else
puts one there (`IdleSlot`), so whichever target the flag is cleared with ends the policy.
`ViolationStopsPolicy` and `ImplementsSafeModes` rest on `ModeInv`, which has four
parts that need each other: a policy step is taken in RLControl, and a raised violation is on its way
to `Run` (`ViolationInv`); a stand-up's slot holds no request for damping (`SlotInv`);
a tick's command asks for RLControl or for nothing (`TargetInv`); `phase1_done_` after
`OnEnter` means that the spline's time is up (`SplineInv`). With it every step of a
thread maps to a step of `SafeModes` or to a stutter. `FramesInRange` rests on `FrameInv`: every policy
is at a frame of its own motion, except that a reset in the middle of `step_motion_frame` may
leave one that is no longer active at a frame of policy 0's (`FramesInv`), and what a filler
or `step_motion_frame` has read so far agrees but for a reset (`AskInv`, `StepInv`).
`RefsOfOnePolicy` needs that the active policy is the last one referred to, or policy 0
(`ActiveInv`). What the other threads can do to the
state machine is stated once (`OtherSteps`) and used by each of them.

**SocketCan.** `TypeCorrect`; `SleepCorrect`, by an invariant that follows the
notification from the push to the wake-up; `CloseCorrect`; `FifoCorrect`, the
refinement of `LossyFifo`, by the invariant that a frame is in flight exactly from
pop to the end of its writes (`FlightInv`).

**RobotInterface.** `TypeCorrect` needs `BatchInv` (who holds `motors_mutex_` is at a
batch, and a free mutex means that all tasks have ended). `VerdictCorrect`:
`CountInv` bounds the counter by the commands that brought no answer, give or take
the command between transmit and count. `JointsCorrect`: `JointInv` ties the owner of
`joint_mutex_` to the position in its function, `ScriptInv` lists these positions,
and `OfflineInv` says that the exception is the last thing the control thread does.
`PowerCorrect`: `PowerInv` says what can be left of each batch and that a motor with
no switch frame to come ends up as it was told; it needs lemmas on what appending,
delivering and losing a frame does to the last switch frame of a channel.

**ImuDriver.** `TypeCorrect`: the buffer stays shorter than a frame.
`FrameBeganCorrect` follows the first four bytes through `parse_byte`; it needs that a
frame is longer than its header.

`SourceCorrect` is the refinement of `AttitudeSource`, under the hypothesis
`MaxLost < SubLen`: the line damages fewer bytes of one frame than a sub-frame has, and as
many frames as it likes. The hypothesis is sharp (section 3: a whole sub-frame lost). The
argument is that a CRC is known by its place. What is sent is a sequence of sub-frames, so
a byte that is a CRC is followed by one byte and then whole sub-frames (`Framed`), and one
made from an acceleration is the first of its sample (`WholeAcc`).
`SourceInv` then says: when the CRC of the first part is in the buffer, the bytes collected
and those on the line make whole sub-frames, give or take the bytes lost since
(`DriftInv`). If none was lost (`InStep`), each byte collected since is the one sent at its
place or a corrupted one (`Collected`). One byte before its end a frame that can become valid
is in step, because its third CRC is (`TrackAwaits`); from the second whole sample on it is of
one sample (`OneSample`), and that is the newest, not yet published (`Newest`). The next
sample may overtake the last byte (a lost end byte): then the frame is of the sample
before (`AwaitsLast`), which the backlog still holds. `CompleteFrame` is then `Publish`,
and before the set-up `Garble` or `Publish` (`StepComplete`).

**Observation.** `StackCorrect` is about the operators alone: whatever `frame_stack` and
the order, one call of `stack_frames` moves every element by one frame and puts the new
ones last; it rests on one lemma per field (`FrameField`, `AngField`, `GravityField`).
`CtlInv` says which steps a thread can be at in which of its works. `FreshCorrect`: what
is still to be converted, and each half of each buffer once a tick has passed it, is not
older than the tick (`FreshInv`), whoever writes it again. `WholeCorrect`: alone with
the buffers, a tick finds in each what it put there (`WholeInv`). `HistoryCorrect`: the
flag is set for a new episode and cleared after its first tick (`FlagInv`), and the input
holds the frames in their places (`Placed`), by `StackCorrect`.

**Only model-checked.** All liveness (`DampingReturns`, `StandUpFinishes`,
`ResetReachesIdle`, `ShutdownCompletes`, `FramesGetTheirTurn`, `CloseReturns`,
`CallReturns`, `OfflineEndsRun`, `Resynchronises`, `DestructorReturns`), which the prover cannot treat under
fairness; and the five violations.

## 5. What is not modelled

- Joint positions, torques, network outputs, limits, the velocity commands, perception,
  messages published, logging: data that no property tells apart. That a check or a
  model may throw is modelled.
- A joystick message with several buttons pressed is a sequence of calls.
- The service `read_joints` and, in `InferenceNode`, `refresh_joints` and
  `clear_errors` (both are in `RobotInterface`); `read_imu` is in `Observation`.
  `publish_joint_states` moves a vector another thread may be reading
  (`ros_interface.cpp:467`), which is undefined behaviour.
- In `RobotInterface`: the test of `is_running_` before `reset_joints` and `set_zeros`
  (it is in `InferenceNode`, where it is shown to exclude nothing); whether the motor
  took the control mode, `error_id_`, the decoding of answers; position and speed
  commands and parameter access, which nothing calls. `ThreadPool` is not in this
  repository's tree: it is taken to run all tasks and to rethrow an exception after
  they have ended.
- In `SocketCan`: the steps of `open` before the threads start; thread priorities;
  `clear_can_callbacks` and `set_key_extractor`, which nothing calls; a transmit
  during close (a driver holds its interface).
- The interface between `SocketCan` and `RobotInterface` is the lossy FIFO; the two
  are not checked as one state space.
- In `ImuDriver`: the rate and save commands, `error_count_` (logged only), the terminal
  settings, the conversion to a quaternion; reading a chunk is reading its bytes.
- In `Observation`: `q_body_`, which is written and read with `quat_buf_`; the other
  observations and the extra ones, motions, several policies (they are in
  `PolicyManager`), the reading of the buffers by `publish_imu` for its message.
- `IMUSocketCAN` (used by no driver), the Python bindings (no state), ONNX Runtime,
  yaml-cpp and cnpy (vendored; they are most of the lines of the repository).

## 6. Plan

Done, in this order: `StateMachine`, `PolicyManager`, `InferenceNode` with
`SafeModes` and the proofs; `SocketCan` with `LossyFifo` and the proofs;
`RobotInterface` and its proofs; `ImuDriver` with `AttitudeSource` and the proofs;
`Observation` and its proofs.

Possible next steps:

1. `ClosedAfterThreads` extended to callbacks into a driver that is being destroyed.
2. A composition of `RobotInterface` over `SocketCan`'s queue for one motor, to see
   the stranded disable frame at the motor.
3. Velocity commands: the joystick, the command subscriber and the limits, with the
   observation that reads them.
