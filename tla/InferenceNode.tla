--------------------------- MODULE InferenceNode ---------------------------
(***************************************************************************)
(* The inference node: what its threads do to the state machine and to the *)
(* policies, one shared access at a time.                                  *)
(*                                                                         *)
(*   inference  one tick is build_obs, build_cmd, StateMachine::Run, the   *)
(*              posture check, publishing; mode_mutex_ is held from Run on *)
(*   control    the alpha filter and RobotInterface::apply_action          *)
(*   executor   one ROS callback or service call at a time (the node has   *)
(*              one mutually exclusive callback group); when the context   *)
(*              is shut down main() goes on from here to the destructor    *)
(*                                                                         *)
(* Each thread has a program counter naming the access it makes next.      *)
(* is_init_ stands for the robot; RobotInterface's own locks and threads,  *)
(* velocity commands, perception and joint values are not in this module.  *)
(***************************************************************************)
EXTENDS StateMachine, PolicyManager

CONSTANTS
    Callbacks,   \* the joystick buttons and services that may be used
    MaxTimeStep  \* bound: how far obs.time moves from one tick to the next

Buttons  == {"A", "B", "X", "LB", "RB"}
Services == {"set_zeros", "reset_joints", "start_inference",
             "stop_inference", "init_motors", "deinit_motors"}

ASSUME NodeAssumption ==
    /\ Callbacks \subseteq Buttons \cup Services
    /\ MaxTimeStep \in Nat \ {0}

VARIABLES
    is_interrupt, is_motion_policy, current_motion_policy_idx,
    is_init,        \* robot_->is_init_
    ok,             \* rclcpp::ok()
    inf,            \* inference thread: program counter
    target_mode,    \*   cmd.target_mode
    ref,            \*   what RLControlState::Run holds references to
    ctl,            \* control thread: program counter
    exe,            \* executor / main thread: program counter
    want,           \*   argument of the ForceTransition call it is in
    job,            \*   what to do when the runtime state has been reset
    \* History of the execution, read by no action
    paused,         \* whether a reset has asked for Idle (see Pauses)
    tripped         \* RLControl raised a safety request and is still on

flagVars == <<is_interrupt, is_motion_policy, current_motion_policy_idx>>
infVars  == <<inf, target_mode, ref>>
exeVars  == <<exe, want, job>>
ghosts   == <<paused, tripped>>
vars     == <<smVars, pmVars, flagVars, is_init, ok, infVars, ctl, exeVars,
              ghosts>>

AssembleSteps == {"rl_assemble", "rl_asked", "rl_ask"}
MotionSteps == {"rl_motion", "rl_has", "rl_loader", "rl_frame", "rl_advance"}
PolicySteps == {"rl_state", "rl_config", "rl_runner", "rl_first", "rl_output"}
               \cup AssembleSteps \cup MotionSteps
InModeMutex == {"clear", "take", "enter", "run", "next", "judge",
                "judge_store", "judge_pend", "viol_store", "viol_pend"}
               \cup PolicySteps
InferenceSteps == {"top", "cmd", "force?", "done"} \cup InModeMutex
ResetSteps == {"r_running", "r_flags", "r_store", "r_pend", "r_late",
               "r_active", "r_act", "r_frames", "r_first"}
ExecutorSteps == {"spin", "decide", "store", "pend", "late", "toggle",
                  "exclusive", "join", "fini", "exit"} \cup ResetSteps
Jobs == Buttons \cup Services \cup {"none", "exit"}

(* A stand-up has been asked for since; the reset's ForceTransition has    *)
(* returned; and a tick has written a policy output after that.            *)
Pauses == {"no", "asked", "late"}

(* The policies that a tick has been given data of, and the motion frame   *)
(* it is stepping to: state, configuration and model of RLControlState,    *)
(* the loader last taken, what a filler was given beside it, the state     *)
(* that step_motion_frame steps.                                           *)
NoRef == [st |-> 0, cfg |-> 0, runner |-> 0, loader |-> 0, asked |-> 0,
          stepped |-> 0, frame |-> 0]
Refs  == [st : Policies, cfg : Policies, runner : Policies,
          loader : Policies, asked : Policies, stepped : Policies,
          frame : Nat]

FlagTypeOK ==
    /\ is_interrupt \in BOOLEAN
    /\ is_motion_policy \in BOOLEAN
    /\ current_motion_policy_idx \in Nat
    /\ HasMotionPolicy => current_motion_policy_idx < Len(MotionIndices)

InferenceTypeOK ==
    /\ inf \in InferenceSteps
    /\ target_mode \in StateName
    /\ ref \in Refs
    /\ inf \in {"rl_asked", "rl_ask", "rl_frame"} => HasMotion(ref.loader)

ExecutorTypeOK ==
    /\ exe \in ExecutorSteps
    /\ want \in {kIdle, kStandUp}
    /\ job \in Jobs

NodeTypeOK ==
    /\ is_init \in BOOLEAN
    /\ ok \in BOOLEAN
    /\ ctl \in {"top", "send", "done"}
    /\ paused \in Pauses
    /\ tripped \in BOOLEAN

TypeOK == SMTypeOK /\ PMTypeOK /\ FlagTypeOK /\ InferenceTypeOK
          /\ ExecutorTypeOK /\ NodeTypeOK

Init ==
    /\ SMInit
    /\ PMInit
    /\ is_interrupt = FALSE
    /\ is_motion_policy = FALSE
    /\ current_motion_policy_idx = 0
    /\ is_init = FALSE
    /\ ok = TRUE
    /\ inf = "top"
    /\ target_mode = kIdle
    /\ ref = NoRef
    /\ ctl = "top"
    /\ exe = "spin"
    /\ want = kIdle
    /\ job = "none"
    /\ paused = "asked"
    /\ tripped = FALSE

---------------------------------------------------------------------------
(* The inference thread.                                                   *)

InfAt(from, to) == inf = from /\ inf' = to

InfFrame == UNCHANGED <<flagVars, is_init, exeVars, ctl>>

(* build_obs: get_joint_q throws while the motors are not initialised, and *)
(* the tick ends there, before the state machine runs.  (First with a bug: *)
(* a loop that does not look at ok.)                                       *)
BuildObs_IgnoresShutdown ==
    /\ is_init
    /\ InfAt("top", "cmd")
    /\ \E d \in 1 .. MaxTimeStep : AdvanceClock(d)
    /\ ref' = NoRef
    /\ UNCHANGED <<current_state_name, requestVars, phase1_done, is_running,
                   act, pmVars, ok, target_mode, ghosts>>
    /\ InfFrame

BuildObs ==
    /\ ok
    /\ is_init
    /\ InfAt("top", "cmd")
    /\ \E d \in 1 .. MaxTimeStep : AdvanceClock(d)
    /\ ref' = NoRef
    /\ UNCHANGED <<current_state_name, requestVars, phase1_done, is_running,
                   act, pmVars, ok, target_mode, ghosts>>
    /\ InfFrame

BuildCmd ==
    /\ InfAt("cmd", "force?")
    /\ target_mode' = IF is_motion_policy \/ is_interrupt THEN kRLControl
                      ELSE current_state_name
    /\ UNCHANGED <<smVars, pmVars, ok, ref, ghosts>>
    /\ InfFrame

(* mode_mutex_ is taken with this step (LB, its other user, has and leaves *)
(* it within one step), then Run looks for a request.  (RunState also with *)
(* a bug: the state runs whether or not there is one.)                     *)
RunForced ==
    /\ force_pending
    /\ InfAt("force?", "clear")
    /\ UNCHANGED <<smVars, pmVars, ok, target_mode, ref, ghosts>>
    /\ InfFrame

RunState_IgnoresRequest ==
    /\ InfAt("force?",
             IF current_state_name = kRLControl THEN "rl_state" ELSE "run")
    /\ UNCHANGED <<smVars, pmVars, ok, target_mode, ref, ghosts>>
    /\ InfFrame

RunState ==
    /\ ~force_pending
    /\ InfAt("force?",
             IF current_state_name = kRLControl THEN "rl_state" ELSE "run")
    /\ UNCHANGED <<smVars, pmVars, ok, target_mode, ref, ghosts>>
    /\ InfFrame

RunClear ==
    /\ InfAt("clear", "take")
    /\ ClearPending
    /\ UNCHANGED <<current_state_name, forced_next_state, stateVars,
                   is_running, act, pmVars, ok, target_mode, ref, ghosts>>
    /\ InfFrame

(* OnExit of the old state and the new name; OnEnter follows.              *)
SwitchTo(s) ==
    /\ OnExit
    /\ current_state_name' = s
    /\ tripped' = FALSE
    /\ UNCHANGED <<requestVars, stateVars, act>>

RunTake ==
    /\ inf = "take"
    /\ IF ForcedTarget # current_state_name
       THEN SwitchTo(ForcedTarget) /\ inf' = "enter"
       ELSE inf' = "judge" /\ UNCHANGED <<smVars, tripped>>
    /\ UNCHANGED <<pmVars, ok, target_mode, ref, paused>>
    /\ InfFrame

(* A bug: the request flag is cleared when the transition is complete.     *)
RunEnter_ClearsRequest ==
    /\ InfAt("enter", "judge")
    /\ OnEnter(current_state_name)
    /\ ClearPending
    /\ UNCHANGED <<current_state_name, forced_next_state, act, pmVars, ok,
                   target_mode, ref, ghosts>>
    /\ InfFrame

RunEnter ==
    /\ InfAt("enter", "judge")
    /\ OnEnter(current_state_name)
    /\ UNCHANGED <<current_state_name, requestVars, act, pmVars, ok,
                   target_mode, ref, ghosts>>
    /\ InfFrame

RunSimpleState ==
    /\ InfAt("run", "next")
    /\ \/ current_state_name = kIdle /\ IdleRun
       \/ current_state_name = kStandUp /\ StandUpRun
       \/ current_state_name = kJointDamping /\ JointDampingRun
    /\ UNCHANGED <<current_state_name, requestVars, is_running, pmVars, ok,
                   target_mode, ref, ghosts>>
    /\ InfFrame

(* RLControlState::Run reads active_idx_ for the runtime state, again for  *)
(* the configuration and again for the model.                              *)
PolicyRef(from, to, field) ==
    /\ InfAt(from, to)
    /\ ref' = [ref EXCEPT ![field] = active_idx]
    /\ UNCHANGED <<smVars, pmVars, ok, target_mode, ghosts>>
    /\ InfFrame

RLState  == PolicyRef("rl_state", "rl_config", "st")
RLConfig == PolicyRef("rl_config", "rl_runner", "cfg")
RLRunner == PolicyRef("rl_runner", "rl_assemble", "runner")

(* The fillers of the layout, in its order.  Those of the last action and  *)
(* of the motion ask for the active policy anew; the latter reads it for   *)
(* the loader, returns if there is none, and reads it again for the state  *)
(* whose frame it asks the loader for.                                     *)
RLLastAction == PolicyRef("rl_assemble", "rl_assemble", "asked")

RLLoader ==
    PolicyRef("rl_assemble",
              IF HasMotion(active_idx) THEN "rl_asked" ELSE "rl_assemble",
              "loader")

RLAsked == PolicyRef("rl_asked", "rl_ask", "asked")

(* get_pos or get_vel of ref.loader, for states[ref.asked].motion_frame.   *)
RLAsk ==
    /\ InfAt("rl_ask", "rl_assemble")
    /\ UNCHANGED <<smVars, pmVars, ok, target_mode, ref, ghosts>>
    /\ InfFrame

(* All have run; or one of them found the gravity vector or the joint      *)
(* limits violated on fresh sensor values, calls back and then throws; or  *)
(* one throws, with no call, because the motors have been deinitialised    *)
(* since build_obs.                                                        *)
RLAssemble ==
    /\ \/ InfAt("rl_assemble", IF HasMotion(ref.cfg) THEN "rl_motion"
                               ELSE "rl_first")
       \/ InfAt("rl_assemble", "viol_store")
       \/ ~is_init /\ InfAt("rl_assemble", "top")
    /\ UNCHANGED <<smVars, pmVars, ok, target_mode, ref, ghosts>>
    /\ InfFrame

(* step_motion_frame reads active_idx_ for the state, for the configuration*)
(* and for the loader; without a motion or a loader there is no step.      *)
RLMotion == PolicyRef("rl_motion", "rl_has", "stepped")

RLHasMotion ==
    /\ InfAt("rl_has", IF HasMotion(active_idx) THEN "rl_loader"
                       ELSE "rl_first")
    /\ UNCHANGED <<smVars, pmVars, ok, target_mode, ref, ghosts>>
    /\ InfFrame

RLMotionLoader ==
    PolicyRef("rl_loader",
              IF HasMotion(active_idx) THEN "rl_frame" ELSE "rl_first",
              "loader")

RLFrame ==
    /\ InfAt("rl_frame", "rl_advance")
    /\ ref' = [ref EXCEPT !.frame =
                 SteppedFrame(ref.loader, states[ref.stepped].motion_frame)]
    /\ UNCHANGED <<smVars, pmVars, ok, target_mode, ghosts>>
    /\ InfFrame

RLAdvance ==
    /\ InfAt("rl_advance", "rl_first")
    /\ states' = [states EXCEPT ![ref.stepped].motion_frame = ref.frame]
    /\ UNCHANGED <<smVars, active_idx, ok, target_mode, ref, ghosts>>
    /\ InfFrame

RLFirst ==
    /\ InfAt("rl_first", "rl_output")
    /\ states' = [states EXCEPT ![ref.st].is_first_frame = FALSE]
    /\ UNCHANGED <<smVars, active_idx, ok, target_mode, ref, ghosts>>
    /\ InfFrame

(* runner.run() and, under act_mutex_, the write of act.                   *)
RLOutput ==
    /\ InfAt("rl_output", "next")
    /\ act' = "policy"
    /\ paused' = IF paused = "asked" THEN "late" ELSE paused
    /\ UNCHANGED <<current_state_name, requestVars, stateVars, is_running,
                   pmVars, ok, target_mode, ref, tripped>>
    /\ InfFrame

(* The model throws (an Ort::Exception is no runtime_error): shutdown.     *)
RLFault ==
    /\ InfAt("rl_output", "done")
    /\ ok' = FALSE
    /\ UNCHANGED <<smVars, pmVars, target_mode, ref, ghosts>>
    /\ InfFrame

RunNext ==
    /\ inf = "next"
    /\ LET next == NextStateName(target_mode) IN
       IF next # current_state_name
       THEN SwitchTo(next) /\ inf' = "enter"
       ELSE inf' = "judge" /\ UNCHANGED <<smVars, tripped>>
    /\ UNCHANGED <<pmVars, ok, target_mode, ref, paused>>
    /\ InfFrame

(* LoseControlJudge on the state the machine is in now; then publishing.   *)
Judge ==
    /\ \/ InfAt("judge", "top")
       \/ LosesControl(TRUE) /\ InfAt("judge", "judge_store")
    /\ UNCHANGED <<smVars, pmVars, ok, target_mode, ref, ghosts>>
    /\ InfFrame

(* ForceTransition(kJointDamping), from the judge or from the monitor; the *)
(* monitor's exception then ends the tick, the judge's tick publishes.     *)
SafetyStore(from, to) ==
    /\ InfAt(from, to)
    /\ StoreForced(kJointDamping)
    /\ tripped' = TRUE
    /\ UNCHANGED <<current_state_name, force_pending, stateVars, is_running,
                   act, pmVars, ok, target_mode, ref, paused>>
    /\ InfFrame

SafetyPend(from) ==
    /\ InfAt(from, "top")
    /\ StorePending
    /\ UNCHANGED <<current_state_name, forced_next_state, stateVars,
                   is_running, act, pmVars, ok, target_mode, ref, ghosts>>
    /\ InfFrame

JudgeStore     == SafetyStore("judge_store", "judge_pend")
JudgePend      == SafetyPend("judge_pend")
ViolationStore == SafetyStore("viol_store", "viol_pend")
ViolationPend  == SafetyPend("viol_pend")

InferenceEnd ==
    /\ ~ok
    /\ InfAt("top", "done")
    /\ UNCHANGED <<smVars, pmVars, ok, target_mode, ref, ghosts>>
    /\ InfFrame

Inference ==
    \/ BuildObs \/ BuildCmd \/ RunForced \/ RunState \/ RunClear \/ RunTake
    \/ RunEnter \/ RunSimpleState \/ RLState \/ RLConfig \/ RLRunner
    \/ RLLastAction \/ RLLoader \/ RLAsked \/ RLAsk \/ RLAssemble
    \/ RLMotion \/ RLHasMotion \/ RLMotionLoader \/ RLFrame \/ RLAdvance
    \/ RLFirst \/ RLOutput \/ RLFault \/ RunNext \/ Judge \/ JudgeStore
    \/ JudgePend \/ ViolationStore \/ ViolationPend \/ InferenceEnd

---------------------------------------------------------------------------
(* The control thread.  It sends whatever act_ holds, in every mode.       *)

CtlFrame == UNCHANGED <<smVars, pmVars, flagVars, is_init, infVars, exeVars,
                        ghosts>>

ApplyAction == ok /\ is_init /\ ctl = "top" /\ ctl' = "send"
               /\ UNCHANGED ok /\ CtlFrame

(* RobotInterface::apply_action checks is_init_ again.                     *)
Send == ctl = "send" /\ ctl' = "top" /\ UNCHANGED ok /\ CtlFrame

(* A motor has not answered for too long: the exception shuts ROS down.    *)
MotorOffline == is_init /\ ctl = "send" /\ ctl' = "done" /\ ok' = FALSE
                /\ CtlFrame

ControlEnd == ~ok /\ ctl = "top" /\ ctl' = "done" /\ UNCHANGED ok /\ CtlFrame

Control == ApplyAction \/ Send \/ MotorOffline \/ ControlEnd

---------------------------------------------------------------------------
(* The executor.                                                           *)

ExeFrame == UNCHANGED <<infVars, ctl>>

(* A callback starts: cb is used, the executor goes on at step to.         *)
Call(cb, to) ==
    /\ ok
    /\ cb \in Callbacks
    /\ exe = "spin"
    /\ exe' = to
    /\ job' = IF to = "spin" THEN job ELSE cb
    /\ UNCHANGED ok

CallOnly == /\ UNCHANGED <<smVars, pmVars, flagVars, is_init, ghosts>>
            /\ ExeFrame

(* X: to Idle, reset, then initialise or deinitialise the motors.          *)
ButtonX == Call("X", "store") /\ want' = kIdle /\ CallOnly

ButtonA == Call("A", "decide") /\ UNCHANGED want /\ CallOnly
ButtonB == Call("B", "decide") /\ UNCHANGED want /\ CallOnly

(* The mode the handler of A or B read decides; it may change before the   *)
(* request is stored.                                                      *)
Return == exe' = "spin" /\ UNCHANGED <<want, job>>

Request(s) == exe' = "store" /\ want' = s /\ UNCHANGED job

DecideA ==
    /\ exe = "decide"
    /\ job = "A"
    /\ \/ ~is_init /\ Return
       \/ is_init /\ current_state_name = kIdle /\ Request(kStandUp)
       \/ is_init /\ current_state_name \in {kStandUp, kRLControl}
            /\ Request(kIdle)
       \/ is_init /\ current_state_name = kJointDamping /\ Return
    /\ UNCHANGED <<smVars, pmVars, flagVars, is_init, ok, ghosts>>
    /\ ExeFrame

(* In StandUp the handler logs "RL control requested" and records nothing. *)
DecideB ==
    /\ exe = "decide"
    /\ job = "B"
    /\ \/ current_state_name \in {kStandUp, kJointDamping} /\ Return
       \/ current_state_name = kRLControl /\ Request(kIdle)
       \/ current_state_name = kIdle /\ Request(kStandUp)
    /\ UNCHANGED <<smVars, pmVars, flagVars, is_init, ok, ghosts>>
    /\ ExeFrame

(* ForceTransition(s): the first of its two stores to be seen is either    *)
(* the target (the executor is then at pend) or the flag (at late).        *)
FirstStore(at, pend, late, s) ==
    /\ exe = at
    /\ \/ exe' = pend /\ StoreForced(s) /\ UNCHANGED force_pending
       \/ exe' = late /\ StorePending /\ UNCHANGED forced_next_state
    /\ UNCHANGED <<current_state_name, stateVars, is_running, act, pmVars,
                   flagVars, is_init, ok, want, job, tripped>>
    /\ ExeFrame

SecondStore(pend, late, to, s) ==
    /\ exe' = to
    /\ \/ exe = pend /\ StorePending /\ UNCHANGED forced_next_state
       \/ exe = late /\ StoreForced(s) /\ UNCHANGED force_pending
    /\ UNCHANGED <<current_state_name, stateVars, is_running, act, pmVars,
                   flagVars, is_init, ok, want, job, tripped>>
    /\ ExeFrame

ForceStore ==
    /\ FirstStore("store", "pend", "late", want)
    /\ paused' = IF want = kStandUp THEN "no" ELSE paused

(* Every handler that forces Idle resets the runtime state next.           *)
ForcePend ==
    /\ SecondStore("pend", "late",
                   IF want = kIdle THEN "r_running" ELSE "spin", want)
    /\ UNCHANGED paused

(* LB, interrupt configuration.                                            *)
ToggleInterrupt ==
    /\ SupportsInterrupt
    /\ Call("LB", "spin")
    /\ is_interrupt' = ~is_interrupt
    /\ UNCHANGED <<smVars, pmVars, is_motion_policy,
                   current_motion_policy_idx, is_init, want, ghosts>>
    /\ ExeFrame

(* LB, motion configuration, under mode_mutex_.                            *)
ModeMutexFree_NoLock == TRUE

ModeMutexFree == inf \notin InModeMutex

ToggleMotion ==
    /\ ~SupportsInterrupt
    /\ HasMotionPolicy
    /\ Call("LB", "spin")
    /\ ModeMutexFree
    /\ is_motion_policy' = ~is_motion_policy
    /\ LET new_idx == IF is_motion_policy THEN 0
                      ELSE MotionIndices[current_motion_policy_idx + 1]
       IN set_active(new_idx) /\ reset_policy(new_idx)
    /\ UNCHANGED <<smVars, is_interrupt, current_motion_policy_idx, is_init,
                   want, ghosts>>
    /\ ExeFrame

(* RB: the next motion sequence.  (First with a bug in the wrap-around.)   *)
ButtonRB_OffByOne ==
    /\ HasMotionPolicy
    /\ ~is_motion_policy
    /\ Call("RB", "spin")
    /\ current_motion_policy_idx' =
         (current_motion_policy_idx + 1) % (Len(MotionIndices) + 1)
    /\ UNCHANGED <<smVars, pmVars, is_interrupt, is_motion_policy, is_init,
                   want, ghosts>>
    /\ ExeFrame

ButtonRB ==
    /\ HasMotionPolicy
    /\ ~is_motion_policy
    /\ Call("RB", "spin")
    /\ current_motion_policy_idx' =
         (current_motion_policy_idx + 1) % Len(MotionIndices)
    /\ UNCHANGED <<smVars, pmVars, is_interrupt, is_motion_policy, is_init,
                   want, ghosts>>
    /\ ExeFrame

(* set_zeros and reset_joints: check, then work on the motors.             *)
ExclusiveService ==
    /\ \/ Call("set_zeros", "exclusive")
       \/ Call("reset_joints", "exclusive")
    /\ is_init
    /\ ~is_running
    /\ UNCHANGED want
    /\ CallOnly

ExclusiveDone ==
    /\ exe = "exclusive"
    /\ Return
    /\ UNCHANGED ok
    /\ CallOnly

StartInference ==
    /\ Call("start_inference", "spin")
    /\ ~is_running
    /\ is_running' = TRUE
    /\ UNCHANGED <<current_state_name, requestVars, stateVars, act, pmVars,
                   flagVars, is_init, want, ghosts>>
    /\ ExeFrame

StopInference ==
    /\ Call("stop_inference", "spin")
    /\ is_running
    /\ is_running' = FALSE
    /\ UNCHANGED <<current_state_name, requestVars, stateVars, act, pmVars,
                   flagVars, is_init, want, ghosts>>
    /\ ExeFrame

(* init_motors and deinit_motors refuse to repeat themselves, and leave    *)
(* the state machine where it is.                                          *)
MotorService ==
    /\ \/ Call("init_motors", "toggle") /\ ~is_init
       \/ Call("deinit_motors", "toggle") /\ is_init
    /\ UNCHANGED want
    /\ CallOnly

(* RobotInterface::init_motors or deinit_motors has run on every motor.    *)
ToggleMotors ==
    /\ exe = "toggle"
    /\ Return
    /\ is_init' = ~is_init
    /\ UNCHANGED <<smVars, pmVars, flagVars, ok, ghosts>>
    /\ ExeFrame

---------------------------------------------------------------------------
(* reset_runtime_state, without mode_mutex_.                               *)

ResetRunning ==
    /\ exe = "r_running"
    /\ exe' = "r_flags"
    /\ is_running' = FALSE
    /\ UNCHANGED <<current_state_name, requestVars, stateVars, act, pmVars,
                   flagVars, is_init, ok, want, job, ghosts>>
    /\ ExeFrame

ResetFlags ==
    /\ exe = "r_flags"
    /\ exe' = "r_store"
    /\ is_interrupt' = FALSE
    /\ is_motion_policy' = FALSE
    /\ current_motion_policy_idx' = 0
    /\ UNCHANGED <<smVars, pmVars, is_init, ok, want, job, ghosts>>
    /\ ExeFrame

(* A bug: the reset leaves the request to the handler that called it.      *)
ResetStore_Skipped ==
    /\ exe = "r_store"
    /\ exe' = "r_active"
    /\ paused' = IF paused = "no" THEN "asked" ELSE paused
    /\ UNCHANGED <<smVars, pmVars, flagVars, is_init, ok, want, job, tripped>>
    /\ ExeFrame

ResetStore ==
    /\ FirstStore("r_store", "r_pend", "r_late", kIdle)
    /\ UNCHANGED paused

ResetPend ==
    /\ SecondStore("r_pend", "r_late", "r_active", kIdle)
    /\ paused' = IF paused = "no" THEN "asked" ELSE paused

ResetActive ==
    /\ exe = "r_active"
    /\ exe' = "r_act"
    /\ set_active(0)
    /\ UNCHANGED <<smVars, states, flagVars, is_init, ok, want, job, ghosts>>
    /\ ExeFrame

ResetAct ==
    /\ exe = "r_act"
    /\ exe' = "r_frames"
    /\ act' = "default"
    /\ UNCHANGED <<current_state_name, requestVars, stateVars, is_running,
                   pmVars, flagVars, is_init, ok, want, job, ghosts>>
    /\ ExeFrame

(* reset_all, in two steps: an RL tick may still write in between.         *)
ResetFrames ==
    /\ exe = "r_frames"
    /\ exe' = "r_first"
    /\ reset_frames
    /\ UNCHANGED <<smVars, active_idx, flagVars, is_init, ok, want, job,
                   ghosts>>
    /\ ExeFrame

ResetFirst ==
    /\ exe = "r_first"
    /\ exe' = CASE job = "X"    -> "toggle"
                [] job = "exit" -> "fini"
                [] OTHER        -> "spin"
    /\ reset_first_frames
    /\ UNCHANGED <<smVars, active_idx, flagVars, is_init, ok, want, job,
                   ghosts>>
    /\ ExeFrame

---------------------------------------------------------------------------
(* The end of main(): the context is shut down (by a signal or by one of   *)
(* the threads), spin() returns and the destructor joins the threads,      *)
(* resets and lets go of the robot, whose destructor disables the motors.  *)

Signal ==
    /\ ok
    /\ ok' = FALSE
    /\ UNCHANGED <<smVars, pmVars, flagVars, is_init, exeVars, ghosts>>
    /\ ExeFrame

LeaveSpin ==
    /\ ~ok
    /\ exe = "spin"
    /\ exe' = "join"
    /\ UNCHANGED <<want, job, ok>>
    /\ CallOnly

JoinThreads ==
    /\ exe = "join"
    /\ inf = "done"
    /\ ctl = "done"
    /\ exe' = "r_running"
    /\ job' = "exit"
    /\ UNCHANGED <<want, ok>>
    /\ CallOnly

ReleaseRobot ==
    /\ exe = "fini"
    /\ exe' = "exit"
    /\ is_init' = FALSE
    /\ UNCHANGED <<smVars, pmVars, flagVars, ok, want, job, ghosts>>
    /\ ExeFrame

Terminated == exe = "exit" /\ UNCHANGED vars

---------------------------------------------------------------------------
(* What the executor starts is up to the operator; what it has started, it *)
(* finishes.                                                               *)
OperatorCall ==
    \/ ButtonX \/ ButtonA \/ ButtonB \/ ToggleInterrupt \/ ToggleMotion
    \/ ButtonRB \/ ExclusiveService \/ StartInference \/ StopInference
    \/ MotorService

Executor ==
    \/ DecideA \/ DecideB \/ ForceStore \/ ForcePend \/ ExclusiveDone
    \/ ToggleMotors \/ ResetRunning \/ ResetFlags \/ ResetStore \/ ResetPend
    \/ ResetActive \/ ResetAct \/ ResetFrames \/ ResetFirst \/ LeaveSpin
    \/ JoinThreads \/ ReleaseRobot

Next == Inference \/ Control \/ OperatorCall \/ Executor \/ Signal
        \/ Terminated

Spec == Init /\ [][Next]_vars

(* Each thread is a loop the scheduler keeps running, and the sources of a *)
(* layout come to an end.                                                  *)
FairSpec ==
    /\ Spec
    /\ WF_vars(Inference)
    /\ SF_vars(RLAssemble)
    /\ WF_vars(Control)
    /\ WF_vars(Executor)

---------------------------------------------------------------------------
(* Safety.                                                                 *)

(* A reset that has asked for Idle is not lost, although a flag that is    *)
(* seen ahead of its target is cleared with the target before: until a     *)
(* stand-up is asked for, the robot is in Idle or in damping, or the       *)
(* request is pending or being taken.  A handler's request alone may bring *)
(* the robot from RLControl to StandUp; the one of reset_runtime_state,    *)
(* which repeats it, does not let it stay there.                           *)
PauseHonoured ==
    paused # "no" =>
      \/ current_state_name \in {kIdle, kJointDamping}
      \/ force_pending
      \/ inf = "take"

(* A tick that was under way when the reset asked for Idle writes its      *)
(* output after the default posture; no other tick of the policy follows.  *)
OneOutputAfterPause == paused = "late" => inf \notin PolicySteps

(* Once the monitor or the posture check has raised a violation, no policy *)
(* step is taken again before RLControl is left.                           *)
NoPolicyAfterViolation == tripped => inf \notin PolicySteps

(* The references one RL tick holds, those of its fillers and those of     *)
(* step_motion_frame included, disagree only where a reset has made policy *)
(* 0 active in the middle: LB's switch never splits a tick.                *)
RefsMixOnlyByReset ==
    /\ inf \in PolicySteps \ {"rl_state", "rl_config"} =>
         ref.cfg \in {ref.st, 0}
    /\ inf \in PolicySteps \ {"rl_state", "rl_config", "rl_runner"} =>
         /\ ref.runner \in {ref.cfg, 0}
         /\ {ref.loader, ref.asked, ref.stepped} \subseteq {ref.runner, 0}

(* However stepping, switching and resetting interleave, a loader is asked *)
(* for a frame it has.  The exception needs a motion on policy 0: a reset  *)
(* between the two reads of a filler asks for the frame of that motion.    *)
MotionFrameInRange ==
    inf = "rl_ask" =>
      \/ states[ref.asked].motion_frame < MotionFrames[ref.loader]
      \/ ref.asked = 0 /\ ref.loader # 0 /\ HasMotion(0)

(* The node keeps the promises of SafeModes.  The spline counts as finished*)
(* only from OnEnter on: before it phase1_done_ is the last stand-up's.    *)
Modes == INSTANCE SafeModes WITH
    mode  <- current_state_name,
    ready <- current_state_name = kStandUp /\ phase1_done /\ inf # "enter",
    out   <- act

KeepsSafeModes == Modes!Spec

---------------------------------------------------------------------------
(* Liveness, while the motors stay initialised and ROS stays up.           *)

(* Damping ends by itself.                                                 *)
DampingReturns ==
    current_state_name = kJointDamping ~>
      (current_state_name # kJointDamping \/ ~is_init \/ ~ok)

(* A stand-up finishes its spline unless it is given up.                   *)
StandUpFinishes ==
    current_state_name = kStandUp ~>
      (phase1_done \/ current_state_name # kStandUp \/ ~is_init \/ ~ok)

(* A pause, whatever the safety requests it competes with, ends in Idle.   *)
ResetReachesIdle ==
    exe = "r_act" ~> (current_state_name = kIdle \/ ~is_init \/ ~ok)

(* After the context is shut down both threads end, and main gets to the   *)
(* destructor that disables the motors.                                    *)
ShutdownCompletes == ~ok ~> (exe = "exit" /\ ~is_init)

---------------------------------------------------------------------------
(* What comments and messages of the code promise and the code does not.   *)

(* "the next tick will be in JointDamping": a violation is answered by     *)
(* JointDamping, not by the mode a button asked for.                       *)
SafetyStopIsDamping ==
    [][tripped /\ current_state_name' # current_state_name =>
         current_state_name' = kJointDamping]_vars

(* "Inference is running, cannot set zeros.": no exclusive motor service   *)
(* works while the policy is in control.                                   *)
ServiceExcludesPolicy ==
    exe = "exclusive" => current_state_name # kRLControl

(* "reset on policy switch / restart": RLControl starts with the active    *)
(* policy's runtime state fresh.                                           *)
RestartIsFresh ==
    [][current_state_name' = kRLControl /\ current_state_name # kRLControl =>
         states[active_idx] = FreshState]_vars
===========================================================================
