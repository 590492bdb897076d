------------------------ MODULE InferenceNodeProofs ------------------------
(***************************************************************************)
(* What holds of InferenceNode for every value of its constants.           *)
(***************************************************************************)
EXTENDS InferenceNode, TLAPS

USE DEF kIdle, kStandUp, kRLControl, kJointDamping, StateName, AssembleSteps,
        MotionSteps

---------------------------------------------------------------------------
(* Type correctness.                                                       *)

LEMMA ZeroIsPolicy == 0 \in Policies
  BY PolicyAssumption DEF Policies

LEMMA InitType == Init => TypeOK
<1> SUFFICES ASSUME Init PROVE TypeOK
  OBVIOUS
<1>1. SMTypeOK
  BY DurationAssumption DEF Init, SMInit, SMTypeOK, ActTag, Unset
<1>2. PMTypeOK
  BY ZeroIsPolicy DEF Init, PMInit, PMTypeOK, FreshState, RuntimeState
<1>3. FlagTypeOK
  BY PolicyAssumption DEF Init, FlagTypeOK, HasMotionPolicy
<1>4. InferenceTypeOK
  BY ZeroIsPolicy DEF Init, InferenceTypeOK, InferenceSteps, NoRef, Refs
<1>5. ExecutorTypeOK
  BY DEF Init, ExecutorTypeOK, ExecutorSteps, Jobs
<1>6. NodeTypeOK
  BY DEF Init, NodeTypeOK, Pauses
<1> QED
  BY <1>1, <1>2, <1>3, <1>4, <1>5, <1>6 DEF TypeOK

LEMMA NextStateType ==
  ASSUME current_state_name \in StateName, NEW t
  PROVE  NextStateName(t) \in StateName
<1>1. CASE current_state_name = kIdle
  BY <1>1 DEF NextStateName
<1>2. CASE current_state_name = kStandUp
  BY <1>2 DEF NextStateName
<1>3. CASE current_state_name = kRLControl
  BY <1>3 DEF NextStateName
<1>4. CASE current_state_name = kJointDamping
  BY <1>4 DEF NextStateName
<1> QED
  BY <1>1, <1>2, <1>3, <1>4

LEMMA SMTypeStutter == SMTypeOK /\ UNCHANGED smVars => SMTypeOK'
  BY DEF SMTypeOK, smVars, requestVars, stateVars

LEMMA PMTypeStutter == PMTypeOK /\ UNCHANGED pmVars => PMTypeOK'
  BY DEF PMTypeOK, pmVars

(* No step of the inference thread touches what the other threads keep.    *)
LEMMA InferenceFrame == Inference => InfFrame
  BY DEF Inference, BuildObs, BuildCmd, RunForced, RunState, RunClear, RunTake,
         RunEnter, RunSimpleState, RLState, RLConfig, RLRunner, PolicyRef,
         RLLastAction, RLLoader, RLAsked, RLAsk, RLHasMotion, RLMotionLoader,
         RLFrame, RLAssemble, RLMotion, RLAdvance, RLFirst, RLOutput, RLFault,
         RunNext, Judge, JudgeStore, JudgePend, ViolationStore, ViolationPend,
         SafetyStore, SafetyPend, InferenceEnd

(* The state machine's part of an inference step.                          *)
LEMMA InferenceSMType == ASSUME SMTypeOK, Inference PROVE SMTypeOK'
<1>1. CASE BuildObs
  <2>1. PICK d \in 1 .. MaxTimeStep : AdvanceClock(d)
    BY <1>1 DEF BuildObs
  <2>2. /\ stand_elapsed' \in {Unset} \cup 0 .. (StandDuration + 1)
        /\ damp_elapsed' \in {Unset} \cup 0 .. DampDuration
    BY <2>1, DurationAssumption, NodeAssumption
    DEF AdvanceClock, Least, Unset, SMTypeOK
  <2> QED
    BY <1>1, <2>2 DEF BuildObs, SMTypeOK, requestVars
<1>2. CASE RunClear
  BY <1>2 DEF RunClear, ClearPending, SMTypeOK, stateVars
<1>3. CASE RunTake
  BY <1>3, SMTypeStutter
  DEF RunTake, SwitchTo, OnExit, ForcedTarget, SMTypeOK, requestVars, stateVars
<1>4. CASE RunEnter
  BY <1>4 DEF RunEnter, OnEnter, SMTypeOK, requestVars
<1>5. CASE RunSimpleState
  <2>1. UNCHANGED <<current_state_name, forced_next_state, force_pending,
                    is_running>>
    BY <1>5 DEF RunSimpleState, requestVars
  <2>2. CASE IdleRun
    BY <2>1, <2>2 DEF IdleRun, SMTypeOK, stateVars
  <2>3. CASE StandUpRun
    BY <2>1, <2>3, DurationAssumption
    DEF StandUpRun, FirstTick, Unset, SMTypeOK, ActTag
  <2>4. CASE JointDampingRun
    BY <2>1, <2>4, DurationAssumption
    DEF JointDampingRun, FirstTick, Unset, SMTypeOK, ActTag
  <2> QED
    BY <1>5, <2>2, <2>3, <2>4 DEF RunSimpleState
<1>6. CASE RLOutput
  BY <1>6 DEF RLOutput, SMTypeOK, ActTag, requestVars, stateVars
<1>7. CASE RunNext
  <2>1. NextStateName(target_mode) \in StateName
    BY NextStateType DEF SMTypeOK
  <2> QED
    BY <1>7, <2>1, SMTypeStutter
    DEF RunNext, SwitchTo, OnExit, SMTypeOK, requestVars, stateVars
<1>8. CASE JudgeStore \/ ViolationStore
  BY <1>8 DEF JudgeStore, ViolationStore, SafetyStore, StoreForced, SMTypeOK,
              stateVars
<1>9. CASE JudgePend \/ ViolationPend
  BY <1>9 DEF JudgePend, ViolationPend, SafetyPend, StorePending, SMTypeOK,
              stateVars
<1>10. CASE UNCHANGED smVars
  BY <1>10, SMTypeStutter
<1> QED
  BY <1>1, <1>2, <1>3, <1>4, <1>5, <1>6, <1>7, <1>8, <1>9, <1>10
  DEF Inference, BuildCmd, RunForced, RunState, RLState, RLConfig, RLRunner,
      PolicyRef, RLLastAction, RLLoader, RLAsked, RLAsk, RLHasMotion,
      RLMotionLoader, RLFrame, RLAssemble, RLMotion, RLAdvance, RLFirst,
      RLFault, Judge, InferenceEnd

LEMMA SteppedFrameType ==
  ASSUME NEW p \in Policies, NEW frame \in Nat, HasMotion(p)
  PROVE  SteppedFrame(p, frame) \in Nat
  BY PolicyAssumption DEF SteppedFrame, HasMotion

(* The steps that read active_idx_ for a reference of the tick.            *)
ReadStep == RLState \/ RLConfig \/ RLRunner \/ RLLastAction \/ RLLoader
            \/ RLAsked \/ RLMotion \/ RLMotionLoader

(* Its program counter and what it holds between steps.                    *)
LEMMA InferenceOwnType ==
  ASSUME SMTypeOK, PMTypeOK, InferenceTypeOK, Inference
  PROVE  InferenceTypeOK'
<1>1. inf' \in InferenceSteps
  BY DEF Inference, BuildObs, BuildCmd, RunForced, RunState, RunClear, RunTake,
         RunEnter, RunSimpleState, RLState, RLConfig, RLRunner, PolicyRef,
         RLLastAction, RLLoader, RLAsked, RLAsk, RLHasMotion, RLMotionLoader,
         RLFrame, RLAssemble, RLMotion, RLAdvance, RLFirst, RLOutput, RLFault,
         RunNext, Judge, JudgeStore, JudgePend, ViolationStore, ViolationPend,
         SafetyStore, SafetyPend, InferenceEnd, InfAt, InferenceSteps,
         InModeMutex, PolicySteps
<1>2. target_mode' \in StateName
  <2>1. CASE BuildCmd
    BY <2>1 DEF BuildCmd, SMTypeOK
  <2>2. CASE UNCHANGED target_mode
    BY <2>2 DEF InferenceTypeOK
  <2> QED
    BY <2>1, <2>2
    DEF Inference, BuildObs, RunForced, RunState, RunClear, RunTake, RunEnter,
        RunSimpleState, RLState, RLConfig, RLRunner, PolicyRef, RLLastAction,
        RLLoader, RLAsked, RLAsk, RLHasMotion, RLMotionLoader, RLFrame,
        RLAssemble, RLMotion, RLAdvance, RLFirst, RLOutput, RLFault, RunNext,
        Judge, JudgeStore, JudgePend, ViolationStore, ViolationPend,
        SafetyStore, SafetyPend, InferenceEnd
<1>3. ref' \in Refs
  <2>1. CASE BuildObs
    BY <2>1, ZeroIsPolicy DEF BuildObs, NoRef, Refs
  <2>2. CASE ReadStep
    BY <2>2 DEF ReadStep, RLState, RLConfig, RLRunner, RLLastAction, RLLoader,
                RLAsked, RLMotion, RLMotionLoader, PolicyRef, Refs,
                InferenceTypeOK, PMTypeOK
  <2>3. CASE RLFrame
    <3>1. ref.loader \in Policies /\ HasMotion(ref.loader)
          /\ states[ref.stepped].motion_frame \in Nat
      BY <2>3 DEF RLFrame, InfAt, InferenceTypeOK, PMTypeOK, Refs,
                  RuntimeState
    <3>2. SteppedFrame(ref.loader, states[ref.stepped].motion_frame) \in Nat
      BY <3>1, SteppedFrameType
    <3> QED
      BY <2>3, <3>2 DEF RLFrame, Refs, InferenceTypeOK
  <2>4. CASE UNCHANGED ref
    BY <2>4 DEF InferenceTypeOK
  <2> QED
    BY <2>1, <2>2, <2>3, <2>4
    DEF Inference, ReadStep, BuildCmd, RunForced, RunState, RunClear, RunTake,
        RunEnter, RunSimpleState, RLAsk, RLHasMotion, RLAssemble, RLAdvance,
        RLFirst, RLOutput, RLFault, RunNext, Judge, JudgeStore, JudgePend,
        ViolationStore, ViolationPend, SafetyStore, SafetyPend, InferenceEnd
<1>4. inf' \in {"rl_asked", "rl_ask", "rl_frame"} => HasMotion(ref'.loader)
  <2>1. CASE RLLoader \/ RLMotionLoader
    BY <2>1 DEF RLLoader, RLMotionLoader, PolicyRef, InfAt, InferenceTypeOK,
                Refs
  <2>2. CASE RLAsked
    BY <2>2 DEF RLAsked, PolicyRef, InfAt, InferenceTypeOK, Refs
  <2>3. ASSUME ~RLLoader, ~RLMotionLoader, ~RLAsked
        PROVE  inf' \notin {"rl_asked", "rl_ask", "rl_frame"}
    BY <2>3
    DEF Inference, BuildObs, BuildCmd, RunForced, RunState, RunClear, RunTake,
        RunEnter, RunSimpleState, RLState, RLConfig, RLRunner, PolicyRef,
        RLLastAction, RLAsk, RLHasMotion, RLFrame, RLAssemble, RLMotion,
        RLAdvance, RLFirst, RLOutput, RLFault, RunNext, Judge, JudgeStore,
        JudgePend, ViolationStore, ViolationPend, SafetyStore, SafetyPend,
        InferenceEnd, InfAt
  <2> QED
    BY <2>1, <2>2, <2>3
<1> QED
  BY <1>1, <1>2, <1>3, <1>4 DEF InferenceTypeOK

LEMMA InferencePMType ==
  ASSUME PMTypeOK, InferenceTypeOK, Inference
  PROVE  PMTypeOK'
<1>1. CASE RLAdvance
  BY <1>1 DEF RLAdvance, PMTypeOK, RuntimeState, InferenceTypeOK, Refs
<1>2. CASE RLFirst
  BY <1>2 DEF RLFirst, PMTypeOK, RuntimeState, InferenceTypeOK, Refs
<1>3. CASE UNCHANGED pmVars
  BY <1>3, PMTypeStutter
<1> QED
  BY <1>1, <1>2, <1>3
  DEF Inference, BuildObs, BuildCmd, RunForced, RunState, RunClear, RunTake,
      RunEnter, RunSimpleState, RLState, RLConfig, RLRunner, PolicyRef,
      RLLastAction, RLLoader, RLAsked, RLAsk, RLHasMotion, RLMotionLoader,
      RLFrame, RLAssemble, RLMotion, RLOutput, RLFault, RunNext, Judge,
      JudgeStore, JudgePend, ViolationStore, ViolationPend, SafetyStore,
      SafetyPend, InferenceEnd

LEMMA InferenceNodeType ==
  ASSUME NodeTypeOK, Inference
  PROVE  NodeTypeOK'
<1>1. UNCHANGED <<is_init, ctl>>
  BY InferenceFrame DEF InfFrame
<1>2. ok' \in BOOLEAN
  BY DEF Inference, BuildObs, BuildCmd, RunForced, RunState, RunClear, RunTake,
         RunEnter, RunSimpleState, RLState, RLConfig, RLRunner, PolicyRef,
         RLLastAction, RLLoader, RLAsked, RLAsk, RLHasMotion, RLMotionLoader,
         RLFrame, RLAssemble, RLMotion, RLAdvance, RLFirst, RLOutput, RLFault,
         RunNext, Judge, JudgeStore, JudgePend, ViolationStore, ViolationPend,
         SafetyStore, SafetyPend, InferenceEnd, NodeTypeOK
<1>3. paused' \in Pauses /\ tripped' \in BOOLEAN
  BY DEF Inference, BuildObs, BuildCmd, RunForced, RunState, RunClear, RunTake,
         RunEnter, RunSimpleState, RLState, RLConfig, RLRunner, PolicyRef,
         RLLastAction, RLLoader, RLAsked, RLAsk, RLHasMotion, RLMotionLoader,
         RLFrame, RLAssemble, RLMotion, RLAdvance, RLFirst, RLOutput, RLFault,
         RunNext, Judge, JudgeStore, JudgePend, ViolationStore, ViolationPend,
         SafetyStore, SafetyPend, InferenceEnd, SwitchTo, NodeTypeOK, ghosts,
         Pauses
<1> QED
  BY <1>1, <1>2, <1>3 DEF NodeTypeOK

LEMMA InferenceType == ASSUME TypeOK, Inference PROVE TypeOK'
<1>1. FlagTypeOK' /\ ExecutorTypeOK'
  BY InferenceFrame
  DEF TypeOK, InfFrame, flagVars, exeVars, FlagTypeOK, ExecutorTypeOK
<1> QED
  BY <1>1, InferenceSMType, InferencePMType, InferenceOwnType,
     InferenceNodeType DEF TypeOK

---------------------------------------------------------------------------
(* The same for the control thread and for the executor.                   *)

LEMMA ControlType == ASSUME TypeOK, Control PROVE TypeOK'
<1>1. CtlFrame
  BY DEF Control, ApplyAction, Send, MotorOffline, ControlEnd
<1>2. SMTypeOK' /\ PMTypeOK'
  BY <1>1, SMTypeStutter, PMTypeStutter DEF CtlFrame, TypeOK
<1>3. FlagTypeOK' /\ InferenceTypeOK' /\ ExecutorTypeOK'
  BY <1>1 DEF CtlFrame, TypeOK, flagVars, infVars, exeVars, FlagTypeOK,
              InferenceTypeOK, ExecutorTypeOK
<1>4. ok' \in BOOLEAN /\ ctl' \in {"top", "send", "done"}
  BY DEF Control, ApplyAction, Send, MotorOffline, ControlEnd, TypeOK,
         NodeTypeOK
<1>5. NodeTypeOK'
  BY <1>1, <1>4 DEF CtlFrame, ghosts, TypeOK, NodeTypeOK
<1> QED
  BY <1>2, <1>3, <1>5 DEF TypeOK

(* The executor's steps, those of the calls and those that carry them out. *)
ExecutorStep == OperatorCall \/ Executor

LEMMA ExecutorFrame == ExecutorStep => ExeFrame
  BY DEF ExecutorStep, OperatorCall, Executor, ButtonX, ButtonA, ButtonB,
         CallOnly, ToggleInterrupt, ToggleMotion, ButtonRB, ExclusiveService,
         StartInference, StopInference, MotorService, DecideA, DecideB,
         ForceStore, ForcePend, ExclusiveDone, ToggleMotors, ResetRunning,
         ResetFlags, ResetStore, ResetPend, ResetActive, ResetAct, ResetFrames,
         ResetFirst, LeaveSpin, JoinThreads, ReleaseRobot, FirstStore,
         SecondStore

LEMMA ExecutorSMType ==
  ASSUME SMTypeOK, ExecutorTypeOK, ExecutorStep
  PROVE  SMTypeOK'
<1>1. CASE ForceStore
  BY <1>1 DEF ForceStore, FirstStore, StoreForced, StorePending, SMTypeOK,
              ExecutorTypeOK, stateVars
<1>2. CASE ForcePend
  BY <1>2 DEF ForcePend, SecondStore, StoreForced, StorePending, SMTypeOK,
              ExecutorTypeOK, stateVars
<1>3. CASE ResetStore
  BY <1>3 DEF ResetStore, FirstStore, StoreForced, StorePending, SMTypeOK,
              stateVars
<1>4. CASE ResetPend
  BY <1>4 DEF ResetPend, SecondStore, StoreForced, StorePending, SMTypeOK,
              stateVars
<1>5. CASE StartInference \/ StopInference \/ ResetRunning
  BY <1>5 DEF StartInference, StopInference, ResetRunning, SMTypeOK, stateVars,
              requestVars
<1>6. CASE ResetAct
  BY <1>6 DEF ResetAct, SMTypeOK, ActTag, stateVars, requestVars
<1>7. CASE UNCHANGED smVars
  BY <1>7, SMTypeStutter
<1> QED
  BY <1>1, <1>2, <1>3, <1>4, <1>5, <1>6, <1>7
  DEF ExecutorStep, OperatorCall, Executor, ButtonX, ButtonA, ButtonB,
      CallOnly, ToggleInterrupt, ToggleMotion, ButtonRB, ExclusiveService,
      MotorService, DecideA, DecideB, ExclusiveDone, ToggleMotors, ResetFlags,
      ResetActive, ResetFrames, ResetFirst, LeaveSpin, JoinThreads,
      ReleaseRobot

LEMMA ExecutorPMType ==
  ASSUME PMTypeOK, FlagTypeOK, ExecutorStep
  PROVE  PMTypeOK'
<1>1. CASE ToggleMotion
  <2> DEFINE new_idx == IF is_motion_policy THEN 0
                        ELSE MotionIndices[current_motion_policy_idx + 1]
  <2>1. new_idx \in Policies
    BY <1>1, PolicyAssumption, ZeroIsPolicy
    DEF ToggleMotion, FlagTypeOK, HasMotionPolicy
  <2>2. active_idx' = new_idx
        /\ states' = [states EXCEPT ![new_idx] = FreshState]
    BY <1>1 DEF ToggleMotion, set_active, reset_policy
  <2> QED
    BY <2>1, <2>2 DEF PMTypeOK, FreshState, RuntimeState
<1>2. CASE ResetActive
  BY <1>2, ZeroIsPolicy DEF ResetActive, set_active, PMTypeOK
<1>3. CASE ResetFrames
  BY <1>3 DEF ResetFrames, reset_frames, PMTypeOK, RuntimeState
<1>4. CASE ResetFirst
  BY <1>4 DEF ResetFirst, reset_first_frames, PMTypeOK, RuntimeState
<1>5. CASE UNCHANGED pmVars
  BY <1>5, PMTypeStutter
<1> QED
  BY <1>1, <1>2, <1>3, <1>4, <1>5
  DEF ExecutorStep, OperatorCall, Executor, ButtonX, ButtonA, ButtonB,
      CallOnly, ToggleInterrupt, ButtonRB, ExclusiveService, StartInference,
      StopInference, MotorService, DecideA, DecideB, ForceStore, ForcePend,
      ExclusiveDone, ToggleMotors, ResetRunning, ResetFlags, ResetStore,
      ResetPend, ResetAct, LeaveSpin, JoinThreads, ReleaseRobot, FirstStore,
      SecondStore

LEMMA ExecutorFlagType ==
  ASSUME FlagTypeOK, ExecutorStep
  PROVE  FlagTypeOK'
<1>1. CASE ButtonRB
  <2>1. Len(MotionIndices) \in Nat \ {0}
    BY <1>1, PolicyAssumption DEF ButtonRB, HasMotionPolicy
  <2>2. current_motion_policy_idx' \in 0 .. (Len(MotionIndices) - 1)
    BY <1>1, <2>1 DEF ButtonRB, FlagTypeOK
  <2> QED
    BY <1>1, <2>1, <2>2 DEF ButtonRB, FlagTypeOK, HasMotionPolicy
<1>2. CASE ToggleInterrupt
  BY <1>2 DEF ToggleInterrupt, FlagTypeOK, HasMotionPolicy
<1>3. CASE ToggleMotion
  BY <1>3 DEF ToggleMotion, FlagTypeOK, HasMotionPolicy
<1>4. CASE ResetFlags
  BY <1>4, PolicyAssumption DEF ResetFlags, FlagTypeOK, HasMotionPolicy
<1>5. CASE UNCHANGED flagVars
  BY <1>5 DEF FlagTypeOK, flagVars, HasMotionPolicy
<1> QED
  BY <1>1, <1>2, <1>3, <1>4, <1>5
  DEF ExecutorStep, OperatorCall, Executor, ButtonX, ButtonA, ButtonB,
      CallOnly, ExclusiveService, StartInference, StopInference, MotorService,
      DecideA, DecideB, ForceStore, ForcePend, ExclusiveDone, ToggleMotors,
      ResetRunning, ResetStore, ResetPend, ResetActive, ResetAct, ResetFrames,
      ResetFirst, LeaveSpin, JoinThreads, ReleaseRobot, FirstStore, SecondStore

LEMMA ExecutorOwnType ==
  ASSUME ExecutorTypeOK, ExecutorStep
  PROVE  ExecutorTypeOK'
<1>1. CASE OperatorCall
  <2>1. PICK cb \in Buttons \cup Services,
             to \in {"spin", "store", "decide", "exclusive", "toggle"} :
          Call(cb, to)
    BY <1>1
    DEF OperatorCall, ButtonX, ButtonA, ButtonB, ToggleInterrupt, ToggleMotion,
        ButtonRB, ExclusiveService, StartInference, StopInference,
        MotorService, Buttons, Services
  <2>2. want' \in {kIdle, kStandUp}
    BY <1>1
    DEF OperatorCall, ButtonX, ButtonA, ButtonB, ToggleInterrupt, ToggleMotion,
        ButtonRB, ExclusiveService, StartInference, StopInference,
        MotorService, ExecutorTypeOK
  <2>3. exe' \in ExecutorSteps /\ job' \in Jobs
    BY <2>1 DEF Call, ExecutorTypeOK, ExecutorSteps, Jobs
  <2> QED
    BY <2>2, <2>3 DEF ExecutorTypeOK
<1>2. CASE DecideA \/ DecideB
  <2>1. Return \/ Request(kIdle) \/ Request(kStandUp)
    BY <1>2 DEF DecideA, DecideB
  <2>2. CASE Return
    BY <2>2 DEF Return, ExecutorTypeOK, ExecutorSteps
  <2>3. CASE Request(kIdle) \/ Request(kStandUp)
    BY <2>3 DEF Request, ExecutorTypeOK, ExecutorSteps
  <2> QED
    BY <2>1, <2>2, <2>3
<1>3. CASE JoinThreads
  BY <1>3 DEF JoinThreads, ExecutorTypeOK, ExecutorSteps, ResetSteps, Jobs
<1>4. CASE ResetFirst
  <2>1. exe' \in {"toggle", "fini", "spin"}
    BY <1>4 DEF ResetFirst
  <2> QED
    BY <1>4, <2>1 DEF ResetFirst, ExecutorTypeOK, ExecutorSteps
<1>5. CASE ExclusiveDone \/ ToggleMotors
  BY <1>5 DEF ExclusiveDone, ToggleMotors, Return, ExecutorTypeOK,
              ExecutorSteps
<1>6. CASE ForceStore \/ ForcePend \/ LeaveSpin \/ ReleaseRobot
  BY <1>6 DEF ForceStore, ForcePend, LeaveSpin, ReleaseRobot, ExecutorTypeOK,
              ExecutorSteps, ResetSteps, FirstStore, SecondStore
<1>7. CASE \/ ResetRunning \/ ResetFlags \/ ResetStore \/ ResetPend
           \/ ResetActive \/ ResetAct \/ ResetFrames
  BY <1>7 DEF ResetRunning, ResetFlags, ResetStore, ResetPend, ResetActive,
              ResetAct, ResetFrames, ExecutorTypeOK, ExecutorSteps, ResetSteps,
              FirstStore, SecondStore
<1> QED
  BY <1>1, <1>2, <1>3, <1>4, <1>5, <1>6, <1>7 DEF ExecutorStep, Executor

LEMMA ExecutorNodeType ==
  ASSUME NodeTypeOK, ExecutorStep
  PROVE  NodeTypeOK'
<1>1. ok' \in BOOLEAN
  BY DEF ExecutorStep, OperatorCall, Executor, ButtonX, ButtonA, ButtonB, Call,
         ToggleInterrupt, ToggleMotion, ButtonRB, ExclusiveService,
         StartInference, StopInference, MotorService, DecideA, DecideB,
         ForceStore, ForcePend, ExclusiveDone, ToggleMotors, ResetRunning,
         ResetFlags, ResetStore, ResetPend, ResetActive, ResetAct, ResetFrames,
         ResetFirst, LeaveSpin, JoinThreads, ReleaseRobot, NodeTypeOK,
         FirstStore, SecondStore
<1>2. is_init' \in BOOLEAN
  BY DEF ExecutorStep, OperatorCall, Executor, ButtonX, ButtonA, ButtonB,
         CallOnly, ToggleInterrupt, ToggleMotion, ButtonRB, ExclusiveService,
         StartInference, StopInference, MotorService, DecideA, DecideB,
         ForceStore, ForcePend, ExclusiveDone, ToggleMotors, ResetRunning,
         ResetFlags, ResetStore, ResetPend, ResetActive, ResetAct, ResetFrames,
         ResetFirst, LeaveSpin, JoinThreads, ReleaseRobot, NodeTypeOK,
         FirstStore, SecondStore
<1>3. paused' \in Pauses /\ tripped' \in BOOLEAN
  <2>1. CASE ForceStore \/ ForcePend \/ ResetStore \/ ResetPend
    BY <2>1 DEF ForceStore, ForcePend, ResetStore, ResetPend, FirstStore,
                SecondStore, NodeTypeOK, Pauses
  <2>2. CASE UNCHANGED ghosts
    BY <2>2 DEF NodeTypeOK, ghosts
  <2> QED
    BY <2>1, <2>2
    DEF ExecutorStep, OperatorCall, Executor, ButtonX, ButtonA, ButtonB,
        CallOnly, ToggleInterrupt, ToggleMotion, ButtonRB, ExclusiveService,
        StartInference, StopInference, MotorService, DecideA, DecideB,
        ExclusiveDone, ToggleMotors, ResetRunning, ResetFlags, ResetActive,
        ResetAct, ResetFrames, ResetFirst, LeaveSpin, JoinThreads, ReleaseRobot
<1>4. UNCHANGED ctl
  BY ExecutorFrame DEF ExeFrame
<1> QED
  BY <1>1, <1>2, <1>3, <1>4 DEF NodeTypeOK

LEMMA ExecutorType == ASSUME TypeOK, ExecutorStep PROVE TypeOK'
<1>1. InferenceTypeOK'
  BY ExecutorFrame DEF TypeOK, ExeFrame, infVars, InferenceTypeOK
<1> QED
  BY <1>1, ExecutorSMType, ExecutorPMType, ExecutorFlagType, ExecutorOwnType,
     ExecutorNodeType DEF TypeOK

---------------------------------------------------------------------------
LEMMA SignalType == ASSUME TypeOK, Signal PROVE TypeOK'
<1>1. SMTypeOK' /\ PMTypeOK'
  BY SMTypeStutter, PMTypeStutter DEF Signal, TypeOK
<1>2. FlagTypeOK' /\ InferenceTypeOK' /\ ExecutorTypeOK' /\ NodeTypeOK'
  BY DEF Signal, ExeFrame, flagVars, infVars, exeVars, ghosts, TypeOK,
         FlagTypeOK, InferenceTypeOK, ExecutorTypeOK, NodeTypeOK
<1> QED
  BY <1>1, <1>2 DEF TypeOK

LEMMA StutterType == ASSUME TypeOK, UNCHANGED vars PROVE TypeOK'
<1>1. SMTypeOK' /\ PMTypeOK'
  BY SMTypeStutter, PMTypeStutter DEF vars, TypeOK
<1>2. FlagTypeOK' /\ InferenceTypeOK' /\ ExecutorTypeOK' /\ NodeTypeOK'
  BY DEF vars, flagVars, infVars, exeVars, ghosts, TypeOK, FlagTypeOK,
         InferenceTypeOK, ExecutorTypeOK, NodeTypeOK
<1> QED
  BY <1>1, <1>2 DEF TypeOK

(* Whatever the threads interleave, every variable keeps its type: the     *)
(* motion index that LB uses unchecked stays inside motion_indices_, and   *)
(* active_idx_ names a policy, so set_active never throws.                 *)
THEOREM TypeCorrect == Spec => []TypeOK
<1>1. ASSUME TypeOK, [Next]_vars PROVE TypeOK'
  BY <1>1, InferenceType, ControlType, ExecutorType, SignalType, StutterType
  DEF Next, ExecutorStep, Terminated
<1> QED
  BY InitType, <1>1, PTL DEF Spec

---------------------------------------------------------------------------
(* What the other threads can do to the state machine: fill the request    *)
(* slot, switch is_running and put act back to the default posture.  They  *)
(* never request RLControl or JointDamping.                                *)
OtherStep == Control \/ ExecutorStep \/ Signal \/ UNCHANGED vars

SlotGuarantee ==
    /\ force_pending' \in {force_pending, TRUE}
    /\ forced_next_state' \in {forced_next_state, kIdle, kStandUp}

OtherFrame ==
    UNCHANGED <<current_state_name, stateVars, infVars, tripped>>

LEMMA OtherSteps == ASSUME TypeOK, OtherStep PROVE SlotGuarantee /\ OtherFrame
<1>1. CASE Control \/ Signal \/ UNCHANGED vars
  BY <1>1 DEF Control, ApplyAction, Send, MotorOffline, ControlEnd, CtlFrame,
              Signal, ExeFrame, vars, smVars, requestVars, ghosts,
              SlotGuarantee, OtherFrame
<1>2. CASE ExecutorStep
  <2>1. CASE ForceStore
    BY <2>1 DEF ForceStore, FirstStore, StoreForced, StorePending, ExeFrame,
                SlotGuarantee, OtherFrame, TypeOK, ExecutorTypeOK
  <2>2. CASE ForcePend
    BY <2>2 DEF ForcePend, SecondStore, StoreForced, StorePending, ExeFrame,
                SlotGuarantee, OtherFrame, TypeOK, ExecutorTypeOK
  <2>3. CASE ResetStore \/ ResetPend
    BY <2>3 DEF ResetStore, ResetPend, FirstStore, SecondStore, StoreForced,
                StorePending, ExeFrame, SlotGuarantee, OtherFrame
  <2>4. CASE DecideA \/ DecideB
    BY <2>4 DEF DecideA, DecideB, ExeFrame, smVars, requestVars, ghosts,
                SlotGuarantee, OtherFrame
  <2>5. CASE OperatorCall
    BY <2>5 DEF OperatorCall, ButtonX, ButtonA, ButtonB, CallOnly,
                ToggleInterrupt, ToggleMotion, ButtonRB, ExclusiveService,
                StartInference, StopInference, MotorService, ExeFrame, smVars,
                requestVars, ghosts, SlotGuarantee, OtherFrame
  <2>6. CASE \/ ExclusiveDone \/ ToggleMotors \/ ResetRunning \/ ResetFlags
             \/ ResetActive \/ ResetAct \/ ResetFrames \/ ResetFirst
             \/ LeaveSpin \/ JoinThreads \/ ReleaseRobot
    BY <2>6 DEF ExclusiveDone, CallOnly, ToggleMotors, ResetRunning,
                ResetFlags, ResetActive, ResetAct, ResetFrames, ResetFirst,
                LeaveSpin, JoinThreads, ReleaseRobot, ExeFrame, smVars,
                requestVars, ghosts, SlotGuarantee, OtherFrame
  <2> QED
    BY <1>2, <2>1, <2>2, <2>3, <2>4, <2>5, <2>6 DEF ExecutorStep, Executor
<1> QED
  BY <1>1, <1>2 DEF OtherStep

LEMMA NextSplit == [Next]_vars => Inference \/ OtherStep
  BY DEF Next, OtherStep, ExecutorStep, Terminated

---------------------------------------------------------------------------
(* The modes.                                                              *)

RaiseSteps == {"judge_store", "judge_pend", "viol_store", "viol_pend"}

(* A policy step, or one that raises a violation, is taken in RLControl; a *)
(* raised violation is on its way to Run, which never serves a request for *)
(* RLControl.                                                              *)
ViolationInv ==
    /\ forced_next_state # kRLControl
    /\ inf \in PolicySteps \cup RaiseSteps => current_state_name = kRLControl
    /\ tripped => /\ current_state_name = kRLControl
                  /\ inf \notin PolicySteps
                  /\ force_pending \/ inf \in {"take", "judge_pend",
                                               "viol_pend"}

(* In StandUp the slot holds no request for JointDamping.                  *)
SlotInv == current_state_name = kStandUp =>
             forced_next_state \in {kIdle, kStandUp}

(* The command a tick works with asks for RLControl or for no change.      *)
TargetInv == inf \in {"force?", "run", "next"} \cup PolicySteps =>
               target_mode \in {current_state_name, kRLControl}

(* Once OnEnter has run, phase1_done_ means that the spline's time is up.  *)
SplineInv == current_state_name = kStandUp /\ phase1_done /\ inf # "enter" =>
               stand_elapsed > StandDuration

ModeInv == ViolationInv /\ SlotInv /\ TargetInv /\ SplineInv

LEMMA InitMode == Init => ModeInv
  BY DEF Init, SMInit, ModeInv, ViolationInv, SlotInv, TargetInv, SplineInv,
         PolicySteps, RaiseSteps

LEMMA OtherMode ==
  ASSUME TypeOK, ModeInv, OtherStep PROVE ModeInv'
<1>1. SlotGuarantee /\ OtherFrame
  BY OtherSteps
<1>2. UNCHANGED <<current_state_name, phase1_done, stand_elapsed, inf,
                  target_mode, tripped>>
  BY <1>1 DEF OtherFrame, stateVars, infVars
<1>3. force_pending => force_pending'
  BY <1>1 DEF SlotGuarantee
<1>4. ViolationInv'
  BY <1>1, <1>2, <1>3 DEF SlotGuarantee, ModeInv, ViolationInv
<1>5. SlotInv'
  BY <1>1, <1>2 DEF SlotGuarantee, ModeInv, SlotInv
<1>6. TargetInv' /\ SplineInv'
  BY <1>2 DEF ModeInv, TargetInv, SplineInv
<1> QED
  BY <1>4, <1>5, <1>6 DEF ModeInv

(* What RunNext finds: only the end of the stand-up and the end of damping *)
(* change the mode.                                                        *)
LEMMA NextTransitions ==
  ASSUME TypeOK, TargetInv, inf = "next",
         NextStateName(target_mode) # current_state_name
  PROVE  \/ /\ current_state_name = kStandUp /\ phase1_done
            /\ NextStateName(target_mode) = kRLControl
         \/ /\ current_state_name = kJointDamping
            /\ NextStateName(target_mode) = kIdle
<1>1. target_mode \in {current_state_name, kRLControl}
  BY DEF TargetInv
<1>2. CASE current_state_name = kIdle
  BY <1>1, <1>2 DEF NextStateName
<1>3. CASE current_state_name = kStandUp
  BY <1>1, <1>3 DEF NextStateName
<1>4. CASE current_state_name = kRLControl
  BY <1>1, <1>4 DEF NextStateName
<1>5. CASE current_state_name = kJointDamping
  BY <1>5 DEF NextStateName
<1> QED
  BY <1>2, <1>3, <1>4, <1>5 DEF TypeOK, SMTypeOK

LEMMA InferenceMode ==
  ASSUME TypeOK, ModeInv, Inference PROVE ModeInv'
<1> USE DEF InfAt, PolicySteps, RaiseSteps
<1>1. CASE BuildObs
  <2>1. PICK d \in 1 .. MaxTimeStep : AdvanceClock(d)
    BY <1>1 DEF BuildObs
  <2>2. SplineInv'
    BY <1>1, <2>1, NodeAssumption, DurationAssumption
    DEF BuildObs, AdvanceClock, Least, Unset, TypeOK, SMTypeOK, ModeInv,
        SplineInv
  <2> QED
    BY <1>1, <2>2 DEF BuildObs, requestVars, ghosts, ModeInv, ViolationInv,
                      SlotInv, TargetInv
<1>2. CASE BuildCmd
  BY <1>2 DEF BuildCmd, smVars, requestVars, stateVars, ghosts, ModeInv,
              ViolationInv, SlotInv, TargetInv, SplineInv
<1>3. CASE RunForced \/ RunState
  BY <1>3 DEF RunForced, RunState, smVars, requestVars, stateVars, ghosts,
              ModeInv, ViolationInv, SlotInv, TargetInv, SplineInv
<1>4. CASE RunClear
  BY <1>4 DEF RunClear, stateVars, ghosts, ModeInv, ViolationInv, SlotInv,
              TargetInv, SplineInv
<1>5. CASE RunTake
  BY <1>5 DEF RunTake, SwitchTo, ForcedTarget, smVars, requestVars, stateVars,
              TypeOK, SMTypeOK, ModeInv, ViolationInv, SlotInv, TargetInv,
              SplineInv
<1>6. CASE RunEnter
  BY <1>6 DEF RunEnter, OnEnter, requestVars, ghosts, ModeInv, ViolationInv,
              SlotInv, TargetInv, SplineInv
<1>7. CASE RunSimpleState
  <2>1. SplineInv'
    <3>1. CASE current_state_name = kStandUp /\ StandUpRun
      BY <1>7, <3>1, DurationAssumption
      DEF RunSimpleState, StandUpRun, FirstTick, Unset, TypeOK, SMTypeOK,
          ModeInv, SplineInv
    <3>2. CASE current_state_name # kStandUp
      BY <1>7, <3>2 DEF RunSimpleState, SplineInv
    <3> QED
      BY <1>7, <3>1, <3>2 DEF RunSimpleState
  <2> QED
    BY <1>7, <2>1 DEF RunSimpleState, requestVars, ghosts, ModeInv,
                      ViolationInv, SlotInv, TargetInv
<1>8. CASE \/ ReadStep \/ RLAsk \/ RLAssemble \/ RLHasMotion \/ RLFrame
           \/ RLAdvance \/ RLFirst \/ RLOutput \/ RLFault
  BY <1>8 DEF ReadStep, RLState, RLConfig, RLRunner, PolicyRef, RLLastAction,
              RLLoader, RLAsked, RLAsk, RLHasMotion, RLMotionLoader, RLFrame, RLAssemble,
              RLMotion, RLAdvance, RLFirst, RLOutput, RLFault, smVars,
              requestVars, stateVars, ghosts, ModeInv, ViolationInv, SlotInv,
              TargetInv, SplineInv
<1>9. CASE RunNext
  <2>1. CASE NextStateName(target_mode) = current_state_name
    BY <1>9, <2>1 DEF RunNext, smVars, requestVars, stateVars, ModeInv,
                      ViolationInv, SlotInv, TargetInv, SplineInv
  <2>2. CASE NextStateName(target_mode) # current_state_name
    <3>1. current_state_name' \in {kIdle, kRLControl}
      BY <1>9, <2>2, NextTransitions DEF RunNext, SwitchTo, ModeInv
    <3>2. /\ inf' = "enter" /\ tripped' = FALSE
          /\ UNCHANGED forced_next_state
      BY <1>9, <2>2 DEF RunNext, SwitchTo, requestVars
    <3> QED
      BY <3>1, <3>2 DEF ModeInv, ViolationInv, SlotInv, TargetInv, SplineInv
  <2> QED
    BY <2>1, <2>2
<1>10. CASE Judge \/ InferenceEnd
  BY <1>10 DEF Judge, LosesControl, InferenceEnd, smVars, requestVars,
               stateVars, ghosts, ModeInv, ViolationInv, SlotInv, TargetInv,
               SplineInv
<1>11. CASE JudgeStore \/ ViolationStore
  BY <1>11 DEF JudgeStore, ViolationStore, SafetyStore, StoreForced, stateVars,
               ModeInv, ViolationInv, SlotInv, TargetInv, SplineInv
<1>12. CASE JudgePend \/ ViolationPend
  BY <1>12 DEF JudgePend, ViolationPend, SafetyPend, StorePending, stateVars,
               ModeInv, ViolationInv, SlotInv, TargetInv, SplineInv
<1> QED
  BY <1>1, <1>2, <1>3, <1>4, <1>5, <1>6, <1>7, <1>8, <1>9, <1>10, <1>11, <1>12
  DEF Inference, ReadStep

LEMMA ModeInvariant == Spec => [](TypeOK /\ ModeInv)
<1>1. ASSUME TypeOK, ModeInv, [Next]_vars PROVE ModeInv'
  BY <1>1, NextSplit, OtherMode, InferenceMode
<1> QED
  BY <1>1, InitMode, TypeCorrect, PTL DEF Spec

(* Between a violation raised in RLControl and the next change of mode the *)
(* inference thread takes no policy step, whatever the executor requests.  *)
THEOREM ViolationStopsPolicy == Spec => []NoPolicyAfterViolation
<1>1. ModeInv => NoPolicyAfterViolation
  BY DEF ModeInv, ViolationInv, NoPolicyAfterViolation
<1> QED
  BY <1>1, ModeInvariant, PTL

---------------------------------------------------------------------------
(* A pause and the request slot.                                           *)

(* A pause has been carried out or can no longer be missed.                *)
Settled ==
    \/ current_state_name \in {kIdle, kJointDamping}
    \/ force_pending
    \/ inf = "take"

(* From its first store on, a call of ForceTransition(kIdle) finds and     *)
(* leaves a target other than StandUp in the slot; only then is the flag   *)
(* set for it, in whichever order the two stores are seen.                 *)
IdleSlot ==
    /\ exe \in {"r_running", "r_flags", "r_store", "r_late"} =>
         forced_next_state # kStandUp \/ inf = "done"
    /\ exe = "r_pend" => forced_next_state # kStandUp
    /\ exe = "pend" /\ want = kIdle => forced_next_state # kStandUp
    /\ exe = "late" /\ want = kStandUp => paused = "no"
    /\ exe = "r_late" => Settled

PauseInv ==
    /\ inf = "clear" => force_pending
    /\ paused # "no" => Settled /\ forced_next_state # kStandUp
    /\ OneOutputAfterPause
    /\ IdleSlot

LEMMA InitPause == Init => PauseInv
  BY DEF Init, SMInit, PauseInv, Settled, IdleSlot, OneOutputAfterPause

LEMMA OtherPause ==
  ASSUME TypeOK, PauseInv, OtherStep PROVE PauseInv'
<1>1. /\ UNCHANGED <<current_state_name, inf>>
      /\ force_pending' \in {force_pending, TRUE}
  BY OtherSteps DEF OtherFrame, infVars, SlotGuarantee
<1> USE DEF PauseInv, Settled, IdleSlot, OneOutputAfterPause
<1>2. CASE ForceStore
  BY <1>1, <1>2 DEF ForceStore, FirstStore, StoreForced, StorePending, TypeOK,
                    ExecutorTypeOK
<1>3. CASE ForcePend
  BY <1>1, <1>3 DEF ForcePend, SecondStore, StoreForced, StorePending, TypeOK,
                    ExecutorTypeOK
<1>4. CASE ResetRunning \/ ResetFlags
  BY <1>1, <1>4 DEF ResetRunning, ResetFlags, smVars, requestVars, ghosts
<1>5. CASE ResetStore
  BY <1>1, <1>5 DEF ResetStore, FirstStore, StoreForced, StorePending
<1>6. CASE ResetPend
  BY <1>1, <1>6 DEF ResetPend, SecondStore, StoreForced, StorePending
<1>7. CASE JoinThreads
  BY <1>1, <1>7 DEF JoinThreads, CallOnly, smVars, requestVars, ghosts
<1>8. CASE /\ \/ UNCHANGED <<exe, want>>
              \/ exe' \notin {"r_running", "r_flags", "r_store", "r_late",
                              "r_pend", "pend", "late"}
           /\ UNCHANGED <<forced_next_state, paused>>
  BY <1>1, <1>8
<1>9. ASSUME OtherStep, ~ForceStore, ~ForcePend, ~ResetRunning, ~ResetFlags,
             ~ResetStore, ~ResetPend, ~JoinThreads
      PROVE  /\ \/ UNCHANGED <<exe, want>>
                \/ exe' \notin {"r_running", "r_flags", "r_store", "r_late",
                                "r_pend", "pend", "late"}
             /\ UNCHANGED <<forced_next_state, paused>>
  BY <1>9
  DEF OtherStep, Control, ApplyAction, Send, MotorOffline, ControlEnd,
      CtlFrame, ExecutorStep, OperatorCall, Executor, ButtonX, ButtonA,
      ButtonB, Call, CallOnly, ToggleInterrupt, ToggleMotion, ButtonRB,
      ExclusiveService, StartInference, StopInference, MotorService, DecideA,
      DecideB, Return, Request, ExclusiveDone, ToggleMotors, ResetActive,
      ResetAct, ResetFrames, ResetFirst, LeaveSpin, ReleaseRobot, Signal, vars,
      exeVars, smVars, requestVars, ghosts
<1> QED
  BY <1>2, <1>3, <1>4, <1>5, <1>6, <1>7, <1>8, <1>9

LEMMA InferencePause ==
  ASSUME TypeOK, ModeInv, PauseInv, Inference PROVE PauseInv'
<1>1. UNCHANGED <<exe, want>>
  BY InferenceFrame DEF InfFrame, exeVars
<1> USE DEF PauseInv, Settled, IdleSlot, OneOutputAfterPause, InfAt
<1>2. CASE RunForced
  BY <1>1, <1>2 DEF RunForced, smVars, requestVars, ghosts, PolicySteps
<1>3. CASE RunState
  BY <1>1, <1>3 DEF RunState, smVars, requestVars, ghosts, PolicySteps
<1>4. CASE RunClear
  BY <1>1, <1>4 DEF RunClear, ghosts, PolicySteps
<1>5. CASE RunTake
  BY <1>1, <1>5
  DEF RunTake, SwitchTo, ForcedTarget, smVars, requestVars, PolicySteps,
      TypeOK, SMTypeOK, ModeInv, ViolationInv
<1>6. CASE RunNext
  <2>1. \/ UNCHANGED current_state_name
        \/ current_state_name = kStandUp
        \/ current_state_name' = kIdle
    BY <1>6, NextTransitions DEF RunNext, SwitchTo, smVars, ModeInv
  <2>2. /\ inf = "next" /\ inf' \in {"enter", "judge"}
        /\ UNCHANGED <<requestVars, paused>>
    BY <1>6 DEF RunNext, SwitchTo, smVars
  <2> QED
    BY <1>1, <2>1, <2>2 DEF requestVars, PolicySteps
<1>7. CASE JudgeStore \/ ViolationStore
  BY <1>1, <1>7 DEF JudgeStore, ViolationStore, SafetyStore, StoreForced,
                    PolicySteps
<1>8. CASE JudgePend \/ ViolationPend
  BY <1>1, <1>8 DEF JudgePend, ViolationPend, SafetyPend, StorePending, ghosts,
                    PolicySteps
<1>9. CASE RLOutput
  BY <1>1, <1>9 DEF RLOutput, requestVars, PolicySteps
<1>10. CASE /\ inf' \in PolicySteps => inf \in PolicySteps
            /\ inf' # "clear" /\ inf # "done" /\ inf # "take"
            /\ UNCHANGED <<current_state_name, requestVars, paused>>
  BY <1>1, <1>10 DEF requestVars
<1>11. ASSUME Inference, ~RunForced, ~RunState, ~RunClear, ~RunTake, ~RunNext,
              ~JudgeStore, ~ViolationStore, ~JudgePend, ~ViolationPend,
              ~RLOutput
       PROVE  /\ inf' \in PolicySteps => inf \in PolicySteps
              /\ inf' # "clear" /\ inf # "done" /\ inf # "take"
              /\ UNCHANGED <<current_state_name, requestVars, paused>>
  BY <1>11
  DEF Inference, BuildObs, BuildCmd, RunEnter, RunSimpleState, RLState,
      RLConfig, RLRunner, PolicyRef, RLLastAction, RLLoader, RLAsked, RLAsk,
      RLAssemble, RLMotion, RLHasMotion, RLMotionLoader, RLFrame, RLAdvance,
      RLFirst, RLFault, Judge, InferenceEnd, PolicySteps, smVars, ghosts
<1> QED
  BY <1>2, <1>3, <1>4, <1>5, <1>6, <1>7, <1>8, <1>9, <1>10, <1>11

LEMMA PauseInvariant == Spec => []PauseInv
<1>1. ASSUME TypeOK, ModeInv, PauseInv, [Next]_vars PROVE PauseInv'
  BY <1>1, NextSplit, OtherPause, InferencePause
<1> QED
  BY <1>1, InitPause, ModeInvariant, PTL DEF Spec

(* A pause is not lost in the slot, although the stores of ForceTransition *)
(* may be seen in either order and the flag cleared with the target before:*)
(* the request that reset_runtime_state repeats finds no StandUp in it.    *)
THEOREM PausesHonoured == Spec => []PauseHonoured
<1>1. PauseInv => PauseHonoured
  BY DEF PauseInv, Settled, PauseHonoured
<1> QED
  BY <1>1, PauseInvariant, PTL

(* After a pause at most the tick that was under way writes the policy's   *)
(* output over the default posture: no other policy tick begins.           *)
THEOREM OutputsEnd == Spec => []OneOutputAfterPause
<1>1. PauseInv => OneOutputAfterPause
  BY DEF PauseInv
<1> QED
  BY <1>1, PauseInvariant, PTL

---------------------------------------------------------------------------
(* The node implements SafeModes.                                          *)

ready == current_state_name = kStandUp /\ phase1_done /\ inf # "enter"

LEMMA InitRefines == Init => Modes!Init
  BY DEF Init, SMInit, Modes!Init

LEMMA OtherRefines ==
  ASSUME TypeOK, OtherStep PROVE [Modes!Next]_Modes!vars
<1>1. UNCHANGED <<current_state_name, phase1_done, inf, tripped>>
  BY OtherSteps DEF OtherFrame, stateVars, infVars
<1>2. act' \in {act, "default"}
  BY DEF OtherStep, Control, ApplyAction, Send, MotorOffline, ControlEnd,
         CtlFrame, ExecutorStep, OperatorCall, Executor, ButtonX, ButtonA,
         ButtonB, CallOnly, ToggleInterrupt, ToggleMotion, ButtonRB,
         ExclusiveService, StartInference, StopInference, MotorService,
         DecideA, DecideB, ForceStore, ForcePend, ExclusiveDone, ToggleMotors,
         ResetRunning, ResetFlags, ResetStore, ResetPend, ResetActive,
         ResetAct, ResetFrames, ResetFirst, LeaveSpin, JoinThreads,
         ReleaseRobot, Signal, vars, smVars, FirstStore, SecondStore
<1> QED
  BY <1>1, <1>2 DEF Modes!Next, Modes!Reset, Modes!vars

(* A change of mode that Run carries out.                                  *)
LEMMA SwitchRefines ==
  ASSUME TypeOK, ModeInv, NEW s \in StateName, SwitchTo(s), inf # "enter",
         inf' = "enter",
         \/ s \in {kIdle, kStandUp}
         \/ s = kJointDamping /\ current_state_name \in {kIdle, kRLControl}
         \/ s = kRLControl /\ ready
  PROVE  Modes!Next
<1>1. current_state_name' = s /\ tripped' = FALSE /\ UNCHANGED act
  BY DEF SwitchTo
<1>2. CASE s = kIdle
  BY <1>1, <1>2 DEF Modes!Next, Modes!Stop
<1>3. CASE s = kStandUp
  BY <1>1, <1>3 DEF Modes!Next, Modes!StartStandUp
<1>4. CASE s = kJointDamping /\ current_state_name \in {kIdle, kRLControl}
  BY <1>1, <1>4 DEF Modes!Next, Modes!Stop
<1>5. CASE s = kRLControl /\ ready
  <2>1. tripped = FALSE
    BY <1>5 DEF ready, TypeOK, NodeTypeOK, ModeInv, ViolationInv
  <2> QED
    BY <1>1, <1>5, <2>1 DEF ready, Modes!Next, Modes!Engage
<1> QED
  BY <1>2, <1>3, <1>4, <1>5

LEMMA InferenceRefines ==
  ASSUME TypeOK, ModeInv, Inference PROVE [Modes!Next]_Modes!vars
<1>1. CASE RunTake
  <2>1. CASE ForcedTarget = current_state_name
    BY <1>1, <2>1 DEF RunTake, smVars, stateVars, Modes!vars
  <2>2. CASE ForcedTarget # current_state_name
    <3>1. SwitchTo(ForcedTarget) /\ inf = "take" /\ inf' = "enter"
      BY <1>1, <2>2 DEF RunTake
    <3>2. \/ ForcedTarget \in {kIdle, kStandUp}
          \/ /\ ForcedTarget = kJointDamping
             /\ current_state_name \in {kIdle, kRLControl}
      BY <2>2 DEF ForcedTarget, TypeOK, SMTypeOK, ModeInv, ViolationInv,
                  SlotInv
    <3> QED
      BY <3>1, <3>2, SwitchRefines DEF ForcedTarget, TypeOK, SMTypeOK
  <2> QED
    BY <2>1, <2>2
<1>2. CASE RunNext
  <2>1. CASE NextStateName(target_mode) = current_state_name
    BY <1>2, <2>1 DEF RunNext, smVars, stateVars, Modes!vars
  <2>2. CASE NextStateName(target_mode) # current_state_name
    <3>1. /\ SwitchTo(NextStateName(target_mode))
          /\ inf = "next" /\ inf' = "enter"
      BY <1>2, <2>2 DEF RunNext
    <3>2. \/ NextStateName(target_mode) = kIdle
          \/ NextStateName(target_mode) = kRLControl /\ ready
      BY <2>2, <3>1, NextTransitions DEF ModeInv, ready
    <3> QED
      BY <3>1, <3>2, SwitchRefines
  <2> QED
    BY <2>1, <2>2
<1>3. CASE RunEnter
  BY <1>3 DEF RunEnter, OnEnter, InfAt, ghosts, Modes!vars
<1>4. CASE RunSimpleState
  <2>1. /\ inf # "enter" /\ inf' # "enter"
        /\ UNCHANGED <<current_state_name, tripped>>
    BY <1>4 DEF RunSimpleState, InfAt, ghosts
  <2>2. CASE current_state_name = kIdle /\ IdleRun
    BY <2>1, <2>2 DEF IdleRun, stateVars, Modes!vars
  <2>3. CASE current_state_name = kStandUp /\ StandUpRun
    <3>1. CASE FirstTick(stand_elapsed) > StandDuration
      BY <2>1, <2>3, <3>1 DEF StandUpRun, Modes!Next, Modes!Stand
    <3>2. CASE ~(FirstTick(stand_elapsed) > StandDuration)
      <4>1. ~phase1_done
        BY <2>1, <2>3, <3>2, DurationAssumption
        DEF FirstTick, Unset, TypeOK, SMTypeOK, ModeInv, SplineInv
      <4> QED
        BY <2>1, <2>3, <3>2, <4>1 DEF StandUpRun, Modes!Next, Modes!Spline
    <3> QED
      BY <3>1, <3>2
  <2>4. CASE current_state_name = kJointDamping /\ JointDampingRun
    BY <2>1, <2>4 DEF JointDampingRun, Modes!Next, Modes!Hold
  <2> QED
    BY <1>4, <2>2, <2>3, <2>4 DEF RunSimpleState
<1>5. CASE RLOutput
  <2>1. current_state_name = kRLControl /\ tripped = FALSE
    BY <1>5 DEF RLOutput, InfAt, PolicySteps, ModeInv, ViolationInv, TypeOK,
                NodeTypeOK
  <2> QED
    BY <1>5, <2>1 DEF RLOutput, InfAt, stateVars, Modes!Next, Modes!Policy
<1>6. CASE JudgeStore \/ ViolationStore
  <2>1. current_state_name = kRLControl
    BY <1>6 DEF JudgeStore, ViolationStore, SafetyStore, InfAt, RaiseSteps,
                ModeInv, ViolationInv
  <2> QED
    BY <1>6, <2>1 DEF JudgeStore, ViolationStore, SafetyStore, stateVars,
                      Modes!Next, Modes!Trip
<1>7. CASE /\ inf # "enter" /\ inf' # "enter"
           /\ UNCHANGED <<current_state_name, phase1_done, tripped, act>>
  BY <1>7 DEF Modes!vars
<1>8. ASSUME Inference,
             ~RunTake, ~RunNext, ~RunEnter, ~RunSimpleState, ~RLOutput,
             ~JudgeStore, ~ViolationStore
      PROVE  /\ inf # "enter" /\ inf' # "enter"
             /\ UNCHANGED <<current_state_name, phase1_done, tripped, act>>
  BY <1>8
  DEF Inference, BuildObs, BuildCmd, RunForced, RunState, RunClear, RLState,
      RLConfig, RLRunner, PolicyRef, RLLastAction, RLLoader, RLAsked, RLAsk,
      RLHasMotion, RLMotionLoader, RLFrame, RLAssemble, RLMotion, RLAdvance,
      RLFirst, RLFault, Judge, JudgePend, ViolationPend, SafetyPend,
      InferenceEnd, InfAt, smVars, stateVars, ghosts
<1> QED
  BY <1>1, <1>2, <1>3, <1>4, <1>5, <1>6, <1>7, <1>8

(* The threads, the request slot and the clocks implement the automaton of *)
(* SafeModes: the policy is engaged only by the stand-up that finished its *)
(* spline, it never drives the targets after a violation, and damping is   *)
(* reached from RLControl or Idle only.                                    *)
THEOREM ImplementsSafeModes == Spec => KeepsSafeModes
<1>1. ASSUME TypeOK, ModeInv, [Next]_vars PROVE [Modes!Next]_Modes!vars
  BY <1>1, NextSplit, OtherRefines, InferenceRefines
<1> QED
  BY <1>1, InitRefines, ModeInvariant, PTL DEF Spec, KeepsSafeModes, Modes!Spec

---------------------------------------------------------------------------
(* Motion frames.                                                          *)

(* A frame that the motion of policy p has; any policy may be at frame 0.  *)
FrameInRange(p, frame) == frame = 0 \/ frame < MotionFrames[p]

(* Every policy is at a frame of its own motion, except that a reset in    *)
(* the middle of step_motion_frame may leave the policy that it switched   *)
(* away from at a frame of policy 0's: that policy is not active, and LB   *)
(* resets it when it makes it so.                                          *)
FramesInv ==
    \A p \in Policies : \/ FrameInRange(p, states[p].motion_frame)
                        \/ p # 0 /\ active_idx # p

(* What a filler, and then step_motion_frame, has read so far.             *)
AskInv ==
    /\ inf = "rl_asked" => active_idx \in {ref.loader, 0}
    /\ inf = "rl_ask" =>
         /\ ref.asked \in {ref.loader, 0}
         /\ FrameInRange(ref.asked, states[ref.asked].motion_frame)

StepInv ==
    /\ inf \in {"rl_has", "rl_loader"} => active_idx \in {ref.stepped, 0}
    /\ inf \in {"rl_frame", "rl_advance"} =>
         \/ ref.loader = ref.stepped
         \/ ref.loader = 0 /\ active_idx = 0
    /\ inf = "rl_advance" => ref.frame < MotionFrames[ref.loader]

FrameInv == FramesInv /\ AskInv /\ StepInv

LEMMA SteppedFrameInRange ==
  ASSUME NEW p \in Policies, NEW frame \in Nat, HasMotion(p)
  PROVE  SteppedFrame(p, frame) < MotionFrames[p]
  BY PolicyAssumption DEF SteppedFrame, HasMotion

(* LB waits for mode_mutex_: within a policy step the active policy can    *)
(* only become 0.                                                          *)
LEMMA OtherActive ==
  ASSUME OtherStep, inf \in PolicySteps PROVE active_idx' \in {active_idx, 0}
  BY DEF OtherStep, Control, ApplyAction, Send, MotorOffline, ControlEnd,
         CtlFrame, ExecutorStep, OperatorCall, Executor, ButtonX, ButtonA,
         ButtonB, CallOnly, ToggleInterrupt, ToggleMotion, ModeMutexFree,
         InModeMutex, ButtonRB, ExclusiveService, StartInference,
         StopInference, MotorService, DecideA, DecideB, ForceStore, ForcePend,
         ExclusiveDone, ToggleMotors, ResetRunning, ResetFlags, ResetStore,
         ResetPend, ResetActive, set_active, ResetAct, ResetFrames, ResetFirst,
         LeaveSpin, JoinThreads, ReleaseRobot, Signal, vars, pmVars,
         FirstStore, SecondStore

(* What the other threads do to the policies.                              *)
LEMMA OtherPolicies ==
  ASSUME TypeOK, OtherStep
  PROVE  /\ \/ active_idx' \in {active_idx, 0}
            \/ states'[active_idx'].motion_frame = 0
         /\ \A p \in Policies : states'[p].motion_frame
                                  \in {states[p].motion_frame, 0}
<1>1. CASE ToggleMotion
  <2> DEFINE new_idx == IF is_motion_policy THEN 0
                        ELSE MotionIndices[current_motion_policy_idx + 1]
  <2>1. active_idx' = new_idx
        /\ states' = [states EXCEPT ![new_idx] = FreshState]
    BY <1>1 DEF ToggleMotion, set_active, reset_policy
  <2>2. active_idx' \in Policies
    BY <1>1, ExecutorPMType
    DEF ExecutorStep, OperatorCall, TypeOK, PMTypeOK
  <2> QED
    BY <2>1, <2>2 DEF TypeOK, PMTypeOK, FreshState, RuntimeState
<1>2. CASE ResetFrames
  BY <1>2 DEF ResetFrames, reset_frames, TypeOK, PMTypeOK, RuntimeState
<1>3. CASE ResetFirst
  BY <1>3 DEF ResetFirst, reset_first_frames, TypeOK, PMTypeOK, RuntimeState
<1>4. CASE UNCHANGED states /\ active_idx' \in {active_idx, 0}
  BY <1>4
<1>5. ASSUME ~ToggleMotion, ~ResetFrames, ~ResetFirst
      PROVE  UNCHANGED states /\ active_idx' \in {active_idx, 0}
  BY <1>5
  DEF OtherStep, Control, ApplyAction, Send, MotorOffline, ControlEnd,
      CtlFrame, ExecutorStep, OperatorCall, Executor, ButtonX, ButtonA,
      ButtonB, CallOnly, ToggleInterrupt, ButtonRB, ExclusiveService,
      StartInference, StopInference, MotorService, DecideA, DecideB,
      ForceStore, ForcePend, ExclusiveDone, ToggleMotors, ResetRunning,
      ResetFlags, ResetStore, ResetPend, ResetActive, set_active, ResetAct,
      LeaveSpin, JoinThreads, ReleaseRobot, Signal, vars, pmVars, FirstStore,
      SecondStore
<1> QED
  BY <1>1, <1>2, <1>3, <1>4, <1>5

LEMMA OtherFrames ==
  ASSUME TypeOK, FrameInv, OtherStep PROVE FrameInv'
<1>1. UNCHANGED <<inf, ref>>
  BY OtherSteps DEF OtherFrame, infVars
<1>2. FramesInv'
  <2> SUFFICES ASSUME NEW p \in Policies,
                      states'[p].motion_frame # 0, p = 0 \/ active_idx' = p
               PROVE  FrameInRange(p, states'[p].motion_frame)
    BY DEF FramesInv, FrameInRange
  <2>1. states'[p].motion_frame = states[p].motion_frame
        /\ (p = 0 \/ active_idx = p)
    BY OtherPolicies
  <2> QED
    BY <2>1 DEF FrameInv, FramesInv, FrameInRange
<1>3. AskInv'
  <2>1. CASE inf \in {"rl_asked", "rl_ask"}
    <3>1. active_idx' \in {active_idx, 0}
      BY <2>1, OtherActive DEF PolicySteps
    <3>2. states'[ref.asked].motion_frame
            \in {states[ref.asked].motion_frame, 0}
      BY OtherPolicies DEF TypeOK, InferenceTypeOK, Refs
    <3> QED
      BY <1>1, <3>1, <3>2 DEF FrameInv, AskInv, FrameInRange
  <2>2. CASE inf \notin {"rl_asked", "rl_ask"}
    BY <1>1, <2>2 DEF AskInv
  <2> QED
    BY <2>1, <2>2
<1>4. StepInv'
  <2>1. CASE inf \in MotionSteps
    <3>1. active_idx' \in {active_idx, 0}
      BY <2>1, OtherActive DEF PolicySteps
    <3> QED
      BY <1>1, <3>1 DEF FrameInv, StepInv
  <2>2. CASE inf \notin MotionSteps
    BY <1>1, <2>2 DEF StepInv
  <2> QED
    BY <2>1, <2>2
<1> QED
  BY <1>2, <1>3, <1>4 DEF FrameInv

LEMMA InferenceFrames ==
  ASSUME TypeOK, FrameInv, Inference PROVE FrameInv'
<1> USE DEF InfAt
<1>1. CASE RLLoader
  <2>1. inf' # "rl_ask" /\ inf' \notin MotionSteps
        /\ ref'.loader = active_idx /\ UNCHANGED pmVars
    BY <1>1 DEF RLLoader, PolicyRef, TypeOK, InferenceTypeOK, Refs
  <2> QED
    BY <2>1 DEF pmVars, FrameInv, FramesInv, AskInv, StepInv
<1>2. CASE RLAsked
  <2>1. /\ inf = "rl_asked" /\ inf' = "rl_ask"
        /\ ref'.asked = active_idx /\ ref'.loader = ref.loader
        /\ UNCHANGED pmVars
    BY <1>2 DEF RLAsked, PolicyRef, TypeOK, InferenceTypeOK, Refs
  <2>2. FrameInRange(active_idx, states[active_idx].motion_frame)
    BY DEF FrameInv, FramesInv, TypeOK, PMTypeOK
  <2> QED
    BY <2>1, <2>2
    DEF pmVars, FrameInv, FramesInv, AskInv, StepInv, FrameInRange
<1>3. CASE RLMotion
  <2>1. inf' = "rl_has" /\ ref'.stepped = active_idx /\ UNCHANGED pmVars
    BY <1>3 DEF RLMotion, PolicyRef, TypeOK, InferenceTypeOK, Refs
  <2> QED
    BY <2>1 DEF pmVars, FrameInv, FramesInv, AskInv, StepInv
<1>4. CASE RLHasMotion
  BY <1>4 DEF RLHasMotion, pmVars, FrameInv, FramesInv, AskInv, StepInv
<1>5. CASE RLMotionLoader
  <2>1. /\ inf = "rl_loader" /\ inf' \in {"rl_frame", "rl_first"}
        /\ ref'.loader = active_idx /\ ref'.stepped = ref.stepped
        /\ UNCHANGED pmVars
    BY <1>5 DEF RLMotionLoader, PolicyRef, TypeOK, InferenceTypeOK, Refs
  <2> QED
    BY <2>1 DEF pmVars, FrameInv, FramesInv, AskInv, StepInv
<1>6. CASE RLFrame
  <2> DEFINE frame ==
               SteppedFrame(ref.loader, states[ref.stepped].motion_frame)
  <2>1. frame < MotionFrames[ref.loader]
    BY <1>6, SteppedFrameInRange
    DEF RLFrame, TypeOK, PMTypeOK, RuntimeState, InferenceTypeOK, Refs
  <2>2. /\ inf = "rl_frame" /\ inf' = "rl_advance"
        /\ ref'.loader = ref.loader /\ ref'.stepped = ref.stepped
        /\ ref'.frame = frame
        /\ UNCHANGED pmVars
    BY <1>6 DEF RLFrame, TypeOK, InferenceTypeOK, Refs
  <2> QED
    BY <2>1, <2>2 DEF pmVars, FrameInv, FramesInv, AskInv, StepInv
<1>7. CASE RLAdvance
  <2>1. /\ ref.stepped \in Policies /\ ref.frame < MotionFrames[ref.loader]
        /\ \/ ref.loader = ref.stepped
           \/ ref.loader = 0 /\ active_idx = 0
        /\ inf' = "rl_first" /\ UNCHANGED active_idx
        /\ states' = [states EXCEPT ![ref.stepped].motion_frame = ref.frame]
    BY <1>7 DEF RLAdvance, TypeOK, InferenceTypeOK, Refs, FrameInv, StepInv
  <2>2. states'[ref.stepped].motion_frame = ref.frame
        /\ \A p \in Policies \ {ref.stepped} : states'[p] = states[p]
    BY <2>1 DEF TypeOK, PMTypeOK, RuntimeState
  <2>3. FramesInv'
    BY <2>1, <2>2 DEF FrameInv, FramesInv, FrameInRange
  <2> QED
    BY <2>1, <2>3 DEF FrameInv, AskInv, StepInv
<1>8. CASE RLFirst
  <2>1. inf' = "rl_output" /\ UNCHANGED active_idx
        /\ \A p \in Policies :
             states'[p].motion_frame = states[p].motion_frame
    BY <1>8 DEF RLFirst, TypeOK, PMTypeOK, RuntimeState
  <2> QED
    BY <2>1 DEF FrameInv, FramesInv, AskInv, StepInv, FrameInRange
<1>9. CASE /\ UNCHANGED pmVars
           /\ inf' \notin {"rl_asked", "rl_ask"} \cup MotionSteps
  BY <1>9 DEF pmVars, FrameInv, FramesInv, AskInv, StepInv
<1>10. CASE RLAssemble
  BY <1>10 DEF RLAssemble, pmVars, FrameInv, FramesInv, AskInv, StepInv
<1>11. ASSUME ~RLLoader, ~RLAsked, ~RLMotion, ~RLHasMotion, ~RLMotionLoader,
              ~RLFrame, ~RLAdvance, ~RLFirst, ~RLAssemble
       PROVE  /\ UNCHANGED pmVars
              /\ inf' \notin {"rl_asked", "rl_ask"} \cup MotionSteps
  BY <1>11
  DEF Inference, BuildObs, BuildCmd, RunForced, RunState, RunClear, RunTake,
      RunEnter, RunSimpleState, RLState, RLConfig, RLRunner, RLLastAction,
      PolicyRef, RLAsk, RLOutput, RLFault, RunNext, Judge, JudgeStore,
      JudgePend, ViolationStore, ViolationPend, SafetyStore, SafetyPend,
      InferenceEnd
<1> QED
  BY <1>1, <1>2, <1>3, <1>4, <1>5, <1>6, <1>7, <1>8, <1>9, <1>10, <1>11

(* A motion loader is only asked for frames it has, for motions of any     *)
(* length and however LB, RB, the resets, the fillers' and the stepping's  *)
(* reads of active_idx_ interleave: the one way to ask beyond a motion is  *)
(* a reset between a filler's two reads, with a motion on policy 0.        *)
THEOREM FramesInRange == Spec => []MotionFrameInRange
<1>1. Init => FrameInv
  BY DEF Init, PMInit, FreshState, FrameInv, FramesInv, AskInv, StepInv,
         FrameInRange
<1>2. ASSUME TypeOK, FrameInv, [Next]_vars PROVE FrameInv'
  BY <1>2, NextSplit, OtherFrames, InferenceFrames
<1>3. ASSUME TypeOK, FrameInv PROVE MotionFrameInRange
  <2> SUFFICES ASSUME inf = "rl_ask", ~(ref.asked = 0 /\ ref.loader # 0
                                          /\ HasMotion(0))
               PROVE  states[ref.asked].motion_frame < MotionFrames[ref.loader]
    BY DEF MotionFrameInRange
  <2>1. /\ ref.loader \in Policies /\ HasMotion(ref.loader)
        /\ MotionFrames[ref.loader] \in Nat /\ MotionFrames[0] \in Nat
        /\ states[ref.asked].motion_frame \in Nat
    BY <1>3, PolicyAssumption, ZeroIsPolicy
    DEF TypeOK, PMTypeOK, RuntimeState, InferenceTypeOK, Refs
  <2>2. /\ ref.asked \in {ref.loader, 0}
        /\ FrameInRange(ref.asked, states[ref.asked].motion_frame)
    BY <1>3 DEF FrameInv, AskInv
  <2> QED
    BY <2>1, <2>2 DEF FrameInRange, HasMotion
<1> QED
  BY <1>1, <1>2, <1>3, TypeCorrect, PTL DEF Spec

---------------------------------------------------------------------------
(* The references of a tick.                                               *)

AfterState  == PolicySteps \ {"rl_state"}
AfterConfig == AfterState \ {"rl_config"}
AfterRunner == AfterConfig \ {"rl_runner"}

(* From the first read on the active policy is the one last referred to,   *)
(* or policy 0: LB waits for mode_mutex_, a reset does not.  The fillers   *)
(* and step_motion_frame start from none.                                  *)
ActiveInv ==
    /\ inf = "rl_config" => active_idx \in {ref.st, 0}
    /\ inf = "rl_runner" => active_idx \in {ref.cfg, 0}
    /\ inf \in AfterRunner => active_idx \in {ref.runner, 0}

NoFillerYet ==
    inf \in {"cmd", "force?", "rl_state", "rl_config", "rl_runner"} =>
      {ref.loader, ref.asked, ref.stepped} = {0}

RefInv == RefsMixOnlyByReset /\ ActiveInv /\ NoFillerYet

LEMMA OtherRefs ==
  ASSUME TypeOK, RefInv, OtherStep PROVE RefInv'
<1>1. UNCHANGED <<inf, ref>>
  BY OtherSteps DEF OtherFrame, infVars
<1>2. ActiveInv'
  <2>1. CASE inf \in PolicySteps
    BY <1>1, <2>1, OtherActive DEF RefInv, ActiveInv
  <2>2. CASE inf \notin PolicySteps
    BY <1>1, <2>2 DEF ActiveInv, AfterState, AfterConfig, AfterRunner,
                      PolicySteps
  <2> QED
    BY <2>1, <2>2
<1> QED
  BY <1>1, <1>2 DEF RefInv, RefsMixOnlyByReset, NoFillerYet

LEMMA InferenceRefs ==
  ASSUME TypeOK, RefInv, Inference PROVE RefInv'
<1> USE DEF RefInv, RefsMixOnlyByReset, ActiveInv, NoFillerYet, AfterState,
            AfterConfig, AfterRunner, PolicySteps, InfAt
<1>1. CASE BuildObs
  BY <1>1 DEF BuildObs, NoRef
<1>2. CASE BuildCmd \/ RunState
  BY <1>2 DEF BuildCmd, RunState
<1>3. CASE RLState
  BY <1>3 DEF RLState, PolicyRef, pmVars, TypeOK, InferenceTypeOK, Refs
<1>4. CASE RLConfig
  BY <1>4 DEF RLConfig, PolicyRef, pmVars, TypeOK, InferenceTypeOK, Refs
<1>5. CASE RLRunner
  BY <1>5 DEF RLRunner, PolicyRef, pmVars, TypeOK, InferenceTypeOK, Refs
<1>6. CASE RLLastAction \/ RLLoader \/ RLAsked
  BY <1>6 DEF RLLastAction, RLLoader, RLAsked, PolicyRef, pmVars, TypeOK,
              InferenceTypeOK, Refs
<1>7. CASE RLMotion \/ RLMotionLoader
  BY <1>7 DEF RLMotion, RLMotionLoader, PolicyRef, pmVars, TypeOK,
              InferenceTypeOK, Refs
<1>8. CASE RLFrame
  BY <1>8 DEF RLFrame, pmVars, TypeOK, InferenceTypeOK, Refs
<1>9. CASE RLAsk \/ RLAssemble \/ RLHasMotion \/ RLAdvance \/ RLFirst
  BY <1>9 DEF RLAsk, RLAssemble, RLHasMotion, RLAdvance, RLFirst, pmVars
<1>10. CASE inf' \notin AfterState \cup {"cmd", "force?", "rl_state"}
  BY <1>10
<1>11. ASSUME ~BuildObs, ~BuildCmd, ~RunState, ~RLState, ~RLConfig, ~RLRunner,
              ~RLLastAction, ~RLLoader, ~RLAsked, ~RLMotion, ~RLMotionLoader,
              ~RLFrame, ~RLAsk, ~RLAssemble, ~RLHasMotion, ~RLAdvance,
              ~RLFirst
       PROVE  inf' \notin AfterState \cup {"cmd", "force?", "rl_state"}
  BY <1>11
  DEF Inference, RunForced, RunClear, RunTake, RunEnter, RunSimpleState,
      RLOutput, RLFault, RunNext, Judge, JudgeStore, JudgePend, ViolationStore,
      ViolationPend, SafetyStore, SafetyPend, InferenceEnd
<1> QED
  BY <1>1, <1>2, <1>3, <1>4, <1>5, <1>6, <1>7, <1>8, <1>9, <1>10, <1>11

(* The state, configuration and model that one RL tick works with, what    *)
(* its fillers are given and what step_motion_frame steps belong to one    *)
(* policy, except that a reset may turn the later ones to policy 0; LB's   *)
(* switch, which takes mode_mutex_, never comes in between.                *)
THEOREM RefsOfOnePolicy == Spec => []RefsMixOnlyByReset
<1>1. Init => RefInv
  BY DEF Init, NoRef, RefInv, RefsMixOnlyByReset, ActiveInv, NoFillerYet,
         AfterState, AfterConfig, AfterRunner, PolicySteps
<1>2. ASSUME TypeOK, RefInv, [Next]_vars PROVE RefInv'
  BY <1>2, NextSplit, OtherRefs, InferenceRefs
<1>3. RefInv => RefsMixOnlyByReset
  BY DEF RefInv
<1> QED
  BY <1>1, <1>2, <1>3, TypeCorrect, PTL DEF Spec
===========================================================================
