--------------------------- MODULE StateMachine ---------------------------
(***************************************************************************)
(* The StateMachine class of the inference package and its four states:    *)
(* the mode the robot is in, the one-slot request that ForceTransition     *)
(* leaves for the next Run(), and what each state keeps between ticks.     *)
(*                                                                         *)
(* Run() is not one step.  The inference thread reads force_pending_,      *)
(* clears it and then reads forced_next_state_, while the executor thread  *)
(* may be between the two stores of ForceTransition.  No lock covers       *)
(* either, and both fields are plain ones: the stores of one thread may    *)
(* become visible to the other in either order.  A load of the target      *)
(* ahead of the flag's, or a late clearing, is for Run the same as a flag  *)
(* that overtakes its target.  The operators below are the pieces;         *)
(* InferenceNode sequences them, and lets the executor's two stores be     *)
(* seen in either order; a thread sees its own in the order of its program.*)
(*                                                                         *)
(* A state's clock is the time since its first tick, obs.time minus        *)
(* start_time_ or enter_time_.  It is Unset where the code stores -1.0 and *)
(* stops at its threshold, the only value the code compares it with.       *)
(***************************************************************************)
EXTENDS Integers

CONSTANTS
    StandDuration,   \* stand_duration_, the spline's T, in clock units
    DampDuration     \* the 3 s that JointDamping holds, in clock units

ASSUME DurationAssumption ==
    /\ StandDuration \in Nat
    /\ DampDuration \in Nat \ {0}

kIdle         == "Idle"
kStandUp      == "StandUp"
kRLControl    == "RLControl"
kJointDamping == "JointDamping"
StateName     == {kIdle, kStandUp, kRLControl, kJointDamping}

Unset == -1

(* What act_ holds: the posture the reset and the finished spline write,   *)
(* a point of the spline, the policy's output, the pose damping holds.     *)
ActTag == {"default", "spline", "policy", "hold"}

VARIABLES
    current_state_name,
    forced_next_state,
    force_pending,
    stand_elapsed,      \* StandUpState: obs.time - start_time_
    phase1_done,        \* StandUpState: the spline has run to its end
    damp_elapsed,       \* JointDampingState: obs.time - enter_time_
    is_running,         \* ctx->is_running
    act                 \* ctx->act, the target the control thread reads

requestVars == <<forced_next_state, force_pending>>
stateVars   == <<stand_elapsed, phase1_done, damp_elapsed>>
smVars      == <<current_state_name, requestVars, stateVars, is_running, act>>

SMTypeOK ==
    /\ current_state_name \in StateName
    /\ forced_next_state \in StateName
    /\ force_pending \in BOOLEAN
    /\ stand_elapsed \in {Unset} \cup 0 .. (StandDuration + 1)
    /\ phase1_done \in BOOLEAN
    /\ damp_elapsed \in {Unset} \cup 0 .. DampDuration
    /\ is_running \in BOOLEAN
    /\ act \in ActTag

(* The node's constructor ends in reset_runtime_state(): the machine       *)
(* starts in Idle with a request for Idle already pending.                 *)
SMInit ==
    /\ current_state_name = kIdle
    /\ forced_next_state = kIdle
    /\ force_pending = TRUE
    /\ stand_elapsed = Unset
    /\ phase1_done = FALSE
    /\ damp_elapsed = Unset
    /\ is_running = FALSE
    /\ act = "default"

---------------------------------------------------------------------------
(* ForceTransition: two plain stores, each a step of its own.              *)

StoreForced(s) == forced_next_state' = s
StorePending   == force_pending' = TRUE

(* Run, forced branch: clear the flag, then read the target.               *)
ClearPending == force_pending' = FALSE
ForcedTarget == forced_next_state

---------------------------------------------------------------------------
(* What the states do.                                                     *)

OnExit == is_running' = (is_running /\ current_state_name # kRLControl)

(* A bug OnEnter could have: StandUp keeps the last stand-up's result.     *)
OnEnter_KeepsPhase(s) ==
    /\ is_running' = (s = kRLControl)
    /\ stand_elapsed' = IF s = kStandUp THEN Unset ELSE stand_elapsed
    /\ damp_elapsed' = IF s = kJointDamping THEN Unset ELSE damp_elapsed
    /\ UNCHANGED phase1_done

OnEnter(s) ==
    /\ is_running' = (s = kRLControl)
    /\ stand_elapsed' = IF s = kStandUp THEN Unset ELSE stand_elapsed
    /\ phase1_done' = (phase1_done /\ s # kStandUp)
    /\ damp_elapsed' = IF s = kJointDamping THEN Unset ELSE damp_elapsed

Least(a, b) == IF a < b THEN a ELSE b

(* obs.time moves on by d: the clock of the state that is running does.    *)
AdvanceClock(d) ==
    /\ stand_elapsed' =
         IF current_state_name = kStandUp /\ stand_elapsed # Unset
         THEN Least(stand_elapsed + d, StandDuration + 1) ELSE stand_elapsed
    /\ damp_elapsed' =
         IF current_state_name = kJointDamping /\ damp_elapsed # Unset
         THEN Least(damp_elapsed + d, DampDuration) ELSE damp_elapsed

FirstTick(e) == IF e = Unset THEN 0 ELSE e

IdleRun == UNCHANGED <<stateVars, act>>

(* A bug StandUp could have: holding does not set phase1_done_.            *)
StandUpRun_NeverDone ==
    LET elapsed == FirstTick(stand_elapsed) IN
    /\ stand_elapsed' = elapsed
    /\ act' = IF elapsed > StandDuration THEN "default" ELSE "spline"
    /\ UNCHANGED <<phase1_done, damp_elapsed>>

StandUpRun ==
    LET elapsed == FirstTick(stand_elapsed) IN
    /\ stand_elapsed' = elapsed
    /\ phase1_done' = (phase1_done \/ elapsed > StandDuration)
    /\ act' = IF elapsed > StandDuration THEN "default" ELSE "spline"
    /\ UNCHANGED damp_elapsed

(* A bug damping could have: every tick starts the 3 s anew.               *)
JointDampingRun_EveryTick ==
    /\ damp_elapsed' = 0
    /\ act' = "hold"
    /\ UNCHANGED <<stand_elapsed, phase1_done>>

JointDampingRun ==
    /\ damp_elapsed' = FirstTick(damp_elapsed)
    /\ act' = "hold"
    /\ UNCHANGED <<stand_elapsed, phase1_done>>

(* GetNextStateName of the current state, for the command's target_mode.   *)
NextStateName(target_mode) ==
    CASE current_state_name = kIdle ->
           IF target_mode = kStandUp THEN kStandUp ELSE kIdle
      [] current_state_name = kStandUp ->
           IF phase1_done /\ target_mode = kRLControl THEN kRLControl
           ELSE IF target_mode = kIdle THEN kIdle ELSE kStandUp
      [] current_state_name = kRLControl ->
           IF target_mode = kIdle THEN kIdle ELSE kRLControl
      [] current_state_name = kJointDamping ->
           IF damp_elapsed >= DampDuration THEN kIdle ELSE kJointDamping

(* LoseControlJudge: only RLControl looks at the posture.                  *)
LosesControl(posture_unsafe) ==
    current_state_name = kRLControl /\ posture_unsafe
===========================================================================
