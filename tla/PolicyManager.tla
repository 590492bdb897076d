--------------------------- MODULE PolicyManager ---------------------------
(***************************************************************************)
(* The policies the node can run, which one is active, and the state each  *)
(* keeps between ticks.  A policy is its index in configs_; of its         *)
(* configuration only the length of its motion file matters (0: none).     *)
(* Nothing here takes a lock: mode_mutex_ belongs to the callers, and not  *)
(* all of them take it.                                                    *)
(***************************************************************************)
EXTENDS Integers, Sequences

CONSTANTS
    PolicyCount,        \* configs_.size()
    MotionFrames,       \* policy -> get_num_frames() of its motion, 0: none
    MotionIndices,      \* motion_indices_, in the order of add_policy
    SupportsInterrupt   \* some policy observes the "interrupt" source

Policies == 0 .. (PolicyCount - 1)

(* The constructor throws unless there is a policy and every motion file   *)
(* has frames; add_policy collects the indices of the motion policies.     *)
ASSUME PolicyAssumption ==
    /\ PolicyCount \in Nat \ {0}
    /\ MotionFrames \in [Policies -> Nat]
    /\ MotionIndices \in Seq(Policies)
    /\ \A i \in 1 .. Len(MotionIndices) : MotionFrames[MotionIndices[i]] > 0
    /\ SupportsInterrupt \in BOOLEAN

HasMotion(p)    == MotionFrames[p] > 0
HasMotionPolicy == Len(MotionIndices) > 0

VARIABLES
    active_idx,
    states       \* policy -> PolicyRuntimeState

pmVars == <<active_idx, states>>

FreshState == [motion_frame |-> 0, is_first_frame |-> TRUE]

RuntimeState == [motion_frame : Nat, is_first_frame : BOOLEAN]

PMTypeOK ==
    /\ active_idx \in Policies
    /\ states \in [Policies -> RuntimeState]

PMInit ==
    /\ active_idx = 0
    /\ states = [p \in Policies |-> FreshState]

set_active(p)   == active_idx' = p
reset_policy(p) == states' = [states EXCEPT ![p] = FreshState]

(* reset_all: what it does to the frames and to the flags.                 *)
reset_frames ==
    states' = [p \in Policies |-> [states[p] EXCEPT !.motion_frame = 0]]
reset_first_frames ==
    states' = [p \in Policies |-> [states[p] EXCEPT !.is_first_frame = TRUE]]

(* step_motion_frame, with the loader of policy p: one frame further, held *)
(* at the loader's last.  (First with a bug it could have.)                *)
SteppedFrame_OffByOne(p, frame) ==
    IF frame + 1 > MotionFrames[p] THEN MotionFrames[p] - 1 ELSE frame + 1

SteppedFrame(p, frame) ==
    IF frame + 1 >= MotionFrames[p] THEN MotionFrames[p] - 1 ELSE frame + 1
===========================================================================
