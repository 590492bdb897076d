----------------------------- MODULE SafeModes -----------------------------
(***************************************************************************)
(* What the robot's modes do, with no threads, requests or clocks:         *)
(*                                                                         *)
(*   - the policy is engaged only from StandUp, and only when the spline   *)
(*     of that same stand-up has run to its end;                           *)
(*   - the policy's output reaches the motor targets only in RLControl,    *)
(*     and never again once a safety violation was raised there;           *)
(*   - JointDamping is entered from RLControl, or from Idle by a request   *)
(*     that comes late, and only damping writes the held pose.  It is not  *)
(*     entered from StandUp, although the node announces at its start      *)
(*     "Any state -> JointDamping": no other mode raises a violation.      *)
(*                                                                         *)
(* It does not say when a stand-up begins or what the targets are between  *)
(* two points of the spline; and a tick may write the policy's output      *)
(* after a reset wrote the default posture.                                *)
(***************************************************************************)
VARIABLES
    mode,      \* the mode, as the state machine names it
    ready,     \* the spline of this stand-up is finished
    tripped,   \* a violation was raised in this RLControl episode
    out        \* what the motor targets were last written by

vars == <<mode, ready, tripped, out>>

Init == mode = "Idle" /\ ~ready /\ ~tripped /\ out = "default"

(* From any mode: a request for StandUp is decided in Idle, but it may be  *)
(* carried out late, or a later request with its target.                   *)
StartStandUp ==
    /\ mode' = "StandUp"
    /\ ready' = FALSE
    /\ tripped' = FALSE
    /\ UNCHANGED out

Spline ==
    /\ mode = "StandUp"
    /\ ~ready
    /\ out' = "spline"
    /\ UNCHANGED <<mode, ready, tripped>>

Stand ==
    /\ mode = "StandUp"
    /\ ready' = TRUE
    /\ out' = "default"
    /\ UNCHANGED <<mode, tripped>>

Engage ==
    /\ mode = "StandUp"
    /\ ready
    /\ mode' = "RLControl"
    /\ ready' = FALSE
    /\ UNCHANGED <<tripped, out>>

Policy ==
    /\ mode = "RLControl"
    /\ ~tripped
    /\ out' = "policy"
    /\ UNCHANGED <<mode, ready, tripped>>

Trip ==
    /\ mode = "RLControl"
    /\ tripped' = TRUE
    /\ UNCHANGED <<mode, ready, out>>

Hold ==
    /\ mode = "JointDamping"
    /\ out' = "hold"
    /\ UNCHANGED <<mode, ready, tripped>>

Stop ==
    /\ \/ mode' = "Idle"
       \/ mode \in {"Idle", "RLControl"} /\ mode' = "JointDamping"
    /\ ready' = FALSE
    /\ tripped' = FALSE
    /\ UNCHANGED out

Reset == out' = "default" /\ UNCHANGED <<mode, ready, tripped>>

Next == StartStandUp \/ Spline \/ Stand \/ Engage \/ Policy \/ Trip \/ Hold
        \/ Stop \/ Reset

Spec == Init /\ [][Next]_vars
===========================================================================
