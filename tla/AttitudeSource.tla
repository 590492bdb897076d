--------------------------- MODULE AttitudeSource ---------------------------
(***************************************************************************)
(* What an IMU driver promises to the robot: the attitude it hands out is  *)
(* one measurement, whole, and measurements follow each other in the order *)
(* in which they were made, each at most once.  Any may be missing.        *)
(* Nothing is promised before the sensor has been set up.                  *)
(***************************************************************************)
EXTENDS Naturals, Sequences

CONSTANT Measurements

VARIABLES
    measured,   \* made and not handed out yet, oldest first
    attitude,   \* what the getters return
    ready       \* the sensor has been set up

vars == <<measured, attitude, ready>>

Init == measured = <<>> /\ ~ready

(* A new measurement; the driver may give up on the oldest ones.           *)
Measure ==
    /\ \E i \in 1 .. Len(measured) + 1, m \in Measurements :
         measured' = Append(SubSeq(measured, i, Len(measured)), m)
    /\ ready => ready'
    /\ UNCHANGED attitude

Publish ==
    /\ \E i \in 1 .. Len(measured) :
         /\ attitude' = measured[i]
         /\ measured' = SubSeq(measured, i + 1, Len(measured))
    /\ UNCHANGED ready

(* Before the set-up: anything.                                            *)
Garble == ~ready /\ UNCHANGED <<measured, ready>>

Next == Measure \/ Publish \/ Garble

Spec == Init /\ [][Next]_vars
=============================================================================
