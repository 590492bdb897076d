----------------------------- MODULE LossyFifo -----------------------------
(***************************************************************************)
(* What a CAN interface promises to the motor drivers: frames reach the    *)
(* wire in the order in which they were accepted, each at most once.       *)
(* Nothing promises that a frame is accepted or that it reaches the wire.  *)
(***************************************************************************)
EXTENDS Sequences

CONSTANT Frames

VARIABLES
    chan,   \* accepted and on its way, oldest first
    wire    \* written, and not taken by the bus yet

vars == <<chan, wire>>

Init == chan = <<>> /\ wire = <<>>

Accept(f) == chan' = Append(chan, f) /\ UNCHANGED wire

Deliver ==
    /\ chan # <<>>
    /\ chan' = Tail(chan)
    /\ wire' = Append(wire, Head(chan))

Lose == chan # <<>> /\ chan' = Tail(chan) /\ UNCHANGED wire

Take == wire # <<>> /\ wire' = Tail(wire) /\ UNCHANGED chan

Next == (\E f \in Frames : Accept(f)) \/ Deliver \/ Lose \/ Take

Spec == Init /\ [][Next]_vars
===========================================================================
