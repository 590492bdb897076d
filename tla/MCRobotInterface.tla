------------------------- MODULE MCRobotInterface -------------------------
(* A small robot for RobotInterface.                                       *)
EXTENDS RobotInterface

OneMotor == [m \in {1} |-> "can0"]
=============================================================================
