---------------------------- MODULE MCImuDriver ----------------------------
(* A small IMU for ImuDriver.                                              *)
EXTENDS ImuDriver

(* Payloads of one byte, and that byte may be a 55: out of step, the       *)
(* parser begins a frame there and drops the header that follows with it.  *)
(* Two samples of such payloads are equal.                                 *)
AllShapes == {<<FALSE>>, <<TRUE>>}

(* The set-up has to switch the gyroscope on and the quaternion off.       *)
Saved == {{"acc", "euler", "quat"}}
============================================================================
