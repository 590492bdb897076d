----------------------------- MODULE ImuDriver -----------------------------
(***************************************************************************)
(* DmIMUDriver over IMUSerialPort: the attitude of the robot, byte by      *)
(* byte.                                                                   *)
(*                                                                         *)
(*   constructor   open the port (its thread starts at once), install the  *)
(*                 callback, send the set-up, which nobody confirms        *)
(*   serial_rx     select, read, parse_byte                                *)
(*   destructor    stop the thread, join it, close the port                *)
(*                                                                         *)
(* The IMU and the line are external.  A sample is sent as one sub-frame   *)
(* per output that is switched on, in the order of their registers:        *)
(*                                                                         *)
(*   55 AA 01 <register> <payload> <crc> 0A                                *)
(*                                                                         *)
(* The line may lose bytes and corrupt them, as often as it likes, but no  *)
(* more than MaxLost of them while the parser collects one frame.          *)
(* Reading n bytes at once is n reads of one byte.  A byte is a tuple; the *)
(* payload (12 bytes in the code) has the shape of a sequence of Booleans: *)
(* TRUE stands for a byte that happens to be 55, FALSE for one that tells  *)
(* whose payload it is.  The CRC (2 bytes in the code) finds every error.  *)
(***************************************************************************)
EXTENDS Integers, Sequences

CONSTANTS
    PayloadLen,   \* bytes of a payload
    Shapes,       \* what payloads may look like
    SavedOutputs, \* the outputs that may be switched on at power-up
    MaxLost,      \* bound: bytes the line damages within a frame
    Cycle,        \* bound: samples are numbered modulo this
    Backlog       \* bound: measurements remembered as not published

Outputs == <<"acc", "gyro", "euler", "quat">>
Needed  == {"acc", "gyro", "euler"}

ASSUME ImuAssumption ==
    /\ PayloadLen \in Nat \ {0}
    /\ Shapes \subseteq [1 .. PayloadLen -> BOOLEAN]
    /\ SavedOutputs \subseteq SUBSET {"acc", "gyro", "euler", "quat"}
    /\ MaxLost \in Nat
    /\ Cycle \in Nat \ {0}
    /\ Backlog \in Nat /\ Backlog >= 2   \* the sample before, and this one

VARIABLES
    (* the program *)
    boot,       \* constructor and destructor: program counter
    callback_,  \* callback_ of the port
    running_,   \* running_
    serial,     \* serial_rx: program counter
    fd,         \* fd_ is open
    rx_buf_,    \* rx_buf_[0 .. rx_index_ - 1]; frame_started_ if not empty
    data_,      \* data_, and what is derived from it under imu_mutex_
    (* the IMU and the line *)
    enabled,    \* the outputs switched on
    setting,    \* the IMU is in its setting mode
    sample,     \* the number of the next sample
    wire,       \* sent and not read yet
    lost,       \* bytes damaged since rx_buf_ was empty
    (* history *)
    measured,   \* whole samples sent and not published, the last few
    complete    \* the number of whole samples sent in a row, up to 2

bootVars == <<boot, callback_, running_, fd>>
imuVars  == <<enabled, setting, sample, complete>>
vars == <<bootVars, serial, rx_buf_, data_, imuVars, wire, lost, measured>>

---------------------------------------------------------------------------
(* Bytes and frames.                                                       *)

Lit(b)     == <<b>>
Header     == Lit("55")
Crc(bytes) == <<"crc", bytes>>

FrameStart == <<Lit("55"), Lit("AA"), Lit("01")>>
Register(o) == Lit(CASE o = "acc" -> "01" [] o = "gyro" -> "02"
                     [] o = "euler" -> "03" [] o = "quat" -> "04")

SubLen    == PayloadLen + 6
FrameSize == 3 * SubLen        \* DM_IMU_FRAME_SIZE

Plain == [i \in 1 .. PayloadLen |-> FALSE]

Payload(o, s, shape) ==
    [i \in 1 .. PayloadLen |-> IF shape[i] THEN Header ELSE <<"data", o, s>>]

SubFrame(o, s, shape) ==
    LET body == FrameStart \o <<Register(o)>> \o Payload(o, s, shape)
    IN  body \o <<Crc(body), Lit("0A")>>

Transmission(outputs, s, shape) ==
    LET part(o) == IF o \in outputs THEN SubFrame(o, s, shape) ELSE <<>>
    IN  part(Outputs[1]) \o part(Outputs[2]) \o part(Outputs[3])
          \o part(Outputs[4])

Measurement(s, shape) == [o \in Needed |-> Payload(o, s, shape)]

(* The three parts of a frame, by position, as in IMU_Receive_Frame.       *)
Part(frame, k) == SubSeq(frame, (k - 1) * SubLen + 1, k * SubLen)

CrcMatches(sub) ==
    sub[SubLen - 1] = Crc(SubSeq(sub, 1, SubLen - 2))

(* Two bugs: only the first part is checked; the CRC is looked for one     *)
(* byte late.                                                              *)
Valid_FirstOnly(frame) == CrcMatches(Part(frame, 1))

Valid_AtTheEnd(frame) ==
    \A k \in 1 .. 3 : Part(frame, k)[SubLen] =
                          Crc(SubSeq(Part(frame, k), 1, SubLen - 2))

Valid(frame) == \A k \in 1 .. 3 : CrcMatches(Part(frame, k))

PayloadOf(frame, k) == SubSeq(Part(frame, k), 5, PayloadLen + 4)

Extract(frame) ==
    [o \in Needed |-> PayloadOf(frame, CASE o = "acc" -> 1
                                         [] o = "gyro" -> 2
                                         [] o = "euler" -> 3)]

(* data_ before the first frame.                                           *)
Zero == [o \in Needed |-> <<>>]
---------------------------------------------------------------------------
Init ==
    /\ boot = "open"
    /\ callback_ = "unset"
    /\ running_ = TRUE
    /\ serial = "run"
    /\ fd = TRUE
    /\ rx_buf_ = <<>>
    /\ data_ = Zero
    /\ enabled \in SavedOutputs
    /\ setting = FALSE
    /\ sample = 0
    /\ wire = <<>>
    /\ lost = 0
    /\ measured = <<>>
    /\ complete = 0
---------------------------------------------------------------------------
(* The constructor.  callback_ is assigned while the thread is reading it: *)
(* until the assignment has ended, the thread may find it unset or find    *)
(* half of it.                                                             *)

InstallCallback ==
    /\ \/ boot = "open" /\ boot' = "installing" /\ callback_' = "half"
       \/ boot = "installing" /\ boot' = "enter" /\ callback_' = "set"
    /\ UNCHANGED <<running_, fd, serial, rx_buf_, data_, imuVars, wire, lost,
                   measured>>

(* The commands; those that set the rate and save are left out.            *)
After(command) ==
    CASE command = "enter"    -> "acc_on"
      [] command = "acc_on"   -> "gyro_on"
      [] command = "gyro_on"  -> "euler_on"
      [] command = "euler_on" -> "quat_off"
      [] command = "quat_off" -> "exit"
      [] command = "exit"     -> "ready"

Commands == {"enter", "acc_on", "gyro_on", "euler_on", "quat_off", "exit"}

(* What a command does to an IMU that hears it.                            *)
Obeyed(command) ==
    /\ setting' = CASE command = "enter" -> TRUE
                    [] command = "exit"  -> FALSE
                    [] OTHER             -> setting
    /\ enabled' = CASE ~setting               -> enabled
                    [] command = "acc_on"     -> enabled \cup {"acc"}
                    [] command = "gyro_on"    -> enabled \cup {"gyro"}
                    [] command = "euler_on"   -> enabled \cup {"euler"}
                    [] command = "quat_off"   -> enabled \ {"quat"}
                    [] OTHER                  -> enabled

(* A command is written five times; what write returns is ignored, and the *)
(* IMU may have heard none of them.                                        *)
SendCommand ==
    /\ boot \in Commands
    /\ boot' = After(boot)
    /\ Obeyed(boot) \/ UNCHANGED <<setting, enabled>>
    /\ UNCHANGED <<callback_, running_, fd, serial, rx_buf_, data_, sample,
                   complete, wire, lost, measured>>

(* A bug: the thread is joined and was never told to stop.                 *)
CloseStart_KeepsRunning ==
    /\ boot = "ready"
    /\ boot' = "join"
    /\ UNCHANGED <<callback_, running_, fd, serial, rx_buf_, data_, imuVars,
                   wire, lost, measured>>

(* The destructor.                                                         *)
CloseStart ==
    /\ boot = "ready"
    /\ boot' = "join"
    /\ running_' = FALSE
    /\ UNCHANGED <<callback_, fd, serial, rx_buf_, data_, imuVars, wire, lost,
                   measured>>

CloseJoin ==
    /\ boot = "join"
    /\ serial = "done"
    /\ boot' = "closed"
    /\ fd' = FALSE
    /\ UNCHANGED <<callback_, running_, serial, rx_buf_, data_, imuVars, wire,
                   lost, measured>>
---------------------------------------------------------------------------
(* serial_rx.  It tests running_ before every chunk it reads, so that a    *)
(* few bytes may still be parsed after running_ was cleared.               *)

SerialEnd ==
    /\ serial = "run"
    /\ ~running_
    /\ serial' = "done"
    /\ wire' = <<>>      \* bound: nobody will read it
    /\ UNCHANGED <<bootVars, rx_buf_, data_, imuVars, lost, measured>>

(* An error of select or read ends the thread, and nothing else.           *)
SerialError ==
    /\ serial = "run"
    /\ serial' = "done"
    /\ wire' = <<>>      \* bound: nobody will read it
    /\ UNCHANGED <<bootVars, rx_buf_, data_, imuVars, lost, measured>>

(* Without a callback what was read is gone; with half of one it is gone   *)
(* or the process is.                                                      *)
ReadUnheard ==
    /\ serial = "run" /\ wire # <<>>
    /\ callback_ # "set"
    /\ \/ UNCHANGED serial
       \/ callback_ = "half" /\ serial' = "crashed"
    /\ wire' = Tail(wire)
    /\ UNCHANGED <<bootVars, rx_buf_, data_, imuVars, lost, measured>>

(* parse_byte looks for 55, ...                                            *)
SeekHeader(byte) ==
    /\ rx_buf_ = <<>>
    /\ rx_buf_' = IF byte = Header THEN <<byte>> ELSE <<>>
    /\ UNCHANGED <<data_, measured>>

(* A bug: any sub-frame is taken for the first.                            *)
BadStart_AnyRegister(buf) == Len(buf) = 4 /\ SubSeq(buf, 1, 3) # FrameStart

(* ... drops everything when the first four bytes are not an acc header,   *)
BadStart(buf) == Len(buf) = 4 /\ buf # FrameStart \o <<Register("acc")>>

RejectHeader(byte) ==
    /\ rx_buf_ # <<>>
    /\ BadStart(Append(rx_buf_, byte))
    /\ rx_buf_' = <<>>
    /\ UNCHANGED <<data_, measured>>

(* A bug: one byte too many.                                               *)
Accumulate_OffByOne(byte) ==
    /\ rx_buf_ # <<>>
    /\ ~BadStart(Append(rx_buf_, byte))
    /\ Len(rx_buf_) + 1 <= FrameSize
    /\ rx_buf_' = Append(rx_buf_, byte)
    /\ UNCHANGED <<data_, measured>>

Accumulate(byte) ==
    /\ rx_buf_ # <<>>
    /\ ~BadStart(Append(rx_buf_, byte))
    /\ Len(rx_buf_) + 1 < FrameSize
    /\ rx_buf_' = Append(rx_buf_, byte)
    /\ UNCHANGED <<data_, measured>>

(* What is left of a backlog when measurement m has been published.        *)
Since(m) ==
    IF \E i \in 1 .. Len(measured) : measured[i] = m
    THEN LET i == CHOOSE j \in 1 .. Len(measured) : measured[j] = m
         IN  SubSeq(measured, i + 1, Len(measured))
    ELSE measured

(* ... and publishes a whole frame if the CRC of each part is right.       *)
CompleteFrame(byte) ==
    LET frame == Append(rx_buf_, byte)
    IN  /\ rx_buf_ # <<>>
        /\ ~BadStart(frame)
        /\ Len(frame) >= FrameSize
        /\ rx_buf_' = <<>>
        /\ data_' = IF Valid(frame) THEN Extract(frame) ELSE data_
        /\ measured' = IF Valid(frame) THEN Since(data_') ELSE measured

ParseByte(byte) ==
    SeekHeader(byte) \/ RejectHeader(byte) \/ Accumulate(byte)
      \/ CompleteFrame(byte)

ReadByte ==
    /\ serial = "run" /\ wire # <<>>
    /\ callback_ = "set"
    /\ wire' = Tail(wire)
    /\ ParseByte(Head(wire))
    /\ lost' = IF rx_buf_' = <<>> THEN 0 ELSE lost
    /\ UNCHANGED <<bootVars, serial, imuVars>>

Read == ReadUnheard \/ ReadByte
---------------------------------------------------------------------------
(* The IMU and the line.                                                   *)

Whole == Needed \subseteq enabled

SendSample(shape) ==
    /\ serial = "run"    \* bound: nobody listens after that
    /\ boot = "ready" \/ shape = Plain   \* bound
    /\ wire = <<>>
    /\ wire' = Transmission(enabled, sample, shape)
    /\ sample' = (sample + 1) % Cycle
    /\ IF Whole
       THEN /\ complete' = IF complete < 2 THEN complete + 1 ELSE 2
            /\ measured' = LET all == Append(measured,
                                             Measurement(sample, shape))
                           IN  IF Len(all) <= Backlog THEN all ELSE Tail(all)
       ELSE /\ complete' = 0
            /\ UNCHANGED measured
    /\ UNCHANGED <<bootVars, serial, rx_buf_, data_, enabled, setting, lost>>

(* A byte is lost, or arrives as another.  55 is the worst it can become: *)
(* any other value is wrong for the header and for the CRC just as much.   *)
DamageByte ==
    /\ serial = "run" /\ wire # <<>>
    /\ \/ rx_buf_ = <<>> /\ UNCHANGED lost
       \/ lost < MaxLost /\ rx_buf_ # <<>> /\ lost' = lost + 1
    /\ \/ wire' = Tail(wire)
       \/ wire' = <<Header>> \o Tail(wire)
    /\ UNCHANGED <<bootVars, serial, rx_buf_, data_, imuVars, measured>>

---------------------------------------------------------------------------
Ended == serial \in {"done", "crashed"} /\ UNCHANGED vars

Next ==
    \/ InstallCallback \/ SendCommand \/ CloseStart \/ CloseJoin
    \/ Read \/ SerialEnd \/ SerialError
    \/ (\E shape \in Shapes : SendSample(shape))
    \/ DamageByte
    \/ Ended

Spec == Init /\ [][Next]_vars

(* The threads run; the IMU sends when it is not being set, and the last   *)
(* bytes of its payloads are not 55 for ever.                              *)
FairSpec ==
    /\ Spec
    /\ WF_vars(Read) /\ WF_vars(SerialEnd)
    /\ WF_vars(InstallCallback \/ SendCommand \/ CloseJoin)
    /\ SF_vars(~setting /\ SendSample(Plain))
---------------------------------------------------------------------------
(* Types; and parse_byte never writes beyond rx_buf_, nor leaves more than *)
(* a header behind that is not one.                                        *)
TypeOK ==
    /\ boot \in {"open", "installing", "ready", "join", "closed"}
                  \cup Commands
    /\ callback_ \in {"unset", "half", "set"}
    /\ running_ \in BOOLEAN
    /\ serial \in {"run", "done", "crashed"}
    /\ fd \in BOOLEAN
    /\ DOMAIN rx_buf_ = 1 .. Len(rx_buf_) /\ Len(rx_buf_) < FrameSize
    /\ DOMAIN data_ = Needed
    /\ enabled \subseteq {"acc", "gyro", "euler", "quat"}
    /\ setting \in BOOLEAN
    /\ sample \in 0 .. Cycle - 1
    /\ lost \in 0 .. MaxLost
    /\ Len(measured) <= Backlog
    /\ complete \in 0 .. 2

(* What is collected as a frame began as one: the first sub-frame's header *)
(* is in place before a fifth byte is taken (parse_byte tests it once).    *)
FrameBegan ==
    Len(rx_buf_) >= 4 =>
        SubSeq(rx_buf_, 1, 4) = FrameStart \o <<Register("acc")>>

(* The driver implements AttitudeSource: with lost and corrupted bytes,    *)
(* headers inside payloads and a set-up that nobody confirms, what it      *)
(* publishes is one measurement, in order and once, from the second whole  *)
(* sample on.                                                              *)
Source == INSTANCE AttitudeSource WITH
    Measurements <- {Measurement(s, shape) : s \in 0 .. Cycle - 1,
                                             shape \in Shapes},
    attitude <- data_,
    ready <- complete = 2

ImplementsAttitudeSource == Source!Spec

(* After the last damaged byte the parser comes back into step: again and  *)
(* again the newest sample is the one published.  Excused are a line that  *)
(* never stops damaging bytes, a thread that has ended and an IMU that was *)
(* not set up; nobody notices the last two.                                *)
Resynchronises ==
    []<>(\/ boot = "ready" /\ measured = <<>>
         \/ serial \in {"done", "crashed"}
         \/ boot = "ready" /\ (setting \/ ~Whole))
      \/ []<><<DamageByte>>_vars

(* The port is closed: the destructor does not wait for ever on its join,  *)
(* whatever the line brings and whether the thread ends because it was     *)
(* told to or ended by itself before (IMUSerialPort::close).  Excused is a *)
(* process that crashed.                                                   *)
DestructorReturns ==
    []<>(boot # "join" \/ serial = "crashed")
=============================================================================
