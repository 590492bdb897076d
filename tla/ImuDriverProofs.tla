-------------------------- MODULE ImuDriverProofs --------------------------
(***************************************************************************)
(* What holds of the IMU driver for any payload length, any shapes of      *)
(* payloads, any number of damaged bytes: the receive buffer is never      *)
(* overrun, what it collects began as a frame, and the port outlives its   *)
(* thread.                                                                 *)
(***************************************************************************)
EXTENDS ImuDriver, SequenceTheorems, TLAPS

AllOutputs == {"acc", "gyro", "euler", "quat"}

(* Bytes that are no CRC, and bytes.                                       *)
Basic == {Lit(b) : b \in {"55", "AA", "01", "02", "03", "04", "0A"}}
           \cup {<<"data", o, s>> : o \in AllOutputs, s \in 0 .. Cycle - 1}
Bytes == Basic \cup {Crc(b) : b \in Seq(Basic)}

Made == {Measurement(s, shape) : s \in 0 .. Cycle - 1, shape \in Shapes}

---------------------------------------------------------------------------
(* What the IMU sends are bytes.                                           *)

LEMMA LitType ==
    ASSUME NEW b \in {"55", "AA", "01", "02", "03", "04", "0A"}
    PROVE  Lit(b) \in Basic
BY DEF Basic

LEMMA HeaderType == Header \in Basic
BY LitType DEF Header

LEMMA RegisterType ==
    ASSUME NEW o \in AllOutputs
    PROVE  Register(o) \in Basic
<1>1. CASE o = "acc"   BY <1>1, LitType DEF Register
<1>2. CASE o = "gyro"  BY <1>2, LitType DEF Register
<1>3. CASE o = "euler" BY <1>3, LitType DEF Register
<1>4. CASE o = "quat"  BY <1>4, LitType DEF Register
<1> QED BY <1>1, <1>2, <1>3, <1>4 DEF AllOutputs

LEMMA StartType == FrameStart \in Seq(Basic) /\ Len(FrameStart) = 3
<1>1. Lit("55") \in Basic /\ Lit("AA") \in Basic /\ Lit("01") \in Basic
  BY LitType
<1> QED BY <1>1 DEF FrameStart

LEMMA PayloadType ==
    ASSUME NEW o \in AllOutputs, NEW s \in 0 .. Cycle - 1,
           NEW shape \in Shapes
    PROVE  Payload(o, s, shape) \in Seq(Basic)
<1>1. PayloadLen \in Nat BY ImuAssumption
<1>2. <<"data", o, s>> \in Basic BY DEF Basic
<1>3. Payload(o, s, shape) \in [1 .. PayloadLen -> Basic]
  BY <1>2, HeaderType DEF Payload
<1> QED BY <1>1, <1>3, SeqDef

LEMMA SubFrameType ==
    ASSUME NEW o \in AllOutputs, NEW s \in 0 .. Cycle - 1,
           NEW shape \in Shapes
    PROVE  SubFrame(o, s, shape) \in Seq(Bytes)
<1> DEFINE head == FrameStart \o <<Register(o)>>
           body == head \o Payload(o, s, shape)
           end  == <<Crc(body), Lit("0A")>>
<1>1. <<Register(o)>> \in Seq(Basic) BY RegisterType
<1>2. head \in Seq(Basic) BY <1>1, StartType, ConcatProperties
<1>3. body \in Seq(Basic) BY <1>2, PayloadType, ConcatProperties
<1>4. body \in Seq(Bytes) BY <1>3, SeqMonotonic DEF Bytes
<1>5. Crc(body) \in Bytes /\ Lit("0A") \in Bytes BY <1>3, LitType DEF Bytes
<1>6. end \in Seq(Bytes) BY <1>5
<1>7. body \o end \in Seq(Bytes) BY <1>4, <1>6, ConcatProperties
<1> QED BY <1>7 DEF SubFrame

LEMMA TransmissionType ==
    ASSUME NEW outputs \in SUBSET AllOutputs, NEW s \in 0 .. Cycle - 1,
           NEW shape \in Shapes
    PROVE  Transmission(outputs, s, shape) \in Seq(Bytes)
<1> DEFINE part(o) == IF o \in outputs THEN SubFrame(o, s, shape) ELSE <<>>
<1>1. ASSUME NEW o \in AllOutputs PROVE part(o) \in Seq(Bytes)
  BY SubFrameType, EmptySeq
<1>2. /\ part(Outputs[1]) \in Seq(Bytes) /\ part(Outputs[2]) \in Seq(Bytes)
      /\ part(Outputs[3]) \in Seq(Bytes) /\ part(Outputs[4]) \in Seq(Bytes)
  BY <1>1 DEF Outputs, AllOutputs
<1> HIDE DEF part
<1>3. part(Outputs[1]) \o part(Outputs[2]) \in Seq(Bytes)
  BY <1>2, ConcatProperties
<1>4. part(Outputs[1]) \o part(Outputs[2]) \o part(Outputs[3]) \in Seq(Bytes)
  BY <1>2, <1>3, ConcatProperties
<1>5. part(Outputs[1]) \o part(Outputs[2]) \o part(Outputs[3])
        \o part(Outputs[4]) \in Seq(Bytes)
  BY <1>2, <1>4, ConcatProperties
<1> QED BY <1>5 DEF Transmission, part

---------------------------------------------------------------------------
(* Type correctness: besides TypeOK, the line and the buffers are          *)
(* sequences.                                                              *)

SeqInv ==
    /\ wire \in Seq(Bytes)
    /\ rx_buf_ \in Seq(Bytes)
    /\ measured \in Seq(Made)

TypeInv == TypeOK /\ SeqInv

LEMMA FrameSizeBig == FrameSize \in Nat /\ FrameSize >= 21
BY ImuAssumption DEF FrameSize, SubLen

LEMMA TypeInit == Init => TypeInv
<1> SUFFICES ASSUME Init PROVE TypeInv
  OBVIOUS
<1>1. /\ <<>> \in Seq(Bytes) /\ <<>> \in Seq(Made) /\ Len(<<>>) = 0
      /\ DOMAIN <<>> = 1 .. Len(<<>>)
  <2>1. <<>> \in Seq(Bytes) /\ <<>> \in Seq(Made) /\ Len(<<>>) = 0
    BY EmptySeq
  <2> QED BY <2>1, LenProperties
<1>2. SeqInv BY <1>1 DEF Init, SeqInv
<1>3. DOMAIN rx_buf_ = 1 .. Len(rx_buf_) /\ Len(rx_buf_) < FrameSize
  <2>1. rx_buf_ = <<>> BY DEF Init
  <2>2. DOMAIN rx_buf_ = 1 .. Len(rx_buf_) BY <1>1, <2>1, Zenon
  <2>3. Len(rx_buf_) = 0 BY <1>1, <2>1, Zenon
  <2> QED BY <2>2, <2>3, FrameSizeBig
<1>4. enabled \subseteq AllOutputs
  BY ImuAssumption DEF Init, AllOutputs
<1>5. sample \in 0 .. Cycle - 1 /\ lost \in 0 .. MaxLost
      /\ Len(measured) <= Backlog
  BY <1>1, ImuAssumption DEF Init
<1>6. DOMAIN data_ = Needed BY DEF Init, Zero
<1>7. /\ boot = "open" /\ callback_ = "unset" /\ running_ = TRUE
      /\ serial = "run" /\ fd = TRUE /\ setting = FALSE /\ complete = 0
  BY DEF Init
<1>8. TypeOK
  <2>1. running_ \in BOOLEAN /\ fd \in BOOLEAN /\ setting \in BOOLEAN
    BY <1>7, Zenon
  <2>2. boot \in {"open", "installing", "ready", "join", "closed"}
                  \cup Commands
    BY <1>7
  <2>3. callback_ \in {"unset", "half", "set"}
        /\ serial \in {"run", "done", "crashed"}
    BY <1>7
  <2>4. complete \in 0 .. 2 BY <1>7
  <2> QED
    BY <1>3, <1>4, <1>5, <1>6, <2>1, <2>2, <2>3, <2>4 DEF TypeOK, AllOutputs
<1> QED BY <1>2, <1>8 DEF TypeInv

(* A sequence is a function on 1 .. its length.                            *)
LEMMA SeqDomain ==
    ASSUME NEW S, NEW s \in Seq(S)
    PROVE  DOMAIN s = 1 .. Len(s) /\ Len(s) \in Nat
BY LenProperties

LEMMA TailType ==
    ASSUME NEW S, NEW s \in Seq(S), s # <<>>
    PROVE  Tail(s) \in Seq(S) /\ Head(s) \in S /\ Len(Tail(s)) = Len(s) - 1
BY HeadTailProperties

LEMMA SinceType ==
    ASSUME TypeInv, NEW m
    PROVE  Since(m) \in Seq(Made) /\ Len(Since(m)) <= Backlog
<1>1. measured \in Seq(Made) /\ Len(measured) \in Nat
      /\ Len(measured) <= Backlog
  BY LenProperties DEF TypeInv, TypeOK, SeqInv
<1>2. CASE \E i \in 1 .. Len(measured) : measured[i] = m
  <2> DEFINE i == CHOOSE j \in 1 .. Len(measured) : measured[j] = m
  <2>1. i \in 1 .. Len(measured) BY <1>2
  <2> HIDE DEF i
  <2>2. /\ SubSeq(measured, i + 1, Len(measured)) \in Seq(Made)
        /\ Len(SubSeq(measured, i + 1, Len(measured))) <= Len(measured)
    BY <1>1, <2>1, SubSeqProperties
  <2>3. Since(m) = SubSeq(measured, i + 1, Len(measured))
    BY <1>2 DEF Since, i
  <2> QED BY <1>1, <2>2, <2>3, ImuAssumption
<1>3. CASE ~\E i \in 1 .. Len(measured) : measured[i] = m
  BY <1>1, <1>3 DEF Since
<1> QED BY <1>2, <1>3

LEMMA TypeParse ==
    ASSUME TypeInv, NEW byte \in Bytes, ParseByte(byte)
    PROVE  /\ rx_buf_' \in Seq(Bytes) /\ Len(rx_buf_') < FrameSize
           /\ DOMAIN data_' = Needed
           /\ measured' \in Seq(Made) /\ Len(measured') <= Backlog
<1>1. /\ rx_buf_ \in Seq(Bytes) /\ Len(rx_buf_) \in Nat
      /\ Len(rx_buf_) < FrameSize
      /\ DOMAIN data_ = Needed
      /\ measured \in Seq(Made) /\ Len(measured) <= Backlog
  BY LenProperties DEF TypeInv, TypeOK, SeqInv
<1>2. <<>> \in Seq(Bytes) /\ Len(<<>>) = 0 BY EmptySeq
<1>3. <<byte>> \in Seq(Bytes) /\ Len(<<byte>>) = 1 OBVIOUS
<1>4. /\ Append(rx_buf_, byte) \in Seq(Bytes)
      /\ Len(Append(rx_buf_, byte)) = Len(rx_buf_) + 1
  BY <1>1, AppendProperties
<1>5. CASE SeekHeader(byte)
  BY <1>1, <1>2, <1>3, <1>5, FrameSizeBig DEF SeekHeader
<1>6. CASE RejectHeader(byte)
  BY <1>1, <1>2, <1>6, FrameSizeBig DEF RejectHeader
<1>7. CASE Accumulate(byte)
  BY <1>1, <1>4, <1>7 DEF Accumulate
<1>8. CASE CompleteFrame(byte)
  <2>1. rx_buf_' \in Seq(Bytes) /\ Len(rx_buf_') < FrameSize
    BY <1>2, <1>8, FrameSizeBig DEF CompleteFrame
  <2>2. DOMAIN data_' = Needed
    BY <1>1, <1>8 DEF CompleteFrame, Extract
  <2>3. measured' \in Seq(Made) /\ Len(measured') <= Backlog
    BY <1>1, <1>8, SinceType DEF CompleteFrame
  <2> QED BY <2>1, <2>2, <2>3
<1> QED BY <1>5, <1>6, <1>7, <1>8 DEF ParseByte

(* One step: the driver's own variables, then what the line carries.       *)
LEMMA TypeRead ==
    ASSUME TypeInv, Read
    PROVE  TypeInv'
<1>1. /\ wire \in Seq(Bytes) /\ rx_buf_ \in Seq(Bytes)
      /\ measured \in Seq(Made)
  BY DEF TypeInv, SeqInv
<1>2. CASE ReadUnheard
  <2>1. wire' \in Seq(Bytes) BY <1>1, <1>2, TailType DEF ReadUnheard
  <2> QED
    BY <2>1, <1>2 DEF ReadUnheard, TypeInv, SeqInv, TypeOK, bootVars, imuVars
<1>3. CASE ReadByte
  <2>1. wire # <<>> /\ ParseByte(Head(wire)) /\ wire' = Tail(wire)
        /\ UNCHANGED <<bootVars, serial, imuVars>>
    BY <1>3 DEF ReadByte
  <2>2. Head(wire) \in Bytes /\ wire' \in Seq(Bytes)
    BY <1>1, <2>1, TailType
  <2>3. /\ rx_buf_' \in Seq(Bytes) /\ Len(rx_buf_') < FrameSize
        /\ DOMAIN data_' = Needed
        /\ measured' \in Seq(Made) /\ Len(measured') <= Backlog
    BY <2>1, <2>2, TypeParse
  <2>4. DOMAIN rx_buf_' = 1 .. Len(rx_buf_') BY <2>3, LenProperties
  <2>5. lost' \in 0 .. MaxLost
    BY <1>3, ImuAssumption DEF ReadByte, TypeInv, TypeOK
  <2> QED
    BY <2>1, <2>2, <2>3, <2>4, <2>5
       DEF TypeInv, SeqInv, TypeOK, bootVars, imuVars
<1> QED BY <1>2, <1>3 DEF Read

LEMMA TypeSend ==
    ASSUME TypeInv, NEW shape \in Shapes, SendSample(shape)
    PROVE  TypeInv'
<1>1. sample \in 0 .. Cycle - 1 /\ enabled \in SUBSET AllOutputs
      /\ measured \in Seq(Made)
  BY DEF TypeInv, TypeOK, SeqInv, AllOutputs
<1>2. wire' \in Seq(Bytes) BY <1>1, TransmissionType DEF SendSample
<1>3. sample' \in 0 .. Cycle - 1
  BY <1>1, ImuAssumption DEF SendSample
<1>4. measured' \in Seq(Made) /\ Len(measured') <= Backlog
  <2>1. CASE Whole
    <3> DEFINE m == Measurement(sample, shape)
               all == Append(measured, m)
    <3>1. m \in Made BY <1>1 DEF Made
    <3> HIDE DEF m
    <3>2. /\ all \in Seq(Made) /\ Len(all) = Len(measured) + 1
          /\ Len(measured) \in Nat /\ all # <<>>
      BY <1>1, <3>1, AppendProperties, LenProperties
    <3>3. Tail(all) \in Seq(Made) /\ Len(Tail(all)) = Len(all) - 1
      BY <3>2, TailType
    <3>4. Len(measured) <= Backlog BY DEF TypeInv, TypeOK
    <3>5. measured' = IF Len(all) <= Backlog THEN all ELSE Tail(all)
      BY <2>1 DEF SendSample, m
    <3> QED BY <3>2, <3>3, <3>4, <3>5, ImuAssumption
  <2>2. CASE ~Whole
    BY <1>1, <2>2 DEF SendSample, TypeInv, TypeOK
  <2> QED BY <2>1, <2>2
<1>5. complete' \in 0 .. 2 BY DEF SendSample, TypeInv, TypeOK
<1>6. UNCHANGED <<bootVars, serial, rx_buf_, data_, enabled, setting, lost>>
  BY DEF SendSample
<1> QED
  BY <1>2, <1>3, <1>4, <1>5, <1>6 DEF TypeInv, SeqInv, TypeOK, bootVars

LEMMA TypeDamage ==
    ASSUME TypeInv, DamageByte
    PROVE  TypeInv'
<1>1. wire \in Seq(Bytes) /\ wire # <<>>
  BY DEF TypeInv, SeqInv, DamageByte
<1>2. Tail(wire) \in Seq(Bytes) BY <1>1, TailType
<1>3. <<Header>> \in Seq(Bytes) BY HeaderType DEF Bytes
<1>4. wire' \in Seq(Bytes)
  BY <1>2, <1>3, ConcatProperties DEF DamageByte
<1>5. lost' \in 0 .. MaxLost
  BY ImuAssumption DEF DamageByte, TypeInv, TypeOK
<1> QED
  BY <1>4, <1>5 DEF DamageByte, TypeInv, SeqInv, TypeOK, bootVars, imuVars

LEMMA TypeCommand ==
    ASSUME TypeInv, SendCommand
    PROVE  TypeInv'
<1>1. boot' \in Commands \cup {"ready"}
  BY DEF SendCommand, Commands, After
<1>2. CASE Obeyed(boot)
  <2>1. setting' \in BOOLEAN
    BY <1>2 DEF Obeyed, TypeInv, TypeOK
  <2>2. enabled' \subseteq AllOutputs
    BY <1>2 DEF Obeyed, TypeInv, TypeOK, AllOutputs
  <2> QED
    BY <1>1, <2>1, <2>2 DEF SendCommand, TypeInv, SeqInv, TypeOK, AllOutputs
<1>3. CASE UNCHANGED <<setting, enabled>>
  BY <1>1, <1>3 DEF SendCommand, TypeInv, SeqInv, TypeOK
<1> QED BY <1>2, <1>3 DEF SendCommand

LEMMA TypeNext == TypeInv /\ [Next]_vars => TypeInv'
<1> SUFFICES ASSUME TypeInv, [Next]_vars PROVE TypeInv'
  OBVIOUS
<1>1. CASE InstallCallback
  BY <1>1 DEF InstallCallback, TypeInv, SeqInv, TypeOK, Commands, imuVars
<1>2. CASE SendCommand BY <1>2, TypeCommand
<1>3. CASE CloseStart
  BY <1>3 DEF CloseStart, TypeInv, SeqInv, TypeOK, imuVars
<1>4. CASE CloseJoin
  BY <1>4 DEF CloseJoin, TypeInv, SeqInv, TypeOK, imuVars
<1>5. CASE Read BY <1>5, TypeRead
<1>6. CASE SerialEnd \/ SerialError
  <2>1. <<>> \in Seq(Bytes) BY EmptySeq
  <2> QED
    BY <1>6, <2>1 DEF SerialEnd, SerialError, TypeInv, SeqInv, TypeOK,
                      bootVars, imuVars
<1>7. CASE \E shape \in Shapes : SendSample(shape) BY <1>7, TypeSend
<1>8. CASE DamageByte BY <1>8, TypeDamage
<1>9. CASE Ended \/ UNCHANGED vars
  BY <1>9 DEF Ended, vars, TypeInv, SeqInv, TypeOK, bootVars, imuVars
<1> QED
  BY <1>1, <1>2, <1>3, <1>4, <1>5, <1>6, <1>7, <1>8, <1>9 DEF Next

LEMMA TypeAlways == Spec => []TypeInv
BY TypeInit, TypeNext, PTL DEF Spec

(* The types hold, and rx_buf_ never holds a whole frame between two       *)
(* bytes: parse_byte cannot write beyond it.                               *)
THEOREM TypeCorrect == Spec => []TypeOK
<1>1. TypeInv => TypeOK BY DEF TypeInv
<1> QED BY <1>1, TypeAlways, PTL

---------------------------------------------------------------------------
(* What is collected began as a frame.                                     *)

AccHeader == FrameStart \o <<Register("acc")>>

LEMMA HeaderLen == AccHeader \in Seq(Bytes) /\ Len(AccHeader) = 4
<1>1. <<Register("acc")>> \in Seq(Basic) /\ Len(<<Register("acc")>>) = 1
  BY RegisterType DEF AllOutputs
<1>2. /\ FrameStart \o <<Register("acc")>> \in Seq(Basic)
      /\ Len(FrameStart \o <<Register("acc")>>) =
           Len(FrameStart) + Len(<<Register("acc")>>)
  BY <1>1, StartType, ConcatProperties
<1>3. Len(FrameStart \o <<Register("acc")>>) = 4
  BY <1>1, <1>2, StartType
<1> QED BY <1>2, <1>3, SeqMonotonic DEF Bytes, AccHeader

(* Appending to four bytes or more leaves the first four alone.            *)
LEMMA FirstFour ==
    ASSUME NEW s \in Seq(Bytes), NEW byte \in Bytes, Len(s) >= 4
    PROVE  SubSeq(Append(s, byte), 1, 4) = SubSeq(s, 1, 4)
<1> DEFINE t == Append(s, byte)
<1>1. /\ t \in Seq(Bytes) /\ Len(t) = Len(s) + 1 /\ Len(s) \in Nat
      /\ \A i \in 1 .. Len(s) : t[i] = s[i]
  BY AppendProperties, LenProperties
<1>2. \A i \in 1 .. 4 : t[i] = s[i] /\ s[i] \in Bytes /\ t[i] \in Bytes
  BY <1>1, ElementOfSeq
<1> HIDE DEF t
<1>3. /\ SubSeq(s, 1, 4) \in Seq(Bytes) /\ Len(SubSeq(s, 1, 4)) = 4
      /\ \A i \in 1 .. 4 : SubSeq(s, 1, 4)[i] = s[i]
  BY <1>2, SubSeqProperties
<1>4. /\ SubSeq(t, 1, 4) \in Seq(Bytes) /\ Len(SubSeq(t, 1, 4)) = 4
      /\ \A i \in 1 .. 4 : SubSeq(t, 1, 4)[i] = t[i]
  BY <1>2, SubSeqProperties
<1>5. SubSeq(t, 1, 4) = SubSeq(s, 1, 4)
  BY <1>2, <1>3, <1>4, SeqEqual
<1> QED BY <1>5 DEF t

LEMMA BeganRead ==
    ASSUME TypeInv, FrameBegan, Read
    PROVE  FrameBegan'
<1>1. CASE ReadUnheard BY <1>1 DEF ReadUnheard, FrameBegan
<1>2. CASE ReadByte
  <2> DEFINE byte == Head(wire)
             buf  == Append(rx_buf_, byte)
  <2>1. /\ ParseByte(byte) /\ byte \in Bytes
        /\ rx_buf_ \in Seq(Bytes)
    BY <1>2, TailType DEF ReadByte, TypeInv, SeqInv
  <2>2. buf \in Seq(Bytes) /\ Len(buf) = Len(rx_buf_) + 1
        /\ Len(rx_buf_) \in Nat
    BY <2>1, AppendProperties, LenProperties
  <2>3. CASE rx_buf_' = <<>>
    BY <2>3, EmptySeq DEF FrameBegan
  <2>4. CASE rx_buf_' = <<byte>>
    BY <2>4 DEF FrameBegan
  <2>5. CASE Accumulate(byte)
    <3>1. rx_buf_' = buf /\ ~BadStart(buf) BY <2>5 DEF Accumulate
    <3>2. CASE Len(rx_buf_) >= 4
      <4>1. SubSeq(buf, 1, 4) = SubSeq(rx_buf_, 1, 4)
        BY <2>1, <3>2, FirstFour
      <4> QED BY <3>1, <3>2, <4>1 DEF FrameBegan
    <3>3. CASE Len(rx_buf_) = 3
      <4>1. buf = AccHeader
        BY <2>2, <3>1, <3>3 DEF BadStart, AccHeader
      <4>2. SubSeq(buf, 1, 4) = buf BY <2>2, <3>3, SubSeqFull
      <4> QED BY <3>1, <4>1, <4>2 DEF FrameBegan, AccHeader
    <3>4. CASE Len(rx_buf_) < 3 BY <2>2, <3>1, <3>4 DEF FrameBegan
    <3>5. Len(rx_buf_) \in Nat BY <2>2
    <3>6. \A n \in Nat : n >= 4 \/ n = 3 \/ n < 3 OBVIOUS
    <3> QED BY <3>2, <3>3, <3>4, <3>5, <3>6, Zenon
  <2>6. rx_buf_' = <<>> \/ rx_buf_' = <<byte>> \/ Accumulate(byte)
    BY <2>1 DEF ParseByte, SeekHeader, RejectHeader, CompleteFrame
  <2> QED BY <2>3, <2>4, <2>5, <2>6
<1> QED BY <1>1, <1>2 DEF Read

LEMMA BeganNext ==
    TypeInv /\ FrameBegan /\ [Next]_vars => FrameBegan'
<1> SUFFICES ASSUME TypeInv, FrameBegan, [Next]_vars PROVE FrameBegan'
  OBVIOUS
<1>1. CASE Read BY <1>1, BeganRead
<1>2. CASE ~Read
  <2>1. rx_buf_' = rx_buf_
    BY <1>2 DEF Next, InstallCallback, SendCommand, CloseStart, CloseJoin,
                SerialEnd, SerialError, SendSample, DamageByte, Ended, vars
  <2> QED BY <2>1 DEF FrameBegan
<1> QED BY <1>1, <1>2

LEMMA BeganInit == Init => FrameBegan
BY EmptySeq DEF Init, FrameBegan

(* Out of step or not, the parser collects beyond four bytes only behind   *)
(* the header of a first sub-frame.                                        *)
THEOREM FrameBeganCorrect == Spec => []FrameBegan
BY TypeAlways, BeganInit, BeganNext, PTL DEF Spec
=============================================================================
