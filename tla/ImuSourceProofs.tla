--------------------------- MODULE ImuSourceProofs ---------------------------
(***************************************************************************)
(* The IMU driver implements AttitudeSource, for any payload length, any   *)
(* payloads and any outputs switched on at power-up, on a line that loses  *)
(* and corrupts bytes without end, if it damages fewer bytes of a frame    *)
(* than a sub-frame has.                                                   *)
(*                                                                         *)
(* What tells the driver where it is are the CRC bytes: a byte that is one *)
(* stands at its place in a sub-frame, wherever the parser took it.        *)
(***************************************************************************)
EXTENDS ImuDriverProofs

AnyShape == [1 .. PayloadLen -> BOOLEAN]

LEMMA SubLenType ==
    /\ PayloadLen \in Nat /\ PayloadLen >= 1
    /\ SubLen \in Nat /\ SubLen >= 7 /\ SubLen = PayloadLen + 6
    /\ FrameSize = 3 * SubLen
BY ImuAssumption DEF SubLen, FrameSize

---------------------------------------------------------------------------
(* Bytes: a CRC is no other byte, and tells what it was made from.         *)

LEMMA CrcNotBasic == \A b : Crc(b) \notin Basic
<1> SUFFICES ASSUME NEW b, Crc(b) \in Basic PROVE FALSE
  OBVIOUS
<1>1. Len(Crc(b)) = 2 BY DEF Crc
<1>2. ASSUME NEW c \in {"55", "AA", "01", "02", "03", "04", "0A"}
      PROVE  Crc(b) # Lit(c)
  <2>1. Len(Lit(c)) = 1 BY DEF Lit
  <2> QED BY <1>1, <2>1
<1>3. ASSUME NEW o \in AllOutputs, NEW s \in 0 .. Cycle - 1
      PROVE  Crc(b) # <<"data", o, s>>
  <2>1. Len(<<"data", o, s>>) = 3 OBVIOUS
  <2> QED BY <1>1, <2>1
<1> QED BY <1>2, <1>3 DEF Basic

LEMMA CrcMadeFrom == \A b : Crc(b)[2] = b
BY DEF Crc

(* A CRC made from bytes whose fourth is the register of the acceleration. *)
OfAcc(byte) == byte[2][4] = Register("acc")

LEMMA RegisterInjective ==
    ASSUME NEW o \in AllOutputs, Register(o) = Register("acc")
    PROVE  o = "acc"
<1>1. Lit("01")[1] = "01" /\ Lit("02")[1] = "02" /\ Lit("03")[1] = "03"
      /\ Lit("04")[1] = "04"
  BY DEF Lit
<1>2. Register("acc") = Lit("01") BY DEF Register
<1>3. CASE o = "gyro" BY <1>1, <1>2, <1>3 DEF Register
<1>4. CASE o = "euler" BY <1>1, <1>2, <1>4 DEF Register
<1>5. CASE o = "quat" BY <1>1, <1>2, <1>5 DEF Register
<1> QED BY <1>3, <1>4, <1>5 DEF AllOutputs

---------------------------------------------------------------------------
(* Sub-frames.                                                             *)

Body(o, s, shape) ==
    FrameStart \o <<Register(o)>> \o Payload(o, s, shape)

(* The elements of a concatenation, from the left and from the right.      *)
LEMMA ConcatAt ==
    ASSUME NEW S, NEW a \in Seq(S), NEW b \in Seq(S)
    PROVE  /\ a \o b \in Seq(S)
           /\ Len(a) \in Nat /\ Len(b) \in Nat
           /\ Len(a \o b) = Len(a) + Len(b)
           /\ \A i \in 1 .. Len(a) : (a \o b)[i] = a[i]
           /\ \A i \in 1 .. Len(b) : (a \o b)[Len(a) + i] = b[i]
<1>1. Len(a) \in Nat /\ Len(b) \in Nat BY LenProperties
<1>2. /\ a \o b \in Seq(S) /\ Len(a \o b) = Len(a) + Len(b)
      /\ \A i \in 1 .. Len(a) + Len(b) :
           (a \o b)[i] = IF i <= Len(a) THEN a[i] ELSE b[i - Len(a)]
  BY ConcatProperties
<1>3. ASSUME NEW i \in 1 .. Len(a) PROVE (a \o b)[i] = a[i]
  <2>1. i \in 1 .. Len(a) + Len(b) /\ i <= Len(a) BY <1>1
  <2> QED BY <1>2, <2>1
<1>4. ASSUME NEW i \in 1 .. Len(b) PROVE (a \o b)[Len(a) + i] = b[i]
  <2>1. /\ Len(a) + i \in 1 .. Len(a) + Len(b) /\ ~(Len(a) + i <= Len(a))
        /\ Len(a) + i - Len(a) = i
    BY <1>1
  <2> QED BY <1>2, <2>1
<1> QED BY <1>1, <1>2, <1>3, <1>4

LEMMA BodyProperties ==
    ASSUME NEW o \in AllOutputs, NEW s \in 0 .. Cycle - 1,
           NEW shape \in AnyShape
    PROVE  /\ Body(o, s, shape) \in Seq(Basic)
           /\ Len(Body(o, s, shape)) = SubLen - 2
           /\ Body(o, s, shape)[4] = Register(o)
           /\ \A i \in 1 .. PayloadLen :
                Body(o, s, shape)[i + 4] = Payload(o, s, shape)[i]
<1> DEFINE head == FrameStart \o <<Register(o)>>
           pay  == Payload(o, s, shape)
<1>1. pay \in Seq(Basic) /\ Len(pay) = PayloadLen
  <2>1. <<"data", o, s>> \in Basic BY DEF Basic
  <2>2. pay \in [1 .. PayloadLen -> Basic]
    BY <2>1, HeaderType DEF Payload
  <2>3. pay \in Seq(Basic) BY <2>2, SubLenType, SeqDef
  <2>4. DOMAIN pay = 1 .. PayloadLen BY <2>2
  <2>5. DOMAIN pay = 1 .. Len(pay) /\ Len(pay) \in Nat
    BY <2>3, LenProperties
  <2>6. Len(pay) = PayloadLen
    BY <2>4, <2>5, SubLenType
  <2> QED BY <2>3, <2>6
<1>2. <<Register(o)>> \in Seq(Basic) /\ Len(<<Register(o)>>) = 1
      /\ <<Register(o)>>[1] = Register(o)
  BY RegisterType
<1>3. /\ head \in Seq(Basic) /\ Len(head) = 4
      /\ head[4] = Register(o)
  <2>1. /\ head \in Seq(Basic)
        /\ Len(head) = Len(FrameStart) + Len(<<Register(o)>>)
        /\ \A i \in 1 .. Len(<<Register(o)>>) :
             head[Len(FrameStart) + i] = <<Register(o)>>[i]
    <3>1. FrameStart \in Seq(Basic) /\ <<Register(o)>> \in Seq(Basic)
      BY <1>2, StartType
    <3> QED BY <3>1, ConcatAt
  <2>2. Len(FrameStart) = 3 BY StartType
  <2>3. head[3 + 1] = <<Register(o)>>[1] BY <1>2, <2>1, <2>2
  <2> QED BY <1>2, <2>1, <2>2, <2>3
<1> HIDE DEF head, pay
<1>4. /\ head \o pay \in Seq(Basic)
      /\ Len(head \o pay) = Len(head) + Len(pay)
      /\ \A i \in 1 .. Len(head) : (head \o pay)[i] = head[i]
      /\ \A i \in 1 .. Len(pay) : (head \o pay)[Len(head) + i] = pay[i]
  <2>1. head \in Seq(Basic) /\ pay \in Seq(Basic) BY <1>1, <1>3
  <2> QED BY <2>1, ConcatAt
<1>5. Body(o, s, shape) = head \o pay BY DEF Body, head, pay
<1>6. (head \o pay)[4] = Register(o) BY <1>3, <1>4
<1>7. ASSUME NEW i \in 1 .. PayloadLen
      PROVE  (head \o pay)[i + 4] = pay[i]
  <2>1. 4 + i = i + 4 OBVIOUS
  <2> QED BY <1>1, <1>3, <1>4, <2>1
<1>8. Len(head \o pay) = SubLen - 2 BY <1>1, <1>3, <1>4, SubLenType
<1> QED BY <1>4, <1>5, <1>6, <1>7, <1>8 DEF pay

(* The last byte but one of a sub-frame is its CRC; no other byte is one.  *)
LEMMA SubFrameProperties ==
    ASSUME NEW o \in AllOutputs, NEW s \in 0 .. Cycle - 1,
           NEW shape \in AnyShape
    PROVE  /\ SubFrame(o, s, shape) \in Seq(Bytes)
           /\ Len(SubFrame(o, s, shape)) = SubLen
           /\ SubFrame(o, s, shape)[SubLen - 1] = Crc(Body(o, s, shape))
           /\ \A i \in 1 .. SubLen :
                i # SubLen - 1 => SubFrame(o, s, shape)[i] \in Basic
<1> DEFINE body == Body(o, s, shape)
           end  == <<Crc(body), Lit("0A")>>
<1>1. body \in Seq(Basic) /\ Len(body) = SubLen - 2 BY BodyProperties
<1> HIDE DEF body
<1>2. body \in Seq(Bytes) BY <1>1, SeqMonotonic DEF Bytes
<1>3. Crc(body) \in Bytes /\ Lit("0A") \in Bytes /\ Lit("0A") \in Basic
  BY <1>1, LitType DEF Bytes
<1>4. end \in Seq(Bytes) /\ Len(end) = 2 /\ end[1] = Crc(body)
      /\ end[2] = Lit("0A")
  BY <1>3
<1> HIDE DEF end
<1>5. /\ body \o end \in Seq(Bytes)
      /\ Len(body \o end) = Len(body) + Len(end)
      /\ \A i \in 1 .. Len(body) : (body \o end)[i] = body[i]
      /\ \A i \in 1 .. Len(end) : (body \o end)[Len(body) + i] = end[i]
  <2>1. body \in Seq(Bytes) /\ end \in Seq(Bytes) BY <1>2, <1>4
  <2> QED BY <2>1, ConcatAt
<1>6. /\ (body \o end)[SubLen - 1] = Crc(body)
      /\ (body \o end)[SubLen] = Lit("0A")
      /\ Len(body \o end) = SubLen
  <2>1. SubLen - 2 + 1 = SubLen - 1 /\ SubLen - 2 + 2 = SubLen
    BY SubLenType
  <2>2. /\ (body \o end)[SubLen - 2 + 1] = end[1]
        /\ (body \o end)[SubLen - 2 + 2] = end[2]
    BY <1>1, <1>4, <1>5
  <2> QED BY <1>1, <1>4, <1>5, <2>1, <2>2
<1>7. ASSUME NEW i \in 1 .. SubLen, i # SubLen - 1
      PROVE  (body \o end)[i] \in Basic
  <2>1. CASE i <= SubLen - 2
    <3>1. i \in 1 .. Len(body) BY <1>1, <2>1, SubLenType
    <3>2. body[i] \in Basic BY <1>1, <3>1, ElementOfSeq
    <3> QED BY <1>5, <3>1, <3>2
  <2>2. CASE i = SubLen BY <1>3, <1>6, <2>2
  <2>3. i <= SubLen - 2 \/ i = SubLen BY <1>7, SubLenType
  <2> QED BY <2>1, <2>2, <2>3
<1>8. SubFrame(o, s, shape) = body \o end
  BY DEF SubFrame, Body, body, end
<1> QED BY <1>5, <1>6, <1>7, <1>8, Zenon DEF body

---------------------------------------------------------------------------
(* Transmissions: whole sub-frames, so that a CRC stands one byte before   *)
(* the end of one.                                                         *)

Lengths == {0, SubLen, 2 * SubLen, 3 * SubLen, 4 * SubLen}

(* How many bytes may follow a CRC.                                        *)
CrcPlaces == {1, SubLen + 1, 2 * SubLen + 1, 3 * SubLen + 1}

Framed(t) ==
    /\ t \in Seq(Bytes)
    /\ Len(t) \in Lengths
    /\ \A i \in 1 .. Len(t) : t[i] \notin Basic => Len(t) - i \in CrcPlaces

LEMMA FramedEmpty == Framed(<<>>)
BY EmptySeq DEF Framed, Lengths

LEMMA FramedSubFrame ==
    ASSUME NEW o \in AllOutputs, NEW s \in 0 .. Cycle - 1,
           NEW shape \in AnyShape
    PROVE  Framed(SubFrame(o, s, shape))
<1> DEFINE t == SubFrame(o, s, shape)
<1>1. /\ t \in Seq(Bytes) /\ Len(t) = SubLen
      /\ \A i \in 1 .. SubLen : i # SubLen - 1 => t[i] \in Basic
  BY SubFrameProperties
<1> HIDE DEF t
<1>2. ASSUME NEW i \in 1 .. SubLen, t[i] \notin Basic
      PROVE  SubLen - i \in CrcPlaces
  <2>1. i = SubLen - 1 BY <1>1, <1>2
  <2> QED BY <2>1, SubLenType DEF CrcPlaces
<1>3. Framed(t) BY <1>1, <1>2 DEF Framed, Lengths
<1> QED BY <1>3 DEF t

(* One more sub-frame, or none.                                            *)
LEMMA FramedConcat ==
    ASSUME NEW t, NEW u, Framed(t), Framed(u),
           Len(t) <= 3 * SubLen, Len(u) \in {0, SubLen}
    PROVE  /\ Framed(t \o u)
           /\ Len(t \o u) \in {Len(t), Len(t) + SubLen}
<1>1. /\ t \in Seq(Bytes) /\ u \in Seq(Bytes)
      /\ Len(t) \in Lengths
      /\ Len(t) <= 3 * SubLen /\ Len(u) \in {0, SubLen}
  BY DEF Framed
<1>2. /\ t \o u \in Seq(Bytes)
      /\ Len(t) \in Nat /\ Len(u) \in Nat
      /\ Len(t \o u) = Len(t) + Len(u)
      /\ \A i \in 1 .. Len(t) : (t \o u)[i] = t[i]
      /\ \A i \in 1 .. Len(u) : (t \o u)[Len(t) + i] = u[i]
  <2>1. t \in Seq(Bytes) /\ u \in Seq(Bytes) BY <1>1
  <2> QED BY <2>1, ConcatAt
<1>3. Len(t \o u) \in Lengths /\ Len(t \o u) \in {Len(t), Len(t) + SubLen}
  BY <1>1, <1>2, SubLenType DEF Lengths
<1>4. ASSUME NEW i \in 1 .. Len(t \o u), (t \o u)[i] \notin Basic
      PROVE  Len(t \o u) - i \in CrcPlaces
  <2>1. CASE i <= Len(t)
    <3>1. i \in 1 .. Len(t) BY <1>2, <2>1
    <3>2. Len(t) - i \in CrcPlaces BY <1>2, <1>4, <3>1 DEF Framed
    <3>3. Len(t) - i < 3 * SubLen BY <1>1, <1>2, <3>1, SubLenType
    <3>4. Len(t) - i \in {1, SubLen + 1, 2 * SubLen + 1}
      BY <3>2, <3>3, SubLenType DEF CrcPlaces
    <3>5. Len(t \o u) - i = Len(t) - i + Len(u)
      BY <1>2, <3>1
    <3> QED BY <1>1, <3>4, <3>5, SubLenType DEF CrcPlaces
  <2>2. CASE i > Len(t)
    <3> DEFINE j == i - Len(t)
    <3>1. j \in 1 .. Len(u) /\ i = Len(t) + j BY <1>2, <2>2
    <3> HIDE DEF j
    <3>2. u[j] \notin Basic BY <1>2, <1>4, <3>1
    <3>3. Len(u) - j \in CrcPlaces BY <3>1, <3>2 DEF Framed
    <3>4. Len(t \o u) - i = Len(u) - j BY <1>2, <3>1
    <3> QED BY <3>3, <3>4
  <2> QED BY <1>2, <2>1, <2>2
<1> QED BY <1>2, <1>3, <1>4 DEF Framed

SentPart(outs, o, s, shape) ==
    IF o \in outs THEN SubFrame(o, s, shape) ELSE <<>>

LEMMA TransmissionIs ==
    ASSUME NEW outs, NEW s, NEW shape
    PROVE  Transmission(outs, s, shape) =
             SentPart(outs, "acc", s, shape) \o SentPart(outs, "gyro", s, shape)
               \o SentPart(outs, "euler", s, shape)
               \o SentPart(outs, "quat", s, shape)
BY DEF Transmission, SentPart, Outputs

LEMMA SentPartFramed ==
    ASSUME NEW outs \in SUBSET AllOutputs, NEW o \in AllOutputs,
           NEW s \in 0 .. Cycle - 1, NEW shape \in AnyShape
    PROVE  /\ Framed(SentPart(outs, o, s, shape))
           /\ Len(SentPart(outs, o, s, shape)) =
                IF o \in outs THEN SubLen ELSE 0
<1>1. CASE o \in outs
  <2>1. SentPart(outs, o, s, shape) = SubFrame(o, s, shape)
    BY <1>1 DEF SentPart
  <2> QED BY <1>1, <2>1, FramedSubFrame, SubFrameProperties
<1>2. CASE o \notin outs
  <2>1. SentPart(outs, o, s, shape) = <<>> BY <1>2 DEF SentPart
  <2>2. Len(<<>>) = 0 BY EmptySeq
  <2> QED BY <1>2, <2>1, <2>2, FramedEmpty
<1> QED BY <1>1, <1>2

LEMMA TransmissionFramed ==
    ASSUME NEW outs \in SUBSET AllOutputs, NEW s \in 0 .. Cycle - 1,
           NEW shape \in AnyShape
    PROVE  Framed(Transmission(outs, s, shape))
<1> DEFINE a == SentPart(outs, "acc", s, shape)
           g == SentPart(outs, "gyro", s, shape)
           e == SentPart(outs, "euler", s, shape)
           q == SentPart(outs, "quat", s, shape)
<1>1. /\ Framed(a) /\ Framed(g) /\ Framed(e) /\ Framed(q)
      /\ Len(a) \in {0, SubLen} /\ Len(g) \in {0, SubLen}
      /\ Len(e) \in {0, SubLen} /\ Len(q) \in {0, SubLen}
  BY SentPartFramed DEF AllOutputs
<1>2. Transmission(outs, s, shape) = ((a \o g) \o e) \o q BY TransmissionIs
<1> HIDE DEF a, g, e, q
<1>3. Len(a) <= 3 * SubLen BY <1>1, SubLenType
<1>4. Framed(a \o g) /\ Len(a \o g) \in {Len(a), Len(a) + SubLen}
  BY <1>1, <1>3, FramedConcat
<1>5. Len(a \o g) <= 2 * SubLen /\ Len(a \o g) <= 3 * SubLen
      /\ Len(a \o g) \in Nat
  BY <1>1, <1>4, SubLenType
<1>6. /\ Framed((a \o g) \o e)
      /\ Len((a \o g) \o e) \in {Len(a \o g), Len(a \o g) + SubLen}
  BY <1>1, <1>4, <1>5, FramedConcat
<1>7. Len((a \o g) \o e) <= 3 * SubLen
  BY <1>5, <1>6, SubLenType
<1>8. Framed(((a \o g) \o e) \o q)
  BY <1>1, <1>6, <1>7, FramedConcat
<1> QED BY <1>2, <1>8

(* A sample of an IMU that was set up: the CRCs stand at their places, and *)
(* no other byte of it is made from an acceleration.                       *)
LEMMA WholeParts ==
    ASSUME NEW outs \in SUBSET AllOutputs, NEW s \in 0 .. Cycle - 1,
           NEW shape \in AnyShape, Needed \subseteq outs
    PROVE  LET T == Transmission(outs, s, shape)
           IN  /\ Len(T) = IF "quat" \in outs THEN 4 * SubLen
                                              ELSE 3 * SubLen
               /\ T[SubLen - 1] = Crc(Body("acc", s, shape))
               /\ T[2 * SubLen - 1] = Crc(Body("gyro", s, shape))
               /\ T[3 * SubLen - 1] = Crc(Body("euler", s, shape))
               /\ "quat" \in outs =>
                    T[4 * SubLen - 1] = Crc(Body("quat", s, shape))
<1> DEFINE a == SentPart(outs, "acc", s, shape)
           g == SentPart(outs, "gyro", s, shape)
           e == SentPart(outs, "euler", s, shape)
           q == SentPart(outs, "quat", s, shape)
<1>1. "acc" \in outs /\ "gyro" \in outs /\ "euler" \in outs
  BY DEF Needed
<1>2. /\ Framed(a) /\ Framed(g) /\ Framed(e) /\ Framed(q)
      /\ Len(a) = SubLen /\ Len(g) = SubLen /\ Len(e) = SubLen
      /\ Len(q) = IF "quat" \in outs THEN SubLen ELSE 0
  BY <1>1, SentPartFramed DEF AllOutputs
<1>3. /\ a[SubLen - 1] = Crc(Body("acc", s, shape))
      /\ g[SubLen - 1] = Crc(Body("gyro", s, shape))
      /\ e[SubLen - 1] = Crc(Body("euler", s, shape))
      /\ "quat" \in outs => q[SubLen - 1] = Crc(Body("quat", s, shape))
  BY <1>1, SubFrameProperties DEF SentPart, AllOutputs
<1>4. Transmission(outs, s, shape) = ((a \o g) \o e) \o q BY TransmissionIs
<1>5. /\ a \in Seq(Bytes) /\ g \in Seq(Bytes) /\ e \in Seq(Bytes)
      /\ q \in Seq(Bytes)
  BY <1>2 DEF Framed
<1> HIDE DEF a, g, e, q
<1> DEFINE ag == a \o g
           age == ag \o e
           T == age \o q
<1>6. /\ ag \in Seq(Bytes) /\ Len(ag) = Len(a) + Len(g)
      /\ \A i \in 1 .. Len(a) : ag[i] = a[i]
      /\ \A i \in 1 .. Len(g) : ag[Len(a) + i] = g[i]
  <2>1. a \in Seq(Bytes) /\ g \in Seq(Bytes) BY <1>5
  <2> QED BY <2>1, ConcatAt
<1> HIDE DEF ag
<1>7. /\ age \in Seq(Bytes) /\ Len(age) = Len(ag) + Len(e)
      /\ \A i \in 1 .. Len(ag) : age[i] = ag[i]
      /\ \A i \in 1 .. Len(e) : age[Len(ag) + i] = e[i]
  <2>1. ag \in Seq(Bytes) /\ e \in Seq(Bytes) BY <1>5, <1>6
  <2> QED BY <2>1, ConcatAt
<1> HIDE DEF age
<1>8. /\ Len(T) = Len(age) + Len(q)
      /\ \A i \in 1 .. Len(age) : T[i] = age[i]
      /\ \A i \in 1 .. Len(q) : T[Len(age) + i] = q[i]
  <2>1. age \in Seq(Bytes) /\ q \in Seq(Bytes) BY <1>5, <1>7
  <2> QED BY <2>1, ConcatAt
<1> HIDE DEF T
<1>9. Len(ag) = 2 * SubLen /\ Len(age) = 3 * SubLen
  BY <1>2, <1>6, <1>7, SubLenType
<1>10. /\ 2 * SubLen - 1 = SubLen + (SubLen - 1)
       /\ 3 * SubLen - 1 = 2 * SubLen + (SubLen - 1)
       /\ 4 * SubLen - 1 = 3 * SubLen + (SubLen - 1)
       /\ SubLen - 1 \in 1 .. SubLen
       /\ SubLen - 1 \in 1 .. 2 * SubLen /\ SubLen - 1 \in 1 .. 3 * SubLen
       /\ 2 * SubLen - 1 \in 1 .. 2 * SubLen
       /\ 2 * SubLen - 1 \in 1 .. 3 * SubLen
       /\ 3 * SubLen - 1 \in 1 .. 3 * SubLen
  BY SubLenType
<1>11. T[SubLen - 1] = a[SubLen - 1]
  BY <1>2, <1>6, <1>7, <1>8, <1>9, <1>10
<1>12. T[2 * SubLen - 1] = g[SubLen - 1]
  <2>1. ag[2 * SubLen - 1] = g[SubLen - 1] BY <1>2, <1>6, <1>10
  <2>2. T[2 * SubLen - 1] = ag[2 * SubLen - 1]
    BY <1>7, <1>8, <1>9, <1>10
  <2> QED BY <2>1, <2>2
<1>13. T[3 * SubLen - 1] = e[SubLen - 1]
  BY <1>2, <1>7, <1>8, <1>9, <1>10
<1>14. "quat" \in outs => T[4 * SubLen - 1] = q[SubLen - 1]
  BY <1>2, <1>8, <1>9, <1>10
<1>15. Len(T) = IF "quat" \in outs THEN 4 * SubLen ELSE 3 * SubLen
  BY <1>2, <1>8, <1>9, SubLenType
<1>16. Transmission(outs, s, shape) = T BY <1>4 DEF T, age, ag
<1> QED BY <1>3, <1>11, <1>12, <1>13, <1>14, <1>15, <1>16

LEMMA WholeAcc ==
    ASSUME NEW outs \in SUBSET AllOutputs, NEW s \in 0 .. Cycle - 1,
           NEW shape \in AnyShape, Needed \subseteq outs,
           NEW p \in 1 .. Len(Transmission(outs, s, shape)),
           Transmission(outs, s, shape)[p] \notin Basic,
           OfAcc(Transmission(outs, s, shape)[p])
    PROVE  p = SubLen - 1
<1> DEFINE T == Transmission(outs, s, shape)
<1>1. /\ Len(T) = IF "quat" \in outs THEN 4 * SubLen ELSE 3 * SubLen
      /\ T[2 * SubLen - 1] = Crc(Body("gyro", s, shape))
      /\ T[3 * SubLen - 1] = Crc(Body("euler", s, shape))
      /\ "quat" \in outs =>
           T[4 * SubLen - 1] = Crc(Body("quat", s, shape))
  BY WholeParts
<1>2. Len(T) - p \in CrcPlaces
  <2>1. Framed(T) BY TransmissionFramed
  <2> QED BY <2>1 DEF Framed
<1>3. ASSUME NEW o \in {"gyro", "euler", "quat"}
      PROVE  ~OfAcc(Crc(Body(o, s, shape)))
  <2>1. Body(o, s, shape)[4] = Register(o)
    BY BodyProperties DEF AllOutputs
  <2>2. Crc(Body(o, s, shape))[2] = Body(o, s, shape) BY CrcMadeFrom
  <2>3. Register(o) # Register("acc")
    BY RegisterInjective DEF AllOutputs
  <2> QED BY <2>1, <2>2, <2>3 DEF OfAcc
<1>4. p \in Nat /\ p >= 1 /\ p <= Len(T) /\ OfAcc(T[p])
  <2>1. Len(T) \in Nat BY <1>1, SubLenType
  <2> QED BY <2>1
<1> HIDE DEF T
<1>5. p # 2 * SubLen - 1 /\ p # 3 * SubLen - 1 BY <1>1, <1>3, <1>4
<1>6. "quat" \in outs => p # 4 * SubLen - 1 BY <1>1, <1>3, <1>4
<1>7. CASE "quat" \in outs
  <2>1. Len(T) = 4 * SubLen BY <1>1, <1>7
  <2> QED BY <1>2, <1>4, <1>5, <1>6, <1>7, <2>1, SubLenType DEF CrcPlaces
<1>8. CASE "quat" \notin outs
  <2>1. Len(T) = 3 * SubLen BY <1>1, <1>8
  <2> QED BY <1>2, <1>4, <1>5, <2>1, SubLenType DEF CrcPlaces
<1> QED BY <1>7, <1>8

---------------------------------------------------------------------------
(* Frames: what IMU_Receive_Frame cuts out of three sub-frames.            *)

LEMMA PartIs ==
    ASSUME NEW f \in Seq(Bytes), Len(f) = FrameSize
    PROVE  \A k \in {1, 2, 3} :
             /\ Part(f, k) \in Seq(Bytes)
             /\ Len(Part(f, k)) = SubLen
             /\ \A j \in 1 .. SubLen :
                  Part(f, k)[j] = f[(k - 1) * SubLen + j]
<1> SUFFICES ASSUME NEW k \in {1, 2, 3}
             PROVE  /\ Part(f, k) \in Seq(Bytes)
                    /\ Len(Part(f, k)) = SubLen
                    /\ \A j \in 1 .. SubLen :
                         Part(f, k)[j] = f[(k - 1) * SubLen + j]
  OBVIOUS
<1> DEFINE m == (k - 1) * SubLen + 1
           n == k * SubLen
<1>1. m \in Nat /\ m >= 1 /\ n \in Nat /\ n <= FrameSize /\ n - m + 1 = SubLen
  <2>1. CASE k = 1 BY <2>1, SubLenType
  <2>2. CASE k = 2 BY <2>2, SubLenType
  <2>3. CASE k = 3 BY <2>3, SubLenType
  <2> QED BY <2>1, <2>2, <2>3
<1>2. (k - 1) * SubLen = m - 1
  <2>1. CASE k = 1 BY <2>1, SubLenType
  <2>2. CASE k = 2 BY <2>2, SubLenType
  <2>3. CASE k = 3 BY <2>3, SubLenType
  <2> QED BY <2>1, <2>2, <2>3
<1>3. Part(f, k) = SubSeq(f, m, n) BY DEF Part
<1> HIDE DEF m, n
<1>4. ASSUME NEW i \in m .. n PROVE f[i] \in Bytes
  <2>1. i \in 1 .. Len(f) BY <1>1, SubLenType
  <2> QED BY <2>1, ElementOfSeq
<1>5. /\ SubSeq(f, m, n) \in Seq(Bytes)
      /\ Len(SubSeq(f, m, n)) = IF m <= n THEN n - m + 1 ELSE 0
      /\ \A i \in 1 .. n - m + 1 : SubSeq(f, m, n)[i] = f[m + i - 1]
  <2>1. m \in Int /\ n \in Int BY <1>1
  <2>2. \A i \in m .. n : f[i] \in Bytes BY <1>4
  <2> QED BY <2>1, <2>2, SubSeqProperties
<1>6. Len(Part(f, k)) = SubLen BY <1>1, <1>3, <1>5, SubLenType
<1>7. ASSUME NEW j \in 1 .. SubLen
      PROVE  Part(f, k)[j] = f[(k - 1) * SubLen + j]
  <2>1. j \in 1 .. n - m + 1 BY <1>1
  <2>2. m + j - 1 = (k - 1) * SubLen + j BY <1>1, <1>2
  <2> QED BY <1>3, <1>5, <2>1, <2>2
<1> QED BY <1>3, <1>5, <1>6, <1>7

(* The bytes a CRC was made from.                                          *)
Checked(f, k) == SubSeq(Part(f, k), 1, SubLen - 2)

LEMMA ValidFrame ==
    ASSUME NEW f \in Seq(Bytes), Len(f) = FrameSize, Valid(f)
    PROVE  /\ f[SubLen - 1] = Crc(Checked(f, 1))
           /\ f[2 * SubLen - 1] = Crc(Checked(f, 2))
           /\ f[3 * SubLen - 1] = Crc(Checked(f, 3))
           /\ Checked(f, 1)[4] = f[4]
<1>1. \A k \in {1, 2, 3} : Part(f, k)[SubLen - 1] = Crc(Checked(f, k))
  BY DEF Valid, CrcMatches, Checked
<1>2. SubLen - 1 \in 1 .. SubLen BY SubLenType
<1>3. \A k \in {1, 2, 3} :
        Part(f, k)[SubLen - 1] = f[(k - 1) * SubLen + (SubLen - 1)]
  BY <1>2, PartIs
<1>4. /\ (1 - 1) * SubLen + (SubLen - 1) = SubLen - 1
      /\ (2 - 1) * SubLen + (SubLen - 1) = 2 * SubLen - 1
      /\ (3 - 1) * SubLen + (SubLen - 1) = 3 * SubLen - 1
  BY SubLenType
<1>5. Checked(f, 1)[4] = f[4]
  <2> DEFINE part == Part(f, 1)
  <2>1. part \in Seq(Bytes) /\ Len(part) = SubLen BY PartIs
  <2>2. part[4] = f[4]
    <3>1. 4 \in 1 .. SubLen /\ (1 - 1) * SubLen + 4 = 4 BY SubLenType
    <3>2. part[4] = f[(1 - 1) * SubLen + 4] BY <3>1, PartIs
    <3> QED BY <3>1, <3>2
  <2> HIDE DEF part
  <2>3. SubSeq(part, 1, SubLen - 2)[4] = part[4]
    <3>1. \A i \in 1 .. SubLen - 2 : part[i] \in Bytes
      BY <2>1, SubLenType, ElementOfSeq
    <3>2. SubLen - 2 \in Int /\ 4 \in 1 .. SubLen - 2 - 1 + 1
          /\ 1 + 4 - 1 = 4
      BY SubLenType
    <3> QED BY <3>1, <3>2, SubSeqProperties
  <2> QED BY <2>2, <2>3 DEF Checked, part
<1> QED BY <1>1, <1>3, <1>4, <1>5

LEMMA PayloadOfPart ==
    ASSUME NEW o \in AllOutputs, NEW s \in 0 .. Cycle - 1,
           NEW shape \in AnyShape, NEW part \in Seq(Bytes),
           Len(part) = SubLen,
           SubSeq(part, 1, SubLen - 2) = Body(o, s, shape)
    PROVE  SubSeq(part, 5, PayloadLen + 4) = Payload(o, s, shape)
<1> DEFINE pay == SubSeq(part, 5, PayloadLen + 4)
<1>1. \A i \in 1 .. SubLen : part[i] \in Bytes BY ElementOfSeq
<1>2. \A i \in 5 .. PayloadLen + 4 : part[i] \in Bytes
  BY <1>1, SubLenType
<1>3. /\ pay \in Seq(Bytes) /\ Len(pay) = PayloadLen
      /\ \A i \in 1 .. PayloadLen : pay[i] = part[i + 4]
  <2> DEFINE n == PayloadLen + 4
  <2>1. n \in Int /\ 5 <= n /\ n - 5 + 1 = PayloadLen BY SubLenType
  <2> HIDE DEF n
  <2>2. /\ SubSeq(part, 5, n) \in Seq(Bytes)
        /\ Len(SubSeq(part, 5, n)) = IF 5 <= n THEN n - 5 + 1 ELSE 0
        /\ \A i \in 1 .. n - 5 + 1 : SubSeq(part, 5, n)[i] = part[5 + i - 1]
    <3>1. \A i \in 5 .. n : part[i] \in Bytes BY <1>2 DEF n
    <3> QED BY <2>1, <3>1, SubSeqProperties
  <2>3. \A i \in 1 .. PayloadLen : 5 + i - 1 = i + 4 BY SubLenType
  <2>4. pay = SubSeq(part, 5, n) BY DEF n
  <2> HIDE DEF pay
  <2> QED BY <2>1, <2>2, <2>3, <2>4
<1>4. \A i \in 1 .. SubLen - 2 : SubSeq(part, 1, SubLen - 2)[i] = part[i]
  <2>1. SubLen - 2 \in Int /\ SubLen - 2 - 1 + 1 = SubLen - 2
    BY SubLenType
  <2>2. \A i \in 1 .. SubLen - 2 : part[i] \in Bytes
    BY <1>1, SubLenType
  <2>3. \A i \in 1 .. SubLen - 2 - 1 + 1 :
          SubSeq(part, 1, SubLen - 2)[i] = part[1 + i - 1]
    BY <2>1, <2>2, SubSeqProperties
  <2>4. \A i \in 1 .. SubLen - 2 : 1 + i - 1 = i BY SubLenType
  <2> QED BY <2>1, <2>3, <2>4
<1>5. ASSUME NEW i \in 1 .. PayloadLen
      PROVE  pay[i] = Payload(o, s, shape)[i]
  <2>1. i + 4 \in 1 .. SubLen - 2 BY SubLenType
  <2>2. Body(o, s, shape)[i + 4] = Payload(o, s, shape)[i]
    BY BodyProperties
  <2>3. part[i + 4] = Body(o, s, shape)[i + 4] BY <1>4, <2>1
  <2> QED BY <1>3, <2>2, <2>3
<1>6. DOMAIN pay = 1 .. PayloadLen BY <1>3, LenProperties
<1> HIDE DEF pay
<1>7. pay = [i \in 1 .. PayloadLen |-> pay[i]]
  <2>1. pay \in [1 .. Len(pay) -> Bytes] BY <1>3, LenProperties
  <2> QED BY <1>3, <2>1
<1>8. Payload(o, s, shape) =
        [i \in 1 .. PayloadLen |-> Payload(o, s, shape)[i]]
  BY DEF Payload
<1>9. pay = Payload(o, s, shape) BY <1>5, <1>7, <1>8
<1> QED BY <1>9 DEF pay

(* A valid frame with the CRCs of a sample holds its measurement.          *)
LEMMA FrameOfWhole ==
    ASSUME NEW f \in Seq(Bytes), Len(f) = FrameSize, Valid(f),
           NEW s \in 0 .. Cycle - 1, NEW shape \in AnyShape,
           f[SubLen - 1] = Crc(Body("acc", s, shape)),
           f[2 * SubLen - 1] = Crc(Body("gyro", s, shape)),
           f[3 * SubLen - 1] = Crc(Body("euler", s, shape))
    PROVE  Extract(f) = Measurement(s, shape)
<1>1. /\ Checked(f, 1) = Body("acc", s, shape)
      /\ Checked(f, 2) = Body("gyro", s, shape)
      /\ Checked(f, 3) = Body("euler", s, shape)
  <2>1. /\ Crc(Checked(f, 1)) = Crc(Body("acc", s, shape))
        /\ Crc(Checked(f, 2)) = Crc(Body("gyro", s, shape))
        /\ Crc(Checked(f, 3)) = Crc(Body("euler", s, shape))
    BY ValidFrame
  <2> QED BY <2>1, CrcMadeFrom
<1>2. ASSUME NEW k \in {1, 2, 3}, NEW o \in AllOutputs,
             Checked(f, k) = Body(o, s, shape)
      PROVE  PayloadOf(f, k) = Payload(o, s, shape)
  <2>1. Part(f, k) \in Seq(Bytes) /\ Len(Part(f, k)) = SubLen BY PartIs
  <2>2. SubSeq(Part(f, k), 1, SubLen - 2) = Body(o, s, shape)
    BY <1>2 DEF Checked
  <2> QED BY <2>1, <2>2, PayloadOfPart DEF PayloadOf
<1>3. /\ PayloadOf(f, 1) = Payload("acc", s, shape)
      /\ PayloadOf(f, 2) = Payload("gyro", s, shape)
      /\ PayloadOf(f, 3) = Payload("euler", s, shape)
  BY <1>1, <1>2 DEF AllOutputs
<1>4. ASSUME NEW o \in Needed
      PROVE  Extract(f)[o] = Measurement(s, shape)[o]
  <2>1. CASE o = "acc" BY <1>3, <2>1 DEF Extract, Measurement, Needed
  <2>2. CASE o = "gyro" BY <1>3, <2>2 DEF Extract, Measurement, Needed
  <2>3. CASE o = "euler" BY <1>3, <2>3 DEF Extract, Measurement, Needed
  <2> QED BY <2>1, <2>2, <2>3 DEF Needed
<1> QED BY <1>4, Zenon DEF Extract, Measurement

---------------------------------------------------------------------------
(* The invariant.                                                          *)

(* A place between two sub-frames, counted from the end of what was sent.  *)
Boundary(n) ==
    n \in {0, SubLen, 2 * SubLen, 3 * SubLen, 4 * SubLen, 5 * SubLen,
           6 * SubLen, 7 * SubLen}

(* What is collected has a CRC where the first sub-frame has its own; and  *)
(* it began where the sub-frame did that is on the line.                   *)
Started == Len(rx_buf_) >= SubLen - 1 /\ rx_buf_[SubLen - 1] \notin Basic
InStep  == Started /\ Boundary(Len(wire) + Len(rx_buf_))

(* Only bytes lost since then can have changed that.                       *)
DriftInv ==
    Started => \E d \in 0 .. lost : Boundary(Len(wire) + Len(rx_buf_) + d)

(* Of the transmission T on the line: how much was read, and which byte of *)
(* it rx_buf_[i] is if none was lost since it was read (below 1: one of    *)
(* the transmission before).                                               *)
Consumed(T) == Len(T) - Len(wire)
Place(T, i) == Consumed(T) - Len(rx_buf_) + i

OnTheLine(T) ==
    /\ Len(wire) <= Len(T)
    /\ \A i \in 1 .. Len(wire) : wire[i] \in {Header, T[Consumed(T) + i]}

(* In step, what was collected since the first CRC is what was sent.       *)
Collected(T) ==
    InStep => \A i \in SubLen - 1 .. Len(rx_buf_) :
                Place(T, i) >= 1 => rx_buf_[i] \in {Header, T[Place(T, i)]}

(* A frame that can still be the newest sample: nothing came after that.   *)
Newest(T, m) ==
    Consumed(T) <= Len(rx_buf_) =>
        measured # <<>> /\ measured[Len(measured)] = m

(* Once every sample is whole, a frame in step belongs to one sample.      *)
OneSample(T) ==
    complete = 2 /\ InStep /\ OfAcc(rx_buf_[SubLen - 1]) =>
        Place(T, SubLen - 1) >= 1

(* One byte before its end a valid frame is the newest sample, or the one  *)
(* before that, or was begun before the IMU was set up.                    *)
AwaitsLast(T) ==
    Len(rx_buf_) = FrameSize - 1 =>
        \A b \in Bytes :
            LET f == Append(rx_buf_, b)
            IN  Valid(f) =>
                  \/ measured # <<>> /\ measured[Len(measured)] = Extract(f)
                  \/ /\ Consumed(T) <= lost
                     /\ \E j \in 1 .. Len(measured) :
                          measured[j] = Extract(f)
                  \/ complete = 1 /\ Consumed(T) <= 2 * SubLen + lost

Tracks(T, m) ==
    /\ OnTheLine(T)
    /\ Collected(T)
    /\ complete >= 1 => Newest(T, m) /\ OneSample(T) /\ AwaitsLast(T)

SetupInv ==
    /\ boot = "open" => callback_ # "set"
    /\ callback_ # "set" => rx_buf_ = <<>>
    /\ complete >= 1 => Whole

LineInv ==
    serial = "run" =>
        /\ DriftInv
        /\ \E outs \in SUBSET AllOutputs, s \in 0 .. Cycle - 1,
              shape \in AnyShape :
             /\ complete >= 1 => Needed \subseteq outs
             /\ Tracks(Transmission(outs, s, shape), Measurement(s, shape))

SourceInv == SetupInv /\ LineInv

(* Arithmetic of boundaries.                                               *)

LEMMA CrcBoundary ==
    ASSUME NEW x \in CrcPlaces, NEW n \in {SubLen - 1, 3 * SubLen - 1}
    PROVE  Boundary(x + n)
<1>1. CASE n = SubLen - 1 BY <1>1, SubLenType DEF CrcPlaces, Boundary
<1>2. CASE n = 3 * SubLen - 1 BY <1>2, SubLenType DEF CrcPlaces, Boundary
<1> QED BY <1>1, <1>2

LEMMA BoundaryApart ==
    ASSUME NEW x, NEW y, Boundary(x), Boundary(y), x < y
    PROVE  y - x >= SubLen
BY SubLenType DEF Boundary

LEMMA BoundaryAdd ==
    ASSUME NEW t \in Lengths, NEW x, Boundary(x), x < 4 * SubLen
    PROVE  Boundary(t + x)
<1>1. x \in {0, SubLen, 2 * SubLen, 3 * SubLen} BY SubLenType DEF Boundary
<1> QED BY <1>1, SubLenType DEF Boundary, Lengths

---------------------------------------------------------------------------
(* What the steps need to know of a whole sample T with measurement m.     *)

WholeSample(T, m) ==
    /\ Len(T) \in {3 * SubLen, 4 * SubLen}
    /\ \A p \in 1 .. Len(T) : T[p] \notin Basic /\ OfAcc(T[p]) =>
                                p = SubLen - 1
    /\ \A f \in Seq(Bytes) :
         /\ Len(f) = FrameSize /\ Valid(f)
         /\ f[SubLen - 1] = T[SubLen - 1]
         /\ f[2 * SubLen - 1] = T[2 * SubLen - 1]
         /\ f[3 * SubLen - 1] = T[3 * SubLen - 1]
         => Extract(f) = m

LEMMA WholeSampleSent ==
    ASSUME NEW outs \in SUBSET AllOutputs, NEW s \in 0 .. Cycle - 1,
           NEW shape \in AnyShape, Needed \subseteq outs
    PROVE  WholeSample(Transmission(outs, s, shape), Measurement(s, shape))
<1> DEFINE T == Transmission(outs, s, shape)
<1>1. /\ Len(T) = IF "quat" \in outs THEN 4 * SubLen ELSE 3 * SubLen
      /\ T[SubLen - 1] = Crc(Body("acc", s, shape))
      /\ T[2 * SubLen - 1] = Crc(Body("gyro", s, shape))
      /\ T[3 * SubLen - 1] = Crc(Body("euler", s, shape))
  BY WholeParts
<1>2. ASSUME NEW p \in 1 .. Len(T), T[p] \notin Basic, OfAcc(T[p])
      PROVE  p = SubLen - 1
  BY <1>2, WholeAcc
<1>3. ASSUME NEW f \in Seq(Bytes), Len(f) = FrameSize, Valid(f),
             f[SubLen - 1] = T[SubLen - 1],
             f[2 * SubLen - 1] = T[2 * SubLen - 1],
             f[3 * SubLen - 1] = T[3 * SubLen - 1]
      PROVE  Extract(f) = Measurement(s, shape)
  BY <1>1, <1>3, FrameOfWhole
<1>4. Len(T) \in {3 * SubLen, 4 * SubLen} BY <1>1
<1> HIDE DEF T
<1>5. WholeSample(T, Measurement(s, shape))
  BY <1>2, <1>3, <1>4 DEF WholeSample
<1> QED BY <1>5 DEF T

(* Three CRCs end a frame, the first made from an acceleration.            *)
LEMMA FrameSigns ==
    ASSUME NEW rx \in Seq(Bytes), Len(rx) = FrameSize - 1,
           rx[4] = Register("acc"),
           NEW b \in Bytes, Valid(Append(rx, b))
    PROVE  LET f == Append(rx, b)
           IN  /\ f \in Seq(Bytes) /\ Len(f) = FrameSize
               /\ \A i \in {SubLen - 1, 2 * SubLen - 1, 3 * SubLen - 1} :
                    f[i] = rx[i] /\ rx[i] \notin Basic
               /\ OfAcc(rx[SubLen - 1])
<1> DEFINE f == Append(rx, b)
<1>1. /\ f \in Seq(Bytes) /\ Len(f) = Len(rx) + 1
      /\ \A i \in 1 .. Len(rx) : f[i] = rx[i]
  BY AppendProperties
<1>2. Len(f) = FrameSize BY <1>1, SubLenType
<1>3. /\ f[SubLen - 1] = Crc(Checked(f, 1))
      /\ f[2 * SubLen - 1] = Crc(Checked(f, 2))
      /\ f[3 * SubLen - 1] = Crc(Checked(f, 3))
      /\ Checked(f, 1)[4] = f[4]
  BY <1>1, <1>2, ValidFrame
<1> HIDE DEF f
<1>4. /\ SubLen - 1 \in 1 .. Len(rx) /\ 2 * SubLen - 1 \in 1 .. Len(rx)
      /\ 3 * SubLen - 1 \in 1 .. Len(rx) /\ 4 \in 1 .. Len(rx)
  BY SubLenType
<1>5. ASSUME NEW i \in {SubLen - 1, 2 * SubLen - 1, 3 * SubLen - 1}
      PROVE  f[i] = rx[i] /\ rx[i] \notin Basic
  BY <1>1, <1>3, <1>4, CrcNotBasic
<1>6. OfAcc(rx[SubLen - 1])
  <2>1. rx[SubLen - 1] = Crc(Checked(f, 1)) /\ f[4] = rx[4]
    BY <1>1, <1>3, <1>4
  <2>2. rx[SubLen - 1][2] = Checked(f, 1) BY <2>1, CrcMadeFrom
  <2> QED BY <1>3, <2>1, <2>2 DEF OfAcc
<1> QED BY <1>1, <1>2, <1>5, <1>6 DEF f

(* If it is of one sample, it is this one, from its first byte on.         *)
LEMMA FrameFound ==
    ASSUME NEW T, NEW m, WholeSample(T, m),
           NEW rx \in Seq(Bytes), Len(rx) = FrameSize - 1,
           rx[4] = Register("acc"),
           NEW b \in Bytes, Valid(Append(rx, b)),
           NEW c \in 1 .. Len(T), c - Len(rx) + (SubLen - 1) >= 1,
           \A i \in SubLen - 1 .. Len(rx) :
             c - Len(rx) + i >= 1 => rx[i] \in {Header, T[c - Len(rx) + i]}
    PROVE  c = Len(rx) /\ Extract(Append(rx, b)) = m
<1> DEFINE f == Append(rx, b)
<1>1. /\ f \in Seq(Bytes) /\ Len(f) = FrameSize
      /\ \A i \in {SubLen - 1, 2 * SubLen - 1, 3 * SubLen - 1} :
           f[i] = rx[i] /\ rx[i] \notin Basic
      /\ OfAcc(rx[SubLen - 1])
      /\ Valid(f)
  BY FrameSigns
<1>2. /\ Len(T) \in Nat /\ c \in Nat /\ c >= 1 /\ c <= Len(T)
      /\ Len(rx) = 3 * SubLen - 1
  BY SubLenType DEF WholeSample
<1>3. ASSUME NEW i \in {SubLen - 1, 2 * SubLen - 1, 3 * SubLen - 1}
      PROVE  rx[i] = T[c - Len(rx) + i]
  <2>1. i \in SubLen - 1 .. Len(rx) /\ c - Len(rx) + i >= 1
    <3>1. i \in Nat /\ SubLen - 1 <= i /\ i <= 3 * SubLen - 1
      BY SubLenType
    <3>2. i \in SubLen - 1 .. Len(rx) BY <1>2, <3>1, SubLenType
    <3>3. c - Len(rx) + (SubLen - 1) <= c - Len(rx) + i
      BY <1>2, <3>1, SubLenType
    <3>4. c - Len(rx) + (SubLen - 1) \in Int /\ c - Len(rx) + i \in Int
      BY <1>2, <3>1, SubLenType
    <3> DEFINE x == c - Len(rx) + (SubLen - 1)
               y == c - Len(rx) + i
    <3>5. x >= 1 /\ x <= y /\ x \in Int /\ y \in Int BY <3>3, <3>4
    <3> HIDE DEF x, y
    <3>6. y >= 1 BY <3>5
    <3> QED BY <3>2, <3>6 DEF y
  <2>2. rx[i] \in {Header, T[c - Len(rx) + i]} BY <2>1
  <2> QED BY <1>1, <2>2, HeaderType
<1> HIDE DEF f
<1>4. c - Len(rx) + (SubLen - 1) = SubLen - 1
  <2> DEFINE p == c - Len(rx) + (SubLen - 1)
  <2>1. p \in 1 .. Len(T) BY <1>2, SubLenType
  <2>2. T[p] = rx[SubLen - 1] BY <1>3
  <2> HIDE DEF p
  <2>3. p = SubLen - 1 BY <1>1, <2>1, <2>2 DEF WholeSample
  <2> QED BY <2>3 DEF p
<1>5. c = Len(rx) BY <1>2, <1>4, SubLenType
<1>6. /\ f[SubLen - 1] = T[SubLen - 1]
      /\ f[2 * SubLen - 1] = T[2 * SubLen - 1]
      /\ f[3 * SubLen - 1] = T[3 * SubLen - 1]
  <2>1. ASSUME NEW i \in {SubLen - 1, 2 * SubLen - 1, 3 * SubLen - 1}
        PROVE  f[i] = T[i]
    <3>1. c - Len(rx) + i = i BY <1>2, <1>5, SubLenType
    <3> QED BY <1>1, <1>3, <3>1
  <2> QED BY <2>1
<1>7. Extract(f) = m BY <1>1, <1>6 DEF WholeSample
<1> QED BY <1>5, <1>7 DEF f

---------------------------------------------------------------------------
(* A byte is taken from the line.                                          *)

LEMMA LineRead ==
    ASSUME NEW T, Framed(T), OnTheLine(T),
           wire \in Seq(Bytes), wire # <<>>, wire' = Tail(wire)
    PROVE  /\ OnTheLine(T)'
           /\ Len(T) \in Nat /\ Len(wire) \in Nat
           /\ Len(wire') = Len(wire) - 1
           /\ Consumed(T) \in Nat /\ Consumed(T)' = Consumed(T) + 1
           /\ Consumed(T)' \in 1 .. Len(T)
           /\ Head(wire) \in {Header, T[Consumed(T)']}
           /\ Head(wire) \notin Basic => Len(wire') \in CrcPlaces
<1>1. /\ Len(T) \in Nat /\ Len(wire) \in Nat /\ Len(wire) <= Len(T)
  BY LenProperties DEF Framed, OnTheLine
<1>2. /\ Len(Tail(wire)) = Len(wire) - 1
      /\ \A i \in 1 .. Len(Tail(wire)) : Tail(wire)[i] = wire[i + 1]
      /\ Head(wire) = wire[1]
  BY HeadTailProperties
<1>3. Len(wire) >= 1 BY <1>1, <1>2, LenProperties, EmptySeq
<1>4. /\ Consumed(T) \in Nat /\ Consumed(T)' = Consumed(T) + 1
      /\ Consumed(T)' \in 1 .. Len(T)
      /\ Len(wire') = Len(wire) - 1
  BY <1>1, <1>2, <1>3 DEF Consumed
<1>5. \A i \in 1 .. Len(wire) : wire[i] \in {Header, T[Consumed(T) + i]}
  BY DEF OnTheLine
<1>6. Head(wire) \in {Header, T[Consumed(T)']}
  BY <1>1, <1>2, <1>3, <1>4, <1>5
<1>7. ASSUME NEW i \in 1 .. Len(wire')
      PROVE  wire'[i] \in {Header, T[Consumed(T)' + i]}
  <2>1. i + 1 \in 1 .. Len(wire) BY <1>1, <1>3, <1>4
  <2>2. wire'[i] = wire[i + 1] BY <1>2
  <2>3. Consumed(T)' + i = Consumed(T) + (i + 1) BY <1>4
  <2> QED BY <1>5, <2>1, <2>2, <2>3
<1>8. OnTheLine(T)' BY <1>1, <1>3, <1>4, <1>7 DEF OnTheLine
<1>9. ASSUME Head(wire) \notin Basic PROVE Len(wire') \in CrcPlaces
  <2>1. T[Consumed(T)'] \notin Basic BY <1>6, <1>9, HeaderType
  <2>2. Len(T) - Consumed(T)' \in CrcPlaces
    BY <1>4, <2>1 DEF Framed
  <2>3. Len(T) - Consumed(T)' = Len(wire') BY <1>1, <1>4 DEF Consumed
  <2> QED BY <2>2, <2>3
<1> QED BY <1>1, <1>4, <1>6, <1>8, <1>9

(* One byte more is collected: nothing moves.                              *)
LEMMA AppendOne ==
    ASSUME TypeInv, NEW T, Framed(T), OnTheLine(T),
           wire # <<>>, wire' = Tail(wire),
           rx_buf_' = Append(rx_buf_, Head(wire))
    PROVE  /\ Len(rx_buf_) \in Nat /\ Len(rx_buf_') = Len(rx_buf_) + 1
           /\ \A i \in 1 .. Len(rx_buf_) : rx_buf_'[i] = rx_buf_[i]
           /\ rx_buf_'[Len(rx_buf_')] = Head(wire)
           /\ Len(wire') + Len(rx_buf_') = Len(wire) + Len(rx_buf_)
           /\ \A i : Place(T, i)' = Place(T, i)
           /\ rx_buf_' \in Seq(Bytes)
<1>1. wire \in Seq(Bytes) /\ rx_buf_ \in Seq(Bytes)
  BY DEF TypeInv, SeqInv
<1>2. Head(wire) \in Bytes BY <1>1, TailType
<1>3. /\ Append(rx_buf_, Head(wire)) \in Seq(Bytes)
      /\ Len(Append(rx_buf_, Head(wire))) = Len(rx_buf_) + 1
      /\ \A i \in 1 .. Len(rx_buf_) :
           Append(rx_buf_, Head(wire))[i] = rx_buf_[i]
      /\ Append(rx_buf_, Head(wire))[Len(rx_buf_) + 1] = Head(wire)
  BY <1>1, <1>2, AppendProperties
<1>4. Len(rx_buf_) \in Nat BY <1>1, LenProperties
<1>5. /\ Consumed(T)' = Consumed(T) + 1 /\ Len(wire') = Len(wire) - 1
      /\ Len(wire) \in Nat /\ Consumed(T) \in Nat
  BY <1>1, LineRead
<1>6. /\ Len(rx_buf_') = Len(rx_buf_) + 1
      /\ \A i \in 1 .. Len(rx_buf_) : rx_buf_'[i] = rx_buf_[i]
      /\ rx_buf_'[Len(rx_buf_')] = Head(wire)
      /\ rx_buf_' \in Seq(Bytes)
  BY <1>3
<1>7. Len(wire') + Len(rx_buf_') = Len(wire) + Len(rx_buf_)
  BY <1>4, <1>5, <1>6
<1>8. Consumed(T)' - Len(rx_buf_') = Consumed(T) - Len(rx_buf_)
  BY <1>4, <1>5, <1>6
<1>9. \A i : Place(T, i)' = Place(T, i) BY <1>8 DEF Place
<1> QED BY <1>4, <1>6, <1>7, <1>9

LEMMA DriftAppend ==
    ASSUME TypeInv, NEW T, Framed(T), OnTheLine(T), DriftInv,
           wire # <<>>, wire' = Tail(wire),
           rx_buf_' = Append(rx_buf_, Head(wire)), lost' = lost
    PROVE  /\ DriftInv'
           /\ Started' => \/ Started
                          \/ /\ Len(rx_buf_') = SubLen - 1
                             /\ Head(wire) \notin Basic
           /\ InStep' /\ Started => InStep
<1>1. /\ Len(rx_buf_) \in Nat /\ Len(rx_buf_') = Len(rx_buf_) + 1
      /\ \A i \in 1 .. Len(rx_buf_) : rx_buf_'[i] = rx_buf_[i]
      /\ rx_buf_'[Len(rx_buf_')] = Head(wire)
      /\ Len(wire') + Len(rx_buf_') = Len(wire) + Len(rx_buf_)
  BY AppendOne
<1>2. wire \in Seq(Bytes) BY DEF TypeInv, SeqInv
<1>3. Head(wire) \notin Basic => Len(wire') \in CrcPlaces
  BY <1>2, LineRead
<1>4. InStep' /\ Started => InStep BY <1>1 DEF InStep, Started
<1>5. ASSUME Started'
      PROVE  \/ Started
             \/ Len(rx_buf_') = SubLen - 1 /\ Head(wire) \notin Basic
  <2>1. CASE Len(rx_buf_') = SubLen - 1 BY <1>1, <1>5, <2>1 DEF Started
  <2>2. CASE Len(rx_buf_') # SubLen - 1
    <3>1. Len(rx_buf_) >= SubLen - 1 /\ SubLen - 1 \in 1 .. Len(rx_buf_)
      BY <1>1, <1>5, <2>2, SubLenType DEF Started
    <3> QED BY <1>1, <1>5, <3>1 DEF Started
  <2> QED BY <2>1, <2>2
<1>6. ASSUME Started' PROVE (\E d \in 0 .. lost :
                               Boundary(Len(wire) + Len(rx_buf_) + d))'
  <2>1. CASE Started BY <1>1, <2>1 DEF DriftInv
  <2>2. CASE Len(rx_buf_') = SubLen - 1 /\ Head(wire) \notin Basic
    <3>1. Boundary(Len(wire') + Len(rx_buf_') + 0)
      <4>1. Boundary(Len(wire') + Len(rx_buf_'))
        BY <1>3, <2>2, CrcBoundary
      <4>2. Len(wire') \in Nat /\ Len(rx_buf_') \in Nat
        BY <1>1, <1>2, TailType, LenProperties
      <4> QED BY <4>1, <4>2
    <3>2. 0 \in 0 .. lost' BY DEF TypeInv, TypeOK
    <3> QED BY <3>1, <3>2
  <2> QED BY <1>5, <1>6, <2>1, <2>2
<1> QED BY <1>4, <1>5, <1>6 DEF DriftInv

LEMMA FourthByte ==
    ASSUME NEW rx \in Seq(Bytes), Len(rx) >= 4,
           SubSeq(rx, 1, 4) = FrameStart \o <<Register("acc")>>
    PROVE  rx[4] = Register("acc")
<1>1. SubSeq(rx, 1, 4)[4] = rx[4]
  <2>1. \A i \in 1 .. 4 : rx[i] \in Bytes BY LenProperties, ElementOfSeq
  <2>2. 4 \in 1 .. 4 - 1 + 1 /\ 1 + 4 - 1 = 4 OBVIOUS
  <2> QED BY <2>1, <2>2, SubSeqProperties
<1>2. (FrameStart \o <<Register("acc")>>)[3 + 1] = <<Register("acc")>>[1]
  <2>1. FrameStart \in Seq(Basic) /\ <<Register("acc")>> \in Seq(Basic)
    BY StartType, RegisterType DEF AllOutputs
  <2>2. Len(FrameStart) = 3 /\ Len(<<Register("acc")>>) = 1 BY StartType
  <2>3. \A i \in 1 .. Len(<<Register("acc")>>) :
          (FrameStart \o <<Register("acc")>>)[Len(FrameStart) + i] =
            <<Register("acc")>>[i]
    BY <2>1, ConcatAt
  <2> QED BY <2>2, <2>3
<1> QED BY <1>1, <1>2

(* Accumulate keeps what was collected in place.                           *)
LEMMA TrackCollected ==
    ASSUME TypeInv, NEW T, Framed(T), OnTheLine(T), Collected(T), DriftInv,
           wire # <<>>, wire' = Tail(wire),
           rx_buf_' = Append(rx_buf_, Head(wire)), lost' = lost
    PROVE  Collected(T)'
<1>1. /\ Len(rx_buf_) \in Nat /\ Len(rx_buf_') = Len(rx_buf_) + 1
      /\ \A i \in 1 .. Len(rx_buf_) : rx_buf_'[i] = rx_buf_[i]
      /\ rx_buf_'[Len(rx_buf_')] = Head(wire)
      /\ \A i : Place(T, i)' = Place(T, i)
  BY AppendOne
<1>2. wire \in Seq(Bytes) BY DEF TypeInv, SeqInv
<1>3. Head(wire) \in {Header, T[Consumed(T)']} /\ Consumed(T)' \in Int
  <2>1. /\ Head(wire) \in {Header, T[Consumed(T)']}
        /\ Consumed(T) \in Nat /\ Consumed(T)' = Consumed(T) + 1
    BY <1>2, LineRead
  <2> QED BY <2>1
<1> SUFFICES ASSUME InStep', NEW i \in SubLen - 1 .. Len(rx_buf_'),
                    Place(T, i)' >= 1
             PROVE  rx_buf_'[i] \in {Header, T[Place(T, i)']}
  BY DEF Collected
<1>4. CASE i = Len(rx_buf_')
  <2>1. Place(T, i)' = Consumed(T)' BY <1>1, <1>3, <1>4 DEF Place
  <2> QED BY <1>1, <1>3, <1>4, <2>1
<1>5. CASE i # Len(rx_buf_')
  <2>1. i \in SubLen - 1 .. Len(rx_buf_) /\ i \in 1 .. Len(rx_buf_)
        /\ Len(rx_buf_') # SubLen - 1
    BY <1>1, <1>5, SubLenType
  <2>2. InStep
    <3>1. Started' BY DEF InStep
    <3>2. Started BY <2>1, <3>1, DriftAppend
    <3> QED BY <3>2, DriftAppend
  <2>3. Place(T, i) >= 1 BY <1>1
  <2>4. rx_buf_[i] \in {Header, T[Place(T, i)]}
    BY <2>1, <2>2, <2>3 DEF Collected
  <2> QED BY <1>1, <2>1, <2>4
<1> QED BY <1>4, <1>5

LEMMA TrackOneSample ==
    ASSUME TypeInv, NEW T, Framed(T), OnTheLine(T), OneSample(T), DriftInv,
           wire # <<>>, wire' = Tail(wire), complete' = complete,
           rx_buf_' = Append(rx_buf_, Head(wire)), lost' = lost
    PROVE  OneSample(T)'
<1>1. /\ Len(rx_buf_) \in Nat /\ Len(rx_buf_') = Len(rx_buf_) + 1
      /\ \A i \in 1 .. Len(rx_buf_) : rx_buf_'[i] = rx_buf_[i]
      /\ \A i : Place(T, i)' = Place(T, i)
  BY AppendOne
<1>2. wire \in Seq(Bytes) BY DEF TypeInv, SeqInv
<1>3. Consumed(T) \in Nat /\ Consumed(T)' = Consumed(T) + 1
  BY <1>2, LineRead
<1> SUFFICES ASSUME complete = 2, InStep', OfAcc(rx_buf_[SubLen - 1])'
             PROVE  Place(T, SubLen - 1)' >= 1
  BY DEF OneSample
<1>4. Started' BY DEF InStep
<1>5. CASE Started
  <2>1. InStep BY <1>4, <1>5, DriftAppend
  <2>2. SubLen - 1 \in 1 .. Len(rx_buf_)
    BY <1>1, <1>5, SubLenType DEF Started
  <2>3. OfAcc(rx_buf_[SubLen - 1]) BY <1>1, <2>2 DEF OfAcc
  <2>4. Place(T, SubLen - 1) >= 1 BY <2>1, <2>3 DEF OneSample
  <2> QED BY <1>1, <2>4
<1>6. CASE Len(rx_buf_') = SubLen - 1
  <2>1. Place(T, SubLen - 1)' = Consumed(T)'
    BY <1>3, <1>6, SubLenType DEF Place
  <2> QED BY <1>3, <2>1
<1> QED BY <1>4, <1>5, <1>6, DriftAppend

LEMMA TrackNewest ==
    ASSUME TypeInv, NEW T, NEW m, Framed(T), OnTheLine(T), Newest(T, m),
           wire # <<>>, wire' = Tail(wire), measured' = measured,
           rx_buf_' = Append(rx_buf_, Head(wire))
    PROVE  Newest(T, m)'
<1>1. /\ Len(rx_buf_) \in Nat /\ Len(rx_buf_') = Len(rx_buf_) + 1
  BY AppendOne
<1>2. wire \in Seq(Bytes) BY DEF TypeInv, SeqInv
<1>3. Consumed(T) \in Nat /\ Consumed(T)' = Consumed(T) + 1
  BY <1>2, LineRead
<1>4. Consumed(T)' <= Len(rx_buf_') => Consumed(T) <= Len(rx_buf_)
  BY <1>1, <1>3
<1> QED BY <1>4 DEF Newest

(* The last byte but one of a frame is the CRC of its third part.          *)
LEMMA TrackAwaits ==
    ASSUME TypeInv, NEW T, NEW m, Framed(T), OnTheLine(T), DriftInv,
           complete >= 1, complete' = complete, WholeSample(T, m),
           FrameBegan',
           wire # <<>>, wire' = Tail(wire), measured' = measured,
           rx_buf_' = Append(rx_buf_, Head(wire)), lost' = lost,
           Collected(T)', OneSample(T)', Newest(T, m)'
    PROVE  AwaitsLast(T)'
<1> DEFINE c == Consumed(T)'
           rx == rx_buf_'
<1>1. /\ rx \in Seq(Bytes) /\ rx[Len(rx)] = Head(wire) BY AppendOne
<1>2. wire \in Seq(Bytes) BY DEF TypeInv, SeqInv
<1>3. /\ c \in 1 .. Len(T) /\ Len(T) \in Nat
      /\ Head(wire) \notin Basic => Len(wire') \in CrcPlaces
  BY <1>2, LineRead
<1>4. lost' \in Nat /\ complete' \in {1, 2} BY DEF TypeInv, TypeOK
<1> SUFFICES ASSUME Len(rx) = FrameSize - 1, NEW b \in Bytes,
                    Valid(Append(rx, b))
             PROVE  \/ /\ measured' # <<>>
                       /\ measured'[Len(measured')] = Extract(Append(rx, b))
                    \/ complete' = 1 /\ c <= 2 * SubLen + lost'
  BY DEF AwaitsLast
<1>5. Len(rx) = 3 * SubLen - 1 /\ Len(rx) >= 4 BY SubLenType
<1>6. rx[4] = Register("acc")
  <2>1. SubSeq(rx, 1, 4) = FrameStart \o <<Register("acc")>>
    BY <1>5 DEF FrameBegan
  <2> QED BY <1>1, <1>5, <2>1, FourthByte
<1>7. /\ \A i \in {SubLen - 1, 2 * SubLen - 1, 3 * SubLen - 1} :
           rx[i] \notin Basic
      /\ OfAcc(rx[SubLen - 1])
  BY <1>1, <1>6, FrameSigns
<1>8. InStep'
  <2>1. Len(wire') \in CrcPlaces BY <1>1, <1>3, <1>5, <1>7
  <2>2. Boundary(Len(wire') + Len(rx)) BY <1>5, <2>1, CrcBoundary
  <2>3. Started' BY <1>5, <1>7, SubLenType DEF Started
  <2> QED BY <2>2, <2>3 DEF InStep
<1>9. CASE Place(T, SubLen - 1)' >= 1
  <2>1. \A i \in SubLen - 1 .. Len(rx) :
          c - Len(rx) + i >= 1 => rx[i] \in {Header, T[c - Len(rx) + i]}
    BY <1>8 DEF Collected, Place
  <2>2. c - Len(rx) + (SubLen - 1) >= 1 BY <1>9 DEF Place
  <2> HIDE DEF c, rx
  <2>3. c = Len(rx) /\ Extract(Append(rx, b)) = m
    BY <1>1, <1>3, <1>6, <2>1, <2>2, FrameFound
  <2>4. measured' # <<>> /\ measured'[Len(measured')] = m
    <3>1. c <= Len(rx) BY <1>5, <2>3, SubLenType
    <3> QED BY <3>1 DEF Newest, c, rx
  <2> QED BY <2>3, <2>4
<1>10. CASE ~(Place(T, SubLen - 1)' >= 1)
  <2>1. complete' = 1 BY <1>4, <1>7, <1>8, <1>10 DEF OneSample
  <2>2. c <= 2 * SubLen
    <3>1. ~(c - Len(rx) + (SubLen - 1) >= 1) BY <1>10 DEF Place
    <3> HIDE DEF c, rx
    <3> QED BY <1>3, <1>5, <3>1, SubLenType
  <2> HIDE DEF c
  <2>3. c <= 2 * SubLen + lost' BY <1>3, <1>4, <2>2, SubLenType
  <2> QED BY <2>1, <2>3
<1> QED BY <1>9, <1>10

(* Hardly anything is collected.                                           *)
LEMMA TrackFewBytes ==
    ASSUME NEW T, Len(rx_buf_') \in {0, 1}
    PROVE  DriftInv' /\ Collected(T)' /\ OneSample(T)' /\ AwaitsLast(T)'
<1>1. ~(Len(rx_buf_') >= SubLen - 1) /\ Len(rx_buf_') # FrameSize - 1
  <2>1. CASE Len(rx_buf_') = 0 BY <2>1, SubLenType
  <2>2. CASE Len(rx_buf_') = 1 BY <2>2, SubLenType
  <2> QED BY <2>1, <2>2
<1>2. ~Started' /\ ~InStep' BY <1>1 DEF Started, InStep
<1> QED BY <1>1, <1>2 DEF DriftInv, Collected, OneSample, AwaitsLast

LEMMA TrackRead ==
    ASSUME TypeInv, FrameBegan', NEW T, NEW m, Framed(T),
           complete >= 1 => WholeSample(T, m),
           DriftInv, Tracks(T, m), ReadByte
    PROVE  DriftInv' /\ Tracks(T, m)'
<1> DEFINE byte == Head(wire)
<1>1. /\ wire \in Seq(Bytes) /\ wire # <<>> /\ wire' = Tail(wire)
      /\ ParseByte(byte) /\ complete' = complete
  BY DEF ReadByte, TypeInv, SeqInv, imuVars
<1>2. OnTheLine(T) BY DEF Tracks
<1>3. /\ OnTheLine(T)' /\ Consumed(T) \in Nat
      /\ Consumed(T)' = Consumed(T) + 1
  BY <1>1, <1>2, LineRead
<1>4. CASE rx_buf_' = <<>>
  <2>1. Len(rx_buf_') = 0 BY <1>4, EmptySeq
  <2>2. Newest(T, m)' BY <1>3, <2>1 DEF Newest
  <2> QED BY <1>3, <2>1, <2>2, TrackFewBytes DEF Tracks
<1>5. CASE rx_buf_' = <<byte>> /\ rx_buf_ = <<>> /\ measured' = measured
  <2>1. Len(rx_buf_') = 1 /\ Len(rx_buf_) = 0 BY <1>5, EmptySeq
  <2>2. Newest(T, m) => Newest(T, m)' BY <1>3, <1>5, <2>1 DEF Newest
  <2> QED BY <1>1, <1>3, <2>1, <2>2, TrackFewBytes DEF Tracks
<1>6. CASE Accumulate(byte)
  <2>1. rx_buf_' = Append(rx_buf_, byte) /\ measured' = measured
    BY <1>6 DEF Accumulate
  <2>2. lost' = lost
    <3>1. rx_buf_' # <<>>
      <4>1. Len(rx_buf_') = Len(rx_buf_) + 1 /\ Len(rx_buf_) \in Nat
        BY <1>1, <1>2, <2>1, AppendOne
      <4> QED BY <4>1, EmptySeq
    <3> QED BY <3>1 DEF ReadByte
  <2>3. DriftInv' BY <1>1, <1>2, <2>1, <2>2, DriftAppend
  <2>4. Collected(T)'
    BY <1>1, <1>2, <2>1, <2>2, TrackCollected DEF Tracks
  <2>5. complete \in 0 .. 2 BY DEF TypeInv, TypeOK
  <2>6. CASE complete >= 1
    <3>1. WholeSample(T, m) /\ Newest(T, m) /\ OneSample(T)
      BY <2>6 DEF Tracks
    <3>2. Newest(T, m)' BY <1>1, <1>2, <2>1, <3>1, TrackNewest
    <3>3. OneSample(T)' BY <1>1, <1>2, <2>1, <2>2, <3>1, TrackOneSample
    <3>4. AwaitsLast(T)'
      BY <1>1, <1>2, <2>1, <2>2, <2>4, <2>6, <3>1, <3>2, <3>3, TrackAwaits
    <3> QED BY <1>3, <2>3, <2>4, <3>2, <3>3, <3>4 DEF Tracks
  <2>7. CASE ~(complete >= 1) BY <1>1, <1>3, <2>3, <2>4, <2>7 DEF Tracks
  <2> QED BY <2>6, <2>7
<1>7. \/ rx_buf_' = <<>>
      \/ rx_buf_' = <<byte>> /\ rx_buf_ = <<>> /\ measured' = measured
      \/ Accumulate(byte)
  BY <1>1 DEF ParseByte, SeekHeader, RejectHeader, CompleteFrame
<1> QED BY <1>4, <1>5, <1>6, <1>7

LEMMA TrackUnheard ==
    ASSUME TypeInv, SetupInv, NEW T, NEW m, Framed(T), Tracks(T, m),
           ReadUnheard
    PROVE  DriftInv' /\ Tracks(T, m)'
<1>1. /\ wire \in Seq(Bytes) /\ wire # <<>> /\ wire' = Tail(wire)
      /\ rx_buf_' = <<>>
  BY DEF ReadUnheard, TypeInv, SeqInv, SetupInv
<1>2. /\ OnTheLine(T)' /\ Consumed(T) \in Nat
      /\ Consumed(T)' = Consumed(T) + 1
  BY <1>1, LineRead DEF Tracks
<1>3. Len(rx_buf_') = 0 BY <1>1, EmptySeq
<1>4. Newest(T, m)' BY <1>2, <1>3 DEF Newest
<1> QED BY <1>2, <1>3, <1>4, TrackFewBytes DEF Tracks

---------------------------------------------------------------------------
(* A byte is damaged.                                                      *)

(* A byte that was lost in step is missing until the frame ends.           *)
LEMMA TrackLoss ==
    ASSUME TypeInv, NEW T, NEW m, Framed(T), MaxLost < SubLen,
           DriftInv, Tracks(T, m),
           DamageByte, wire' = Tail(wire)
    PROVE  DriftInv' /\ Tracks(T, m)'
<1>1. /\ wire \in Seq(Bytes) /\ wire # <<>> /\ rx_buf_ \in Seq(Bytes)
      /\ rx_buf_' = rx_buf_ /\ measured' = measured /\ complete' = complete
      /\ \/ rx_buf_ = <<>>
         \/ lost < MaxLost /\ lost' = lost + 1
  BY DEF DamageByte, TypeInv, SeqInv, imuVars
<1>2. /\ OnTheLine(T)' /\ Consumed(T) \in Nat
      /\ Consumed(T)' = Consumed(T) + 1
      /\ Len(wire) \in Nat /\ Len(wire') = Len(wire) - 1
  BY <1>1, LineRead DEF Tracks
<1>3. Newest(T, m) => Newest(T, m)'
  <2>1. Len(rx_buf_) \in Nat BY <1>1, LenProperties
  <2>2. Consumed(T)' <= Len(rx_buf_') => Consumed(T) <= Len(rx_buf_)
    BY <1>1, <1>2, <2>1
  <2> QED BY <1>1, <2>2 DEF Newest
<1>4. CASE rx_buf_ = <<>>
  <2>1. Len(rx_buf_') = 0 BY <1>1, <1>4, EmptySeq
  <2> QED BY <1>1, <1>2, <1>3, <2>1, TrackFewBytes DEF Tracks
<1>5. CASE lost < MaxLost /\ lost' = lost + 1
  <2>1. /\ Len(rx_buf_) \in Nat /\ lost \in Nat /\ MaxLost \in Nat
        /\ Started' <=> Started
    BY <1>1, LenProperties, ImuAssumption DEF TypeInv, TypeOK, Started
  <2>2. ASSUME Started
        PROVE  /\ \E d \in 0 .. lost' :
                    Boundary(Len(wire') + Len(rx_buf_') + d)
               /\ ~InStep'
    <3>1. PICK d \in 0 .. lost : Boundary(Len(wire) + Len(rx_buf_) + d)
      BY <2>2 DEF DriftInv
    <3>2. /\ d \in Nat /\ d <= lost /\ d + 1 \in 0 .. lost'
          /\ Len(wire') + Len(rx_buf_') + (d + 1) =
               Len(wire) + Len(rx_buf_) + d
      BY <1>1, <1>2, <1>5, <2>1
    <3>3. Boundary(Len(wire') + Len(rx_buf_') + (d + 1)) BY <3>1, <3>2
    <3>4. ~Boundary(Len(wire') + Len(rx_buf_'))
      <4> DEFINE x == Len(wire') + Len(rx_buf_')
                 y == Len(wire') + Len(rx_buf_') + (d + 1)
      <4>1. x < y /\ y - x = d + 1 /\ d + 1 < SubLen
        BY <1>1, <1>2, <1>5, <2>1, <3>2, SubLenType
      <4> HIDE DEF x, y
      <4>2. ASSUME Boundary(x) PROVE FALSE
        <5>1. Boundary(y) BY <3>3 DEF y
        <5>2. y - x >= SubLen BY <4>1, <4>2, <5>1, BoundaryApart
        <5> QED BY <3>2, <4>1, <5>2, SubLenType
      <4> QED BY <4>2 DEF x
    <3> QED BY <3>2, <3>3, <3>4 DEF InStep
  <2>3. DriftInv' /\ ~InStep'
    BY <2>1, <2>2 DEF DriftInv, InStep
  <2>4. Collected(T)' /\ OneSample(T)'
    BY <2>3 DEF Collected, OneSample
  <2>5. complete >= 1 => AwaitsLast(T)'
    <3> SUFFICES ASSUME AwaitsLast(T) PROVE AwaitsLast(T)'
      BY DEF Tracks
    <3>1. /\ Consumed(T) <= lost => Consumed(T)' <= lost'
          /\ Consumed(T) <= 2 * SubLen + lost =>
               Consumed(T)' <= 2 * SubLen + lost'
      BY <1>2, <1>5, <2>1, SubLenType
    <3> QED BY <1>1, <3>1 DEF AwaitsLast
  <2> QED BY <1>1, <1>2, <1>3, <2>3, <2>4, <2>5 DEF Tracks
<1> QED BY <1>1, <1>4, <1>5

LEMMA TrackCorruption ==
    ASSUME TypeInv, NEW T, NEW m, Framed(T), DriftInv, Tracks(T, m),
           DamageByte, wire' = <<Header>> \o Tail(wire)
    PROVE  DriftInv' /\ Tracks(T, m)'
<1>1. /\ wire \in Seq(Bytes) /\ wire # <<>> /\ rx_buf_ \in Seq(Bytes)
      /\ rx_buf_' = rx_buf_ /\ measured' = measured /\ complete' = complete
      /\ \/ rx_buf_ = <<>> /\ lost' = lost
         \/ lost' = lost + 1
  BY DEF DamageByte, TypeInv, SeqInv, imuVars
<1>2. /\ Tail(wire) \in Seq(Bytes) /\ Len(Tail(wire)) = Len(wire) - 1
      /\ Len(wire) \in Nat
      /\ \A i \in 1 .. Len(Tail(wire)) : Tail(wire)[i] = wire[i + 1]
  BY <1>1, HeadTailProperties, LenProperties
<1>3. /\ Len(wire') = Len(wire)
      /\ wire'[1] = Header
      /\ \A i \in 2 .. Len(wire) : wire'[i] = wire[i]
  <2>1. <<Header>> \in Seq(Bytes) /\ Len(<<Header>>) = 1
        /\ <<Header>>[1] = Header
    BY HeaderType DEF Bytes
  <2>2. /\ Len(<<Header>> \o Tail(wire)) = 1 + Len(Tail(wire))
        /\ \A i \in 1 .. 1 : (<<Header>> \o Tail(wire))[i] = <<Header>>[i]
        /\ \A i \in 1 .. Len(Tail(wire)) :
             (<<Header>> \o Tail(wire))[1 + i] = Tail(wire)[i]
    <3>1. <<Header>> \in Seq(Bytes) /\ Tail(wire) \in Seq(Bytes)
      BY <1>2, <2>1
    <3> QED BY <2>1, <3>1, ConcatAt
  <2>3. ASSUME NEW i \in 2 .. Len(wire) PROVE wire'[i] = wire[i]
    <3>1. i - 1 \in 1 .. Len(Tail(wire)) /\ 1 + (i - 1) = i
          /\ (i - 1) + 1 = i
      BY <1>2
    <3>2. (<<Header>> \o Tail(wire))[1 + (i - 1)] = Tail(wire)[i - 1]
      BY <2>2, <3>1
    <3>3. Tail(wire)[i - 1] = wire[(i - 1) + 1] BY <1>2, <3>1
    <3> QED BY <3>1, <3>2, <3>3
  <2>4. Len(wire') = Len(wire) BY <1>2, <2>2
  <2>5. wire'[1] = Header BY <2>1, <2>2
  <2> QED BY <2>3, <2>4, <2>5
<1>4. /\ Consumed(T)' = Consumed(T)
      /\ \A i : Place(T, i)' = Place(T, i)
      /\ InStep' <=> InStep
      /\ Started' <=> Started
  BY <1>1, <1>3 DEF Consumed, Place, InStep, Started
<1>5. OnTheLine(T)'
  <2>1. ASSUME NEW i \in 1 .. Len(wire')
        PROVE  wire'[i] \in {Header, T[Consumed(T)' + i]}
    <3>1. CASE i = 1 BY <1>3, <3>1
    <3>2. CASE i # 1
      <4>1. i \in 1 .. Len(wire) /\ i \in 2 .. Len(wire)
        BY <1>2, <1>3, <3>2
      <4> QED BY <1>3, <1>4, <4>1 DEF OnTheLine, Tracks
    <3> QED BY <3>1, <3>2
  <2> QED BY <1>3, <2>1 DEF OnTheLine, Tracks
<1>6. lost \in Nat /\ lost' \in Nat /\ lost <= lost'
  BY <1>1 DEF TypeInv, TypeOK
<1>7. DriftInv'
  <2>1. 0 .. lost \subseteq 0 .. lost' BY <1>6
  <2> QED BY <1>1, <1>3, <1>4, <2>1 DEF DriftInv
<1>8. Collected(T)' BY <1>1, <1>4 DEF Collected, Tracks
<1>9. complete >= 1 => Newest(T, m)' /\ OneSample(T)'
  BY <1>1, <1>4 DEF Newest, OneSample, Tracks
<1>10. complete >= 1 => AwaitsLast(T)'
  <2> SUFFICES ASSUME AwaitsLast(T) PROVE AwaitsLast(T)'
    BY DEF Tracks
  <2>1. Consumed(T) \in Int BY <1>1, LineRead DEF Tracks, Consumed, OnTheLine
  <2>2. /\ Consumed(T) <= lost => Consumed(T)' <= lost'
        /\ Consumed(T) <= 2 * SubLen + lost =>
             Consumed(T)' <= 2 * SubLen + lost'
    BY <1>4, <1>6, <2>1, SubLenType
  <2> QED BY <1>1, <2>2 DEF AwaitsLast
<1> QED BY <1>1, <1>5, <1>7, <1>8, <1>9, <1>10 DEF Tracks

---------------------------------------------------------------------------
(* A sample is sent.                                                       *)

(* The backlog, one measurement longer.                                    *)
Extended(m) ==
    LET all == Append(measured, m)
    IN  IF Len(all) <= Backlog THEN all ELSE Tail(all)

LEMMA ExtendedProperties ==
    ASSUME TypeInv, NEW m \in Made
    PROVE  /\ Extended(m) # <<>> /\ Extended(m)[Len(Extended(m))] = m
           /\ measured # <<>> =>
                \E j \in 1 .. Len(Extended(m)) :
                   Extended(m)[j] = measured[Len(measured)]
           /\ \E i \in 1 .. Len(measured) + 1 :
                Extended(m) = Append(SubSeq(measured, i, Len(measured)), m)
<1> DEFINE n == Len(measured)
           all == Append(measured, m)
<1>1. measured \in Seq(Made) /\ n \in Nat /\ n <= Backlog
  BY LenProperties DEF TypeInv, TypeOK, SeqInv
<1>2. /\ all \in Seq(Made) /\ Len(all) = n + 1
      /\ all[n + 1] = m /\ \A i \in 1 .. n : all[i] = measured[i]
  BY <1>1, AppendProperties
<1>3. measured # <<>> => n >= 1 BY <1>1, EmptySeq
<1> HIDE DEF all
<1>4. CASE n + 1 <= Backlog
  <2>1. Extended(m) = all BY <1>2, <1>4 DEF Extended, all
  <2>2. all # <<>> /\ all[Len(all)] = m BY <1>1, <1>2, EmptySeq
  <2>3. ASSUME measured # <<>>
        PROVE  \E j \in 1 .. Len(all) : all[j] = measured[n]
    <3>1. n \in 1 .. Len(all) /\ n \in 1 .. n BY <1>1, <1>2, <1>3, <2>3
    <3> QED BY <1>2, <3>1
  <2>4. all = Append(SubSeq(measured, 1, n), m)
    BY <1>1, SubSeqFull DEF all
  <2>5. 1 \in 1 .. n + 1 BY <1>1
  <2> QED BY <2>1, <2>2, <2>3, <2>4, <2>5
<1>5. CASE ~(n + 1 <= Backlog)
  <2>1. Extended(m) = Tail(all) BY <1>2, <1>5 DEF Extended, all
  <2>2. n >= 2 BY <1>1, <1>5, ImuAssumption
  <2>3. all # <<>> BY <1>1, <1>2, EmptySeq
  <2>4. /\ Tail(all) \in Seq(Made) /\ Len(Tail(all)) = n
        /\ \A i \in 1 .. Len(Tail(all)) : Tail(all)[i] = all[i + 1]
    BY <1>1, <1>2, <2>3, HeadTailProperties
  <2>5. Tail(all) # <<>> /\ Tail(all)[n] = m
    BY <1>1, <1>2, <2>2, <2>4, EmptySeq
  <2>6. \E j \in 1 .. n : Tail(all)[j] = measured[n]
    <3>1. n - 1 \in 1 .. n /\ (n - 1) + 1 = n /\ n \in 1 .. n
      BY <1>1, <2>2
    <3>2. Tail(all)[n - 1] = measured[n] BY <1>2, <2>4, <3>1
    <3> QED BY <3>1, <3>2
  <2>7. Tail(all) = Append(SubSeq(measured, 2, n), m)
    <3> DEFINE t == SubSeq(measured, 2, n)
    <3>1. \A i \in 2 .. n : measured[i] \in Made BY <1>1, ElementOfSeq
    <3>2. /\ t \in Seq(Made) /\ Len(t) = n - 1
          /\ \A i \in 1 .. n - 1 : t[i] = measured[i + 1]
      <4>1. /\ t \in Seq(Made)
            /\ Len(t) = IF 2 <= n THEN n - 2 + 1 ELSE 0
            /\ \A i \in 1 .. n - 2 + 1 : t[i] = measured[2 + i - 1]
        BY <1>1, <3>1, SubSeqProperties
      <4>2. n - 2 + 1 = n - 1 /\ \A i \in 1 .. n - 1 : 2 + i - 1 = i + 1
        BY <1>1
      <4> HIDE DEF t
      <4> QED BY <2>2, <4>1, <4>2
    <3> HIDE DEF t
    <3>3. /\ Append(t, m) \in Seq(Made) /\ Len(Append(t, m)) = n
          /\ \A i \in 1 .. n - 1 : Append(t, m)[i] = t[i]
          /\ Append(t, m)[n] = m
      <4>1. /\ Append(t, m) \in Seq(Made)
            /\ Len(Append(t, m)) = Len(t) + 1
            /\ \A i \in 1 .. Len(t) : Append(t, m)[i] = t[i]
            /\ Append(t, m)[Len(t) + 1] = m
        BY <3>2, AppendProperties
      <4> QED BY <1>1, <3>2, <4>1
    <3>4. ASSUME NEW i \in 1 .. n PROVE Tail(all)[i] = Append(t, m)[i]
      <4>1. CASE i = n BY <2>5, <3>3, <4>1
      <4>2. CASE i # n
        <5>1. i \in 1 .. n - 1 /\ i + 1 \in 1 .. n BY <1>1, <4>2
        <5> QED BY <1>2, <2>4, <3>2, <3>3, <5>1
      <4> QED BY <4>1, <4>2
    <3>5. Tail(all) = Append(t, m) BY <2>4, <3>3, <3>4, SeqEqual
    <3> QED BY <3>5 DEF t
  <2>8. 2 \in 1 .. n + 1 BY <1>1, <2>2
  <2> QED BY <2>1, <2>4, <2>5, <2>6, <2>7, <2>8
<1> QED BY <1>4, <1>5

(* Nothing of it is in rx_buf_ yet; what is there is of the one before, or *)
(* was there before that.                                                  *)
LEMMA TrackSend ==
    ASSUME TypeInv, MaxLost < SubLen,
           NEW T, NEW m, Framed(T), complete >= 1 => WholeSample(T, m),
           DriftInv, Tracks(T, m),
           NEW U, NEW n \in Made, Framed(U), Whole => WholeSample(U, n),
           wire = <<>>, wire' = U, UNCHANGED <<rx_buf_, lost>>,
           IF Whole
           THEN /\ complete' = IF complete < 2 THEN complete + 1 ELSE 2
                /\ measured' = Extended(n)
           ELSE complete' = 0 /\ UNCHANGED measured
    PROVE  DriftInv' /\ Tracks(U, n)'
<1>1. /\ rx_buf_ \in Seq(Bytes) /\ Len(rx_buf_) \in Nat
      /\ rx_buf_' = rx_buf_
      /\ Len(rx_buf_) < FrameSize /\ lost' = lost /\ lost \in Nat
      /\ lost <= MaxLost /\ MaxLost \in Nat /\ complete \in 0 .. 2
  BY LenProperties, ImuAssumption DEF TypeInv, TypeOK, SeqInv
<1>2. /\ Len(wire) = 0 /\ Len(T) \in Nat /\ Consumed(T) = Len(T)
  BY LenProperties, EmptySeq DEF Framed, Consumed
<1>3. /\ Len(U) \in Nat /\ Len(U) \in Lengths /\ Len(wire') = Len(U)
      /\ Consumed(U)' = 0 /\ \A i : Place(U, i)' = 0 - Len(rx_buf_) + i
  BY <1>1, LenProperties DEF Framed, Consumed, Place
<1>4. OnTheLine(U)'
  <2>1. \A i \in 1 .. Len(U) : 0 + i = i BY <1>3
  <2> QED BY <1>3, <2>1 DEF OnTheLine
<1>5. Collected(U)'
  <2> SUFFICES ASSUME NEW i \in SubLen - 1 .. Len(rx_buf_')
               PROVE  ~(Place(U, i)' >= 1)
    BY DEF Collected
  <2> QED BY <1>1, <1>3, SubLenType
<1>6. Started' <=> Started BY <1>1 DEF Started
<1>7. DriftInv'
  <2> SUFFICES ASSUME Started
               PROVE  (\E d \in 0 .. lost :
                         Boundary(Len(wire) + Len(rx_buf_) + d))'
    BY <1>6 DEF DriftInv
  <2>1. PICK d \in 0 .. lost : Boundary(Len(wire) + Len(rx_buf_) + d)
    BY DEF DriftInv
  <2> DEFINE x == Len(wire) + Len(rx_buf_) + d
  <2>2. x < 4 * SubLen /\ x \in Nat
    BY <1>1, <1>2, <2>1, SubLenType
  <2>3. Len(wire') + Len(rx_buf_') + d = Len(U) + x
    BY <1>1, <1>2, <1>3, <2>1
  <2> HIDE DEF x
  <2>4. Boundary(Len(U) + x) BY <1>3, <2>1, <2>2, BoundaryAdd DEF x
  <2> QED BY <1>1, <2>1, <2>3, <2>4
<1>8. ASSUME complete' >= 1
      PROVE  Newest(U, n)' /\ OneSample(U)' /\ AwaitsLast(U)'
  <2>1. /\ Whole /\ measured' = Extended(n)
        /\ complete' = IF complete < 2 THEN complete + 1 ELSE 2
    BY <1>8
  <2>2. Newest(U, n)' BY <2>1, ExtendedProperties DEF Newest
  <2>3. OneSample(U)'
    <3> SUFFICES ASSUME complete' = 2, InStep', OfAcc(rx_buf_[SubLen - 1])'
                 PROVE  FALSE
      BY DEF OneSample
    <3>1. complete >= 1 /\ WholeSample(T, m) BY <1>1, <2>1
    <3>2. Started BY <1>6 DEF InStep
    <3>3. /\ Len(rx_buf_) >= SubLen - 1 /\ rx_buf_[SubLen - 1] \notin Basic
          /\ OfAcc(rx_buf_[SubLen - 1])
      BY <1>1, <3>2 DEF Started, OfAcc
    <3>4. Len(T) = 3 * SubLen \/ Len(T) = 4 * SubLen
      BY <3>1 DEF WholeSample
    <3>5. Len(U) = 3 * SubLen \/ Len(U) = 4 * SubLen
      BY <2>1 DEF WholeSample
    <3>6. Boundary(Len(U) + Len(rx_buf_)) BY <1>1, <1>3 DEF InStep
    <3>7. Len(rx_buf_) = SubLen \/ Len(rx_buf_) = 2 * SubLen
      BY <1>1, <3>3, <3>5, <3>6, SubLenType DEF Boundary
    <3>8. InStep
      <4>1. Boundary(Len(wire) + Len(rx_buf_))
        BY <1>1, <1>2, <3>7, SubLenType DEF Boundary
      <4> QED BY <3>2, <4>1 DEF InStep
    <3> DEFINE p == Place(T, SubLen - 1)
    <3>9. p \in 1 .. Len(T) /\ p # SubLen - 1
      BY <1>1, <1>2, <3>4, <3>7, SubLenType DEF Place
    <3>10. rx_buf_[SubLen - 1] \in {Header, T[p]}
      <4>1. SubLen - 1 \in SubLen - 1 .. Len(rx_buf_)
        BY <1>1, <3>3, SubLenType
      <4>2. p >= 1 BY <1>2, <3>9
      <4> QED BY <3>8, <4>1, <4>2 DEF Collected, Tracks
    <3> HIDE DEF p
    <3>11. rx_buf_[SubLen - 1] = T[p] BY <3>3, <3>10, HeaderType
    <3> QED BY <3>1, <3>3, <3>9, <3>11 DEF WholeSample
  <2>4. AwaitsLast(U)'
    <3> SUFFICES ASSUME Len(rx_buf_) = FrameSize - 1, NEW b \in Bytes,
                        Valid(Append(rx_buf_, b))
                 PROVE  \/ \E j \in 1 .. Len(measured') :
                             measured'[j] = Extract(Append(rx_buf_, b))
                        \/ complete' = 1
      <4>1. Consumed(U)' <= lost' /\ Consumed(U)' <= 2 * SubLen + lost'
        BY <1>1, <1>3, SubLenType
      <4> QED BY <1>1, <4>1 DEF AwaitsLast
    <3>1. CASE complete = 0 BY <2>1, <3>1
    <3>2. CASE complete >= 1
      <4> DEFINE f == Append(rx_buf_, b)
      <4>1. /\ \/ measured # <<>> /\ measured[Len(measured)] = Extract(f)
               \/ /\ Consumed(T) <= lost
                  /\ \E j \in 1 .. Len(measured) :
                       measured[j] = Extract(f)
               \/ complete = 1 /\ Consumed(T) <= 2 * SubLen + lost
        BY <3>2 DEF Tracks, AwaitsLast
      <4>2. Len(T) = 3 * SubLen \/ Len(T) = 4 * SubLen
        BY <3>2 DEF WholeSample
      <4>3. ~(Consumed(T) <= lost) /\ ~(Consumed(T) <= 2 * SubLen + lost)
        BY <1>1, <1>2, <4>2, SubLenType
      <4>4. measured # <<>> /\ measured[Len(measured)] = Extract(f)
        BY <4>1, <4>3
      <4> HIDE DEF f
      <4>5. \E j \in 1 .. Len(Extended(n)) : Extended(n)[j] = Extract(f)
        BY <4>4, ExtendedProperties
      <4> QED BY <2>1, <4>5 DEF f
    <3> QED BY <1>1, <3>1, <3>2
  <2> QED BY <2>2, <2>3, <2>4
<1> QED BY <1>4, <1>5, <1>7, <1>8 DEF Tracks

---------------------------------------------------------------------------
(* The invariant holds.                                                    *)

LEMMA SourceInit == Init => SourceInv
<1> SUFFICES ASSUME Init PROVE SourceInv
  OBVIOUS
<1>1. /\ boot = "open" /\ callback_ = "unset" /\ rx_buf_ = <<>>
      /\ wire = <<>> /\ complete = 0
  BY DEF Init
<1>2. SetupInv BY <1>1 DEF SetupInv
<1>3. Plain \in AnyShape /\ {} \in SUBSET AllOutputs /\ 0 \in 0 .. Cycle - 1
  BY ImuAssumption DEF Plain, AnyShape
<1>4. Len(rx_buf_) = 0 /\ Len(wire) = 0 BY <1>1, EmptySeq
<1>5. ~Started BY <1>4, SubLenType DEF Started
<1> DEFINE T == Transmission({}, 0, Plain)
<1>6. Len(T) \in Nat
  <2>1. Framed(T) BY <1>3, TransmissionFramed
  <2> QED BY <2>1, LenProperties DEF Framed
<1>7. Tracks(T, Measurement(0, Plain))
  <2> HIDE DEF T
  <2>1. OnTheLine(T) BY <1>4, <1>6 DEF OnTheLine
  <2> QED BY <1>1, <1>5, <2>1 DEF Tracks, Collected, InStep
<1> HIDE DEF T
<1>8. DriftInv BY <1>5 DEF DriftInv
<1>9. ~(complete >= 1) BY <1>1
<1>10. LineInv BY <1>3, <1>7, <1>8, <1>9, Zenon DEF LineInv, T
<1> QED BY <1>2, <1>10 DEF SourceInv

LEMMA SetupNext == TypeInv /\ SetupInv /\ [Next]_vars => SetupInv'
<1> SUFFICES ASSUME TypeInv, SetupInv, [Next]_vars PROVE SetupInv'
  OBVIOUS
<1>1. CASE InstallCallback
  BY <1>1 DEF InstallCallback, SetupInv, Whole, imuVars
<1>2. CASE SendCommand
  <2>1. Whole => Whole'
    BY <1>2 DEF SendCommand, Obeyed, Whole, Needed
  <2>2. boot' # "open" BY <1>2 DEF SendCommand, Commands, After
  <2> QED BY <1>2, <2>1, <2>2 DEF SendCommand, SetupInv
<1>3. CASE CloseStart \/ CloseJoin
  BY <1>3 DEF CloseStart, CloseJoin, SetupInv, Whole, imuVars
<1>4. CASE ReadUnheard
  BY <1>4 DEF ReadUnheard, SetupInv, Whole, bootVars, imuVars
<1>5. CASE ReadByte
  BY <1>5 DEF ReadByte, SetupInv, Whole, bootVars, imuVars
<1>6. CASE SerialEnd \/ SerialError
  BY <1>6 DEF SerialEnd, SerialError, SetupInv, Whole, bootVars, imuVars
<1>7. CASE \E shape \in Shapes : SendSample(shape)
  <2>1. PICK shape \in Shapes : SendSample(shape) BY <1>7
  <2>2. complete' >= 1 => Whole'
    BY <2>1 DEF SendSample, Whole
  <2>3. UNCHANGED <<boot, callback_, rx_buf_>>
    BY <2>1 DEF SendSample, bootVars
  <2> QED BY <2>2, <2>3 DEF SetupInv
<1>8. CASE DamageByte
  BY <1>8 DEF DamageByte, SetupInv, Whole, bootVars, imuVars
<1>9. CASE Ended \/ UNCHANGED vars
  BY <1>9 DEF Ended, vars, SetupInv, Whole, bootVars, imuVars
<1> QED
  BY <1>1, <1>2, <1>3, <1>4, <1>5, <1>6, <1>7, <1>8, <1>9 DEF Next, Read

LEMMA TrackStill ==
    ASSUME NEW T, NEW m, DriftInv, Tracks(T, m),
           UNCHANGED <<rx_buf_, wire, lost, measured, complete>>
    PROVE  DriftInv' /\ Tracks(T, m)'
<1>1. /\ Consumed(T)' = Consumed(T)
      /\ \A i : Place(T, i)' = Place(T, i)
      /\ InStep' <=> InStep
      /\ Started' <=> Started
  BY DEF Consumed, Place, InStep, Started
<1>2. DriftInv' BY <1>1 DEF DriftInv
<1>3. OnTheLine(T)' BY <1>1 DEF OnTheLine, Tracks
<1>4. Collected(T)' BY <1>1 DEF Collected, Tracks
<1>5. complete >= 1 => Newest(T, m)' /\ OneSample(T)'
  BY <1>1 DEF Newest, OneSample, Tracks
<1>6. complete >= 1 => AwaitsLast(T)' BY <1>1 DEF AwaitsLast, Tracks
<1> QED BY <1>2, <1>3, <1>4, <1>5, <1>6 DEF Tracks

LEMMA LineNext ==
    ASSUME MaxLost < SubLen, TypeInv, FrameBegan', SetupInv, LineInv,
           [Next]_vars
    PROVE  LineInv'
<1> SUFFICES ASSUME serial' = "run"
             PROVE  /\ DriftInv'
                    /\ (\E outs \in SUBSET AllOutputs, s \in 0 .. Cycle - 1,
                           shape \in AnyShape :
                          /\ complete >= 1 => Needed \subseteq outs
                          /\ Tracks(Transmission(outs, s, shape),
                                    Measurement(s, shape)))'
  BY DEF LineInv
<1>1. serial = "run"
  BY DEF Next, InstallCallback, SendCommand, CloseStart, CloseJoin, Read,
         ReadUnheard, ReadByte, SerialEnd, SerialError, SendSample,
         DamageByte, Ended, vars
<1>2. DriftInv BY <1>1 DEF LineInv
<1>3. PICK outs \in SUBSET AllOutputs, s \in 0 .. Cycle - 1,
           shape \in AnyShape :
        /\ complete >= 1 => Needed \subseteq outs
        /\ Tracks(Transmission(outs, s, shape), Measurement(s, shape))
  BY <1>1 DEF LineInv
<1> DEFINE T == Transmission(outs, s, shape)
           m == Measurement(s, shape)
<1>4. /\ Framed(T) /\ Tracks(T, m)
      /\ complete >= 1 => WholeSample(T, m)
  BY <1>3, TransmissionFramed, WholeSampleSent
<1>5. ASSUME complete' = complete, DriftInv', Tracks(T, m)'
      PROVE  /\ DriftInv'
             /\ (\E o \in SUBSET AllOutputs, n \in 0 .. Cycle - 1,
                    p \in AnyShape :
                   /\ complete >= 1 => Needed \subseteq o
                   /\ Tracks(Transmission(o, n, p), Measurement(n, p)))'
  BY <1>3, <1>5
<1> HIDE DEF T, m
<1>6. CASE \E next \in Shapes : SendSample(next)
  <2>1. PICK next \in Shapes : SendSample(next) BY <1>6
  <2>2. /\ next \in AnyShape /\ enabled \in SUBSET AllOutputs
        /\ sample \in 0 .. Cycle - 1
    BY ImuAssumption DEF TypeInv, TypeOK, AllOutputs, AnyShape
  <2>3. PICK on \in SUBSET AllOutputs, k \in 0 .. Cycle - 1 :
          on = enabled /\ k = sample
    BY <2>2
  <2> DEFINE U == Transmission(on, k, next)
             n == Measurement(k, next)
  <2>4. /\ Framed(U) /\ n \in Made
        /\ Whole => WholeSample(U, n)
    BY <2>2, <2>3, TransmissionFramed, WholeSampleSent DEF Made, Whole
  <2>5. /\ wire = <<>> /\ wire' = U /\ rx_buf_' = rx_buf_ /\ lost' = lost
        /\ IF Whole
           THEN /\ complete' = IF complete < 2 THEN complete + 1 ELSE 2
                /\ measured' = Extended(n)
           ELSE complete' = 0 /\ UNCHANGED measured
    BY <2>1, <2>3 DEF SendSample, Extended
  <2>6. complete' >= 1 => Needed \subseteq on
    BY <2>3, <2>5 DEF Whole
  <2> HIDE DEF U, n
  <2>7. DriftInv' /\ Tracks(U, n)'
    BY <1>2, <1>4, <2>4, <2>5, TrackSend
  <2>8. (/\ complete >= 1 => Needed \subseteq on
         /\ Tracks(Transmission(on, k, next), Measurement(k, next)))'
    BY <2>6, <2>7 DEF U, n
  <2> QED BY <2>2, <2>7, <2>8
<1>7. CASE ReadByte
  <2>1. complete' = complete BY <1>7 DEF ReadByte, imuVars
  <2>2. DriftInv' /\ Tracks(T, m)' BY <1>2, <1>4, <1>7, TrackRead
  <2> QED BY <1>5, <2>1, <2>2
<1>8. CASE ReadUnheard
  <2>1. complete' = complete BY <1>8 DEF ReadUnheard, imuVars
  <2>2. DriftInv' /\ Tracks(T, m)' BY <1>4, <1>8, TrackUnheard
  <2> QED BY <1>5, <2>1, <2>2
<1>9. CASE DamageByte
  <2>1. /\ complete' = complete
        /\ wire' = Tail(wire) \/ wire' = <<Header>> \o Tail(wire)
    BY <1>9 DEF DamageByte, imuVars
  <2>2. DriftInv' /\ Tracks(T, m)'
    BY <1>2, <1>4, <1>9, <2>1, TrackLoss, TrackCorruption
  <2> QED BY <1>5, <2>1, <2>2
<1>10. CASE \/ InstallCallback \/ SendCommand \/ CloseStart \/ CloseJoin
            \/ Ended \/ UNCHANGED vars
  <2>1. UNCHANGED <<rx_buf_, wire, lost, measured, complete>>
    BY <1>10 DEF InstallCallback, SendCommand, CloseStart, CloseJoin,
                 Ended, vars, imuVars
  <2>2. DriftInv' /\ Tracks(T, m)' BY <1>2, <1>4, <2>1, TrackStill
  <2> QED BY <1>5, <2>1, <2>2
<1>11. ~SerialEnd /\ ~SerialError BY DEF SerialEnd, SerialError
<1> QED
  BY <1>6, <1>7, <1>8, <1>9, <1>10, <1>11 DEF Next, Read

LEMMA SourceAlways ==
    ASSUME MaxLost < SubLen
    PROVE  Spec => [](TypeInv /\ FrameBegan /\ SourceInv)
<1> DEFINE Inv == TypeInv /\ FrameBegan /\ SourceInv
<1>1. Init => Inv BY TypeInit, BeganInit, SourceInit
<1>2. Inv /\ [Next]_vars => Inv'
  <2> SUFFICES ASSUME Inv, [Next]_vars PROVE Inv'
    OBVIOUS
  <2>1. TypeInv' BY TypeNext
  <2>2. FrameBegan' BY BeganNext
  <2>3. SetupInv' BY SetupNext DEF SourceInv
  <2>4. LineInv' BY <2>2, LineNext DEF SourceInv
  <2> QED BY <2>1, <2>2, <2>3, <2>4 DEF SourceInv
<1> QED BY <1>1, <1>2, PTL DEF Spec

---------------------------------------------------------------------------
(* Every step is one of AttitudeSource, or none.                           *)

LEMMA StepSend ==
    ASSUME TypeInv, SetupInv, NEW shape \in Shapes, SendSample(shape)
    PROVE  Source!Measure \/ UNCHANGED <<measured, data_, complete>>
<1> DEFINE m == Measurement(sample, shape)
<1>1. m \in Made
  <2>1. sample \in 0 .. Cycle - 1 BY DEF TypeInv, TypeOK
  <2> QED BY <2>1 DEF Made
<1>2. data_' = data_ BY DEF SendSample
<1>3. CASE Whole
  <2>1. measured' = Extended(m) BY <1>3 DEF SendSample, Extended
  <2>2. complete = 2 => complete' = 2 BY <1>3 DEF SendSample
  <2>3. m \in {Measurement(s, p) : s \in 0 .. Cycle - 1, p \in Shapes}
    BY <1>1 DEF Made
  <2> HIDE DEF m
  <2>4. \E i \in 1 .. Len(measured) + 1 :
          measured' = Append(SubSeq(measured, i, Len(measured)), m)
    BY <1>1, <2>1, ExtendedProperties
  <2> QED BY <1>2, <2>2, <2>3, <2>4 DEF Source!Measure
<1>4. CASE ~Whole
  <2>1. complete' = 0 /\ measured' = measured BY <1>4 DEF SendSample
  <2>2. complete = 0 BY <1>4 DEF SetupInv, TypeInv, TypeOK
  <2> QED BY <1>2, <2>1, <2>2
<1> QED BY <1>3, <1>4

(* The one step that publishes.                                            *)
LEMMA StepComplete ==
    ASSUME MaxLost < SubLen, TypeInv, SourceInv, serial = "run",
           wire # <<>>, NEW byte \in Bytes, CompleteFrame(byte),
           complete' = complete
    PROVE  \/ Source!Publish \/ Source!Garble
           \/ UNCHANGED <<measured, data_, complete>>
<1> DEFINE f == Append(rx_buf_, byte)
           m == Extract(f)
<1>1. CASE ~Valid(f) BY <1>1 DEF CompleteFrame
<1>2. CASE Valid(f) /\ \E j \in 1 .. Len(measured) : measured[j] = m
  <2> DEFINE i == CHOOSE j \in 1 .. Len(measured) : measured[j] = m
  <2>1. data_' = m /\ measured' = Since(m) BY <1>2 DEF CompleteFrame
  <2> HIDE DEF m
  <2>2. i \in 1 .. Len(measured) /\ measured[i] = m BY <1>2
  <2>3. Since(m) = SubSeq(measured, i + 1, Len(measured))
    BY <1>2 DEF Since
  <2> HIDE DEF i
  <2>4. \E j \in 1 .. Len(measured) :
          /\ data_' = measured[j]
          /\ measured' = SubSeq(measured, j + 1, Len(measured))
    BY <2>1, <2>2, <2>3
  <2> QED BY <2>4 DEF Source!Publish
<1>3. CASE Valid(f) /\ ~\E j \in 1 .. Len(measured) : measured[j] = m
  <2>1. data_' = m /\ measured' = Since(m) BY <1>3 DEF CompleteFrame
  <2> HIDE DEF m
  <2>2. measured' = measured BY <1>3, <2>1 DEF Since
  <2>3. complete # 2
    <3> SUFFICES ASSUME complete = 2 PROVE FALSE
      OBVIOUS
    <3>1. /\ Len(rx_buf_) \in Nat /\ Len(f) = Len(rx_buf_) + 1
          /\ Len(rx_buf_) < FrameSize /\ Len(f) >= FrameSize
          /\ measured \in Seq(Made)
      BY AppendProperties, LenProperties
         DEF TypeInv, TypeOK, SeqInv, CompleteFrame
    <3>2. Len(rx_buf_) = FrameSize - 1 BY <3>1, FrameSizeBig
    <3>3. PICK outs \in SUBSET AllOutputs, s \in 0 .. Cycle - 1,
               shape \in AnyShape :
            /\ complete >= 1 => Needed \subseteq outs
            /\ Tracks(Transmission(outs, s, shape), Measurement(s, shape))
      BY DEF SourceInv, LineInv
    <3>4. AwaitsLast(Transmission(outs, s, shape)) BY <3>3 DEF Tracks
    <3>5. \/ measured # <<>> /\ measured[Len(measured)] = m
          \/ \E j \in 1 .. Len(measured) : measured[j] = m
      BY <1>3, <3>2, <3>4 DEF AwaitsLast, m
    <3>6. measured # <<>> => Len(measured) \in 1 .. Len(measured)
      BY <3>1, EmptySeq
    <3> QED BY <1>3, <3>5, <3>6
  <2> QED BY <2>2, <2>3 DEF Source!Garble
<1> QED BY <1>1, <1>2, <1>3

LEMMA SourceStep ==
    ASSUME MaxLost < SubLen, TypeInv, SourceInv, [Next]_vars
    PROVE  Source!Next \/ UNCHANGED <<measured, data_, complete>>
<1>1. CASE \E shape \in Shapes : SendSample(shape)
  BY <1>1, StepSend DEF SourceInv, Source!Next
<1>2. CASE ReadByte
  <2>1. /\ serial = "run" /\ wire # <<>> /\ wire \in Seq(Bytes)
        /\ complete' = complete /\ ParseByte(Head(wire))
    BY <1>2 DEF ReadByte, imuVars, TypeInv, SeqInv
  <2>2. Head(wire) \in Bytes BY <2>1, TailType
  <2>3. CASE CompleteFrame(Head(wire))
    BY <2>1, <2>2, <2>3, StepComplete DEF Source!Next
  <2>4. CASE ~CompleteFrame(Head(wire))
    BY <2>1, <2>4 DEF ParseByte, SeekHeader, RejectHeader, Accumulate
  <2> QED BY <2>3, <2>4
<1>3. CASE ~ReadByte /\ ~\E shape \in Shapes : SendSample(shape)
  BY <1>3 DEF Next, InstallCallback, SendCommand, CloseStart, CloseJoin,
              Read, ReadUnheard, SerialEnd, SerialError, DamageByte, Ended,
              vars, imuVars
<1> QED BY <1>1, <1>2, <1>3

(* The driver implements AttitudeSource, whatever payloads look like and   *)
(* however often bytes are lost or corrupted, if it is fewer of a frame    *)
(* than a sub-frame has: the parser tests one register of three, and a     *)
(* frame with a whole sub-frame missing is of two samples.                 *)
THEOREM SourceCorrect ==
    ASSUME MaxLost < SubLen
    PROVE  Spec => ImplementsAttitudeSource
<1>1. Init => Source!Init BY DEF Init, Source!Init
<1>2. TypeInv /\ SourceInv /\ [Next]_vars =>
        [Source!Next]_(Source!vars)
  <2> SUFFICES ASSUME TypeInv, SourceInv, [Next]_vars
               PROVE  [Source!Next]_(Source!vars)
    OBVIOUS
  <2>1. CASE Source!Next BY <2>1
  <2>2. CASE UNCHANGED <<measured, data_, complete>>
    BY <2>2 DEF Source!vars
  <2> QED BY <2>1, <2>2, SourceStep
<1>3. Spec => [](TypeInv /\ FrameBegan /\ SourceInv) BY SourceAlways
<1> QED BY <1>1, <1>2, <1>3, PTL DEF Spec, ImplementsAttitudeSource, Source!Spec

=============================================================================
