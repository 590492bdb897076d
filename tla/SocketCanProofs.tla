-------------------------- MODULE SocketCanProofs --------------------------
(***************************************************************************)
(* What holds of a CAN interface for any motors, callers, queue size and   *)
(* number of retries: types, when the sender may sleep, the order of       *)
(* closing, and that it is a lossy FIFO.                                   *)
(***************************************************************************)
EXTENDS SocketCan, SequenceTheorems, TLAPS

---------------------------------------------------------------------------
(* Sequences.                                                              *)

(* A sequence is its first element followed by the others: popping moves   *)
(* the head from the queue into the frame in flight.                       *)
LEMMA HeadThenTail ==
    ASSUME NEW S, NEW s \in Seq(S), s # <<>>
    PROVE  <<Head(s)>> \o Tail(s) = s
<1>1. Head(s) \in S /\ Tail(s) \in Seq(S) /\ Len(Tail(s)) = Len(s) - 1
      /\ \A i \in 1 .. Len(Tail(s)) : Tail(s)[i] = s[i + 1]
  BY HeadTailProperties
<1>2. Len(s) \in Nat \ {0} BY EmptySeq
<1>3. <<Head(s)>> \in Seq(S) /\ Len(<<Head(s)>>) = 1 BY <1>1
<1>4. /\ <<Head(s)>> \o Tail(s) \in Seq(S)
      /\ Len(<<Head(s)>> \o Tail(s)) = Len(s)
      /\ \A i \in 1 .. Len(s) : (<<Head(s)>> \o Tail(s))[i] =
           IF i <= 1 THEN <<Head(s)>>[i] ELSE Tail(s)[i - 1]
  BY <1>1, <1>2, <1>3, ConcatProperties
<1>5. ASSUME NEW i \in 1 .. Len(s)
      PROVE  (<<Head(s)>> \o Tail(s))[i] = s[i]
  BY <1>1, <1>2, <1>4
<1> QED BY <1>4, <1>5, SeqEqual

(* What the concatenation of a one-frame sequence and a queue starts with. *)
LEMMA FrameThenQueue ==
    ASSUME NEW S, NEW m \in S, NEW q \in Seq(S)
    PROVE  /\ <<m>> \o q # <<>>
           /\ Head(<<m>> \o q) = m
           /\ Tail(<<m>> \o q) = q
<1>1. <<m>> \in Seq(S) /\ Len(<<m>>) = 1 OBVIOUS
<1>2. Len(q) \in Nat BY LenProperties
<1>3. /\ <<m>> \o q \in Seq(S)
      /\ Len(<<m>> \o q) = 1 + Len(q)
      /\ \A i \in 1 .. 1 + Len(q) : (<<m>> \o q)[i] =
           IF i <= 1 THEN <<m>>[i] ELSE q[i - 1]
  BY <1>1, ConcatProperties
<1>4. <<m>> \o q # <<>> BY <1>2, <1>3, EmptySeq
<1>5. Head(<<m>> \o q) = m BY <1>2, <1>3, <1>4
<1>6. /\ Tail(<<m>> \o q) \in Seq(S)
      /\ Len(Tail(<<m>> \o q)) = Len(q)
      /\ \A i \in 1 .. Len(q) : Tail(<<m>> \o q)[i] = (<<m>> \o q)[i + 1]
  BY <1>2, <1>3, <1>4, HeadTailProperties
<1>7. \A i \in 1 .. Len(q) : Tail(<<m>> \o q)[i] = q[i] BY <1>2, <1>3, <1>6
<1>8. Tail(<<m>> \o q) = q BY <1>6, <1>7, SeqEqual
<1> QED BY <1>4, <1>5, <1>8

(* A sequence of at most one element that is not empty.                    *)
LEMMA OneFrame ==
    ASSUME NEW S, NEW s \in Seq(S), Len(s) = 1
    PROVE  s[1] \in S /\ s = <<s[1]>>
<1>1. s[1] \in S BY ElementOfSeq
<1>2. <<s[1]>> \in Seq(S) /\ Len(<<s[1]>>) = 1 BY <1>1
<1> QED BY <1>1, <1>2, SeqEqual

(* Taking the head shortens a sequence; appending keeps to its bound.      *)
LEMMA TailShorter ==
    ASSUME NEW S, NEW s \in Seq(S), s # <<>>, NEW n \in Nat, Len(s) <= n
    PROVE  Tail(s) \in Seq(S) /\ Len(Tail(s)) <= n
BY HeadTailProperties, EmptySeq

LEMMA AppendWithin ==
    ASSUME NEW S, NEW s \in Seq(S), NEW e \in S, NEW n \in Nat, Len(s) < n
    PROVE  Append(s, e) \in Seq(S) /\ Len(Append(s, e)) <= n
BY AppendProperties, LenProperties

---------------------------------------------------------------------------
(* Type correctness.                                                       *)

LEMMA PushedType ==
    ASSUME NEW m \in Motors, TypeOK
    PROVE  Pushed(m) \in Seq(Motors) /\ Len(Pushed(m)) <= QueueSize
BY CanAssumption, AppendWithin DEF Pushed, TypeOK

LEMMA TypeInit == Init => TypeOK
<1> SUFFICES ASSUME Init PROVE TypeOK
  OBVIOUS
<1>1. <<>> \in Seq(Motors) /\ Len(<<>>) = 0 BY EmptySeq
<1>2. 0 \in 0 .. MaxRetry BY CanAssumption
<1>3. caller \in [Callers -> {"idle", "notify"}] BY DEF Init
<1>4. /\ 0 <= QueueSize
      /\ 0 <= WireSize
      /\ 0 <= InboxSize
  BY CanAssumption
<1>5. /\ tx_queue \in Seq(Motors) /\ Len(tx_queue) <= QueueSize
      /\ tx_frame \in Seq(Motors) /\ Len(tx_frame) <= 1
      /\ rx_id \in Seq(Motors) /\ Len(rx_id) <= 1
      /\ wire \in Seq(Motors) /\ Len(wire) <= WireSize
      /\ inbox \in Seq(Motors) /\ Len(inbox) <= InboxSize
  BY <1>1, <1>4 DEF Init
<1>6. /\ count \in 0 .. MaxRetry
      /\ callbacks \subseteq Motors
  BY <1>2 DEF Init
<1>7. /\ receiving \in BOOLEAN /\ missed \in BOOLEAN
      /\ tx = "loop" /\ rx = "loop" /\ closer = "open"
  BY DEF Init
<1> QED BY <1>3, <1>5, <1>6, <1>7 DEF TypeOK

LEMMA TypeSender ==
    ASSUME TypeOK, Sender \/ SpuriousWakeup
    PROVE  TypeOK'
<1> USE CanAssumption DEF TypeOK, TxFrame, rxVars, TxAt
<1>1. CASE TxLoop BY <1>1 DEF TxLoop, txVars
<1>2. CASE TxTest BY <1>2 DEF TxTest, txVars
<1>3. CASE TxBlock BY <1>3 DEF TxBlock, txVars
<1>4. CASE TxPop
  <2>1. CASE ~receiving /\ tx' = "done" /\ UNCHANGED <<tx_queue, tx_frame>>
    BY <1>4, <2>1 DEF TxPop
  <2>2. CASE /\ tx_queue # <<>>
             /\ tx' = "write"
             /\ tx_frame' = <<Head(tx_queue)>>
             /\ tx_queue' = Tail(tx_queue)
    <3>1. tx_queue' \in Seq(Motors) /\ Len(tx_queue') <= QueueSize
      BY <2>2, TailShorter
    <3>2. tx_frame' \in Seq(Motors) /\ Len(tx_frame') <= 1
      BY <2>2, HeadTailProperties
    <3> QED BY <1>4, <2>2, <3>1, <3>2 DEF TxPop
  <2> QED BY <1>4, <2>1, <2>2 DEF TxPop
<1>5. CASE WriteSucceeds
  <2>1. wire' \in Seq(Motors) /\ Len(wire') = Len(wire) + Len(tx_frame)
    BY <1>5, ConcatProperties DEF WriteSucceeds
  <2>2. Len(wire') <= WireSize
    BY <1>5, <2>1, LenProperties DEF WriteSucceeds
  <2>3. tx_frame' \in Seq(Motors) /\ Len(tx_frame') <= 1
    BY <1>5, EmptySeq DEF WriteSucceeds
  <2> QED BY <1>5, <2>1, <2>2, <2>3 DEF WriteSucceeds
<1>6. CASE WriteFails
  <2>1. tx_frame' \in Seq(Motors) /\ Len(tx_frame') <= 1
    BY <1>6, EmptySeq DEF WriteFails
  <2> QED BY <1>6, <2>1 DEF WriteFails
<1>7. CASE TxAfter
  <2>1. 0 \in 0 .. MaxRetry OBVIOUS
  <2> QED BY <1>7, <2>1 DEF TxAfter
<1>8. CASE SpuriousWakeup BY <1>8 DEF SpuriousWakeup, txVars
<1> QED BY <1>1, <1>2, <1>3, <1>4, <1>5, <1>6, <1>7, <1>8 DEF Sender

LEMMA TypeReceiver ==
    ASSUME TypeOK, Receiver
    PROVE  TypeOK'
<1> USE CanAssumption DEF TypeOK, RxFrame, callVars, txVars, RxAt
<1>1. CASE RxLoop BY <1>1 DEF RxLoop
<1>2. CASE RxSelect BY <1>2 DEF RxSelect
<1>3. CASE RxRead
  <2>1. inbox' \in Seq(Motors) /\ Len(inbox') <= InboxSize
    BY <1>3, TailShorter DEF RxRead
  <2>2. rx_id' \in Seq(Motors) /\ Len(rx_id') <= 1
    <3>1. CASE inbox # <<>> /\ rx_id' = <<Head(inbox)>>
      <4>1. Head(inbox) \in Motors BY <3>1, HeadTailProperties
      <4> QED BY <3>1, <4>1
    <3>2. CASE UNCHANGED rx_id BY <3>2
    <3> QED BY <1>3, <3>1, <3>2 DEF RxRead
  <2> QED BY <1>3, <2>1, <2>2 DEF RxRead
<1>4. CASE RxLookup
  <2>1. rx_id' \in Seq(Motors) /\ Len(rx_id') <= 1
    BY <1>4, EmptySeq DEF RxLookup
  <2> QED BY <1>4, <2>1 DEF RxLookup
<1>5. CASE RxCall BY <1>5, EmptySeq DEF RxCall
<1> QED BY <1>1, <1>2, <1>3, <1>4, <1>5 DEF Receiver

LEMMA TypeCloser ==
    ASSUME TypeOK, CloseStart \/ Closer
    PROVE  TypeOK'
BY DEF TypeOK, CloseStart, Closer, CloseNotify, NotifyOne, JoinReceiver,
       JoinSender, CloseFrame, callVars, txVars, rxVars

LEMMA TypeNext == TypeOK /\ [Next]_vars => TypeOK'
<1> SUFFICES ASSUME TypeOK, [Next]_vars PROVE TypeOK'
  OBVIOUS
<1>1. ASSUME NEW c \in Callers, NEW m \in Motors, Transmit(c, m)
      PROVE  TypeOK'
  <2>1. tx_queue' \in Seq(Motors) /\ Len(tx_queue') <= QueueSize
    BY <1>1, PushedType DEF Transmit
  <2>2. caller' \in [Callers -> {"idle", "notify"}]
    BY <1>1 DEF Transmit, TypeOK
  <2> QED BY <1>1, <2>1, <2>2 DEF Transmit, TypeOK, txVars, rxVars
<1>2. ASSUME NEW c \in Callers, Notify(c)
      PROVE  TypeOK'
  BY <1>2 DEF Notify, NotifyOne, TypeOK, txVars, rxVars
<1>3. CASE Sender \/ SpuriousWakeup BY <1>3, TypeSender
<1>4. CASE Receiver BY <1>4, TypeReceiver
<1>5. ASSUME NEW m \in Motors, AddCallback(m) \/ RemoveCallback(m)
      PROVE  TypeOK'
  BY <1>5 DEF AddCallback, RemoveCallback, CallbackFrame, TypeOK, callVars,
              txVars
<1>6. CASE CloseStart \/ Closer BY <1>6, TypeCloser
<1>7. CASE Bus
  <2>1. wire' \in Seq(Motors) /\ Len(wire') <= WireSize
    BY <1>7, CanAssumption, TailShorter DEF Bus, TypeOK
  <2>2. inbox' \in Seq(Motors) /\ Len(inbox') <= InboxSize
    <3>1. Head(wire) \in Motors
      BY <1>7, HeadTailProperties DEF Bus, TypeOK
    <3> QED BY <1>7, <3>1, CanAssumption, AppendWithin DEF Bus, TypeOK
  <2> QED BY <1>7, <2>1, <2>2 DEF Bus, TypeOK, callVars, txVars, rxVars
<1>8. CASE UNCHANGED vars
  BY <1>8 DEF vars, TypeOK, callVars, txVars, rxVars
<1> QED
  BY <1>1, <1>2, <1>3, <1>4, <1>5, <1>6, <1>7, <1>8
     DEF Next, Traffic, Terminated

(* Every variable keeps its type, for queues and retries of any size: the  *)
(* queue never outgrows TX_QUEUE_SIZE and the retry counter never passes   *)
(* MAX_RETRY_COUNT.                                                        *)
THEOREM TypeCorrect == Spec => []TypeOK
BY TypeInit, TypeNext, PTL DEF Spec

---------------------------------------------------------------------------
(* When the sender may sleep.                                              *)

(* Someone has still to call notify_one.                                   *)
NotifyPending == closer = "notify" \/ \E c \in Callers : caller[c] = "notify"

(* The step before the sleep obeys the rule as well: the sender has found  *)
(* the queue empty, and whoever changes that notifies afterwards.          *)
SleepInv ==
    tx \in {"block", "asleep"} /\ (tx_queue # <<>> \/ ~receiving) =>
      missed \/ NotifyPending

LEMMA SleepNext ==
    ASSUME TypeOK, SleepInv, [Next]_vars
    PROVE  SleepInv'
<1> USE DEF SleepInv, NotifyPending
<1>1. ASSUME NEW c \in Callers, NEW m \in Motors, Transmit(c, m)
      PROVE  SleepInv'
  <2>1. caller'[c] = "notify" BY <1>1 DEF Transmit, TypeOK
  <2> QED BY <2>1
<1>2. ASSUME NEW c \in Callers, Notify(c)
      PROVE  SleepInv'
  <2>1. CASE tx = "block" BY <1>2, <2>1 DEF Notify, NotifyOne
  <2>2. CASE tx = "asleep" BY <1>2, <2>2 DEF Notify, NotifyOne
  <2>3. CASE tx \notin {"block", "asleep"}
    BY <1>2, <2>3 DEF Notify, NotifyOne
  <2> QED BY <2>1, <2>2, <2>3
<1>3. CASE Sender
  <2> USE DEF TxAt, TxFrame
  <2>1. CASE TxTest BY <1>3, <2>1 DEF TxTest
  <2>2. CASE TxBlock BY <1>3, <2>2 DEF TxBlock
  <2>3. CASE TxLoop BY <2>3 DEF TxLoop
  <2>4. CASE TxPop BY <2>4 DEF TxPop
  <2>5. CASE WriteSucceeds BY <2>5 DEF WriteSucceeds
  <2>6. CASE WriteFails BY <2>6 DEF WriteFails
  <2>7. CASE TxAfter BY <2>7 DEF TxAfter
  <2> QED BY <1>3, <2>1, <2>2, <2>3, <2>4, <2>5, <2>6, <2>7 DEF Sender
<1>4. CASE SpuriousWakeup BY <1>4 DEF SpuriousWakeup, TxAt
<1>5. CASE Receiver
  BY <1>5 DEF Receiver, RxLoop, RxSelect, RxRead, RxLookup, RxCall, RxFrame,
              callVars
<1>6. ASSUME NEW m \in Motors, AddCallback(m) \/ RemoveCallback(m)
      PROVE  SleepInv'
  BY <1>6 DEF AddCallback, RemoveCallback, CallbackFrame, callVars
<1>7. CASE CloseStart BY <1>7 DEF CloseStart
<1>8. CASE Closer
  <2>1. CASE CloseNotify
    <3>1. CASE tx = "block" BY <2>1, <3>1 DEF CloseNotify, NotifyOne
    <3>2. CASE tx # "block"
      BY <2>1, <3>2 DEF CloseNotify, NotifyOne
    <3> QED BY <3>1, <3>2
  <2>2. CASE JoinReceiver \/ JoinSender
    BY <2>2 DEF JoinReceiver, JoinSender, CloseFrame, callVars
  <2> QED BY <1>8, <2>1, <2>2 DEF Closer
<1>9. CASE Bus BY <1>9 DEF Bus, callVars
<1>10. CASE UNCHANGED vars BY <1>10 DEF vars, callVars
<1> QED
  BY <1>1, <1>2, <1>3, <1>4, <1>5, <1>6, <1>7, <1>8, <1>9, <1>10
     DEF Next, Traffic, Terminated

(* A sender asleep over frames, or over the end of the interface, is about *)
(* to be notified or was missed: for any number of callers.                *)
THEOREM SleepCorrect == Spec => []SleepsOnlyIfMissed
<1>1. Init => SleepInv BY DEF Init, SleepInv
<1>2. TypeOK /\ SleepInv /\ [Next]_vars => SleepInv' BY SleepNext
<1>3. SleepInv => SleepsOnlyIfMissed
  BY DEF SleepInv, SleepsOnlyIfMissed, NotifyPending
<1> QED BY <1>1, <1>2, <1>3, TypeCorrect, PTL DEF Spec

---------------------------------------------------------------------------
(* The order of closing.                                                   *)

CloseInv ==
    /\ closer \in {"join_tx", "closed"} => rx = "done"
    /\ closer = "closed" => tx = "done"

(* Nobody leaves "done", and the destructor joins the receiver first.      *)
LEMMA CloseNext ==
    ASSUME TypeOK, CloseInv, [Next]_vars
    PROVE  CloseInv'
<1> USE DEF CloseInv
<1>1. ASSUME NEW c \in Callers, NEW m \in Motors, Transmit(c, m)
      PROVE  CloseInv'
  BY <1>1 DEF Transmit, rxVars
<1>2. ASSUME NEW c \in Callers, Notify(c)
      PROVE  CloseInv'
  BY <1>2 DEF Notify, NotifyOne, rxVars
<1>3. CASE Sender \/ SpuriousWakeup
  BY <1>3 DEF Sender, TxLoop, TxTest, TxBlock, TxPop, WriteSucceeds,
              WriteFails, TxAfter, SpuriousWakeup, TxAt, TxFrame, rxVars
<1>4. CASE Receiver
  BY <1>4 DEF Receiver, RxLoop, RxSelect, RxRead, RxLookup, RxCall, RxFrame,
              RxAt
<1>5. ASSUME NEW m \in Motors, AddCallback(m) \/ RemoveCallback(m)
      PROVE  CloseInv'
  BY <1>5 DEF AddCallback, RemoveCallback, CallbackFrame
<1>6. CASE CloseStart \/ Closer
  BY <1>6 DEF CloseStart, Closer, CloseNotify, NotifyOne, JoinReceiver,
              JoinSender, CloseFrame, rxVars
<1>7. CASE Bus BY <1>7 DEF Bus, rxVars
<1>8. CASE UNCHANGED vars BY <1>8 DEF vars, rxVars
<1> QED
  BY <1>1, <1>2, <1>3, <1>4, <1>5, <1>6, <1>7, <1>8
     DEF Next, Traffic, Terminated

(* The socket is closed only when neither thread can use it any more.      *)
THEOREM CloseCorrect == Spec => []ClosedAfterThreads
<1>1. Init => CloseInv BY DEF Init, CloseInv
<1>2. TypeOK /\ CloseInv /\ [Next]_vars => CloseInv' BY CloseNext
<1>3. CloseInv => ClosedAfterThreads BY DEF CloseInv, ClosedAfterThreads
<1> QED BY <1>1, <1>2, <1>3, TypeCorrect, PTL DEF Spec

---------------------------------------------------------------------------
(* The interface is a lossy FIFO.                                          *)

(* A frame is in flight exactly while the sender writes.                   *)
FlightInv ==
    /\ tx = "write" => Len(tx_frame) = 1
    /\ tx # "write" => tx_frame = <<>>

LEMMA FlightNext ==
    ASSUME TypeOK, FlightInv, [Next]_vars
    PROVE  FlightInv'
<1> USE DEF FlightInv
<1>1. ASSUME NEW c \in Callers, NEW m \in Motors, Transmit(c, m)
      PROVE  FlightInv'
  BY <1>1 DEF Transmit, txVars
<1>2. ASSUME NEW c \in Callers, Notify(c)
      PROVE  FlightInv'
  BY <1>2 DEF Notify, NotifyOne, txVars
<1>3. CASE Sender
  <2>1. CASE TxPop
    <3>1. CASE ~receiving /\ tx' = "done" /\ UNCHANGED <<tx_queue, tx_frame>>
      BY <2>1, <3>1 DEF TxPop
    <3>2. CASE tx' = "write" /\ tx_frame' = <<Head(tx_queue)>>
      BY <3>2
    <3> QED BY <2>1, <3>1, <3>2 DEF TxPop
  <2>2. CASE WriteSucceeds BY <2>2 DEF WriteSucceeds, TxAt
  <2>3. CASE WriteFails BY <2>3 DEF WriteFails, TxAt
  <2>4. CASE TxLoop \/ TxTest \/ TxBlock \/ TxAfter
    BY <2>4 DEF TxLoop, TxTest, TxBlock, TxAfter, TxAt, txVars
  <2> QED BY <1>3, <2>1, <2>2, <2>3, <2>4 DEF Sender
<1>4. CASE SpuriousWakeup BY <1>4 DEF SpuriousWakeup, TxAt, txVars
<1>5. CASE Receiver
  BY <1>5 DEF Receiver, RxLoop, RxSelect, RxRead, RxLookup, RxCall, RxFrame,
              txVars
<1>6. ASSUME NEW m \in Motors, AddCallback(m) \/ RemoveCallback(m)
      PROVE  FlightInv'
  BY <1>6 DEF AddCallback, RemoveCallback, CallbackFrame, txVars
<1>7. CASE CloseStart \/ Closer
  BY <1>7 DEF CloseStart, Closer, CloseNotify, NotifyOne, JoinReceiver,
              JoinSender, CloseFrame, txVars
<1>8. CASE Bus BY <1>8 DEF Bus, txVars
<1>9. CASE UNCHANGED vars BY <1>9 DEF vars, txVars
<1> QED
  BY <1>1, <1>2, <1>3, <1>4, <1>5, <1>6, <1>7, <1>8, <1>9
     DEF Next, Traffic, Terminated

USE DEF Fifo!vars

(* A push that finds room appends to what is on its way; one that does not *)
(* changes nothing.                                                        *)
LEMMA PushAccepts ==
    ASSUME TypeOK, NEW m \in Motors,
           tx_queue' = Pushed(m), UNCHANGED <<tx_frame, wire>>
    PROVE  Fifo!Accept(m) \/ UNCHANGED Fifo!vars
<1>1. CASE Len(tx_queue) < QueueSize
  <2>1. tx_queue' = tx_queue \o <<m>>
    BY <1>1, AppendIsConcat DEF Pushed, TypeOK
  <2>2. <<m>> \in Seq(Motors) OBVIOUS
  <2>3. tx_frame \o tx_queue' = (tx_frame \o tx_queue) \o <<m>>
    BY <2>1, <2>2, ConcatAssociative DEF TypeOK
  <2>4. tx_frame \o tx_queue \in Seq(Motors)
    BY ConcatProperties DEF TypeOK
  <2>5. (tx_frame \o tx_queue) \o <<m>> = Append(tx_frame \o tx_queue, m)
    BY <2>4, AppendIsConcat
  <2> QED BY <2>3, <2>5 DEF Fifo!Accept
<1>2. CASE ~(Len(tx_queue) < QueueSize)
  BY <1>2 DEF Pushed
<1> QED BY <1>1, <1>2

(* Popping only moves the head from the queue into flight.                 *)
LEMMA PopStutters ==
    ASSUME TypeOK, FlightInv, TxPop
    PROVE  UNCHANGED Fifo!vars
<1>1. CASE ~receiving /\ tx' = "done" /\ UNCHANGED <<tx_queue, tx_frame>>
  BY <1>1 DEF TxPop
<1>2. CASE /\ tx_queue # <<>>
           /\ tx_frame' = <<Head(tx_queue)>>
           /\ tx_queue' = Tail(tx_queue)
  <2>1. tx_frame' \o tx_queue' = tx_queue
    BY <1>2, HeadThenTail DEF TypeOK
  <2>2. tx_frame = <<>> BY DEF FlightInv, TxPop
  <2>3. tx_frame \o tx_queue = tx_queue
    BY <2>2, ConcatEmptySeq DEF TypeOK
  <2> QED BY <2>1, <2>3 DEF TxPop
<1> QED BY <1>1, <1>2 DEF TxPop

(* The frame in flight is the head of what is on its way.                  *)
LEMMA FlightIsHead ==
    ASSUME TypeOK, FlightInv, tx = "write"
    PROVE  /\ tx_frame \o tx_queue # <<>>
           /\ tx_frame = <<Head(tx_frame \o tx_queue)>>
           /\ tx_queue = Tail(tx_frame \o tx_queue)
           /\ Head(tx_frame \o tx_queue) \in Motors
<1>1. PICK m \in Motors : tx_frame = <<m>>
  BY OneFrame DEF FlightInv, TypeOK
<1> QED BY <1>1, FrameThenQueue DEF TypeOK

LEMMA WriteDelivers ==
    ASSUME TypeOK, FlightInv, WriteSucceeds
    PROVE  Fifo!Deliver
<1>1. /\ tx_frame \o tx_queue # <<>>
      /\ tx_frame = <<Head(tx_frame \o tx_queue)>>
      /\ tx_queue = Tail(tx_frame \o tx_queue)
      /\ Head(tx_frame \o tx_queue) \in Motors
  BY FlightIsHead DEF WriteSucceeds, TxAt
<1>2. wire' = Append(wire, Head(tx_frame \o tx_queue))
  BY <1>1, AppendIsConcat DEF WriteSucceeds, TypeOK
<1>3. tx_frame' \o tx_queue' = tx_queue
  BY ConcatEmptySeq DEF WriteSucceeds, TypeOK
<1> QED BY <1>1, <1>2, <1>3 DEF Fifo!Deliver

LEMMA FailureLosesOrStutters ==
    ASSUME TypeOK, FlightInv, WriteFails
    PROVE  Fifo!Lose \/ UNCHANGED Fifo!vars
<1>1. CASE count < MaxRetry BY <1>1 DEF WriteFails
<1>2. CASE ~(count < MaxRetry)
  <2>1. tx_frame \o tx_queue # <<>> /\ tx_queue = Tail(tx_frame \o tx_queue)
    BY FlightIsHead DEF WriteFails, TxAt
  <2>2. tx_frame' \o tx_queue' = tx_queue
    BY <1>2, ConcatEmptySeq DEF WriteFails, TypeOK
  <2> QED BY <2>1, <2>2 DEF Fifo!Lose, WriteFails
<1> QED BY <1>1, <1>2

LEMMA FifoInit == Init => Fifo!Init
BY ConcatEmptySeq, EmptySeq DEF Init, Fifo!Init

LEMMA FifoNext ==
    ASSUME TypeOK, FlightInv, [Next]_vars
    PROVE  [Fifo!Next]_(Fifo!vars)
<1> USE DEF Fifo!Next
<1>1. ASSUME NEW c \in Callers, NEW m \in Motors, Transmit(c, m)
      PROVE  [Fifo!Next]_(Fifo!vars)
  BY <1>1, PushAccepts DEF Transmit, txVars
<1>2. ASSUME NEW c \in Callers, Notify(c)
      PROVE  UNCHANGED Fifo!vars
  BY <1>2 DEF Notify, txVars
<1>3. CASE Sender
  <2>1. CASE TxPop BY <2>1, PopStutters
  <2>2. CASE WriteSucceeds BY <2>2, WriteDelivers
  <2>3. CASE WriteFails BY <2>3, FailureLosesOrStutters
  <2>4. CASE TxLoop \/ TxTest \/ TxBlock \/ TxAfter
    BY <2>4 DEF TxLoop, TxTest, TxBlock, TxAfter, txVars
  <2> QED BY <1>3, <2>1, <2>2, <2>3, <2>4 DEF Sender
<1>4. CASE SpuriousWakeup BY <1>4 DEF SpuriousWakeup, txVars
<1>5. CASE Receiver
  BY <1>5 DEF Receiver, RxLoop, RxSelect, RxRead, RxLookup, RxCall, RxFrame,
              callVars, txVars
<1>6. ASSUME NEW m \in Motors, AddCallback(m) \/ RemoveCallback(m)
      PROVE  UNCHANGED Fifo!vars
  BY <1>6 DEF AddCallback, RemoveCallback, CallbackFrame, callVars, txVars
<1>7. CASE CloseStart \/ Closer
  BY <1>7 DEF CloseStart, Closer, CloseNotify, JoinReceiver, JoinSender,
              CloseFrame, callVars, txVars
<1>8. CASE Bus BY <1>8 DEF Bus, Fifo!Take, callVars, txVars
<1>9. CASE UNCHANGED vars BY <1>9 DEF vars, callVars, txVars
<1> QED
  BY <1>1, <1>2, <1>3, <1>4, <1>5, <1>6, <1>7, <1>8, <1>9
     DEF Next, Traffic, Terminated

(* Queue, retries and all, the interface is a lossy FIFO: frames are       *)
(* written in the order in which they were accepted, none of them twice.   *)
THEOREM FifoCorrect == Spec => ImplementsLossyFifo
<1>1. Init => FlightInv BY DEF Init, FlightInv
<1>2. TypeOK /\ FlightInv /\ [Next]_vars => FlightInv' BY FlightNext
<1>3. TypeOK /\ FlightInv /\ [Next]_vars => [Fifo!Next]_(Fifo!vars)
  BY FifoNext
<1>4. Init => Fifo!Init BY FifoInit
<1> QED
  BY <1>1, <1>2, <1>3, <1>4, TypeCorrect, PTL
     DEF Spec, ImplementsLossyFifo, Fifo!Spec

============================================================================
