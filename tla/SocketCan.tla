----------------------------- MODULE SocketCan -----------------------------
(***************************************************************************)
(* MotorsSocketCAN: one CAN interface with its transmit queue and its two  *)
(* threads.                                                                *)
(*                                                                         *)
(*   callers   transmit(): push into the lock-free queue, then notify      *)
(*   sender    can_tx: wait on tx_cv_, pop, write with retries             *)
(*   receiver  can_rx: select, read, look the callback up, run it          *)
(*   closer    the destructor: stop, notify, join both threads, close      *)
(*                                                                         *)
(* tx_mutex_ is locked by the sender alone, so it keeps nobody out: a      *)
(* notification may fall between the sender's test and its sleep.          *)
(*                                                                         *)
(* A frame is named by the motor it is for; so is that motor's answer.     *)
(* The socket is external: a bounded buffer `wire' that the bus empties,   *)
(* and `inbox', the answers not read yet.                                  *)
(***************************************************************************)
EXTENDS Integers, Sequences

CONSTANTS
    Motors,      \* the motors of this interface
    Callers,     \* the threads that transmit
    QueueSize,   \* TX_QUEUE_SIZE
    MaxRetry,    \* MAX_RETRY_COUNT
    WireSize,    \* bound: frames the socket holds
    InboxSize    \* bound: answers the socket holds

ASSUME CanAssumption ==
    /\ QueueSize \in Nat \ {0}
    /\ MaxRetry \in Nat
    /\ WireSize \in Nat \ {0}
    /\ InboxSize \in Nat

VARIABLES
    receiving,   \* receiving_
    tx_queue,    \* tx_queue_
    caller,      \* what each caller does next
    tx,          \* sender: program counter
    tx_frame,    \*   the frame it popped
    count,       \*   the retries it made
    rx,          \* receiver: program counter
    rx_id,       \*   the id of the frame it read
    callbacks,   \* the keys of can_callback_list_
    closer,      \* the destructor: program counter
    wire, inbox, \* the socket
    missed       \* history: a notification found the sender about to sleep

callVars  == <<tx_queue, caller>>
txVars    == <<tx_frame, count>>
rxVars    == <<rx, rx_id, callbacks>>
vars == <<receiving, callVars, tx, txVars, rxVars, closer, wire, inbox,
          missed>>

TypeOK ==
    /\ receiving \in BOOLEAN
    /\ tx_queue \in Seq(Motors) /\ Len(tx_queue) <= QueueSize
    /\ caller \in [Callers -> {"idle", "notify"}]
    /\ tx \in {"loop", "test", "block", "asleep", "ready", "write", "after",
               "done"}
    /\ tx_frame \in Seq(Motors) /\ Len(tx_frame) <= 1
    /\ count \in 0 .. MaxRetry
    /\ rx \in {"loop", "select", "read", "lookup", "call", "done"}
    /\ rx_id \in Seq(Motors) /\ Len(rx_id) <= 1
    /\ callbacks \subseteq Motors
    /\ closer \in {"open", "notify", "join_rx", "join_tx", "closed"}
    /\ wire \in Seq(Motors) /\ Len(wire) <= WireSize
    /\ inbox \in Seq(Motors) /\ Len(inbox) <= InboxSize
    /\ missed \in BOOLEAN

(* open() has started both threads.                                        *)
Init ==
    /\ receiving = TRUE
    /\ tx_queue = <<>>
    /\ caller = [c \in Callers |-> "idle"]
    /\ tx = "loop"
    /\ tx_frame = <<>>
    /\ count = 0
    /\ rx = "loop"
    /\ rx_id = <<>>
    /\ callbacks = {}
    /\ closer = "open"
    /\ wire = <<>>
    /\ inbox = <<>>
    /\ missed = FALSE

---------------------------------------------------------------------------
(* transmit().  The queue is fixed-size: bounded_push on a full one fails, *)
(* and nobody looks at its result.                                         *)

(* A notification wakes the sender if it sleeps; otherwise it is gone.     *)
NotifyOne ==
    /\ tx' = IF tx = "asleep" THEN "test" ELSE tx
    /\ missed' = (tx = "block" \/ (missed /\ tx # "asleep"))

Pushed(m) == IF Len(tx_queue) < QueueSize THEN Append(tx_queue, m)
             ELSE tx_queue

(* Two bugs transmit could have: no notification, and a notification only  *)
(* for a frame that found room.                                            *)
Transmit_Silent(c, m) ==
    /\ closer = "open"
    /\ caller[c] = "idle"
    /\ tx_queue' = Pushed(m)
    /\ UNCHANGED <<receiving, caller, tx, txVars, rxVars, closer, wire, inbox,
                   missed>>

Transmit_OnlyIfPushed(c, m) ==
    /\ closer = "open"
    /\ caller[c] = "idle"
    /\ tx_queue' = Pushed(m)
    /\ caller' = IF Len(tx_queue) < QueueSize
                 THEN [caller EXCEPT ![c] = "notify"] ELSE caller
    /\ UNCHANGED <<receiving, tx, txVars, rxVars, closer, wire, inbox, missed>>

Transmit(c, m) ==
    /\ closer = "open"
    /\ caller[c] = "idle"
    /\ tx_queue' = Pushed(m)
    /\ caller' = [caller EXCEPT ![c] = "notify"]
    /\ UNCHANGED <<receiving, tx, txVars, rxVars, closer, wire, inbox, missed>>

Notify(c) ==
    /\ caller[c] = "notify"
    /\ caller' = [caller EXCEPT ![c] = "idle"]
    /\ NotifyOne
    /\ UNCHANGED <<receiving, tx_queue, txVars, rxVars, closer, wire, inbox>>

---------------------------------------------------------------------------
(* The sender.                                                             *)

TxAt(from, to) == tx = from /\ tx' = to

TxFrame == UNCHANGED <<receiving, caller, rxVars, closer, inbox>>

TxLoop ==
    /\ TxAt("loop", IF receiving THEN "test" ELSE "done")
    /\ UNCHANGED <<tx_queue, txVars, wire, missed>>
    /\ TxFrame

(* The predicate of wait().  receiving_ only falls, so reading it after    *)
(* the queue or together with it lets the same things happen.              *)
TxTest ==
    /\ TxAt("test", IF tx_queue # <<>> \/ ~receiving THEN "ready" ELSE "block")
    /\ UNCHANGED <<tx_queue, txVars, wire, missed>>
    /\ TxFrame

TxBlock ==
    /\ TxAt("block", "asleep")
    /\ UNCHANGED <<tx_queue, txVars, wire, missed>>
    /\ TxFrame

(* C++ lets a condition variable wake up for no reason.                    *)
SpuriousWakeup ==
    /\ TxAt("asleep", "test")
    /\ missed' = FALSE
    /\ UNCHANGED <<tx_queue, txVars, wire>>
    /\ TxFrame

TxPop ==
    /\ tx = "ready"
    /\ \/ ~receiving /\ tx' = "done" /\ UNCHANGED <<tx_queue, tx_frame>>
       \/ /\ receiving
          /\ tx_queue # <<>>
          /\ tx' = "write"
          /\ tx_frame' = <<Head(tx_queue)>>
          /\ tx_queue' = Tail(tx_queue)
    /\ UNCHANGED <<count, wire, missed>>
    /\ TxFrame

(* write() returns a negative number, and says nothing, when the socket is *)
(* full or the bus is down.  (The first: a bug, the loop goes on after a   *)
(* successful write.)                                                      *)
WriteSucceeds_Again ==
    /\ TxAt("write", "write")
    /\ Len(wire) < WireSize
    /\ wire' = wire \o tx_frame
    /\ UNCHANGED <<tx_queue, count, tx_frame, missed>>
    /\ TxFrame

WriteSucceeds ==
    /\ TxAt("write", "after")
    /\ Len(wire) < WireSize
    /\ wire' = wire \o tx_frame
    /\ tx_frame' = <<>>
    /\ UNCHANGED <<tx_queue, count, missed>>
    /\ TxFrame

(* A bug: one retry more than the log message allows for.                  *)
WriteFails_OffByOne ==
    /\ TxAt("write", IF count <= MaxRetry THEN "write" ELSE "after")
    /\ count' = IF count <= MaxRetry THEN count + 1 ELSE count
    /\ tx_frame' = IF count <= MaxRetry THEN tx_frame ELSE <<>>
    /\ UNCHANGED <<tx_queue, wire, missed>>
    /\ TxFrame

WriteFails ==
    /\ TxAt("write", IF count < MaxRetry THEN "write" ELSE "after")
    /\ count' = IF count < MaxRetry THEN count + 1 ELSE count
    /\ tx_frame' = IF count < MaxRetry THEN tx_frame ELSE <<>>
    /\ UNCHANGED <<tx_queue, wire, missed>>
    /\ TxFrame

TxAfter ==
    /\ TxAt("after", "loop")
    /\ count' = 0
    /\ UNCHANGED <<tx_queue, tx_frame, wire, missed>>
    /\ TxFrame

Sender == TxLoop \/ TxTest \/ TxBlock \/ TxPop \/ WriteSucceeds \/ WriteFails
          \/ TxAfter

---------------------------------------------------------------------------
(* The receiver.                                                           *)

RxAt(from, to) == rx = from /\ rx' = to

RxFrame == UNCHANGED <<receiving, callVars, tx, txVars, callbacks, closer,
                       wire, missed>>

RxLoop ==
    /\ RxAt("loop", IF receiving THEN "select" ELSE "done")
    /\ UNCHANGED <<rx_id, inbox>>
    /\ RxFrame

(* select: something to read, nothing for a millisecond, or an error, and  *)
(* the thread is gone for good.                                            *)
RxSelect ==
    /\ \/ inbox # <<>> /\ RxAt("select", "read")
       \/ inbox = <<>> /\ RxAt("select", "loop")
       \/ RxAt("select", "done")
    /\ UNCHANGED <<rx_id, inbox>>
    /\ RxFrame

(* The inner loop reads until nothing is left or the read fails; it does   *)
(* not look at receiving_.                                                 *)
RxRead ==
    /\ \/ /\ inbox # <<>>
          /\ RxAt("read", "lookup")
          /\ rx_id' = <<Head(inbox)>>
          /\ inbox' = Tail(inbox)
       \/ RxAt("read", "loop") /\ UNCHANGED <<rx_id, inbox>>
    /\ RxFrame

(* The callback is copied under the lock and runs without it.              *)
RxLookup ==
    /\ rx = "lookup"
    /\ \E m \in Motors :
         /\ rx_id = <<m>>
         /\ rx' = IF m \in callbacks THEN "call" ELSE "read"
         /\ rx_id' = IF m \in callbacks THEN rx_id ELSE <<>>
    /\ UNCHANGED inbox
    /\ RxFrame

RxCall ==
    /\ RxAt("call", "read")
    /\ rx_id' = <<>>
    /\ UNCHANGED inbox
    /\ RxFrame

Receiver == RxLoop \/ RxSelect \/ RxRead \/ RxLookup \/ RxCall

(* The motors' constructors and destructors.                               *)
CallbackFrame == UNCHANGED <<receiving, callVars, tx, txVars, rx, rx_id,
                             closer, wire, inbox, missed>>

AddCallback(m) ==
    /\ closer = "open"
    /\ callbacks' = callbacks \cup {m}
    /\ CallbackFrame

RemoveCallback(m) ==
    /\ closer = "open"
    /\ callbacks' = callbacks \ {m}
    /\ CallbackFrame

---------------------------------------------------------------------------
(* The destructor.  The motors hold the interface, so nobody transmits any *)
(* more when it runs.                                                      *)

CloseFrame == UNCHANGED <<callVars, txVars, rxVars, wire, inbox>>

CloseStart ==
    /\ closer = "open"
    /\ \A c \in Callers : caller[c] = "idle"
    /\ closer' = "notify"
    /\ receiving' = FALSE
    /\ UNCHANGED <<tx, missed>>
    /\ CloseFrame

(* A bug: the sender is not told.                                          *)
CloseNotify_Silent ==
    /\ closer = "notify"
    /\ closer' = "join_rx"
    /\ UNCHANGED <<receiving, tx, missed>>
    /\ CloseFrame

CloseNotify ==
    /\ closer = "notify"
    /\ closer' = "join_rx"
    /\ NotifyOne
    /\ UNCHANGED receiving
    /\ CloseFrame

JoinReceiver ==
    /\ closer = "join_rx"
    /\ rx = "done"
    /\ closer' = "join_tx"
    /\ UNCHANGED <<receiving, tx, missed>>
    /\ CloseFrame

(* A bug: close does not wait for the sender.                              *)
JoinSender_Detached ==
    /\ closer = "join_tx"
    /\ closer' = "closed"
    /\ UNCHANGED <<receiving, tx, missed>>
    /\ CloseFrame

JoinSender ==
    /\ closer = "join_tx"
    /\ tx = "done"
    /\ closer' = "closed"
    /\ UNCHANGED <<receiving, tx, missed>>
    /\ CloseFrame

Closer == CloseNotify \/ JoinReceiver \/ JoinSender

---------------------------------------------------------------------------
(* The bus takes a frame; the motor answers, or does not, or its answer    *)
(* finds no room.                                                          *)
Bus ==
    /\ wire # <<>>
    /\ wire' = Tail(wire)
    /\ \/ Len(inbox) < InboxSize /\ inbox' = Append(inbox, Head(wire))
       \/ UNCHANGED inbox
    /\ UNCHANGED <<receiving, callVars, tx, txVars, rxVars, closer, missed>>

Terminated == closer = "closed" /\ UNCHANGED vars

Traffic == \E c \in Callers, m \in Motors : Transmit(c, m)

Next ==
    \/ Traffic
    \/ \E c \in Callers : Notify(c)
    \/ Sender \/ SpuriousWakeup
    \/ Receiver
    \/ \E m \in Motors : AddCallback(m) \/ RemoveCallback(m)
    \/ CloseStart \/ Closer
    \/ Bus
    \/ Terminated

Spec == Init /\ [][Next]_vars

(* The threads are loops the scheduler keeps running; a call that has been *)
(* made returns.  Nothing makes the bus work.                              *)
FairSpec ==
    /\ Spec
    /\ WF_vars(Sender)
    /\ WF_vars(Receiver)
    /\ \A c \in Callers : WF_vars(Notify(c))
    /\ WF_vars(Closer)

(* While the motors are initialised the control thread sends to each of    *)
(* them in every period.                                                   *)
TrafficSpec == FairSpec /\ WF_vars(Traffic)

---------------------------------------------------------------------------
(* The sender sleeps on a queue with frames in it, or through the end of   *)
(* the interface, only while a notification is on its way or after one     *)
(* found it between its test and its sleep (transmit and close notify      *)
(* without tx_mutex_).                                                     *)
SleepsOnlyIfMissed ==
    tx = "asleep" /\ (tx_queue # <<>> \/ ~receiving) =>
      \/ missed
      \/ closer = "notify"
      \/ \E c \in Callers : caller[c] = "notify"

(* The socket is closed when neither thread can touch it any more.         *)
ClosedAfterThreads == closer = "closed" => tx = "done" /\ rx = "done"

(* The interface is a lossy FIFO: no frame overtakes another, and retries  *)
(* write none twice.                                                       *)
Fifo == INSTANCE LossyFifo WITH
    Frames <- Motors,
    chan   <- tx_frame \o tx_queue,
    wire   <- wire

ImplementsLossyFifo == Fifo!Spec

(* An accepted frame gets its turn at the socket.  With traffic it does,   *)
(* for the next transmit makes good a lost notification; without, it may   *)
(* lie in the queue for ever.                                              *)
FramesGetTheirTurn == tx_queue # <<>> ~> (tx = "write" \/ ~receiving)

(* close() comes back, unless its one notification was lost.               *)
CloseReturns == closer = "notify" ~> (closer = "closed" \/ missed)
===========================================================================
