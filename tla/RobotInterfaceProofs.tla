------------------------ MODULE RobotInterfaceProofs ------------------------
(***************************************************************************)
(* What holds of the robot interface for any motors on any interfaces, any *)
(* offline threshold and any length of the channels.                       *)
(***************************************************************************)
EXTENDS RobotInterface, SequenceTheorems, TLAPS

---------------------------------------------------------------------------
(* The scripts and the batches.                                            *)

LEMMA BatchCommands ==
    /\ Batches = {"read_all", "mit_all", "refresh_all", "clear_all",
                  "zero_all", "init_all", "deinit_all"}
    /\ CommandsOf["read_all"] = <<"read">>
    /\ CommandsOf["mit_all"] = <<"other">>
    /\ CommandsOf["refresh_all"] = <<"other">>
    /\ CommandsOf["clear_all"] = <<"other">>
    /\ CommandsOf["zero_all"] = <<"other", "other", "off">>
    /\ CommandsOf["init_all"] = <<"off", "other", "on", "other">>
    /\ CommandsOf["deinit_all"] = <<"off">>
BY DEF Batches, CommandsOf, One, ZeroCommands, InitCommands, DeinitCommands

LEMMA CommandsType ==
    \A b \in Batches : CommandsOf[b] \in Seq(Commands)
<1>1. /\ <<"read">> \in Seq(Commands)
      /\ <<"other">> \in Seq(Commands)
      /\ <<"other", "other", "off">> \in Seq(Commands)
      /\ <<"off", "other", "on", "other">> \in Seq(Commands)
      /\ <<"off">> \in Seq(Commands)
  BY DEF Commands, Frames, Switches
<1> QED BY <1>1, BatchCommands

LEMMA FrameCommands ==
    \A b \in Batches : b # "read_all" => CommandsOf[b] \in Seq(Frames)
<1>1. /\ <<"other">> \in Seq(Frames)
      /\ <<"other", "other", "off">> \in Seq(Frames)
      /\ <<"off", "other", "on", "other">> \in Seq(Frames)
      /\ <<"off">> \in Seq(Frames)
  BY DEF Frames, Switches
<1> QED BY <1>1, BatchCommands

LEMMA ScriptType ==
    /\ Apply \in Seq(Steps) /\ Reset \in Seq(Steps) /\ Refresh \in Seq(Steps)
    /\ Zeros \in Seq(Steps) /\ Clear \in Seq(Steps)
    /\ InitMotors \in Seq(Steps) /\ DeinitMotors \in Seq(Steps)
    /\ Destroy \in Seq(Steps)
<1>1. {"read_all", "mit_all", "refresh_all", "clear_all", "zero_all",
       "init_all", "deinit_all", "lock_joints", "ankle", "policy_target",
       "default_target", "set_init", "clear_init", "gone"} \subseteq Steps
  BY BatchCommands DEF Steps
<1>2. Apply \in Seq(Steps) BY <1>1 DEF Apply
<1>3. Reset \in Seq(Steps) BY <1>1 DEF Reset
<1>4. Refresh \in Seq(Steps) BY <1>1 DEF Refresh
<1>5. Zeros \in Seq(Steps) /\ Clear \in Seq(Steps) BY <1>1 DEF Zeros, Clear
<1>6. InitMotors \in Seq(Steps) BY <1>1 DEF InitMotors
<1>7. DeinitMotors \in Seq(Steps) BY <1>1 DEF DeinitMotors
<1>8. Destroy \in Seq(Steps) BY <1>1 DEF Destroy
<1> QED BY <1>2, <1>3, <1>4, <1>5, <1>6, <1>7, <1>8

---------------------------------------------------------------------------
(* Type correctness.                                                       *)

LEMMA TypeInit == Init => TypeOK
<1> SUFFICES ASSUME Init PROVE TypeOK
  OBVIOUS
<1>1. <<>> \in Seq(Steps) /\ <<>> \in Seq(Commands) /\ <<>> \in Seq(Frames)
      /\ Len(<<>>) = 0
  BY EmptySeq
<1>2. /\ todo \in [Threads -> Seq(Steps)]
      /\ batch \in [Motors -> Seq(Commands)]
      /\ chan \in [Motors -> Seq(Frames)]
  BY <1>1 DEF Init
<1>3. \A m \in Motors : Len(chan[m]) <= ChanSize
  <2>1. \A m \in Motors : chan[m] = <<>> BY DEF Init
  <2>2. 0 <= ChanSize BY RobotAssumption
  <2> QED BY <1>1, <2>1, <2>2
<1>4. response_count \in [Motors -> Nat] /\ silent \in [Motors -> Nat]
  BY DEF Init
<1> QED BY <1>2, <1>3, <1>4 DEF Init, TypeOK, Threads

(* One channel changes, within its bound.                                  *)
LEMMA ChanType ==
    ASSUME TypeOK, NEW m \in Motors, NEW s \in Seq(Frames),
           Len(s) <= ChanSize, chan' = [chan EXCEPT ![m] = s]
    PROVE  /\ chan' \in [Motors -> Seq(Frames)]
           /\ \A k \in Motors : Len(chan'[k]) <= ChanSize
<1>1. chan \in [Motors -> Seq(Frames)]
      /\ \A k \in Motors : Len(chan[k]) <= ChanSize
  BY DEF TypeOK
<1>2. chan' \in [Motors -> Seq(Frames)] BY <1>1
<1>3. ASSUME NEW k \in Motors PROVE Len(chan'[k]) <= ChanSize
  <2>1. CASE k = m BY <1>1, <2>1
  <2>2. CASE k # m BY <1>1, <2>2
  <2> QED BY <2>1, <2>2
<1> QED BY <1>2, <1>3

LEMMA TypeEnter ==
    ASSUME TypeOK, NEW t \in Threads, NEW s \in Seq(Steps), Enter(t, s)
    PROVE  TypeOK'
BY DEF TypeOK, Enter, locks, drivers, device

LEMMA TypeCalls ==
    ASSUME TypeOK,
           ControlTick \/ ControlEnds \/ Call \/ Interrupt \/ DestroyRobot
    PROVE  TypeOK'
<1>0. "ctl" \in Threads /\ "exe" \in Threads BY DEF Threads
<1>1. CASE ControlTick
  BY <1>0, <1>1, ScriptType, TypeEnter DEF ControlTick
<1>2. CASE ControlEnds
  BY <1>2 DEF TypeOK, ControlEnds, locks, drivers, device
<1>3. CASE Call
  BY <1>0, <1>3, ScriptType, TypeEnter DEF Call
<1>4. CASE Interrupt
  BY <1>4 DEF TypeOK, Interrupt, locks, drivers, device
<1>5. CASE DestroyRobot
  BY <1>0, <1>5, ScriptType, TypeEnter DEF DestroyRobot
<1> QED BY <1>1, <1>2, <1>3, <1>4, <1>5

LEMMA DoneType ==
    ASSUME TypeOK, NEW t \in Threads, todo[t] # <<>>, Done(t)
    PROVE  todo' \in [Threads -> Seq(Steps)]
<1>1. todo[t] \in Seq(Steps) BY DEF TypeOK
<1>2. Tail(todo[t]) \in Seq(Steps) BY <1>1, HeadTailProperties
<1> QED BY <1>2 DEF Done, TypeOK

LEMMA TypeSteps ==
    ASSUME TypeOK, NEW t \in Threads,
           LockJoints(t) \/ Ankle(t) \/ WriteTarget(t) \/ StoreInit(t)
             \/ Gone(t)
    PROVE  TypeOK'
<1> USE DEF At, StepFrame, locks, drivers, device
<1>1. todo[t] # <<>> /\ Done(t)
  BY DEF LockJoints, Ankle, WriteTarget, StoreInit, Gone
<1>2. todo' \in [Threads -> Seq(Steps)] BY <1>1, DoneType
<1>3. CASE LockJoints(t) BY <1>2, <1>3 DEF LockJoints, TypeOK
<1>4. CASE Ankle(t) BY <1>2, <1>4 DEF Ankle, TypeOK
<1>5. CASE WriteTarget(t) BY <1>2, <1>5 DEF WriteTarget, TypeOK
<1>6. CASE StoreInit(t) BY <1>2, <1>6 DEF StoreInit, TypeOK
<1>7. CASE Gone(t) BY <1>2, <1>7 DEF Gone, TypeOK
<1> QED BY <1>3, <1>4, <1>5, <1>6, <1>7

(* A thread in exec_motors_parallel is at a batch of its function.         *)
BatchHeld ==
    \A t \in Threads : motors_mutex = t =>
      /\ todo[t] # <<>>
      /\ Head(todo[t]) \in Batches

LEMMA TypeBatch ==
    ASSUME TypeOK, BatchHeld, NEW t \in Threads, Begin(t) \/ End(t)
    PROVE  TypeOK'
<1>1. CASE Begin(t)
  <2>1. PICK b \in Batches : /\ batch' = [m \in Motors |-> CommandsOf[b]]
                             /\ zeroed' = (zeroed \/ b = "zero_all")
    BY <1>1 DEF Begin
  <2>2. batch' \in [Motors -> Seq(Commands)] BY <2>1, CommandsType
  <2>3. zeroed' \in BOOLEAN BY <2>1 DEF TypeOK
  <2> QED BY <1>1, <2>2, <2>3 DEF Begin, TypeOK, device
<1>2. CASE End(t)
  <2>1. todo[t] # <<>> BY <1>2 DEF BatchHeld, End
  <2>2. <<>> \in Seq(Steps) BY EmptySeq
  <2>3. todo' \in [Threads -> Seq(Steps)]
    <3>1. CASE t = "ctl" /\ offline # {}
      BY <1>2, <3>1, <2>2 DEF End, TypeOK
    <3>2. CASE ~(t = "ctl" /\ offline # {})
      BY <1>2, <3>2, <2>1, DoneType DEF End
    <3> QED BY <3>1, <3>2
  <2> QED BY <1>2, <2>3 DEF End, TypeOK, drivers, device
<1> QED BY <1>1, <1>2

LEMMA TypeTask ==
    ASSUME TypeOK, NEW m \in Motors, Task(m)
    PROVE  TypeOK'
<1> USE DEF locks, threads
<1>0. batch[m] \in Seq(Commands) /\ chan[m] \in Seq(Frames)
      /\ Len(chan[m]) <= ChanSize
  BY DEF TypeOK
<1>1. CASE Transmit(m)
  <2>1. PICK f \in Frames :
          /\ Turn(m, f)
          /\ batch' = [batch EXCEPT ![m] = Tail(@)]
          /\ due' = due \cup {m}
          /\ silent' = [silent EXCEPT ![m] = @ + 1]
          /\ IF Len(chan[m]) < ChanSize
             THEN /\ chan' = [chan EXCEPT ![m] = Append(@, f)]
                  /\ lost' = IF f \in Switches THEN lost \ {m} ELSE lost
             ELSE /\ UNCHANGED chan
                  /\ lost' = IF f \in Switches THEN lost \cup {m} ELSE lost
    BY <1>1 DEF Transmit
  <2>2. Tail(batch[m]) \in Seq(Commands)
    BY <1>0, <2>1, HeadTailProperties DEF Turn
  <2>3. batch' \in [Motors -> Seq(Commands)] BY <2>1, <2>2 DEF TypeOK
  <2>4. Append(chan[m], f) \in Seq(Frames)
        /\ Len(Append(chan[m], f)) = Len(chan[m]) + 1
    BY <1>0, AppendProperties
  <2>5. chan' \in [Motors -> Seq(Frames)]
        /\ \A k \in Motors : Len(chan'[k]) <= ChanSize
    <3>1. CASE Len(chan[m]) < ChanSize
      <4>1. Len(Append(chan[m], f)) <= ChanSize
        BY <1>0, <2>4, <3>1, LenProperties, RobotAssumption
      <4> QED BY <2>1, <2>4, <3>1, <4>1, ChanType
    <3>2. CASE ~(Len(chan[m]) < ChanSize)
      BY <2>1, <3>2 DEF TypeOK
    <3> QED BY <3>1, <3>2
  <2>6. silent' \in [Motors -> Nat] BY <2>1 DEF TypeOK
  <2>7. lost' \subseteq Motors /\ due' \subseteq Motors BY <2>1 DEF TypeOK
  <2> QED BY <1>1, <2>3, <2>5, <2>6, <2>7 DEF Transmit, TypeOK
<1>2. CASE CountUp(m)
  <2>1. response_count' \in [Motors -> Nat] BY <1>2 DEF CountUp, TypeOK
  <2> QED BY <1>2, <2>1 DEF CountUp, TypeOK, device
<1>3. CASE Read(m)
  <2>1. <<>> \in Seq(Commands) BY EmptySeq
  <2>2. batch' \in [Motors -> Seq(Commands)]
    BY <1>3, <2>1 DEF Read, TypeOK
  <2>3. raw' \subseteq CloseChain /\ offline' \subseteq Motors
    BY <1>3 DEF Read, TypeOK
  <2> QED BY <1>3, <2>2, <2>3 DEF Read, TypeOK, device
<1> QED BY <1>1, <1>2, <1>3 DEF Task

LEMMA TypeBus ==
    ASSUME TypeOK, NEW m \in Motors, Deliver(m) \/ Lose(m)
    PROVE  TypeOK'
<1> USE DEF CodeFrame, locks, threads
<1>0. chan[m] \in Seq(Frames) /\ chan[m] # <<>> /\ Len(chan[m]) <= ChanSize
  BY DEF TypeOK, Deliver, Lose
<1>1. Tail(chan[m]) \in Seq(Frames) /\ Len(Tail(chan[m])) = Len(chan[m]) - 1
  BY <1>0, HeadTailProperties
<1>2. chan' \in [Motors -> Seq(Frames)]
      /\ \A k \in Motors : Len(chan'[k]) <= ChanSize
  <2>1. Len(Tail(chan[m])) <= ChanSize
    BY <1>0, <1>1, LenProperties, RobotAssumption
  <2>2. chan' = [chan EXCEPT ![m] = Tail(chan[m])] BY DEF Deliver, Lose
  <2> QED BY <1>1, <2>1, <2>2, ChanType
<1>3. CASE Deliver(m)
  <2>1. power' \subseteq Motors BY <1>3 DEF Deliver, Switched, TypeOK
  <2>2. response_count' \in [Motors -> Nat] /\ silent' \in [Motors -> Nat]
    <3>1. CASE CanRxCbk(m) BY <3>1 DEF CanRxCbk, TypeOK
    <3>2. CASE UNCHANGED <<response_count, silent>> BY <3>2 DEF TypeOK
    <3> QED BY <1>3, <3>1, <3>2 DEF Deliver
  <2> QED BY <1>2, <1>3, <2>1, <2>2 DEF Deliver, TypeOK
<1>4. CASE Lose(m)
  <2>1. lost' \subseteq Motors BY <1>4 DEF Lose, TypeOK
  <2> QED BY <1>2, <1>4, <2>1 DEF Lose, TypeOK
<1> QED BY <1>3, <1>4
---------------------------------------------------------------------------
(* Between two steps of a batch: who holds motors_mutex_ is at that batch, *)
(* and nobody is in one when it is free.                                   *)
BatchInv ==
    /\ BatchHeld
    /\ motors_mutex = "free" => \A m \in Motors : Finished(m)

LEMMA BatchSteps ==
    ASSUME TypeOK, BatchInv, [Next]_vars
    PROVE  BatchInv'
<1> USE DEF BatchInv, BatchHeld, Finished, locks, threads, drivers, device
<1>0. "ctl" \in Threads /\ "exe" \in Threads /\ "free" \notin Threads
      /\ "ctl" # "exe"
  BY DEF Threads
<1>1. ASSUME NEW t \in Threads, NEW s, Enter(t, s) PROVE BatchInv'
  <2>1. motors_mutex # t BY <1>1 DEF Enter, Idle
  <2>2. \A u \in Threads \ {t} : todo'[u] = todo[u]
    BY <1>1 DEF Enter, TypeOK
  <2> QED BY <1>1, <2>1, <2>2 DEF Enter
<1>2. CASE ControlTick BY <1>0, <1>1, <1>2 DEF ControlTick
<1>3. CASE Call BY <1>0, <1>1, <1>3 DEF Call
<1>4. CASE DestroyRobot BY <1>0, <1>1, <1>4 DEF DestroyRobot
<1>5. CASE ControlEnds BY <1>5 DEF ControlEnds
<1>6. CASE Interrupt BY <1>6 DEF Interrupt
<1>7. ASSUME NEW t \in Threads,
             LockJoints(t) \/ Ankle(t) \/ WriteTarget(t) \/ StoreInit(t)
               \/ Gone(t)
      PROVE  BatchInv'
  <2>1. /\ todo[t] # <<>>
        /\ Head(todo[t]) \notin Batches
        /\ todo' = [todo EXCEPT ![t] = Tail(todo[t])]
        /\ UNCHANGED <<motors_mutex, batch, due>>
    BY <1>7, BatchCommands
    DEF LockJoints, Ankle, WriteTarget, StoreInit, Gone, At, Done, StepFrame
  <2>2. motors_mutex # t BY <2>1
  <2>3. \A u \in Threads \ {t} : todo'[u] = todo[u] BY <2>1 DEF TypeOK
  <2> QED BY <2>1, <2>2, <2>3
<1>8. ASSUME NEW t \in Threads, Begin(t) PROVE BatchInv'
  <2>1. todo[t] # <<>> /\ Head(todo[t]) \in Batches BY <1>8 DEF Begin, At
  <2> QED BY <1>0, <1>8, <2>1 DEF Begin
<1>9. ASSUME NEW t \in Threads, End(t) PROVE BatchInv'
  BY <1>0, <1>9 DEF End
<1>10. ASSUME NEW m \in Motors, Task(m) PROVE BatchInv'
  <2>1. UNCHANGED <<todo, motors_mutex>>
    BY <1>10 DEF Task, Transmit, CountUp, Read
  <2>2. ~Finished(m) BY <1>10 DEF Task, Transmit, CountUp, Read, Turn
  <2> QED BY <2>1, <2>2
<1>11. ASSUME NEW m \in Motors, Deliver(m) \/ Lose(m) PROVE BatchInv'
  BY <1>11 DEF Deliver, Lose, CodeFrame
<1>12. CASE GetJoints \/ GotJoints
  BY <1>12 DEF GetJoints, GotJoints, ReaderFrame
<1>13. CASE UNCHANGED vars BY <1>13 DEF vars
<1> QED
  BY <1>2, <1>3, <1>4, <1>5, <1>6, <1>7, <1>8, <1>9, <1>10, <1>11, <1>12,
     <1>13 DEF Next, Local, Locking, Terminated

LEMMA TypeNext ==
    ASSUME TypeOK, BatchInv, [Next]_vars
    PROVE  TypeOK'
<1>1. CASE ControlTick \/ ControlEnds \/ Call \/ Interrupt \/ DestroyRobot
  BY <1>1, TypeCalls
<1>2. CASE \E t \in Threads : Local(t) \/ Locking(t)
  BY <1>2, TypeSteps, TypeBatch DEF Local, Locking, BatchInv
<1>3. CASE \E m \in Motors : Task(m) \/ Deliver(m) \/ Lose(m)
  BY <1>3, TypeTask, TypeBus
<1>4. CASE GetJoints \/ GotJoints
  BY <1>4 DEF GetJoints, GotJoints, ReaderFrame, TypeOK, threads, drivers,
              device
<1>5. CASE UNCHANGED vars
  BY <1>5 DEF vars, TypeOK, locks, threads, drivers, device
<1> QED BY <1>1, <1>2, <1>3, <1>4, <1>5 DEF Next, Terminated

LEMMA BatchInit == Init => BatchInv
BY DEF Init, BatchInv, BatchHeld, Finished, Threads

(* Types and batches are kept together, since End takes a step off a       *)
(* function that must have one.                                            *)
LEMMA TypeAlways == Spec => [](TypeOK /\ BatchInv)
<1>1. Init => TypeOK /\ BatchInv BY TypeInit, BatchInit
<1>2. TypeOK /\ BatchInv /\ [Next]_vars => (TypeOK /\ BatchInv)'
  BY TypeNext, BatchSteps
<1> QED BY <1>1, <1>2, PTL DEF Spec

(* Every variable of the robot interface keeps its type, and no channel    *)
(* grows beyond its bound.                                                 *)
THEOREM TypeCorrect == Spec => []TypeOK
BY TypeAlways, PTL

---------------------------------------------------------------------------
(* response_count_ lags one behind the commands that brought no answer     *)
(* while a command is counted, and runs one ahead of them after an answer  *)
(* came between transmit and response_count_++.                            *)
Counting(m) == response_count[m] + (IF m \in due THEN 1 ELSE 0)

CountInv ==
    \A m \in Motors : silent[m] <= Counting(m) /\ Counting(m) <= silent[m] + 1

LEMMA CountSteps ==
    ASSUME TypeOK, CountInv, [Next]_vars
    PROVE  CountInv'
<1> USE DEF CountInv, Counting, drivers, device
<1>1. CASE UNCHANGED <<response_count, due, silent>>
  BY <1>1
<1>2. ASSUME NEW m \in Motors, Transmit(m) PROVE CountInv'
  <2>1. /\ m \notin due
        /\ due' = due \cup {m}
        /\ silent' = [silent EXCEPT ![m] = @ + 1]
        /\ UNCHANGED response_count
    BY <1>2 DEF Transmit, Turn
  <2>2. silent[m] \in Nat /\ response_count[m] \in Nat BY DEF TypeOK
  <2>3. silent'[m] = silent[m] + 1 /\ \A k \in Motors \ {m} : silent'[k] = silent[k]
    BY <2>1 DEF TypeOK
  <2> QED BY <2>1, <2>2, <2>3
<1>3. ASSUME NEW m \in Motors, CountUp(m) PROVE CountInv'
  <2>1. /\ m \in due
        /\ due' = due \ {m}
        /\ response_count' = [response_count EXCEPT ![m] = @ + 1]
        /\ UNCHANGED silent
    BY <1>3 DEF CountUp
  <2>2. silent[m] \in Nat /\ response_count[m] \in Nat BY DEF TypeOK
  <2>3. /\ response_count'[m] = response_count[m] + 1
        /\ \A k \in Motors \ {m} : response_count'[k] = response_count[k]
    BY <2>1 DEF TypeOK
  <2> QED BY <2>1, <2>2, <2>3
<1>4. ASSUME NEW m \in Motors, Deliver(m) PROVE CountInv'
  <2>1. UNCHANGED due BY <1>4 DEF Deliver, CodeFrame
  <2>2. CASE CanRxCbk(m)
    <3>1. /\ silent'[m] = 0 /\ response_count'[m] = 0
          /\ \A k \in Motors \ {m} : silent'[k] = silent[k]
                                     /\ response_count'[k] = response_count[k]
      BY <2>2 DEF CanRxCbk, TypeOK
    <3> QED BY <2>1, <3>1
  <2> QED BY <1>1, <1>4, <2>1, <2>2 DEF Deliver
<1>5. CASE ControlTick \/ ControlEnds \/ Call \/ Interrupt \/ DestroyRobot
  BY <1>1, <1>5
  DEF ControlTick, ControlEnds, Call, Interrupt, DestroyRobot, Enter
<1>6. ASSUME NEW t \in Threads, Local(t) \/ Locking(t) PROVE CountInv'
  BY <1>1, <1>6 DEF Local, Locking, LockJoints, Ankle, WriteTarget, StoreInit,
                    Gone, Begin, End, StepFrame
<1>7. ASSUME NEW m \in Motors, Read(m) \/ Lose(m) PROVE CountInv'
  BY <1>1, <1>7 DEF Read, Lose, CodeFrame
<1>8. CASE GetJoints \/ GotJoints
  BY <1>1, <1>8 DEF GetJoints, GotJoints, ReaderFrame
<1>9. CASE UNCHANGED vars BY <1>1, <1>9 DEF vars
<1> QED
  BY <1>2, <1>3, <1>4, <1>5, <1>6, <1>7, <1>8, <1>9 DEF Next, Task, Terminated

LEMMA CountInit == Init => CountInv
<1> SUFFICES ASSUME Init, NEW m \in Motors
             PROVE  silent[m] <= Counting(m) /\ Counting(m) <= silent[m] + 1
  BY DEF CountInv
<1>1. silent[m] = 0 /\ response_count[m] = 0 /\ m \notin due BY DEF Init
<1> QED BY <1>1 DEF Counting

(* A motor's reading ends in no other step than its own.                   *)
LEMMA ReadingEnds ==
    ASSUME TypeOK, BatchInv, [Next]_vars, NEW m \in Motors,
           motors_mutex = "ctl", Turn(m, "read"), ~Turn(m, "read")'
    PROVE  Read(m)
<1> USE DEF Turn, Finished, drivers, device
<1>0. "ctl" \in Threads BY DEF Threads
<1>1. CASE UNCHANGED <<batch, due>> BY <1>1
<1>2. ASSUME NEW k \in Motors, Transmit(k) \/ CountUp(k) PROVE Read(m)
  <2>1. /\ batch' \in {batch, [batch EXCEPT ![k] = Tail(@)]}
        /\ due' \in {due \cup {k}, due \ {k}}
        /\ ~Finished(k)
    BY <1>2 DEF Transmit, CountUp
  <2>2. k # m BY <1>2 DEF Transmit, CountUp, Frames, Switches
  <2>3. batch'[m] = batch[m] /\ (m \in due' <=> m \in due)
    BY <2>1, <2>2 DEF TypeOK
  <2>4. \A j \in Motors : j < m /\ SameTask(j, m) => Finished(j) /\ j # k
    BY <2>1
  <2>5. \A j \in Motors \ {k} : batch'[j] = batch[j] /\ (j \in due' <=> j \in due)
    BY <2>1 DEF TypeOK
  <2>6. \A j \in Motors : j < m /\ SameTask(j, m) => Finished(j)'
    BY <2>4, <2>5
  <2> QED BY <2>3, <2>6 DEF SameTask
<1>3. ASSUME NEW k \in Motors, Read(k) PROVE Read(m)
  <2>1. SUFFICES ASSUME k # m PROVE FALSE
    BY <1>3
  <2>2. /\ UNCHANGED due
        /\ batch[k] # <<>>
        /\ \A j \in Motors : j < k /\ SameTask(j, k) => Finished(j)
    BY <1>3 DEF Read
  <2>3. ~SameTask(k, m)
    <3>1. k \in Nat /\ m \in Nat BY RobotAssumption
    <3>2. CASE k < m BY <2>2, <3>2
    <3>3. CASE m < k BY <2>2, <3>3 DEF SameTask
    <3> QED BY <2>1, <3>1, <3>2, <3>3
  <2>4. batch'[m] = batch[m]
    BY <1>3, <2>1, <2>3 DEF Read, TypeOK, SameTask
  <2>5. \A j \in Motors : batch[j] = <<>> => batch'[j] = <<>>
    BY <1>3, <2>2 DEF Read, TypeOK
  <2> QED BY <2>2, <2>4, <2>5 DEF SameTask
<1>4. CASE ControlTick \/ ControlEnds \/ Call \/ Interrupt \/ DestroyRobot
  BY <1>1, <1>4
  DEF ControlTick, ControlEnds, Call, Interrupt, DestroyRobot, Enter
<1>5. ASSUME NEW t \in Threads, Local(t) \/ Locking(t) PROVE Read(m)
  <2>1. CASE Begin(t) BY <2>1 DEF Begin
  <2> QED BY <1>1, <1>5, <2>1
          DEF Local, Locking, LockJoints, Ankle, WriteTarget, StoreInit,
              Gone, End, StepFrame
<1>6. ASSUME NEW k \in Motors, Deliver(k) \/ Lose(k) PROVE Read(m)
  BY <1>1, <1>6 DEF Deliver, Lose, CodeFrame
<1>7. CASE GetJoints \/ GotJoints
  BY <1>1, <1>7 DEF GetJoints, GotJoints, ReaderFrame
<1>8. CASE UNCHANGED vars BY <1>1, <1>8 DEF vars
<1> QED
  BY <1>2, <1>3, <1>4, <1>5, <1>6, <1>7, <1>8 DEF Next, Task, Terminated

---------------------------------------------------------------------------
(* Where the two threads can be in their functions.                        *)
CtlTodo == {<<>>, Apply,
            <<"read_all", "ankle", "policy_target", "mit_all">>,
            <<"ankle", "policy_target", "mit_all">>,
            <<"policy_target", "mit_all">>, <<"mit_all">>}

ExeTodo == {<<>>, Reset, <<"mit_all", "mit_all">>, <<"mit_all">>,
            Refresh, <<"refresh_all", "read_all", "ankle">>,
            <<"read_all", "ankle">>, <<"ankle">>,
            Zeros, Clear, InitMotors, <<"set_init">>,
            DeinitMotors, <<"clear_init">>,
            Destroy, <<"clear_init", "gone">>, <<"gone">>}

(* The steps at which the caller holds joint_mutex_.                       *)
Inside == {"refresh_all", "read_all", "ankle"}
Holding(s) == s # <<>> /\ Head(s) \in Inside

ScriptInv == todo["ctl"] \in CtlTodo /\ todo["exe"] \in ExeTodo

(* Joints are held from "lock_joints" until "ankle", in both threads.      *)
LEMMA CtlScript ==
    ASSUME NEW s \in CtlTodo, s # <<>>
    PROVE  /\ Tail(s) \in CtlTodo
           /\ Head(s) # "gone"
           /\ Holding(Tail(s)) <=>
                Head(s) = "lock_joints" \/ (Holding(s) /\ Head(s) # "ankle")
<1> USE DEF CtlTodo, Apply, Holding, Inside
<1>1. CASE s = Apply BY <1>1
<1>2. CASE s = <<"read_all", "ankle", "policy_target", "mit_all">> BY <1>2
<1>3. CASE s = <<"ankle", "policy_target", "mit_all">> BY <1>3
<1>4. CASE s = <<"policy_target", "mit_all">> BY <1>4
<1>5. CASE s = <<"mit_all">> BY <1>5
<1> QED BY <1>1, <1>2, <1>3, <1>4, <1>5

LEMMA ExeScript ==
    ASSUME NEW s \in ExeTodo, s # <<>>
    PROVE  /\ Tail(s) \in ExeTodo
           /\ Holding(Tail(s)) <=>
                Head(s) = "lock_joints" \/ (Holding(s) /\ Head(s) # "ankle")
<1> USE DEF ExeTodo, Holding, Inside
<1>1. CASE s = Reset BY <1>1 DEF Reset
<1>2. CASE s = <<"mit_all", "mit_all">> BY <1>2
<1>3. CASE s = <<"mit_all">> BY <1>3
<1>4. CASE s = Refresh BY <1>4 DEF Refresh
<1>5. CASE s = <<"refresh_all", "read_all", "ankle">> BY <1>5
<1>6. CASE s = <<"read_all", "ankle">> BY <1>6
<1>7. CASE s = <<"ankle">> BY <1>7
<1>8. CASE s = Zeros BY <1>8 DEF Zeros
<1>9. CASE s = Clear BY <1>9 DEF Clear
<1>10. CASE s = InitMotors BY <1>10 DEF InitMotors
<1>11. CASE s = <<"set_init">> BY <1>11
<1>12. CASE s = DeinitMotors BY <1>12 DEF DeinitMotors
<1>13. CASE s = <<"clear_init">> BY <1>13
<1>14. CASE s = Destroy BY <1>14 DEF Destroy
<1>15. CASE s = <<"clear_init", "gone">> BY <1>15
<1>16. CASE s = <<"gone">> BY <1>16
<1> QED BY <1>1, <1>2, <1>3, <1>4, <1>5, <1>6, <1>7, <1>8,
            <1>9, <1>10, <1>11, <1>12, <1>13, <1>14, <1>15, <1>16

LEMMA ScriptInit == Init => ScriptInv
BY DEF Init, ScriptInv, CtlTodo, ExeTodo, Threads

LEMMA ScriptSteps ==
    ASSUME TypeOK, BatchInv, ScriptInv, [Next]_vars
    PROVE  ScriptInv'
<1> USE DEF ScriptInv, threads
<1>0. /\ Threads = {"ctl", "exe"}
      /\ todo \in [Threads -> Seq(Steps)]
  BY DEF Threads, TypeOK
<1>1. CASE UNCHANGED todo BY <1>1
<1>2. CASE ControlTick
  <2>1. Apply \in CtlTodo BY DEF CtlTodo
  <2> QED BY <1>0, <1>2, <2>1 DEF ControlTick, Enter
<1>3. CASE Call \/ DestroyRobot
  <2>1. {InitMotors, DeinitMotors, Reset, Refresh, Zeros, Clear, Destroy}
          \subseteq ExeTodo
    BY DEF ExeTodo
  <2>2. \E s \in ExeTodo : Enter("exe", s)
    BY <1>3, <2>1 DEF Call, DestroyRobot
  <2>3. PICK s \in ExeTodo : todo' = [todo EXCEPT !["exe"] = s]
    BY <2>2 DEF Enter
  <2> QED BY <1>0, <2>3
<1>4. ASSUME NEW t \in Threads, todo[t] # <<>>, Done(t) PROVE ScriptInv'
  BY <1>0, <1>4, CtlScript, ExeScript DEF Done
<1>5. ASSUME NEW t \in Threads, Local(t) \/ Locking(t) PROVE ScriptInv'
  <2>1. CASE Begin(t) BY <1>1, <2>1 DEF Begin
  <2>2. CASE End(t)
    <3>1. CASE t = "ctl" /\ offline # {}
      <4>1. todo' = [todo EXCEPT !["ctl"] = <<>>] BY <2>2, <3>1 DEF End
      <4>2. <<>> \in CtlTodo BY DEF CtlTodo
      <4> QED BY <1>0, <4>1, <4>2
    <3>2. CASE ~(t = "ctl" /\ offline # {})
      <4>1. Done(t) BY <2>2, <3>2 DEF End
      <4>2. todo[t] # <<>> BY <2>2 DEF BatchInv, BatchHeld, End
      <4> QED BY <1>4, <4>1, <4>2
    <3> QED BY <3>1, <3>2
  <2>3. CASE LockJoints(t) \/ Ankle(t) \/ WriteTarget(t) \/ StoreInit(t)
               \/ Gone(t)
    BY <1>4, <2>3
    DEF LockJoints, Ankle, WriteTarget, StoreInit, Gone, At
  <2> QED BY <1>5, <2>1, <2>2, <2>3 DEF Local, Locking
<1>6. ASSUME NEW m \in Motors, Task(m) \/ Deliver(m) \/ Lose(m)
      PROVE  ScriptInv'
  BY <1>1, <1>6 DEF Task, Transmit, CountUp, Read, Deliver, Lose, CodeFrame
<1>7. CASE ControlEnds \/ Interrupt
  BY <1>1, <1>7 DEF ControlEnds, Interrupt
<1>8. CASE GetJoints \/ GotJoints
  BY <1>1, <1>8 DEF GetJoints, GotJoints, ReaderFrame
<1>9. CASE UNCHANGED vars BY <1>1, <1>9 DEF vars
<1> QED
  BY <1>2, <1>3, <1>5, <1>6, <1>7, <1>8, <1>9 DEF Next, Terminated

---------------------------------------------------------------------------
(* Only "read_all" reads, and a motor is found offline in apply_action's   *)
(* reading alone, which is the last thing the control thread does.         *)
OfflineInv ==
    /\ "ctl" \notin alive => todo["ctl"] = <<>>
    /\ \A t \in Threads :
         motors_mutex = t /\ Head(todo[t]) # "read_all" =>
           \A m \in Motors : batch[m] \in Seq(Frames)
    /\ offline # {} =>
         \/ "ctl" \notin alive
         \/ /\ motors_mutex = "ctl"
            /\ Head(todo["ctl"]) = "read_all"
            /\ \A m \in offline : batch[m] = <<>>

LEMMA OfflineInit == Init => OfflineInv
BY DEF Init, OfflineInv, Threads

LEMMA OfflineBatch ==
    ASSUME TypeOK, BatchInv, OfflineInv, NEW t \in Threads, Begin(t) \/ End(t)
    PROVE  OfflineInv'
<1> USE DEF OfflineInv, drivers, device
<1>0. "ctl" \in Threads /\ "exe" \in Threads /\ "free" \notin Threads
      /\ "ctl" # "exe"
  BY DEF Threads
<1>1. "ctl" \notin alive => motors_mutex # "ctl"
  BY <1>0 DEF BatchInv, BatchHeld
<1>2. CASE Begin(t)
  <2>1. PICK b \in Batches : /\ At(t, b)
                             /\ batch' = [m \in Motors |-> CommandsOf[b]]
    BY <1>2 DEF Begin
  <2>2. b # "read_all" => CommandsOf[b] \in Seq(Frames)
    BY FrameCommands
  <2>3. offline # {} => "ctl" \notin alive BY <1>0, <1>2 DEF Begin
  <2> QED BY <1>0, <1>2, <2>1, <2>2, <2>3 DEF Begin, At
<1>3. CASE End(t)
  <2>1. CASE t = "ctl" /\ offline # {}
    <3>1. "ctl" \notin alive' /\ todo'["ctl"] = <<>>
      BY <1>0, <1>3, <2>1 DEF End, TypeOK
    <3> QED BY <1>0, <1>3, <2>1, <3>1 DEF End
  <2>2. CASE ~(t = "ctl" /\ offline # {})
    <3>1. /\ UNCHANGED <<alive, offline>>
          /\ motors_mutex' = "free"
          /\ todo' = [todo EXCEPT ![t] = Tail(todo[t])]
      BY <1>3, <2>2 DEF End, Done
    <3>2. offline # {} => "ctl" \notin alive BY <1>3, <2>2 DEF End
    <3>3. "ctl" \notin alive => t # "ctl" BY <1>1, <1>3 DEF End
    <3>4. "ctl" \notin alive => todo'["ctl"] = <<>>
      BY <1>0, <3>1, <3>3 DEF TypeOK
    <3> QED BY <1>0, <3>1, <3>2, <3>4
  <2> QED BY <2>1, <2>2
<1> QED BY <1>2, <1>3

LEMMA OfflineTask ==
    ASSUME TypeOK, BatchInv, OfflineInv, NEW m \in Motors, Task(m)
    PROVE  OfflineInv'
<1> USE DEF OfflineInv, locks, threads, drivers, device
<1>0. "ctl" \in Threads BY DEF Threads
<1>1. UNCHANGED <<alive, todo, motors_mutex>>
  BY DEF Task, Transmit, CountUp, Read
<1>2. CASE Transmit(m)
  <2>1. /\ batch[m] # <<>>
        /\ batch' = [batch EXCEPT ![m] = Tail(@)]
        /\ UNCHANGED offline
    BY <1>2 DEF Transmit, Turn
  <2>2. \A k \in Motors : batch[k] \in Seq(Frames) => batch'[k] \in Seq(Frames)
    BY <2>1, HeadTailProperties DEF TypeOK
  <2>3. m \notin offline \/ "ctl" \notin alive BY <2>1
  <2>4. \A k \in Motors \ {m} : batch'[k] = batch[k] BY <2>1 DEF TypeOK
  <2>5. offline \subseteq Motors BY DEF TypeOK
  <2> QED BY <1>1, <2>1, <2>2, <2>3, <2>4, <2>5
<1>3. CASE CountUp(m) BY <1>1, <1>3 DEF CountUp
<1>4. CASE Read(m)
  <2>1. \A k \in Motors : batch'[k] \in {batch[k], <<>>}
    BY <1>4 DEF Read, TypeOK
  <2>2. <<>> \in Seq(Frames) BY EmptySeq
  <2>3. \A t \in Threads : motors_mutex = t => Head(todo[t]) = "read_all"
    <3>1. batch[m] \notin Seq(Frames)
      <4>1. SUFFICES ASSUME batch[m] \in Seq(Frames) PROVE FALSE OBVIOUS
      <4>2. Head(batch[m]) \in Frames
        BY <1>4, <4>1, HeadTailProperties DEF Read, Turn
      <4> QED BY <1>4, <4>2 DEF Read, Turn, Frames, Switches
    <3> QED BY <3>1
  <2>4. CASE IsOffline(m)
    <3>1. motors_mutex = "ctl" /\ offline' = offline \cup {m}
      BY <1>4, <2>4 DEF Read, IsOffline
    <3>2. batch'[m] = <<>> BY <1>4, <2>4 DEF Read, SameTask
    <3>3. offline \subseteq Motors BY DEF TypeOK
    <3> QED BY <1>0, <1>1, <2>1, <2>2, <2>3, <3>1, <3>2, <3>3
  <2>5. CASE ~IsOffline(m)
    <3>1. offline' = offline BY <1>4, <2>5 DEF Read
    <3>2. offline \subseteq Motors BY DEF TypeOK
    <3> QED BY <1>0, <1>1, <2>1, <2>2, <2>3, <3>1, <3>2
  <2> QED BY <2>4, <2>5
<1> QED BY <1>2, <1>3, <1>4 DEF Task

LEMMA OfflineSteps ==
    ASSUME TypeOK, BatchInv, ScriptInv, OfflineInv, [Next]_vars
    PROVE  OfflineInv'
<1> USE DEF OfflineInv, locks, threads, drivers, device
<1>0. "ctl" \in Threads /\ "exe" \in Threads /\ "ctl" # "exe" BY DEF Threads
<1>1. ASSUME NEW t \in Threads, NEW s, Enter(t, s) PROVE OfflineInv'
  <2>1. motors_mutex # t BY <1>1 DEF Enter, Idle, BatchInv, BatchHeld
  <2>2. \A u \in Threads \ {t} : todo'[u] = todo[u]
    BY <1>1 DEF Enter, TypeOK
  <2>3. t \in alive BY <1>1 DEF Enter, Idle
  <2> QED BY <1>0, <1>1, <2>1, <2>2, <2>3 DEF Enter
<1>2. CASE ControlTick BY <1>0, <1>1, <1>2 DEF ControlTick
<1>3. CASE Call BY <1>0, <1>1, <1>3 DEF Call
<1>4. CASE DestroyRobot BY <1>0, <1>1, <1>4 DEF DestroyRobot
<1>5. CASE ControlEnds BY <1>0, <1>5 DEF ControlEnds, Idle
<1>6. CASE Interrupt BY <1>6 DEF Interrupt
<1>7. ASSUME NEW t \in Threads,
             LockJoints(t) \/ Ankle(t) \/ WriteTarget(t) \/ StoreInit(t)
               \/ Gone(t)
      PROVE  OfflineInv'
  <2>1. /\ todo[t] # <<>>
        /\ Head(todo[t]) \notin Batches
        /\ todo' = [todo EXCEPT ![t] = Tail(todo[t])]
        /\ UNCHANGED <<motors_mutex, batch, offline>>
        /\ alive' \in {alive, alive \ {t}}
        /\ alive' # alive => Head(todo[t]) = "gone"
    BY <1>7, BatchCommands
    DEF LockJoints, Ankle, WriteTarget, StoreInit, Gone, At, Done, StepFrame
  <2>2. motors_mutex # t BY <2>1 DEF BatchInv, BatchHeld
  <2>3. \A u \in Threads \ {t} : todo'[u] = todo[u] BY <2>1 DEF TypeOK
  <2>4. t = "ctl" => alive' = alive BY <2>1, CtlScript DEF ScriptInv
  <2>5. "ctl" \notin alive => t # "ctl" BY <2>1
  <2> QED BY <1>0, <2>1, <2>2, <2>3, <2>4, <2>5
<1>8. ASSUME NEW m \in Motors, Deliver(m) \/ Lose(m) PROVE OfflineInv'
  BY <1>8 DEF Deliver, Lose, CodeFrame
<1>9. CASE GetJoints \/ GotJoints
  BY <1>9 DEF GetJoints, GotJoints, ReaderFrame
<1>10. CASE UNCHANGED vars BY <1>10 DEF vars
<1> QED
  BY <1>2, <1>3, <1>4, <1>5, <1>6, <1>7, <1>8, <1>9, <1>10, OfflineBatch,
     OfflineTask DEF Next, Local, Locking, Terminated

LEMMA OfflineAlways == Spec => [](ScriptInv /\ OfflineInv)
<1>1. Init => ScriptInv /\ OfflineInv BY ScriptInit, OfflineInit
<1>2. TypeOK /\ BatchInv /\ ScriptInv /\ OfflineInv /\ [Next]_vars =>
        (ScriptInv /\ OfflineInv)'
  BY ScriptSteps, OfflineSteps
<1> QED BY <1>1, <1>2, TypeAlways, PTL DEF Spec

(* The counter of response_count_ is good enough to judge a motor by: no   *)
(* motor is declared offline that has answered one of the last commands    *)
(* up to the threshold, and none is spared that has answered fewer.        *)
THEOREM VerdictCorrect == Spec => OfflineVerdict
<1>1. ASSUME TypeOK, BatchInv, OfflineInv, CountInv, [Next]_vars,
             NEW m \in Motors,
             motors_mutex = "ctl", Turn(m, "read"), ~Turn(m, "read")'
      PROVE  /\ m \in offline' => silent[m] >= offline_threshold
             /\ silent[m] > offline_threshold => m \in offline'
  <2>1. Read(m) BY <1>1, ReadingEnds
  <2>2. /\ silent[m] <= response_count[m]
        /\ response_count[m] <= silent[m] + 1
    <3>1. m \notin due BY <1>1 DEF Turn
    <3>2. Counting(m) = response_count[m] + 0 BY <3>1 DEF Counting
    <3>3. response_count[m] \in Nat BY <1>1 DEF TypeOK
    <3> QED BY <1>1, <3>2, <3>3 DEF CountInv
  <2>3. silent[m] \in Nat /\ response_count[m] \in Nat BY <1>1 DEF TypeOK
  <2>4. offline_threshold \in Nat BY RobotAssumption
  <2>5. m \in offline' <=> m \in offline \/ response_count[m] > offline_threshold
    BY <1>1, <2>1 DEF Read, IsOffline
  <2>6. m \notin offline
    <3>1. "ctl" \in alive
      BY <1>1 DEF OfflineInv, BatchInv, BatchHeld, Threads
    <3> QED BY <1>1, <3>1 DEF OfflineInv, Turn
  <2> QED BY <2>2, <2>3, <2>4, <2>5, <2>6
<1>2. TypeOK /\ BatchInv /\ OfflineInv /\ CountInv /\ [Next]_vars =>
        [\A m \in Motors :
           motors_mutex = "ctl" /\ Turn(m, "read") /\ ~Turn(m, "read")' =>
             /\ m \in offline' => silent[m] >= offline_threshold
             /\ silent[m] > offline_threshold => m \in offline']_vars
  BY <1>1
<1>3. Init => CountInv BY CountInit
<1>4. TypeOK /\ BatchInv /\ CountInv /\ [Next]_vars => CountInv'
  BY CountSteps
<1> QED BY <1>2, <1>3, <1>4, TypeAlways, OfflineAlways, PTL
        DEF Spec, OfflineVerdict

---------------------------------------------------------------------------
(* A thread holds joint_mutex_ exactly while its function is between       *)
(* "lock_joints" and "ankle", and that is where motor angles are.          *)
JointInv ==
    /\ \A t \in Threads : joint_mutex = t <=> Holding(todo[t])
    /\ raw # {} => joint_mutex \in Threads \/ offline # {}

LEMMA JointInit == Init => JointInv
BY DEF Init, JointInv, Holding, Threads

LEMMA NotHolding ==
    \A s \in {<<>>, Apply, InitMotors, DeinitMotors, Reset, Refresh, Zeros,
              Clear, Destroy} : ~Holding(s)
BY DEF Holding, Inside, Apply, InitMotors, DeinitMotors, Reset, Refresh,
       Zeros, Clear, Destroy

(* A step that takes no lock and is no conversion changes no claim on the  *)
(* joints.                                                                 *)
LEMMA JointDone ==
    ASSUME TypeOK, ScriptInv, JointInv, NEW t \in Threads,
           todo[t] # <<>>, Done(t), Head(todo[t]) \notin {"lock_joints", "ankle"},
           UNCHANGED <<joint_mutex, raw, offline>>
    PROVE  JointInv'
<1>1. Holding(Tail(todo[t])) <=> Holding(todo[t])
  BY CtlScript, ExeScript DEF ScriptInv, Threads
<1>2. /\ todo'[t] = Tail(todo[t])
      /\ \A u \in Threads \ {t} : todo'[u] = todo[u]
  BY DEF Done, TypeOK
<1>3. \A u \in Threads : Holding(todo'[u]) <=> Holding(todo[u])
  BY <1>1, <1>2
<1> QED BY <1>3 DEF JointInv, Holding

LEMMA JointLocal ==
    ASSUME TypeOK, BatchInv, ScriptInv, OfflineInv, JointInv,
           NEW t \in Threads, Local(t) \/ Locking(t)
    PROVE  JointInv'
<1> USE DEF drivers, device
<1>0. /\ "free" \notin Threads /\ "inf" \notin Threads /\ "ctl" \in Threads
      /\ Threads = {"ctl", "exe"}
  BY DEF Threads
<1>1. CASE LockJoints(t)
  <2>1. /\ todo[t] # <<>> /\ Head(todo[t]) = "lock_joints" /\ Done(t)
        /\ joint_mutex = "free" /\ joint_mutex' = t
        /\ UNCHANGED <<raw, offline>>
    BY <1>1 DEF LockJoints, At, StepFrame
  <2>2. Holding(Tail(todo[t]))
    BY <2>1, CtlScript, ExeScript DEF ScriptInv, Threads
  <2>3. /\ todo'[t] = Tail(todo[t])
        /\ \A u \in Threads \ {t} : todo'[u] = todo[u]
    BY <2>1 DEF Done, TypeOK
  <2>4. \A u \in Threads : ~Holding(todo[u]) BY <1>0, <2>1 DEF JointInv
  <2>5. \A u \in Threads : joint_mutex' = u <=> Holding(todo'[u])
    BY <2>1, <2>2, <2>3, <2>4
  <2> QED BY <2>1, <2>5 DEF JointInv, Holding
<1>2. CASE Ankle(t)
  <2>1. /\ todo[t] # <<>> /\ Head(todo[t]) = "ankle" /\ Done(t)
        /\ joint_mutex' = "free" /\ raw' = {}
    BY <1>2 DEF Ankle, At
  <2>2. ~Holding(Tail(todo[t])) /\ Holding(todo[t])
    BY <2>1, CtlScript, ExeScript DEF ScriptInv, Threads, Holding, Inside
  <2>3. /\ todo'[t] = Tail(todo[t])
        /\ \A u \in Threads \ {t} : todo'[u] = todo[u]
    BY <2>1 DEF Done, TypeOK
  <2>4. \A u \in Threads \ {t} : ~Holding(todo[u]) BY <2>2 DEF JointInv
  <2>5. \A u \in Threads : joint_mutex' = u <=> Holding(todo'[u])
    BY <1>0, <2>1, <2>2, <2>3, <2>4
  <2> QED BY <2>1, <2>5 DEF JointInv, Holding
<1>3. CASE WriteTarget(t) \/ StoreInit(t) \/ Gone(t)
  BY <1>3, JointDone DEF WriteTarget, StoreInit, Gone, At, StepFrame, locks
<1>4. CASE Begin(t) BY <1>4 DEF Begin, JointInv, Holding
<1>5. CASE End(t)
  <2>1. todo[t] # <<>> /\ Head(todo[t]) \in Batches
    BY <1>5 DEF End, BatchInv, BatchHeld
  <2>2. CASE t = "ctl" /\ offline # {}
    <3>1. "ctl" \in alive BY <1>5, <2>1, <2>2 DEF OfflineInv
    <3>2. Head(todo[t]) = "read_all" BY <2>2, <3>1 DEF OfflineInv
    <3>3. joint_mutex = t BY <2>1, <3>2 DEF JointInv, Holding, Inside
    <3>4. /\ todo'[t] = <<>> /\ joint_mutex' = "free"
          /\ \A u \in Threads \ {t} : todo'[u] = todo[u]
          /\ UNCHANGED <<raw, offline>>
      BY <1>5, <2>2 DEF End, TypeOK
    <3>5. \A u \in Threads : ~Holding(todo'[u])
      BY <3>3, <3>4, NotHolding DEF JointInv
    <3>6. \A u \in Threads : joint_mutex' = u <=> Holding(todo'[u])
      BY <1>0, <3>4, <3>5
    <3> QED BY <2>2, <3>4, <3>6 DEF JointInv, Holding
  <2>3. CASE ~(t = "ctl" /\ offline # {})
    <3>1. Done(t) /\ UNCHANGED <<joint_mutex, raw, offline>>
      BY <1>5, <2>3 DEF End
    <3>2. Head(todo[t]) \notin {"lock_joints", "ankle"}
      BY <2>1, BatchCommands
    <3> QED BY <2>1, <3>1, <3>2, JointDone
  <2> QED BY <2>2, <2>3
<1> QED BY <1>1, <1>2, <1>3, <1>4, <1>5 DEF Local, Locking

LEMMA JointSteps ==
    ASSUME TypeOK, BatchInv, ScriptInv, OfflineInv, JointInv, [Next]_vars
    PROVE  JointInv'
<1> USE DEF JointInv, locks, threads, drivers, device
<1>0. /\ "free" \notin Threads /\ "inf" \notin Threads
      /\ "ctl" \in Threads /\ "exe" \in Threads
  BY DEF Threads
<1>1. ASSUME NEW t \in Threads,
             NEW s \in {Apply, InitMotors, DeinitMotors, Reset, Refresh,
                        Zeros, Clear, Destroy}, Enter(t, s)
      PROVE  JointInv'
  <2>1. \A u \in Threads : Holding(todo'[u]) <=> Holding(todo[u])
    BY <1>1, NotHolding DEF Enter, Idle, TypeOK
  <2> QED BY <1>1, <2>1 DEF Enter, Holding
<1>2. CASE ControlTick BY <1>0, <1>1, <1>2 DEF ControlTick
<1>3. CASE Call BY <1>0, <1>1, <1>3 DEF Call
<1>4. CASE DestroyRobot BY <1>0, <1>1, <1>4 DEF DestroyRobot
<1>5. CASE ControlEnds \/ Interrupt
  BY <1>5 DEF ControlEnds, Interrupt, Holding
<1>6. ASSUME NEW m \in Motors, Transmit(m) \/ CountUp(m) \/ Deliver(m) \/ Lose(m)
      PROVE  JointInv'
  BY <1>6 DEF Transmit, CountUp, Deliver, Lose, CodeFrame, Holding
<1>7. ASSUME NEW m \in Motors, Read(m) PROVE JointInv'
  <2>1. /\ UNCHANGED <<todo, joint_mutex>>
        /\ offline # {} => offline' # {}
    BY <1>7 DEF Read
  <2>2. motors_mutex \in Threads
    BY <1>7 DEF Read, Turn, BatchInv, Finished, TypeOK
  <2>3. Head(todo[motors_mutex]) = "read_all" /\ todo[motors_mutex] # <<>>
    <3>1. batch[m] \notin Seq(Frames)
      <4>1. SUFFICES ASSUME batch[m] \in Seq(Frames) PROVE FALSE OBVIOUS
      <4>2. Head(batch[m]) \in Frames
        BY <1>7, <4>1, HeadTailProperties DEF Read, Turn
      <4> QED BY <1>7, <4>2 DEF Read, Turn, Frames, Switches
    <3> QED BY <2>2, <3>1 DEF OfflineInv, BatchInv, BatchHeld
  <2>4. joint_mutex = motors_mutex BY <2>2, <2>3 DEF Holding, Inside
  <2> QED BY <2>1, <2>2, <2>4 DEF Holding
<1>8. CASE GetJoints \/ GotJoints
  <2>1. UNCHANGED <<todo, raw, offline>> /\ joint_mutex \notin Threads
        /\ joint_mutex' \notin Threads
    BY <1>0, <1>8 DEF GetJoints, GotJoints, ReaderFrame
  <2> QED BY <2>1 DEF Holding
<1>9. CASE UNCHANGED vars BY <1>9 DEF vars, Holding
<1> QED
  BY <1>2, <1>3, <1>4, <1>5, <1>6, <1>7, <1>8, <1>9, JointLocal
  DEF Next, Task, Terminated

(* No reader sees an ankle angle that is still a motor angle, whatever the *)
(* threads do and for any number of motors, unless a motor was found       *)
(* offline.                                                                *)
THEOREM JointsCorrect == Spec => []JointsConverted
<1>1. Init => JointInv BY JointInit
<1>2. TypeOK /\ BatchInv /\ ScriptInv /\ OfflineInv /\ JointInv /\ [Next]_vars
        => JointInv'
  BY JointSteps
<1>3. JointInv => JointsConverted BY DEF JointInv, JointsConverted, Threads
<1> QED BY <1>1, <1>2, <1>3, TypeAlways, OfflineAlways, PTL DEF Spec

---------------------------------------------------------------------------
(* What a frame at the end of a channel makes of a motor.                  *)
LEMMA EndsAppend ==
    ASSUME NEW s \in Seq(Frames), NEW f \in Frames, NEW p
    PROVE  EndsOn(Append(s, f), p) <=>
             IF f \in Switches THEN f = "on" ELSE EndsOn(s, p)
<1> DEFINE n == Len(s)
           r == Append(s, f)
<1>1. /\ n \in Nat /\ Len(r) = n + 1
      /\ \A i \in 1 .. n : r[i] = s[i]
      /\ r[n + 1] = f
  BY AppendProperties, LenProperties
<1> HIDE DEF n, r
<1>2. CASE f = "on"
  <2>1. n + 1 \in 1 .. Len(r) /\ r[n + 1] = "on"
        /\ \A j \in (n + 2) .. Len(r) : r[j] # "off"
    BY <1>1, <1>2
  <2>2. EndsOn(r, p) BY <1>1, <2>1 DEF EndsOn
  <2> QED BY <1>2, <2>2 DEF r, Switches
<1>3. CASE f = "off"
  <2>1. n + 1 \in 1 .. Len(r) /\ r[n + 1] = "off" BY <1>1, <1>3
  <2>2. ASSUME NEW i \in 1 .. Len(r), r[i] = "on"
        PROVE  n + 1 \in (i + 1) .. Len(r)
    BY <1>1, <1>3, <2>2
  <2>3. ~EndsOn(r, p) BY <2>1, <2>2 DEF EndsOn
  <2> QED BY <1>3, <2>3 DEF r, Switches
<1>4. CASE f = "other"
  <2>1. ASSUME NEW i \in 1 .. n
        PROVE  (\A j \in (i + 1) .. (n + 1) : r[j] # "off") <=>
               (\A j \in (i + 1) .. n : s[j] # "off")
    BY <1>1, <1>4
  <2>2. (\A j \in 1 .. (n + 1) : r[j] # "off") <=>
        (\A j \in 1 .. n : s[j] # "off")
    BY <1>1, <1>4
  <2>3. ASSUME NEW i \in 1 .. (n + 1), r[i] = "on"
        PROVE  i \in 1 .. n /\ s[i] = "on"
    BY <1>1, <1>4, <2>3
  <2>4. \A i \in 1 .. n : i \in 1 .. (n + 1) /\ r[i] = s[i] BY <1>1
  <2>5. EndsOn(r, p) <=> EndsOn(s, p)
    BY <1>1, <2>1, <2>2, <2>3, <2>4 DEF EndsOn, n
  <2> QED BY <1>4, <2>5 DEF r, Switches
<1> QED BY <1>2, <1>3, <1>4 DEF Frames, Switches

(* The tail of a channel, position by position.                            *)
LEMMA EndsTail ==
    ASSUME NEW s \in Seq(Frames), s # <<>>, NEW p
    PROVE  /\ EndsOn(Tail(s), p) <=>
                \/ \E i \in 2 .. Len(s) :
                     s[i] = "on" /\ \A j \in (i + 1) .. Len(s) : s[j] # "off"
                \/ p /\ \A j \in 2 .. Len(s) : s[j] # "off"
           /\ EndsOn(s, p) <=>
                \/ \E i \in 2 .. Len(s) :
                     s[i] = "on" /\ \A j \in (i + 1) .. Len(s) : s[j] # "off"
                \/ /\ Head(s) = "on" \/ (p /\ Head(s) # "off")
                   /\ \A j \in 2 .. Len(s) : s[j] # "off"
<1> DEFINE n == Len(s)
           r == Tail(s)
           After(i) == \A j \in (i + 1) .. n : s[j] # "off"
<1>1. /\ n \in Nat \ {0} /\ Len(r) = n - 1
      /\ \A i \in 1 .. (n - 1) : r[i] = s[i + 1]
      /\ Head(s) = s[1]
  BY HeadTailProperties, LenProperties, EmptySeq
<1> HIDE DEF n, r
<1>2. ASSUME NEW i \in 0 .. (n - 1)
      PROVE  (\A j \in (i + 1) .. (n - 1) : r[j] # "off") <=> After(i + 1)
  <2>1. ASSUME \A j \in (i + 1) .. (n - 1) : r[j] # "off",
               NEW j \in (i + 2) .. n
        PROVE  s[j] # "off"
    <3>1. j - 1 \in (i + 1) .. (n - 1) /\ j - 1 \in 1 .. (n - 1) BY <1>1
    <3>2. r[j - 1] = s[j] BY <1>1, <3>1
    <3> QED BY <2>1, <3>1, <3>2
  <2>2. ASSUME After(i + 1), NEW j \in (i + 1) .. (n - 1)
        PROVE  r[j] # "off"
    <3>1. j + 1 \in (i + 2) .. n /\ j \in 1 .. (n - 1) BY <1>1
    <3>2. r[j] = s[j + 1] BY <1>1, <3>1
    <3>3. i + 2 = (i + 1) + 1 OBVIOUS
    <3> QED BY <2>2, <3>1, <3>2, <3>3
  <2>3. i + 2 = (i + 1) + 1 OBVIOUS
  <2> QED BY <2>1, <2>2, <2>3
<1> HIDE DEF After
<1>3. EndsOn(r, p) <=> \/ \E i \in 2 .. n : s[i] = "on" /\ After(i)
                       \/ p /\ After(1)
  <2>1. EndsOn(r, p) <=>
          \/ \E i \in 1 .. (n - 1) : r[i] = "on" /\ After(i + 1)
          \/ p /\ After(1)
    <3>1. (\A j \in 1 .. (n - 1) : r[j] # "off") <=> After(1)
      <4>1. 0 \in 0 .. (n - 1) /\ 0 + 1 = 1 BY <1>1
      <4> QED BY <1>2, <4>1
    <3>2. \A i \in 1 .. (n - 1) :
            (\A j \in (i + 1) .. (n - 1) : r[j] # "off") <=> After(i + 1)
      <4>1. 1 .. (n - 1) \subseteq 0 .. (n - 1) BY <1>1
      <4> QED BY <1>2, <4>1
    <3> QED BY <1>1, <3>1, <3>2 DEF EndsOn
  <2>2. ASSUME NEW i \in 1 .. (n - 1), r[i] = "on" /\ After(i + 1)
        PROVE  \E k \in 2 .. n : s[k] = "on" /\ After(k)
    <3>1. i + 1 \in 2 .. n /\ s[i + 1] = "on" BY <1>1, <2>2
    <3> QED BY <2>2, <3>1
  <2>3. ASSUME NEW k \in 2 .. n, s[k] = "on" /\ After(k)
        PROVE  \E i \in 1 .. (n - 1) : r[i] = "on" /\ After(i + 1)
    <3>1. k - 1 \in 1 .. (n - 1) /\ (k - 1) + 1 = k BY <1>1
    <3>2. r[k - 1] = "on" BY <1>1, <2>3, <3>1
    <3> QED BY <2>3, <3>1, <3>2
  <2> QED BY <2>1, <2>2, <2>3
<1>4. EndsOn(s, p) <=>
        \/ \E i \in 2 .. n : s[i] = "on" /\ After(i)
        \/ (Head(s) = "on" \/ (p /\ Head(s) # "off")) /\ After(1)
  <2>1. (\A j \in 1 .. n : s[j] # "off") <=> s[1] # "off" /\ After(1)
    <3>1. ASSUME s[1] # "off", After(1), NEW j \in 1 .. n PROVE s[j] # "off"
      <4>1. j = 1 \/ j \in (1 + 1) .. n BY <1>1
      <4> QED BY <3>1, <4>1 DEF After
    <3>2. 1 \in 1 .. n /\ \A j \in (1 + 1) .. n : j \in 1 .. n BY <1>1
    <3> QED BY <3>1, <3>2 DEF After
  <2>2. EndsOn(s, p) <=> \/ \E i \in 1 .. n : s[i] = "on" /\ After(i)
                         \/ p /\ s[1] # "off" /\ After(1)
    BY <2>1 DEF EndsOn, After, n
  <2>3. 1 \in 1 .. n /\ \A i \in 1 .. n : i = 1 \/ i \in 2 .. n BY <1>1
  <2>4. \A i \in 2 .. n : i \in 1 .. n BY <1>1
  <2> QED BY <1>1, <2>2, <2>3, <2>4
<1>5. After(1) <=> \A j \in 2 .. n : s[j] # "off" BY DEF After
<1> QED BY <1>3, <1>4, <1>5 DEF n, r, After

(* What a transmit, a delivery and a loss do to a motor's future.          *)
LEMMA WillAppend ==
    ASSUME TypeOK, NEW m \in Motors, NEW f \in Frames, UNCHANGED power,
           chan' = [chan EXCEPT ![m] = Append(chan[m], f)]
    PROVE  WillBeOn(m)' <=> IF f \in Switches THEN f = "on" ELSE WillBeOn(m)
<1>1. chan[m] \in Seq(Frames) /\ chan'[m] = Append(chan[m], f)
  BY DEF TypeOK
<1> QED BY <1>1, EndsAppend DEF WillBeOn

LEMMA WillDeliver ==
    ASSUME TypeOK, NEW m \in Motors, Deliver(m)
    PROVE  WillBeOn(m)' <=> WillBeOn(m)
<1>1. /\ chan[m] \in Seq(Frames) /\ chan[m] # <<>>
      /\ chan'[m] = Tail(chan[m])
      /\ power' = Switched(m)
  BY DEF Deliver, TypeOK
<1>2. m \in power' <=>
        Head(chan[m]) = "on" \/ (m \in power /\ Head(chan[m]) # "off")
  BY <1>1 DEF Switched
<1> DEFINE Later == \E i \in 2 .. Len(chan[m]) :
                      /\ chan[m][i] = "on"
                      /\ \A j \in (i + 1) .. Len(chan[m]) : chan[m][j] # "off"
           NoOff == \A j \in 2 .. Len(chan[m]) : chan[m][j] # "off"
<1>3. EndsOn(Tail(chan[m]), m \in power') <=>
        Later \/ (m \in power' /\ NoOff)
  BY <1>1, EndsTail
<1>4. EndsOn(chan[m], m \in power) <=>
        \/ Later
        \/ (Head(chan[m]) = "on" \/ (m \in power /\ Head(chan[m]) # "off"))
           /\ NoOff
  BY <1>1, EndsTail
<1> QED BY <1>1, <1>2, <1>3, <1>4 DEF WillBeOn

LEMMA WillLose ==
    ASSUME TypeOK, NEW m \in Motors, Lose(m), m \notin lost'
    PROVE  WillBeOn(m)' <=> WillBeOn(m)
<1>1. /\ chan[m] \in Seq(Frames) /\ chan[m] # <<>>
      /\ chan'[m] = Tail(chan[m])
      /\ UNCHANGED power
      /\ \/ Head(chan[m]) \notin Switches
         \/ \E k \in 2 .. Len(chan[m]) : chan[m][k] \in Switches
  BY DEF Lose, TypeOK
<1> DEFINE Later == \E i \in 2 .. Len(chan[m]) :
                      /\ chan[m][i] = "on"
                      /\ \A j \in (i + 1) .. Len(chan[m]) : chan[m][j] # "off"
           NoOff == \A j \in 2 .. Len(chan[m]) : chan[m][j] # "off"
<1>2. Head(chan[m]) \in Switches /\ NoOff => Later
  <2>1. SUFFICES ASSUME Head(chan[m]) \in Switches, NoOff PROVE Later
    OBVIOUS
  <2>2. PICK k \in 2 .. Len(chan[m]) : chan[m][k] \in Switches
    BY <1>1, <2>1
  <2>3. chan[m][k] = "on" BY <2>1, <2>2 DEF Switches
  <2>4. Len(chan[m]) \in Nat BY <1>1, LenProperties
  <2>5. \A j \in (k + 1) .. Len(chan[m]) : j \in 2 .. Len(chan[m])
    BY <2>2, <2>4
  <2> QED BY <2>1, <2>2, <2>3, <2>5
<1>3. EndsOn(Tail(chan[m]), m \in power) <=>
        Later \/ (m \in power /\ NoOff)
  BY <1>1, EndsTail
<1>4. WillBeOn(m)' <=> Later \/ (m \in power /\ NoOff)
  BY <1>1, <1>3 DEF WillBeOn
<1>5. WillBeOn(m) <=>
        \/ Later
        \/ (Head(chan[m]) = "on" \/ (m \in power /\ Head(chan[m]) # "off"))
           /\ NoOff
  BY <1>1, EndsTail DEF WillBeOn
<1> QED BY <1>2, <1>4, <1>5 DEF Switches

(* The batches that switch motors, and what can be left of a batch.        *)
SwitchSteps == {"init_all", "zero_all", "deinit_all"}
Switching == motors_mutex = "exe" /\ Head(todo["exe"]) \in SwitchSteps
BatchOf == IF Switching THEN Head(todo["exe"]) ELSE "none"

RestOf(b) ==
    CASE b = "init_all"   -> {<<"off", "other", "on", "other">>,
                              <<"other", "on", "other">>, <<"on", "other">>,
                              <<"other">>, <<>>}
      [] b = "zero_all"   -> {<<"other", "other", "off">>,
                              <<"other", "off">>, <<"off">>, <<>>}
      [] b = "deinit_all" -> {<<"off">>, <<>>}
      [] OTHER            -> {<<"other">>, <<"read">>, <<>>}

(* What is left switches nothing any more.                                 *)
Quiet == {<<"other">>, <<>>}

LEMMA RestBegin ==
    ASSUME NEW b \in Batches
    PROVE  /\ b \in SwitchSteps => /\ CommandsOf[b] \in RestOf(b)
                                   /\ CommandsOf[b] \notin Quiet
           /\ b \notin SwitchSteps => CommandsOf[b] \in RestOf("none")
<1>1. CASE b = "init_all"
  BY <1>1, BatchCommands DEF SwitchSteps, RestOf, Quiet
<1>2. CASE b = "zero_all"
  BY <1>2, BatchCommands DEF SwitchSteps, RestOf, Quiet
<1>3. CASE b = "deinit_all"
  BY <1>3, BatchCommands DEF SwitchSteps, RestOf, Quiet
<1>4. CASE b \in {"mit_all", "refresh_all", "clear_all"}
  BY <1>4, BatchCommands DEF SwitchSteps, RestOf
<1>5. CASE b = "read_all"
  BY <1>5, BatchCommands DEF SwitchSteps, RestOf
<1> QED BY <1>1, <1>2, <1>3, <1>4, <1>5, BatchCommands

LEMMA RestTail ==
    ASSUME NEW b \in SwitchSteps \cup {"none"}, NEW s \in RestOf(b), s # <<>>
    PROVE  /\ Tail(s) \in RestOf(b)
           /\ Head(s) = "on" => b = "init_all" /\ Tail(s) \in Quiet
           /\ Head(s) = "off" /\ b = "init_all" => Tail(s) \notin Quiet
           /\ Head(s) = "off" => b # "none"
           /\ Head(s) = "other" /\ s \notin Quiet => Tail(s) \notin Quiet
           /\ Head(s) = "read" => b = "none"
<1> USE DEF RestOf, Quiet
<1>1. CASE b = "init_all"
  <2>1. CASE s = <<"off", "other", "on", "other">> BY <1>1, <2>1
  <2>2. CASE s = <<"other", "on", "other">> BY <1>1, <2>2
  <2>3. CASE s = <<"on", "other">> BY <1>1, <2>3
  <2>4. CASE s = <<"other">> BY <1>1, <2>4
  <2> QED BY <1>1, <2>1, <2>2, <2>3, <2>4
<1>2. CASE b = "zero_all"
  <2>1. CASE s = <<"other", "other", "off">> BY <1>2, <2>1
  <2>2. CASE s = <<"other", "off">> BY <1>2, <2>2
  <2>3. CASE s = <<"off">> BY <1>2, <2>3
  <2> QED BY <1>2, <2>1, <2>2, <2>3
<1>3. CASE b = "deinit_all"
  <2>1. s = <<"off">> BY <1>3
  <2> QED BY <1>3, <2>1
<1>4. CASE b = "none"
  <2>1. CASE s = <<"other">> BY <1>4, <2>1
  <2>2. CASE s = <<"read">> BY <1>4, <2>2
  <2> QED BY <1>4, <2>1, <2>2
<1> HIDE DEF RestOf, Quiet
<1> QED BY <1>1, <1>2, <1>3, <1>4 DEF SwitchSteps

(* A function that switches the motors goes on to store is_init_, except   *)
(* set_zeros; nobody else does.                                            *)
LEMMA CtlSwitches ==
    ASSUME NEW s \in CtlTodo, s # <<>>
    PROVE  Head(s) \notin SwitchSteps \cup {"set_init", "clear_init"}
<1> USE DEF CtlTodo, Apply, SwitchSteps
<1>1. CASE s = Apply BY <1>1
<1>2. CASE s = <<"read_all", "ankle", "policy_target", "mit_all">> BY <1>2
<1>3. CASE s = <<"ankle", "policy_target", "mit_all">> BY <1>3
<1>4. CASE s = <<"policy_target", "mit_all">> BY <1>4
<1>5. CASE s = <<"mit_all">> BY <1>5
<1> QED BY <1>1, <1>2, <1>3, <1>4, <1>5

LEMMA ExeSwitches ==
    ASSUME NEW s \in ExeTodo, s # <<>>
    PROVE  /\ Head(s) = "init_all" =>
                Tail(s) # <<>> /\ Head(Tail(s)) = "set_init"
           /\ Head(s) = "deinit_all" =>
                Tail(s) # <<>> /\ Head(Tail(s)) = "clear_init"
           /\ Head(s) \notin {"init_all", "deinit_all"} /\ Tail(s) # <<>> =>
                Head(Tail(s)) \notin {"set_init", "clear_init"}
<1> USE DEF ExeTodo
<1>1. CASE s = Reset BY <1>1 DEF Reset
<1>2. CASE s = <<"mit_all", "mit_all">> BY <1>2
<1>3. CASE s = <<"mit_all">> BY <1>3
<1>4. CASE s = Refresh BY <1>4 DEF Refresh
<1>5. CASE s = <<"refresh_all", "read_all", "ankle">> BY <1>5
<1>6. CASE s = <<"read_all", "ankle">> BY <1>6
<1>7. CASE s = <<"ankle">> BY <1>7
<1>8. CASE s = Zeros BY <1>8 DEF Zeros
<1>9. CASE s = Clear BY <1>9 DEF Clear
<1>10. CASE s = InitMotors BY <1>10 DEF InitMotors
<1>11. CASE s = <<"set_init">> BY <1>11
<1>12. CASE s = DeinitMotors BY <1>12 DEF DeinitMotors
<1>13. CASE s = <<"clear_init">> BY <1>13
<1>14. CASE s = Destroy BY <1>14 DEF Destroy
<1>15. CASE s = <<"clear_init", "gone">> BY <1>15
<1>16. CASE s = <<"gone">> BY <1>16
<1> QED BY <1>1, <1>2, <1>3, <1>4, <1>5, <1>6, <1>7, <1>8,
            <1>9, <1>10, <1>11, <1>12, <1>13, <1>14, <1>15, <1>16

(* What the executor has told the motors to be, although is_init_ may not  *)
(* say so yet; a motor whose switch frames are still to come is excepted.  *)
ToldOn  == \/ At("exe", "set_init")
           \/ motors_mutex = "exe" /\ At("exe", "init_all")
ToldOff == \/ At("exe", "clear_init")
           \/ /\ motors_mutex = "exe"
              /\ At("exe", "zero_all") \/ At("exe", "deinit_all")
Told == ToldOn \/ (~ToldOff /\ is_init /\ ~zeroed)

Pending(m) == Switching /\ batch[m] \notin Quiet

PowerAt(m) == m \in lost \/ Pending(m) \/ (WillBeOn(m) <=> Told)

Zeroing == motors_mutex = "exe" /\ At("exe", "zero_all")

PowerInv ==
    /\ Zeroing => zeroed
    /\ \A m \in Motors : batch[m] \in RestOf(BatchOf)
    /\ \A m \in Motors : PowerAt(m)

LEMMA PowerInit == Init => PowerInv
<1> SUFFICES ASSUME Init PROVE PowerInv
  OBVIOUS
<1>1. ~Switching /\ BatchOf = "none" BY DEF Init, Switching, BatchOf
<1>2. \A m \in Motors : batch[m] \in RestOf(BatchOf)
  BY <1>1 DEF Init, RestOf, SwitchSteps
<1>3. ~Told BY DEF Init, Told, ToldOn, At, Threads
<1>4. ASSUME NEW m \in Motors PROVE ~WillBeOn(m)
  <2>1. chan[m] = <<>> /\ m \notin power BY DEF Init
  <2>2. Len(<<>>) = 0 BY EmptySeq
  <2> QED BY <2>1, <2>2 DEF WillBeOn, EndsOn
<1>5. ~Zeroing BY DEF Init, Zeroing
<1> QED BY <1>2, <1>3, <1>4, <1>5 DEF PowerInv, PowerAt

(* Steps that touch neither a batch nor a channel.                         *)
LEMMA PowerKept ==
    ASSUME TypeOK, PowerInv, UNCHANGED <<batch, chan, power, lost>>,
           BatchOf' = BatchOf, Told' <=> Told, Switching' <=> Switching,
           Zeroing' => zeroed'
    PROVE  PowerInv'
<1>1. ASSUME NEW m \in Motors PROVE PowerAt(m)'
  <2>1. WillBeOn(m)' <=> WillBeOn(m) BY DEF WillBeOn
  <2>2. Pending(m)' <=> Pending(m) BY DEF Pending
  <2> QED BY <2>1, <2>2 DEF PowerInv, PowerAt
<1> QED BY <1>1 DEF PowerInv

LEMMA PowerSteps ==
    ASSUME TypeOK, BatchInv, ScriptInv, PowerInv,
           NEW t \in Threads,
           LockJoints(t) \/ Ankle(t) \/ WriteTarget(t) \/ StoreInit(t)
             \/ Gone(t)
    PROVE  PowerInv'
<1> USE DEF StepFrame, locks, drivers, device
<1>0. Threads = {"ctl", "exe"} BY DEF Threads
<1>1. /\ todo[t] # <<>>
      /\ Head(todo[t]) \notin Batches
      /\ todo' = [todo EXCEPT ![t] = Tail(todo[t])]
      /\ UNCHANGED <<motors_mutex, batch, chan, power, lost>>
  BY BatchCommands
  DEF LockJoints, Ankle, WriteTarget, StoreInit, Gone, At, Done
<1>2. motors_mutex # t BY <1>1 DEF BatchInv, BatchHeld
<1>3. CASE t = "ctl"
  <2>1. todo'["exe"] = todo["exe"] BY <1>0, <1>1, <1>3 DEF TypeOK
  <2>2. ~StoreInit(t)
    BY <1>1, <1>3, CtlSwitches DEF StoreInit, At, ScriptInv
  <2>3. UNCHANGED <<is_init, zeroed>>
    BY <2>2 DEF LockJoints, Ankle, WriteTarget, Gone
  <2>4. Switching' <=> Switching BY <1>1, <2>1 DEF Switching
  <2>5. BatchOf' = BatchOf BY <2>1, <2>4 DEF BatchOf
  <2>6. Told' <=> Told BY <1>1, <2>1, <2>3 DEF Told, ToldOn, ToldOff, At
  <2>7. Zeroing' => zeroed'
    BY <1>1, <2>1, <2>3 DEF PowerInv, Zeroing, At
  <2> QED BY <1>1, <2>4, <2>5, <2>6, <2>7, PowerKept
<1>4. CASE t = "exe"
  <2>1. todo'["exe"] = Tail(todo["exe"]) BY <1>0, <1>1, <1>4 DEF TypeOK
  <2>2. ~Switching /\ ~Switching' BY <1>1, <1>2, <1>4 DEF Switching
  <2>3. ~At("exe", "set_init")' /\ ~At("exe", "clear_init")'
    BY <1>1, <1>4, <2>1, ExeSwitches, BatchCommands DEF At, ScriptInv
  <2>4. Told' <=> is_init' /\ ~zeroed'
    BY <1>1, <1>2, <1>4, <2>3 DEF Told, ToldOn, ToldOff
  <2>5. Told' <=> Told
    <3>1. CASE At("exe", "set_init")
      <4>1. is_init' = TRUE /\ zeroed' = FALSE
        BY <1>4, <3>1
        DEF At, LockJoints, Ankle, WriteTarget, StoreInit, Gone
      <4> QED BY <2>4, <3>1, <4>1 DEF Told, ToldOn
    <3>2. CASE At("exe", "clear_init")
      <4>1. is_init' = FALSE
        BY <1>4, <3>2
        DEF At, LockJoints, Ankle, WriteTarget, StoreInit, Gone
      <4>2. ~ToldOn /\ ToldOff
        BY <1>2, <1>4, <3>2 DEF At, ToldOn, ToldOff
      <4> QED BY <2>4, <4>1, <4>2 DEF Told
    <3>3. CASE ~At("exe", "set_init") /\ ~At("exe", "clear_init")
      <4>1. UNCHANGED <<is_init, zeroed>>
        BY <1>4, <3>3 DEF LockJoints, Ankle, WriteTarget, StoreInit, Gone
      <4> QED BY <1>2, <1>4, <2>4, <3>3, <4>1 DEF Told, ToldOn, ToldOff
    <3> QED BY <3>1, <3>2, <3>3
  <2>6. ~Zeroing' BY <1>1, <1>2, <1>4 DEF Zeroing
  <2> QED BY <1>1, <2>2, <2>5, <2>6, PowerKept DEF BatchOf
<1> QED BY <1>0, <1>3, <1>4

LEMMA PowerEnter ==
    ASSUME TypeOK, BatchInv, PowerInv, NEW t \in Threads,
           NEW s \in {Apply, Reset, Refresh, Zeros, Clear, InitMotors,
                      DeinitMotors, Destroy},
           Enter(t, s)
    PROVE  PowerInv'
<1>0. Threads = {"ctl", "exe"} BY DEF Threads
<1>1. /\ todo[t] = <<>>
      /\ todo' = [todo EXCEPT ![t] = s]
      /\ UNCHANGED <<motors_mutex, is_init, zeroed, batch, chan, power, lost>>
  BY DEF Enter, Idle, locks, drivers, device
<1>2. motors_mutex # t BY <1>1 DEF BatchInv, BatchHeld
<1>3. Head(s) \notin {"set_init", "clear_init"}
  BY DEF Apply, Reset, Refresh, Zeros, Clear, InitMotors, DeinitMotors,
         Destroy
<1>4. CASE t = "ctl"
  <2>1. todo'["exe"] = todo["exe"] BY <1>0, <1>1, <1>4 DEF TypeOK
  <2> QED
    BY <1>1, <2>1, PowerKept
    DEF Switching, BatchOf, Told, ToldOn, ToldOff, At, PowerInv, Zeroing
<1>5. CASE t = "exe"
  <2>1. todo["exe"] = <<>> /\ todo'["exe"] = s
    BY <1>0, <1>1, <1>5 DEF TypeOK
  <2>2. ~Switching /\ ~Switching' BY <1>1, <1>2, <1>5 DEF Switching
  <2>3. Told' <=> Told
    BY <1>1, <1>2, <1>3, <1>5, <2>1 DEF Told, ToldOn, ToldOff, At
  <2>4. ~Zeroing' BY <1>1, <1>2, <1>5 DEF Zeroing
  <2> QED BY <1>1, <2>2, <2>3, <2>4, PowerKept DEF BatchOf
<1> QED BY <1>0, <1>4, <1>5

LEMMA PowerBegin ==
    ASSUME TypeOK, BatchInv, ScriptInv, PowerInv, NEW t \in Threads, Begin(t)
    PROVE  PowerInv'
<1> USE DEF threads, device
<1>0. Threads = {"ctl", "exe"} BY DEF Threads
<1>1. PICK b \in Batches : /\ At(t, b)
                           /\ batch' = [m \in Motors |-> CommandsOf[b]]
                           /\ zeroed' = (zeroed \/ b = "zero_all")
  BY DEF Begin
<1>2. /\ motors_mutex = "free" /\ motors_mutex' = t
      /\ UNCHANGED <<todo, is_init, chan, power, lost>>
  BY DEF Begin
<1>3. \A m \in Motors : batch'[m] = CommandsOf[b] /\ batch[m] = <<>>
  BY <1>1, <1>2 DEF BatchInv, Finished
<1>4. ~Switching BY <1>2 DEF Switching
<1>5. CASE t = "exe" /\ b \in SwitchSteps
  <2>1. Switching' /\ BatchOf' = b
    BY <1>1, <1>2, <1>5 DEF Switching, BatchOf, At
  <2>2. \A m \in Motors : Pending(m)' /\ batch'[m] \in RestOf(b)
    BY <1>3, <1>5, <2>1, RestBegin DEF Pending
  <2>3. Zeroing' => zeroed' BY <1>1, <1>2, <1>5 DEF Zeroing, At
  <2> QED BY <2>1, <2>2, <2>3 DEF PowerInv, PowerAt
<1>6. CASE ~(t = "exe" /\ b \in SwitchSteps)
  <2>1. b \notin SwitchSteps
    BY <1>0, <1>1, <1>6, CtlSwitches DEF At, ScriptInv
  <2>2. ~Switching'
    BY <1>1, <1>2, <2>1 DEF Switching, At
  <2>3. BatchOf' = "none" BY <2>2 DEF BatchOf
  <2>4. \A m \in Motors : batch'[m] \in RestOf(BatchOf')
    BY <1>3, <2>1, <2>3, RestBegin
  <2>5. Told' <=> Told
    <3>1. zeroed' <=> zeroed BY <1>1, <2>1 DEF SwitchSteps
    <3>2. ToldOn' <=> ToldOn
      BY <1>1, <1>2, <2>1 DEF ToldOn, At, SwitchSteps
    <3>3. ToldOff' <=> ToldOff
      BY <1>1, <1>2, <2>1 DEF ToldOff, At, SwitchSteps
    <3> QED BY <1>2, <3>1, <3>2, <3>3 DEF Told
  <2>6. ASSUME NEW m \in Motors PROVE PowerAt(m)'
    <3>1. ~Pending(m) BY <1>4 DEF Pending
    <3>2. WillBeOn(m)' <=> WillBeOn(m) BY <1>2 DEF WillBeOn
    <3> QED BY <1>2, <2>5, <3>1, <3>2 DEF PowerInv, PowerAt
  <2>7. ~Zeroing' BY <1>1, <1>2, <2>1 DEF Zeroing, At, SwitchSteps
  <2> QED BY <2>4, <2>6, <2>7 DEF PowerInv
<1> QED BY <1>5, <1>6

LEMMA PowerEnd ==
    ASSUME TypeOK, BatchInv, ScriptInv, PowerInv, NEW t \in Threads, End(t)
    PROVE  PowerInv'
<1> USE DEF drivers, device
<1>0. Threads = {"ctl", "exe"} BY DEF Threads
<1>1. /\ motors_mutex = t /\ motors_mutex' = "free"
      /\ UNCHANGED <<is_init, zeroed, batch, chan, power, lost>>
      /\ \A m \in Motors : batch[m] = <<>>
  BY DEF End, Finished
<1>2. todo[t] # <<>> /\ Head(todo[t]) \in Batches
  BY <1>1 DEF BatchInv, BatchHeld
<1>3. ~Switching' /\ BatchOf' = "none" BY <1>1 DEF Switching, BatchOf
<1>4. \A m \in Motors : batch'[m] \in RestOf(BatchOf')
  <2>1. <<>> \in RestOf("none") BY DEF RestOf
  <2> QED BY <1>1, <1>3, <2>1
<1>5. Told' <=> Told
  <2>1. CASE t = "ctl"
    <3>1. todo'["exe"] = todo["exe"]
      BY <1>0, <2>1 DEF End, Done, TypeOK
    <3>2. ToldOn' <=> ToldOn BY <1>1, <2>1, <3>1 DEF ToldOn, At
    <3>3. ToldOff' <=> ToldOff BY <1>1, <2>1, <3>1 DEF ToldOff, At
    <3> QED BY <1>1, <3>2, <3>3 DEF Told
  <2>2. CASE t = "exe"
    <3>1. todo'["exe"] = Tail(todo["exe"])
      BY <1>0, <2>2 DEF End, Done, TypeOK
    <3>2. todo["exe"] \in ExeTodo BY DEF ScriptInv
    <3>3. motors_mutex = "exe" /\ motors_mutex' # "exe" BY <1>1, <2>2
    <3>4. ~At("exe", "set_init") /\ ~At("exe", "clear_init")
      BY <1>2, <2>2, BatchCommands DEF At
    <3>5. CASE Head(todo["exe"]) = "init_all"
      <4>1. ToldOn' BY <1>2, <2>2, <3>1, <3>2, <3>5, ExeSwitches
                    DEF ToldOn, At
      <4>2. ToldOn BY <1>2, <2>2, <3>3, <3>5 DEF ToldOn, At
      <4> QED BY <4>1, <4>2 DEF Told
    <3>6. CASE Head(todo["exe"]) = "deinit_all"
      <4>1. At("exe", "clear_init")' /\ ~At("exe", "set_init")'
        BY <1>2, <2>2, <3>1, <3>2, <3>6, ExeSwitches DEF At
      <4>2. ToldOff' /\ ~ToldOn' BY <3>3, <4>1 DEF ToldOn, ToldOff
      <4>3. ToldOff /\ ~ToldOn
        BY <1>2, <2>2, <3>3, <3>4, <3>6 DEF ToldOn, ToldOff, At
      <4> QED BY <4>2, <4>3 DEF Told
    <3>7. CASE Head(todo["exe"]) \notin {"init_all", "deinit_all"}
      <4>1. ~At("exe", "set_init")' /\ ~At("exe", "clear_init")'
        BY <1>2, <2>2, <3>1, <3>2, <3>7, ExeSwitches DEF At
      <4>2. ~ToldOn' /\ ~ToldOff' BY <3>3, <4>1 DEF ToldOn, ToldOff
      <4>3. ~ToldOn BY <3>4, <3>7 DEF ToldOn, At
      <4>4. ToldOff <=> Head(todo["exe"]) = "zero_all"
        BY <1>2, <2>2, <3>3, <3>4, <3>7 DEF ToldOff, At
      <4>5. Head(todo["exe"]) = "zero_all" => zeroed
        BY <1>2, <2>2, <3>3 DEF PowerInv, Zeroing, At
      <4> QED BY <1>1, <4>2, <4>3, <4>4, <4>5 DEF Told
    <3> QED BY <3>5, <3>6, <3>7
  <2> QED BY <1>0, <2>1, <2>2
<1>6. ASSUME NEW m \in Motors PROVE PowerAt(m)'
  <2>1. ~Pending(m) BY <1>1 DEF Pending, Quiet
  <2>2. WillBeOn(m)' <=> WillBeOn(m) BY <1>1 DEF WillBeOn
  <2> QED BY <1>1, <1>5, <2>1, <2>2 DEF PowerInv, PowerAt
<1>7. ~Zeroing' BY <1>1 DEF Zeroing
<1> QED BY <1>4, <1>6, <1>7 DEF PowerInv

(* Steps of a task or the bus: the functions stand still.                  *)
LEMMA ToldKept ==
    ASSUME UNCHANGED <<todo, motors_mutex, is_init, zeroed>>
    PROVE  /\ BatchOf' = BatchOf
           /\ Switching' <=> Switching
           /\ Told' <=> Told
           /\ Zeroing' <=> Zeroing
<1>1. Switching' <=> Switching BY DEF Switching
<1>2. BatchOf' = BatchOf BY <1>1 DEF BatchOf
<1>3. (Told' <=> Told) /\ (Zeroing' <=> Zeroing)
  BY DEF Told, ToldOn, ToldOff, Zeroing, At
<1> QED BY <1>1, <1>2, <1>3

LEMMA PowerTransmit ==
    ASSUME TypeOK, BatchInv, PowerInv, NEW m \in Motors, Transmit(m)
    PROVE  PowerInv'
<1> USE DEF locks, threads
<1>1. PICK f \in Frames :
        /\ Turn(m, f)
        /\ batch' = [batch EXCEPT ![m] = Tail(@)]
        /\ IF Len(chan[m]) < ChanSize
           THEN /\ chan' = [chan EXCEPT ![m] = Append(@, f)]
                /\ lost' = IF f \in Switches THEN lost \ {m} ELSE lost
           ELSE /\ UNCHANGED chan
                /\ lost' = IF f \in Switches THEN lost \cup {m} ELSE lost
  BY DEF Transmit
<1>2. UNCHANGED <<todo, motors_mutex, is_init, zeroed, power>>
  BY DEF Transmit
<1>3. /\ BatchOf' = BatchOf
      /\ Switching' <=> Switching
      /\ Told' <=> Told
      /\ Zeroing' => zeroed'
  BY <1>2, ToldKept DEF PowerInv
<1> DEFINE b == BatchOf
           s == batch[m]
<1>4. /\ b \in SwitchSteps \cup {"none"}
      /\ b # "none" <=> Switching
      /\ b = "init_all" => ToldOn
      /\ b \in {"zero_all", "deinit_all"} => ToldOff /\ ~ToldOn
  <2>1. motors_mutex = "exe" => todo["exe"] # <<>>
    BY DEF BatchInv, BatchHeld, Threads
  <2> QED BY <2>1 DEF BatchOf, Switching, SwitchSteps, ToldOn, ToldOff, At
<1>5. s \in RestOf(b) /\ s # <<>> /\ Head(s) = f
  BY <1>1 DEF PowerInv, Turn
<1>6. batch'[m] = Tail(s) /\ \A k \in Motors \ {m} : batch'[k] = batch[k]
  BY <1>1 DEF TypeOK
<1> HIDE DEF b, s
<1>7. /\ Tail(s) \in RestOf(b)
      /\ f = "on" => b = "init_all" /\ Tail(s) \in Quiet
      /\ f = "off" /\ b = "init_all" => Tail(s) \notin Quiet
      /\ f = "off" => b # "none"
      /\ f = "other" /\ s \notin Quiet => Tail(s) \notin Quiet
  BY <1>4, <1>5, RestTail
<1>8. \A k \in Motors : batch'[k] \in RestOf(BatchOf')
  BY <1>3, <1>6, <1>7 DEF PowerInv, b
<1>9. ASSUME NEW k \in Motors \ {m} PROVE PowerAt(k)'
  <2>1. chan'[k] = chan[k] /\ (k \in lost' <=> k \in lost)
    BY <1>1 DEF TypeOK
  <2>2. WillBeOn(k)' <=> WillBeOn(k) BY <1>2, <2>1 DEF WillBeOn
  <2>3. Pending(k)' <=> Pending(k) BY <1>3, <1>6 DEF Pending
  <2> QED BY <1>3, <2>1, <2>2, <2>3 DEF PowerInv, PowerAt
<1>10. PowerAt(m)'
  <2>1. CASE f \in Switches /\ ~(Len(chan[m]) < ChanSize)
    BY <1>1, <2>1 DEF PowerAt
  <2>2. CASE f \in Switches /\ Len(chan[m]) < ChanSize
    <3>1. WillBeOn(m)' <=> f = "on" BY <1>1, <1>2, <2>2, WillAppend
    <3>2. CASE f = "on"
      BY <1>3, <1>4, <1>7, <3>1, <3>2 DEF Told, PowerAt
    <3>3. CASE f = "off"
      <4>1. CASE b = "init_all"
        <5>1. Pending(m)' BY <1>3, <1>4, <1>6, <1>7, <3>3, <4>1 DEF Pending
        <5> QED BY <5>1 DEF PowerAt
      <4>2. CASE b # "init_all"
        <5>1. ~Told
          BY <1>4, <1>7, <3>3, <4>2 DEF Told, SwitchSteps
        <5> QED BY <1>3, <3>1, <3>3, <5>1 DEF PowerAt
      <4> QED BY <4>1, <4>2
    <3> QED BY <2>2, <3>2, <3>3 DEF Switches
  <2>3. CASE f \notin Switches
    <3>1. f = "other" /\ lost' = lost BY <1>1, <2>3 DEF Frames
    <3>2. WillBeOn(m)' <=> WillBeOn(m)
      <4>1. CASE Len(chan[m]) < ChanSize
        BY <1>1, <1>2, <2>3, <4>1, WillAppend
      <4>2. CASE ~(Len(chan[m]) < ChanSize)
        BY <1>1, <1>2, <4>2 DEF WillBeOn
      <4> QED BY <4>1, <4>2
    <3>3. Pending(m) => Pending(m)'
      BY <1>3, <1>6, <1>7, <3>1 DEF Pending, s
    <3> QED BY <1>3, <3>1, <3>2, <3>3 DEF PowerInv, PowerAt
  <2> QED BY <2>1, <2>2, <2>3
<1> QED BY <1>3, <1>8, <1>9, <1>10 DEF PowerInv

LEMMA PowerRead ==
    ASSUME TypeOK, PowerInv, NEW m \in Motors, Read(m)
    PROVE  PowerInv'
<1> USE DEF locks, threads, device
<1>1. UNCHANGED <<todo, motors_mutex, is_init, zeroed, chan, power, lost>>
  BY DEF Read
<1>2. /\ BatchOf' = BatchOf
      /\ Switching' <=> Switching
      /\ Told' <=> Told
      /\ Zeroing' => zeroed'
  BY <1>1, ToldKept DEF PowerInv
<1>3. BatchOf \in SwitchSteps \cup {"none"}
  BY DEF BatchOf, Switching
<1>4. BatchOf = "none"
  BY <1>3, RestTail DEF PowerInv, Read, Turn
<1>5. ~Switching BY <1>4 DEF BatchOf, SwitchSteps, Switching
<1>6. \A k \in Motors : batch'[k] \in {batch[k], <<>>}
  BY DEF Read, TypeOK
<1>7. <<>> \in RestOf("none") BY DEF RestOf
<1>8. ASSUME NEW k \in Motors PROVE PowerAt(k)'
  <2>1. ~Pending(k) BY <1>5 DEF Pending
  <2>2. WillBeOn(k)' <=> WillBeOn(k) BY <1>1 DEF WillBeOn
  <2> QED BY <1>1, <1>2, <2>1, <2>2 DEF PowerInv, PowerAt
<1> QED BY <1>2, <1>4, <1>6, <1>7, <1>8 DEF PowerInv

LEMMA PowerBus ==
    ASSUME TypeOK, PowerInv, NEW m \in Motors, Deliver(m) \/ Lose(m)
    PROVE  PowerInv'
<1> USE DEF CodeFrame, locks, threads
<1>1. UNCHANGED <<todo, motors_mutex, is_init, zeroed, batch>>
  BY DEF Deliver, Lose
<1>2. /\ BatchOf' = BatchOf
      /\ Switching' <=> Switching
      /\ Told' <=> Told
      /\ Zeroing' => zeroed'
  BY <1>1, ToldKept DEF PowerInv
<1>3. \A k \in Motors : Pending(k)' <=> Pending(k)
  BY <1>1, <1>2 DEF Pending
<1>4. ASSUME NEW k \in Motors \ {m} PROVE PowerAt(k)'
  <2>1. /\ chan'[k] = chan[k]
        /\ k \in power' <=> k \in power
        /\ k \in lost' <=> k \in lost
    BY DEF Deliver, Lose, Switched, TypeOK
  <2>2. WillBeOn(k)' <=> WillBeOn(k) BY <2>1 DEF WillBeOn
  <2> QED BY <1>2, <1>3, <2>1, <2>2 DEF PowerInv, PowerAt
<1>5. PowerAt(m)'
  <2>1. CASE m \in lost' BY <2>1 DEF PowerAt
  <2>2. CASE m \notin lost'
    <3>1. WillBeOn(m)' <=> WillBeOn(m)
      BY <2>2, WillDeliver, WillLose
    <3>2. m \notin lost
      <4>1. CASE Deliver(m) BY <2>2, <4>1 DEF Deliver
      <4>2. CASE Lose(m)
        <5>1. lost' = lost \/ lost' = lost \cup {m} BY <4>2 DEF Lose
        <5> QED BY <2>2, <5>1
      <4> QED BY <4>1, <4>2
    <3> QED BY <1>2, <1>3, <3>1, <3>2 DEF PowerInv, PowerAt
  <2> QED BY <2>1, <2>2
<1> QED BY <1>1, <1>2, <1>4, <1>5 DEF PowerInv

LEMMA PowerNext ==
    ASSUME TypeOK, BatchInv, ScriptInv, PowerInv, [Next]_vars
    PROVE  PowerInv'
<1>0. "ctl" \in Threads /\ "exe" \in Threads BY DEF Threads
<1>1. CASE ControlTick BY <1>0, <1>1, PowerEnter DEF ControlTick
<1>2. CASE Call BY <1>0, <1>2, PowerEnter DEF Call
<1>3. CASE DestroyRobot BY <1>0, <1>3, PowerEnter DEF DestroyRobot
<1>4. CASE \/ UNCHANGED vars \/ ControlEnds \/ Interrupt
           \/ GetJoints \/ GotJoints
           \/ \E m \in Motors : CountUp(m)
  <2>1. UNCHANGED <<todo, motors_mutex, is_init, zeroed, batch, chan, power,
                    lost>>
    BY <1>4 DEF ControlEnds, Interrupt, GetJoints, GotJoints, CountUp,
                ReaderFrame, vars, locks, threads, drivers, device
  <2> QED BY <2>1, ToldKept, PowerKept DEF PowerInv
<1>5. ASSUME NEW t \in Threads, Local(t) \/ Locking(t) PROVE PowerInv'
  BY <1>5, PowerSteps, PowerBegin, PowerEnd DEF Local, Locking
<1>6. ASSUME NEW m \in Motors, Transmit(m) \/ Read(m) \/ Deliver(m) \/ Lose(m)
      PROVE  PowerInv'
  BY <1>6, PowerTransmit, PowerRead, PowerBus
<1> QED BY <1>1, <1>2, <1>3, <1>4, <1>5, <1>6 DEF Next, Task, Terminated

(* Whatever the control thread sends in between, between two calls of the  *)
(* executor a motor that lost no switch frame is on its way to the state   *)
(* that is_init_ claims for it.                                            *)
THEOREM PowerCorrect == Spec => []PowerFollowsInit
<1>1. Init => PowerInv BY PowerInit
<1>2. TypeOK /\ BatchInv /\ ScriptInv /\ PowerInv /\ [Next]_vars => PowerInv'
  BY PowerNext
<1>3. BatchInv /\ PowerInv => PowerFollowsInit
  <2>1. SUFFICES ASSUME BatchInv, PowerInv, todo["exe"] = <<>>,
                        NEW m \in Motors \ lost
                 PROVE  WillBeOn(m) <=> is_init /\ ~zeroed
    BY DEF PowerFollowsInit
  <2>2. motors_mutex # "exe" BY <2>1 DEF BatchInv, BatchHeld, Threads
  <2>3. ~Pending(m) BY <2>2 DEF Pending, Switching
  <2>4. Told <=> is_init /\ ~zeroed BY <2>1 DEF Told, ToldOn, ToldOff, At
  <2>5. PowerAt(m) /\ m \notin lost BY <2>1 DEF PowerInv
  <2>6. WillBeOn(m) <=> Told BY <2>3, <2>5 DEF PowerAt
  <2> QED BY <2>4, <2>6
<1> QED BY <1>1, <1>2, <1>3, TypeAlways, OfflineAlways, PTL DEF Spec
=============================================================================
