--------------------------- MODULE RobotInterface ---------------------------
(***************************************************************************)
(* RobotInterface and the DM motor drivers: what the control thread, the   *)
(* executor and the receive threads do to the motors.                      *)
(*                                                                         *)
(* A member function is a script of steps: take joint_mutex_, write        *)
(* motor_target_, run one command on all motors, convert the ankle joints, *)
(* store is_init_.  exec_motors_parallel is a batch: it holds              *)
(* motors_mutex_, its tasks (one per interface) run in parallel, and it    *)
(* returns when they have ended.                                           *)
(*                                                                         *)
(* A frame is known by what it does to a motor: switch it on or off, or    *)
(* only make it answer (MIT command, refresh, set zero, clear error,       *)
(* register write).  Between driver and motor there is a lossy FIFO, which *)
(* is what SocketCan implements.                                           *)
(***************************************************************************)
EXTENDS Integers, Sequences

CONSTANTS
    Motors,            \* indices into motors_
    InterfaceOf,       \* the interface of each motor (motor_num_)
    CloseChain,        \* close_chain_motor_idx_
    offline_threshold, \* offline_threshold_
    ChanSize,          \* bound: frames on their way to one motor
    CallBound          \* bound: no call while more commands are unanswered

ASSUME RobotAssumption ==
    /\ Motors \subseteq Nat
    /\ CloseChain \subseteq Motors
    /\ offline_threshold \in Nat
    /\ ChanSize \in Nat \ {0}
    /\ CallBound \in Nat

VARIABLES
    is_init,        \* is_init_
    ok,             \* rclcpp::ok()
    joint_mutex,    \* holder of joint_mutex_
    motors_mutex,   \* holder of motors_mutex_
    motor_target,   \* whose targets motor_target_ holds
    raw,            \* joint_q_ entries that hold motor angles
    todo,           \* thread -> the steps left of the function it is in
    alive,          \* the threads that have not ended
    batch,          \* motor -> the commands left in exec_motors_parallel
    due,            \* motors between transmit and response_count_++
    response_count, \* motor -> response_count_
    offline,        \* the motors apply_action found offline
    chan,           \* frames between driver and motor
    power,          \* the motors that are switched on
    \* History of the execution, read by no action but for the bound
    silent,         \* motor -> commands sent since an answer was heard
    lost,           \* motors whose last switch frame was lost
    zeroed          \* set_zeros ran after the last init_motors

locks   == <<joint_mutex, motors_mutex>>
threads == <<todo, alive, ok>>
drivers == <<batch, due, response_count, offline>>
device  == <<chan, power, lost>>
vars    == <<is_init, locks, motor_target, raw, threads, drivers, device,
             silent, zeroed>>

Threads == {"ctl", "exe"}
Switches == {"on", "off"}
Frames   == Switches \cup {"other"}
Commands == Frames \cup {"read"}

---------------------------------------------------------------------------
(* The member functions.  (First a bug: refresh_joints converts the angles *)
(* before it reads them.)                                                  *)

Refresh_Swapped == <<"lock_joints", "refresh_all", "ankle", "read_all">>

Apply   == <<"lock_joints", "read_all", "ankle", "policy_target", "mit_all">>
Reset   == <<"default_target", "mit_all", "mit_all">>
Refresh == <<"lock_joints", "refresh_all", "read_all", "ankle">>
Zeros   == <<"zero_all">>
Clear   == <<"clear_all">>
InitMotors   == <<"init_all", "set_init">>
DeinitMotors == <<"deinit_all", "clear_init">>
Destroy == <<"deinit_all", "clear_init", "gone">>

(* What a batch makes each driver do: lock_motor switches on, unlock_motor *)
(* switches off.  (First two bugs: the motor is enabled before it is       *)
(* disabled to set its mode, and deinit_motor only asks for the status.)   *)
InitCommands_Swapped == <<"on", "other", "off", "other">>
DeinitCommands_NoUnlock == <<"other">>

InitCommands   == <<"off", "other", "on", "other">>
DeinitCommands == <<"off">>
ZeroCommands   == <<"other", "other", "off">>
One            == <<"other">>

CommandsOf ==
    [read_all    |-> <<"read">>,
     mit_all     |-> One,
     refresh_all |-> One,
     clear_all   |-> One,
     zero_all    |-> ZeroCommands,
     init_all    |-> InitCommands,
     deinit_all  |-> DeinitCommands]

Batches == DOMAIN CommandsOf

Init ==
    /\ is_init = FALSE
    /\ ok = TRUE
    /\ joint_mutex = "free"
    /\ motors_mutex = "free"
    /\ motor_target = "zero"
    /\ raw = {}
    /\ todo = [t \in Threads |-> <<>>]
    /\ alive = Threads
    /\ batch = [m \in Motors |-> <<>>]
    /\ due = {}
    /\ response_count = [m \in Motors |-> 0]
    /\ offline = {}
    /\ chan = [m \in Motors |-> <<>>]
    /\ power = {}
    /\ silent = [m \in Motors |-> 0]
    /\ lost = {}
    /\ zeroed = FALSE

---------------------------------------------------------------------------
(* Who calls what.                                                         *)

Idle(t) == t \in alive /\ todo[t] = <<>>

Enter(t, script) ==
    /\ Idle(t)
    /\ todo' = [todo EXCEPT ![t] = script]
    /\ UNCHANGED <<is_init, ok, locks, motor_target, raw, alive, drivers,
                   device, silent, zeroed>>

(* One turn of control().  apply_action tests is_init_ in the node and in  *)
(* the interface; the second test decides.                                 *)
ControlTick == ok /\ is_init /\ Enter("ctl", Apply)

ControlEnds ==
    /\ Idle("ctl")
    /\ ~ok
    /\ alive' = alive \ {"ctl"}
    /\ UNCHANGED <<is_init, ok, locks, motor_target, raw, todo, drivers,
                   device, silent, zeroed>>

(* The services and the X button.  Only the executor writes is_init_, so   *)
(* what a handler has tested still holds when it calls the robot.          *)
Call ==
    /\ ok
    /\ \A m \in Motors : silent[m] <= CallBound
    /\ \/ ~is_init /\ Enter("exe", InitMotors)
       \/ is_init /\ Enter("exe", DeinitMotors)
       \/ is_init /\ Enter("exe", Reset)
       \/ is_init /\ Enter("exe", Refresh)
       \/ is_init /\ Enter("exe", Zeros)
       \/ Enter("exe", Clear)

(* Ctrl-C.                                                                 *)
Interrupt ==
    /\ ok
    /\ ok' = FALSE
    /\ UNCHANGED <<is_init, locks, motor_target, raw, todo, alive, drivers,
                   device, silent, zeroed>>

(* The node's destructor joins its threads and destroys the robot.         *)
DestroyRobot ==
    /\ ~ok
    /\ "ctl" \notin alive
    /\ joint_mutex # "inf"
    /\ Enter("exe", Destroy)

---------------------------------------------------------------------------
(* The steps of a function.                                                *)

At(t, step) == todo[t] # <<>> /\ Head(todo[t]) = step

Done(t) == todo' = [todo EXCEPT ![t] = Tail(@)]

StepFrame == UNCHANGED <<ok, drivers, device, silent>>

LockJoints(t) ==
    /\ At(t, "lock_joints")
    /\ joint_mutex = "free"
    /\ joint_mutex' = t
    /\ Done(t)
    /\ UNCHANGED <<is_init, motors_mutex, motor_target, raw, alive, zeroed>>
    /\ StepFrame

(* get_forwardQVT for both ankles, and the end of joint_mutex_'s scope.    *)
Ankle(t) ==
    /\ At(t, "ankle")
    /\ raw' = {}
    /\ joint_mutex' = "free"
    /\ Done(t)
    /\ UNCHANGED <<is_init, motors_mutex, motor_target, alive, zeroed>>
    /\ StepFrame

WriteTarget(t) ==
    /\ motors_mutex = "free"
    /\ \/ At(t, "policy_target") /\ motor_target' = "policy"
       \/ At(t, "default_target") /\ motor_target' = "default"
    /\ Done(t)
    /\ UNCHANGED <<is_init, locks, raw, alive, zeroed>>
    /\ StepFrame

StoreInit(t) ==
    /\ \/ At(t, "set_init") /\ is_init' = TRUE /\ zeroed' = FALSE
       \/ At(t, "clear_init") /\ is_init' = FALSE /\ UNCHANGED zeroed
    /\ Done(t)
    /\ UNCHANGED <<locks, motor_target, raw, alive>>
    /\ StepFrame

Gone(t) ==
    /\ At(t, "gone")
    /\ alive' = alive \ {t}
    /\ Done(t)
    /\ UNCHANGED <<is_init, locks, motor_target, raw, zeroed>>
    /\ StepFrame

---------------------------------------------------------------------------
(* exec_motors_parallel.                                                   *)

Begin(t) ==
    /\ motors_mutex = "free"
    /\ \E b \in Batches :
         /\ At(t, b)
         /\ batch' = [m \in Motors |-> CommandsOf[b]]
         /\ zeroed' = (zeroed \/ b = "zero_all")
    /\ motors_mutex' = t
    /\ UNCHANGED <<is_init, ok, joint_mutex, motor_target, raw, todo, alive,
                   due, response_count, offline, device, silent>>

Finished(m) == batch[m] = <<>> /\ m \notin due

SameTask(k, m) == InterfaceOf[k] = InterfaceOf[m]

(* A task goes through the motors of its interface in order.               *)
Turn(m, c) ==
    /\ batch[m] # <<>> /\ Head(batch[m]) = c
    /\ m \notin due
    /\ \A k \in Motors : k < m /\ SameTask(k, m) => Finished(k)

(* The driver hands a frame to transmit; a full queue drops it.  (First a  *)
(* bug: one frame too many is let in.)                                     *)
Transmit_OneTooMany(m) ==
    \E f \in Frames :
      /\ Turn(m, f)
      /\ batch' = [batch EXCEPT ![m] = Tail(@)]
      /\ due' = due \cup {m}
      /\ silent' = [silent EXCEPT ![m] = @ + 1]
      /\ Len(chan[m]) <= ChanSize
      /\ chan' = [chan EXCEPT ![m] = Append(@, f)]
      /\ UNCHANGED <<is_init, locks, motor_target, raw, threads,
                     response_count, offline, power, lost, zeroed>>

Transmit(m) ==
    \E f \in Frames :
      /\ Turn(m, f)
      /\ batch' = [batch EXCEPT ![m] = Tail(@)]
      /\ due' = due \cup {m}
      /\ silent' = [silent EXCEPT ![m] = @ + 1]
      /\ IF Len(chan[m]) < ChanSize
         THEN /\ chan' = [chan EXCEPT ![m] = Append(@, f)]
              /\ lost' = IF f \in Switches THEN lost \ {m} ELSE lost
         ELSE /\ UNCHANGED chan
              /\ lost' = IF f \in Switches THEN lost \cup {m} ELSE lost
      /\ UNCHANGED <<is_init, locks, motor_target, raw, threads,
                     response_count, offline, power, zeroed>>

(* response_count_++, after transmit: the answer may have come before.     *)
(* (The first, a bug: the count is taken before the frame is sent and      *)
(* stored now.)                                                            *)
CountUp_Twice(m) ==
    /\ m \in due
    /\ due' = due \ {m}
    /\ response_count' = [response_count EXCEPT ![m] = @ + 2]
    /\ UNCHANGED <<is_init, locks, motor_target, raw, threads, batch,
                   offline, device, silent, zeroed>>

CountUp(m) ==
    /\ m \in due
    /\ due' = due \ {m}
    /\ response_count' = [response_count EXCEPT ![m] = @ + 1]
    /\ UNCHANGED <<is_init, locks, motor_target, raw, threads, batch,
                   offline, device, silent, zeroed>>

(* The motor's state goes into joint_q_; in apply_action a motor that owes *)
(* too many answers ends the task with an exception.                       *)
IsOffline(m) == motors_mutex = "ctl" /\ response_count[m] > offline_threshold

Read(m) ==
    /\ Turn(m, "read")
    /\ raw' = raw \cup ({m} \cap CloseChain)
    /\ offline' = IF IsOffline(m) THEN offline \cup {m} ELSE offline
    /\ batch' = IF IsOffline(m)
                THEN [k \in Motors |-> IF SameTask(k, m) THEN <<>>
                                       ELSE batch[k]]
                ELSE [batch EXCEPT ![m] = <<>>]
    /\ UNCHANGED <<is_init, locks, motor_target, threads, due,
                   response_count, device, silent, zeroed>>

(* All tasks have ended.  The exception unwinds apply_action, which gives  *)
(* up joint_mutex_, and ends the control thread with rclcpp::shutdown.     *)
(* (First two bugs: refresh_joints repeats its reading while a motor owes  *)
(* answers, and a control thread that ends and shuts nothing down.)        *)
End_Retries(t) ==
    /\ motors_mutex = t
    /\ \A m \in Motors : Finished(m)
    /\ motors_mutex' = "free"
    /\ IF t = "ctl" /\ offline # {}
       THEN /\ todo' = [todo EXCEPT ![t] = <<>>]
            /\ alive' = alive \ {t}
            /\ ok' = FALSE
            /\ joint_mutex' = "free"
       ELSE /\ \/ Done(t)
               \/ /\ At(t, "read_all")
                  /\ \E m \in Motors : response_count[m] > offline_threshold
                  /\ UNCHANGED todo
            /\ UNCHANGED <<alive, ok, joint_mutex>>
    /\ UNCHANGED <<is_init, motor_target, raw, drivers, device, silent,
                   zeroed>>

End_NoShutdown(t) ==
    /\ motors_mutex = t
    /\ \A m \in Motors : Finished(m)
    /\ motors_mutex' = "free"
    /\ IF t = "ctl" /\ offline # {}
       THEN /\ todo' = [todo EXCEPT ![t] = <<>>]
            /\ alive' = alive \ {t}
            /\ joint_mutex' = "free"
       ELSE Done(t) /\ UNCHANGED <<alive, joint_mutex>>
    /\ UNCHANGED <<is_init, ok, motor_target, raw, drivers, device, silent,
                   zeroed>>

End(t) ==
    /\ motors_mutex = t
    /\ \A m \in Motors : Finished(m)
    /\ motors_mutex' = "free"
    /\ IF t = "ctl" /\ offline # {}
       THEN /\ todo' = [todo EXCEPT ![t] = <<>>]
            /\ alive' = alive \ {t}
            /\ ok' = FALSE
            /\ joint_mutex' = "free"
       ELSE /\ Done(t)
            /\ UNCHANGED <<alive, ok, joint_mutex>>
    /\ UNCHANGED <<is_init, motor_target, raw, drivers, device, silent,
                   zeroed>>

---------------------------------------------------------------------------
(* The motors, the bus and the receive threads.                            *)

CodeFrame == UNCHANGED <<is_init, locks, motor_target, raw, threads, batch,
                         due, offline, zeroed>>

Switched(m) == CASE Head(chan[m]) = "on"  -> power \cup {m}
                 [] Head(chan[m]) = "off" -> power \ {m}
                 [] OTHER -> power

(* can_rx_cbk: any answer sets response_count_ to zero.  (The first: a bug,*)
(* it does not.)                                                           *)
CanRxCbk_NoReset(m) ==
    /\ silent' = [silent EXCEPT ![m] = 0]
    /\ UNCHANGED response_count

CanRxCbk(m) ==
    /\ response_count' = [response_count EXCEPT ![m] = 0]
    /\ silent' = [silent EXCEPT ![m] = 0]

(* A motor takes a frame.  It answers, and the receive thread runs the     *)
(* callback; or no answer comes.  (The time an answer takes is spent in    *)
(* chan.)                                                                  *)
Deliver(m) ==
    /\ chan[m] # <<>>
    /\ chan' = [chan EXCEPT ![m] = Tail(@)]
    /\ power' = Switched(m)
    /\ CanRxCbk(m) \/ UNCHANGED <<response_count, silent>>
    /\ UNCHANGED lost
    /\ CodeFrame

Lose(m) ==
    /\ chan[m] # <<>>
    /\ chan' = [chan EXCEPT ![m] = Tail(@)]
    /\ lost' = IF /\ Head(chan[m]) \in Switches
                  /\ \A i \in 2 .. Len(chan[m]) : chan[m][i] \notin Switches
               THEN lost \cup {m} ELSE lost
    /\ UNCHANGED <<power, response_count, silent>>
    /\ CodeFrame

(* get_joint_q and its like, called by the inference thread.               *)
ReaderFrame == UNCHANGED <<is_init, motors_mutex, motor_target, raw, threads,
                           drivers, device, silent, zeroed>>

GetJoints ==
    /\ is_init
    /\ ok
    /\ joint_mutex = "free"
    /\ joint_mutex' = "inf"
    /\ ReaderFrame

GotJoints ==
    /\ joint_mutex = "inf"
    /\ joint_mutex' = "free"
    /\ ReaderFrame

---------------------------------------------------------------------------
Terminated == alive = {} /\ UNCHANGED vars

Local(t) == Ankle(t) \/ StoreInit(t) \/ Gone(t) \/ End(t)
Locking(t) == LockJoints(t) \/ WriteTarget(t) \/ Begin(t)
Task(m) == Transmit(m) \/ CountUp(m) \/ Read(m)

Next ==
    \/ ControlTick \/ ControlEnds \/ Call \/ Interrupt \/ DestroyRobot
    \/ \E t \in Threads : Local(t) \/ Locking(t)
    \/ \E m \in Motors : Task(m) \/ Deliver(m) \/ Lose(m)
    \/ GetJoints \/ GotJoints
    \/ Terminated

Spec == Init /\ [][Next]_vars

(* Threads run on, and a waiter gets a mutex in the end: the control       *)
(* thread, the only one that comes back for them by itself, sleeps between *)
(* two turns.  Nothing makes the bus or a motor work.                      *)
FairSpec ==
    /\ Spec
    /\ WF_vars(ControlEnds) /\ WF_vars(DestroyRobot) /\ WF_vars(GotJoints)
    /\ \A t \in Threads : WF_vars(Local(t)) /\ SF_vars(Locking(t))
    /\ \A m \in Motors : WF_vars(Task(m))

---------------------------------------------------------------------------
Scripts == {Apply, Reset, Refresh, Zeros, Clear, InitMotors, DeinitMotors,
            Destroy}
Steps == Batches \cup {"lock_joints", "ankle", "policy_target",
                       "default_target", "set_init", "clear_init", "gone"}

TypeOK ==
    /\ is_init \in BOOLEAN
    /\ ok \in BOOLEAN
    /\ joint_mutex \in Threads \cup {"free", "inf"}
    /\ motors_mutex \in Threads \cup {"free"}
    /\ motor_target \in {"zero", "policy", "default"}
    /\ raw \subseteq CloseChain
    /\ todo \in [Threads -> Seq(Steps)]
    /\ alive \subseteq Threads
    /\ batch \in [Motors -> Seq(Commands)]
    /\ due \subseteq Motors
    /\ response_count \in [Motors -> Nat]
    /\ offline \subseteq Motors
    /\ chan \in [Motors -> Seq(Frames)]
    /\ \A m \in Motors : Len(chan[m]) <= ChanSize
    /\ power \subseteq Motors
    /\ silent \in [Motors -> Nat]
    /\ lost \subseteq Motors
    /\ zeroed \in BOOLEAN

(* Nobody reads an ankle angle that is still a motor angle: whoever fills  *)
(* joint_q_ converts it before giving up joint_mutex_.  The exception that *)
(* reports a motor offline is the exception.                               *)
JointsConverted ==
    joint_mutex \in {"free", "inf"} => raw = {} \/ offline # {}

(* What is on its way to a motor included, will it end up switched on?     *)
EndsOn(frames, on) ==
    \/ \E i \in 1 .. Len(frames) :
         /\ frames[i] = "on"
         /\ \A j \in (i + 1) .. Len(frames) : frames[j] # "off"
    \/ on /\ \A j \in 1 .. Len(frames) : frames[j] # "off"

WillBeOn(m) == EndsOn(chan[m], m \in power)

(* Between two calls the motors are, or are about to be, what is_init_     *)
(* says, whatever the control thread sent in between; unless the frame was *)
(* lost (nobody confirms it), or set_zeros left them switched off.         *)
PowerFollowsInit ==
    todo["exe"] = <<>> =>
      \A m \in Motors \ lost : WillBeOn(m) <=> is_init /\ ~zeroed

(* A motor is declared offline only if as many commands as the threshold   *)
(* in a row have brought no answer, and it is declared when more have,     *)
(* although response_count_ is counted up and reset by two threads.        *)
OfflineVerdict ==
    [][\A m \in Motors :
         motors_mutex = "ctl" /\ Turn(m, "read") /\ ~Turn(m, "read")' =>
           /\ m \in offline' => silent[m] >= offline_threshold
           /\ silent[m] > offline_threshold => m \in offline']_vars

(* A call of a service returns, whoever else wants the two mutexes.        *)
CallReturns == todo["exe"] # <<>> ~> todo["exe"] = <<>>

(* After a motor was found offline the robot is destroyed, which switches  *)
(* the motors off.                                                         *)
OfflineEndsRun == offline # {} ~> alive = {}

(* "Joints reset successfully": the last command of reset_joints is for    *)
(* the default posture.                                                    *)
ResetSendsDefault ==
    motors_mutex = "exe" /\ At("exe", "mit_all") => motor_target = "default"
=============================================================================
