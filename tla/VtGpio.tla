------------------------------- MODULE VtGpio -------------------------------
(***************************************************************************)
(* The kernel module vtgpio on the boards of one testbed: the files in     *)
(* /sys/vt/VT7, the wire that joins pin 7 of every board to the interrupt  *)
(* pins of all, and the two interrupt handlers that pause and resume the   *)
(* processes enrolled on a board.  With one board it is the module alone.  *)
(* An interrupt handler and a write to a file are split at each process    *)
(* they signal, credit or dilate.                                          *)
(***************************************************************************)
EXTENDS VtTask, FiniteSets

CONSTANTS
  Board,       \* boards on the wire
  Task,        \* processes
  home,        \* home[t], the board that t runs on
  NoPid,       \* 0, no process
  MAX_NUM_PIDS,
  TDFs,        \* the values written to the file tdf
  MaxWall,     \* bound on the wall clock, the same on every board
  Mortal,      \* the processes that may exit
  SMP,         \* TRUE: boards with a second CPU that runs processes meanwhile
  Dips,        \* the boards that may see the wire fall when one board drives it low
               \* while another one drives it high
  Discipline   \* the habits that the experiment's scripts keep

\* "turns":  one board freezes at a time, and the mode changes only when the
\*           last change has been dealt with everywhere;
\* "enrol":  processes are enrolled, live and once, and tdf is set, while nothing
\*           is frozen;
\* "loaded": modules come and go while nothing is frozen and none of the board's
\*           processes is in virtual time, and no board freezes the others before
\*           all are loaded.
Habits == {"turns", "enrol", "loaded"}

ASSUME GpioAssumption ==
  /\ home \in [Task -> Board]
  /\ NoPid \notin Task
  /\ MAX_NUM_PIDS \in Nat
  /\ TDFs \subseteq Int
  /\ MaxWall \in Nat
  /\ Mortal \subseteq Task
  /\ SMP \in BOOLEAN
  /\ Dips \subseteq Board
  /\ Discipline \subseteq Habits

VARIABLES
  wall,      \* the wall clock
  vt,        \* the virtual-time fields of each process
  run,       \* what the signals have made of each process
  module,    \* the static variables of each board's module
  pin,       \* how each board sets gpioSIG: an input, or driven high or low
  wire,      \* what becomes of the wire when boards drive it both ways
  irq,       \* the edges that a board has latched and not handled yet
  isr,       \* the interrupt handler of each board
  store,     \* the slots that a write to pid_IDX or tdf has yet to dilate
  obs        \* history, read by the properties only

vars == <<wall, vt, run, module, pin, wire, irq, isr, store, obs>>

Slot == 1..MAX_NUM_PIDS
PidOrNone == Task \union {NoPid}
NoPids == [i \in Slot |-> NoPid]

\* The static initialisers of vtgpio.c.
Fresh == [loaded |-> FALSE, mode |-> "DISABLED", tdf |-> One, freeze_now |-> 0,
          pid_IDX |-> NoPids, all_pid_nrs |-> NoPids]

\* pids[] of sequential_io() by slot, the slots still to do, freeze_duration, and
\* current, the process that was interrupted.
NoIsr == [pc |-> "idle", current |-> NoPid, pids |-> NoPids, todo |-> {},
          duration |-> 0]

TypeOK ==
  /\ wall \in Nat \ {0}
  /\ vt \in [Task -> TaskFields]
  /\ run \in [Task -> {"running", "stopping", "stopped", "dead"}]
  /\ module \in [Board ->
       [loaded: BOOLEAN, mode: {"ENABLED", "DISABLED"}, tdf: Int, freeze_now: Nat,
        pid_IDX: [Slot -> PidOrNone], all_pid_nrs: [Slot -> PidOrNone]]]
  /\ pin \in [Board -> {"in", "high", "low"}]
  /\ wire \in [low: SUBSET Dips, clashed: BOOLEAN]
  /\ irq \in [Board -> SUBSET {"rise", "fall"}]
  /\ isr \in [Board ->
       [pc: {"idle", "stop", "credit", "cont", "end"}, current: PidOrNone,
        pids: [Slot -> PidOrNone], todo: SUBSET Slot, duration: Int]]
  /\ store \in [Board -> SUBSET Slot]
  /\ obs \in [Task -> [stopped: Nat, latency: Nat, seen: Int]]

Alive(t) == run[t] # "dead"
High(p)  == \E b \in Board : p[b] = "high"
Low(p)   == \E b \in Board : p[b] = "low"
At(b, pc) == isr[b].pc = pc

\* A handler takes the CPU from the process that it interrupts, and from all other
\* processes and writers if there is only one.
CpuFree(b) == SMP \/ At(b, "idle")
Runs(t) == /\ run[t] \in {"running", "stopping"}
           /\ CpuFree(home[t]) /\ isr[home[t]].current # t

\* The slots before the first 0: the rest of the table is not looked at.
Listed(b) ==
  {i \in Slot : \A j \in 1..i : module[b].all_pid_nrs[j] # NoPid}

Member(t) == Alive(t) /\ \E i \in Listed(home[t]) : module[home[t]].all_pid_nrs[i] = t

\* No edge is waiting and no handler is running; neither is a write to a file.
Quiet(b) == irq[b] = {} /\ At(b, "idle")
Settled  == \A b \in Board : Quiet(b) /\ store[b] = {} /\ pin[b] # "low"

\* i is the first to be dealt with of the slots S.
First(i, S) == i \in S /\ \A j \in S : i <= j

-----------------------------------------------------------------------------
Unobserved == [stopped |-> 0, latency |-> 0, seen |-> 0]
Afresh(o)  == [stopped |-> 0, latency |-> 0, seen |-> o.seen]

\* wire.low: the boards that see the wire low although a board drives it high.
\* wire.clashed, read by the properties only: since the wire was last free of all
\* that drive it high, a board has driven it low.
Undisturbed == [low |-> {}, clashed |-> FALSE]

Init ==
  /\ wall = 1
  /\ vt = [t \in Task |-> NoVirtualTime]
  /\ run = [t \in Task |-> "running"]
  /\ module = [b \in Board |-> Fresh]
  /\ pin = [b \in Board |-> "in"]
  /\ wire = Undisturbed
  /\ irq = [b \in Board |-> {}]
  /\ isr = [b \in Board |-> NoIsr]
  /\ store = [b \in Board |-> {}]
  /\ obs = [t \in Task |-> Unobserved]

\* The hardware clock.  A stopped process's tick is latency in a handler that has
\* not stamped the freeze yet or has measured it already.
Tick ==
  /\ wall < MaxWall
  /\ wall' = wall + 1
  /\ obs' = [t \in Task |->
       IF run[t] = "stopped"
         THEN [stopped |-> obs[t].stopped + 1,
               latency |-> obs[t].latency
                 + IF isr[home[t]].pc \in {"stop", "credit", "cont"} THEN 1 ELSE 0,
               seen    |-> obs[t].seen]
         ELSE obs[t]]
  /\ UNCHANGED <<vt, run, module, pin, wire, irq, isr, store>>

\* gettimeofday() in a process.
GetTime(t) ==
  /\ Runs(t)
  /\ vt' = [vt EXCEPT ![t] = KeepTime(vt[t], wall)]
  /\ obs' = [obs EXCEPT ![t].seen = TimeOfDay(vt[t], wall)]
  /\ UNCHANGED <<wall, run, module, pin, wire, irq, isr, store>>

\* A process exits or is killed; SIGKILL does not wait for SIGCONT.
Exit(t) ==
  /\ t \in Mortal
  /\ Runs(t) \/ (run[t] = "stopped" /\ CpuFree(home[t]))
  /\ run' = [run EXCEPT ![t] = "dead"]
  /\ UNCHANGED <<wall, vt, module, pin, wire, irq, isr, store, obs>>

\* A process running on another CPU takes its SIGSTOP.
TakeStop(t) ==
  /\ run[t] = "stopping" /\ Runs(t)
  /\ run' = [run EXCEPT ![t] = "stopped"]
  /\ UNCHANGED <<wall, vt, module, pin, wire, irq, isr, store, obs>>

-----------------------------------------------------------------------------
(***************************************************************************)
(* The wire: high while a board drives it, unless another one drives it    *)
(* low.  Every board that has its handlers registered latches its edges.   *)
(***************************************************************************)
\* The boards that see the wire low.
SeeLow == IF High(pin) THEN wire.low ELSE Board

\* Driven both ways, the wire has no defined level, and each board may see either;
\* driving it lower makes nobody see it rise, nor the opposite anybody fall.
Levels(lowers) ==
  IF ~(High(pin') /\ Low(pin')) THEN {{}}
  ELSE IF lowers THEN {S \in SUBSET Dips : SeeLow \subseteq S}
  ELSE SUBSET (SeeLow \intersect Dips)

SetPin(b, level) ==
  /\ pin' = [pin EXCEPT ![b] = level]
  /\ \E S \in Levels(level = "low" \/ (level = "in" /\ pin[b] = "high")) :
       wire' = [low |-> S, clashed |-> High(pin') /\ (wire.clashed \/ level = "low")]

\* Faulty variant: a board does not listen to its own pin.
Drive_deaf(b, level) ==
  /\ SetPin(b, level)
  /\ irq' = [x \in Board |->
       IF ~module[x].loaded \/ x = b THEN irq[x]
       ELSE IF x \in SeeLow \ SeeLow' THEN irq[x] \union {"rise"}
       ELSE IF x \in SeeLow' \ SeeLow THEN irq[x] \union {"fall"}
       ELSE irq[x]]

\* gpio_direction_output(gpioSIG, 1 or 0), gpio_direction_input(gpioSIG)
Drive(b, level) ==
  /\ SetPin(b, level)
  /\ irq' = [x \in Board |->
       IF ~module[x].loaded THEN irq[x]
       ELSE IF x \in SeeLow \ SeeLow' THEN irq[x] \union {"rise"}
       ELSE IF x \in SeeLow' \ SeeLow THEN irq[x] \union {"fall"}
       ELSE irq[x]]

\* insmod: registers the handlers after it has made the pin an input.
vtgpio_init(b) ==
  /\ ~module[b].loaded
  /\ "loaded" \in Discipline => Settled /\ ~High(pin)
  /\ Drive(b, "in")
  /\ module' = [module EXCEPT ![b] = [Fresh EXCEPT !.loaded = TRUE]]
  /\ UNCHANGED <<wall, vt, run, isr, store, obs>>

\* rmmod: waits for the handlers and for the writers, and leaves the pin, the
\* processes that are stopped and their fields as they are.
vtgpio_exit(b) ==
  /\ module[b].loaded /\ At(b, "idle") /\ store[b] = {} /\ pin[b] # "low"
  /\ "loaded" \in Discipline =>
       /\ Settled /\ ~High(pin)
       /\ \A t \in Task : home[t] = b /\ Alive(t) => ~InVT(vt[t])
  /\ module' = [module EXCEPT ![b] = Fresh]
  /\ irq' = [irq EXCEPT ![b] = {}]
  /\ UNCHANGED <<wall, vt, run, pin, wire, isr, store, obs>>

TakesTurns(b, word) ==
  /\ Settled
  /\ IF word = "freeze" THEN ~High(pin) ELSE pin[b] = "high"

\* A write of "freeze" or "unfreeze" to the file mode, by one writer at a time on
\* each board.  An unfreeze drives the wire low before it lets go of it.
mode_store(b, word) ==
  LET freezes == word = "freeze" IN
  /\ module[b].loaded /\ CpuFree(b) /\ pin[b] # "low"
  /\ "turns" \in Discipline => TakesTurns(b, word)
  /\ "loaded" \in Discipline => \A x \in Board : module[x].loaded
  /\ module' = [module EXCEPT ![b].mode = IF freezes THEN "ENABLED" ELSE "DISABLED"]
  /\ Drive(b, IF freezes THEN "high" ELSE "low")
  /\ UNCHANGED <<wall, vt, run, isr, store, obs>>

\* The end of the unfreeze: gpio_direction_input(gpioSIG).
LetGo(b) ==
  /\ pin[b] = "low" /\ CpuFree(b)
  /\ Drive(b, "in")
  /\ UNCHANGED <<wall, vt, run, module, isr, store, obs>>

-----------------------------------------------------------------------------
(***************************************************************************)
(* Enrolling processes and setting the dilation factor.  One writer at a   *)
(* time on each board; an interrupt may come at any point of it.           *)
(***************************************************************************)
Enrols(b, i, p) ==
  /\ Settled /\ ~High(pin)
  /\ p # NoPid => /\ Alive(p) /\ ~Member(p)
                  /\ Listed(b) = 1..(i - 1) /\ module[b].all_pid_nrs[i] = NoPid

\* STORE_HANDLER: a pid goes into the table and is dilated; 0 only into pid_IDX.
pid_store(b, i, p) ==
  /\ module[b].loaded /\ CpuFree(b) /\ store[b] = {}
  /\ p # NoPid => home[p] = b
  /\ "enrol" \in Discipline => Enrols(b, i, p)
  /\ module' = [module EXCEPT
       ![b].pid_IDX[i] = p,
       ![b].all_pid_nrs[i] = IF p = NoPid THEN @ ELSE p]
  /\ store' = [store EXCEPT ![b] = IF p = NoPid THEN {} ELSE {i}]
  /\ UNCHANGED <<wall, vt, run, pin, wire, irq, isr, obs>>

tdf_store(b, value) ==
  /\ module[b].loaded /\ CpuFree(b) /\ store[b] = {}
  /\ "enrol" \in Discipline => Settled /\ ~High(pin)
  /\ module' = [module EXCEPT ![b].tdf = value]
  /\ store' = [store EXCEPT ![b] = Listed(b)]
  /\ UNCHANGED <<wall, vt, run, pin, wire, irq, isr, obs>>

\* The next slot's process gets tdf through /proc/PID/dilation: set_dilation() by
\* a writer outside virtual time.  A process that is gone has no such file.
dilate_proc(b) ==
  \E i \in Slot :
    LET t == module[b].all_pid_nrs[i]
        tdf == module[b].tdf
    IN
    /\ CpuFree(b) /\ First(i, store[b])
    /\ store' = [store EXCEPT ![b] = @ \ {i}]
    /\ IF t \in Task /\ Alive(t)
         THEN /\ vt' = [vt EXCEPT ![t] = SetDilation(vt[t], tdf, wall)]
              /\ obs' = IF InVT(vt[t]) # InVT(vt'[t])
                          THEN [obs EXCEPT ![t] = Afresh(obs[t])] ELSE obs
         ELSE UNCHANGED <<vt, obs>>
    /\ UNCHANGED <<wall, run, module, pin, wire, irq, isr>>

-----------------------------------------------------------------------------
(***************************************************************************)
(* The interrupt handlers.                                                 *)
(***************************************************************************)

\* all_pids_from_nrs(): the listed processes that still exist, by slot.
AllPids(b) ==
  [i \in Slot |-> LET p == module[b].all_pid_nrs[i] IN
                  IF i \in Listed(b) /\ p # NoPid /\ Alive(p) THEN p ELSE NoPid]
Slots(pids) == {i \in Slot : pids[i] # NoPid}

\* getnstimeofday() in interrupt context is a reading by the process interrupted.
Clocked(current) ==
  IF current = NoPid THEN vt
  ELSE [vt EXCEPT ![current] = KeepTime(vt[current], wall)]

Interruptible(b) == {t \in Task : home[t] = b /\ run[t] \in {"running", "stopping"}}

\* An edge is handled: the time is taken, the list is read and, on a falling
\* edge, the duration of the freeze is measured.  Both may be latched, and
\* nothing says which is handled first.
Interrupt(b, edge) ==
  /\ edge \in irq[b] /\ At(b, "idle")
  /\ irq' = [irq EXCEPT ![b] = @ \ {edge}]
  /\ \E current \in Interruptible(b) \union {NoPid} :
       /\ vt' = Clocked(current)
       /\ isr' = [isr EXCEPT ![b] =
            [pc |-> IF edge = "rise" THEN "stop" ELSE "credit",
             current |-> current, pids |-> AllPids(b), todo |-> Slots(AllPids(b)),
             duration |-> IF edge = "rise" THEN 0 ELSE wall - module[b].freeze_now]]
  /\ UNCHANGED <<wall, run, module, pin, wire, store, obs>>

\* kill_pid(pids[i], SIGSTOP, 1)
SignalStop(b) ==
  \E i \in Slot :
    LET t == isr[b].pids[i] IN
    /\ At(b, "stop") /\ First(i, isr[b].todo)
    /\ run' = [run EXCEPT ![t] = IF @ # "running" THEN @
                                 ELSE IF SMP THEN "stopping" ELSE "stopped"]
    /\ isr' = [isr EXCEPT ![b].todo = @ \ {i}]
    /\ UNCHANGED <<wall, vt, module, pin, wire, irq, store, obs>>

\* Faulty variant: the time of the freeze is the time it was asked for last.
Stamp_once(b) ==
  /\ At(b, "stop") /\ isr[b].todo = {}
  /\ module' = [module EXCEPT ![b].freeze_now = IF @ = 0 THEN wall ELSE @]
  /\ isr' = [isr EXCEPT ![b].pc = "end"]
  /\ UNCHANGED <<wall, vt, run, pin, wire, irq, store, obs>>

\* freeze_now = now, once all have been signalled.
Stamp(b) ==
  /\ At(b, "stop") /\ isr[b].todo = {}
  /\ module' = [module EXCEPT ![b].freeze_now = wall]
  /\ isr' = [isr EXCEPT ![b].pc = "end"]
  /\ UNCHANGED <<wall, vt, run, pin, wire, irq, store, obs>>

\* Faulty variant: the duration is measured anew for each process.
Credit_each(b) ==
  \E i \in Slot :
    LET t == isr[b].pids[i] IN
    /\ At(b, "credit") /\ First(i, isr[b].todo)
    /\ vt' = IF Alive(t)
               THEN [vt EXCEPT ![t].freeze_past = @ + (wall - module[b].freeze_now)]
               ELSE vt
    /\ isr' = [isr EXCEPT ![b].todo = @ \ {i}]
    /\ UNCHANGED <<wall, run, module, pin, wire, irq, store, obs>>

\* tsk->freeze_past_nsec += freeze_duration, if the process still exists.
Credit(b) ==
  \E i \in Slot :
    LET t == isr[b].pids[i] IN
    /\ At(b, "credit") /\ First(i, isr[b].todo)
    /\ vt' = IF Alive(t)
               THEN [vt EXCEPT ![t].freeze_past = @ + isr[b].duration] ELSE vt
    /\ isr' = [isr EXCEPT ![b].todo = @ \ {i}]
    /\ UNCHANGED <<wall, run, module, pin, wire, irq, store, obs>>

\* The second loop of RESUME starts when all have been credited.
CreditDone(b) ==
  /\ At(b, "credit") /\ isr[b].todo = {}
  /\ isr' = [isr EXCEPT ![b].pc = "cont", ![b].todo = Slots(isr[b].pids)]
  /\ UNCHANGED <<wall, vt, run, module, pin, wire, irq, store, obs>>

\* Faulty variant: SIGCONT is not sent to the last process of the list.
SignalContinue_short(b) ==
  \E i \in Slot :
    LET t == isr[b].pids[i] IN
    /\ At(b, "cont") /\ First(i, isr[b].todo)
    /\ run' = IF isr[b].todo # {i} /\ Alive(t)
                THEN [run EXCEPT ![t] = "running"] ELSE run
    /\ isr' = [isr EXCEPT ![b].todo = @ \ {i}]
    /\ UNCHANGED <<wall, vt, module, pin, wire, irq, store, obs>>

\* kill_pid(pids[i], SIGCONT, 1)
SignalContinue(b) ==
  \E i \in Slot :
    LET t == isr[b].pids[i] IN
    /\ At(b, "cont") /\ First(i, isr[b].todo)
    /\ run' = IF Alive(t) THEN [run EXCEPT ![t] = "running"] ELSE run
    /\ isr' = [isr EXCEPT ![b].todo = @ \ {i}]
    /\ UNCHANGED <<wall, vt, module, pin, wire, irq, store, obs>>

\* The benchmark's second getnstimeofday(), and the return from the interrupt.
Leave(b) ==
  /\ At(b, "end") \/ (At(b, "cont") /\ isr[b].todo = {})
  /\ vt' = Clocked(isr[b].current)
  /\ isr' = [isr EXCEPT ![b] = NoIsr]
  /\ UNCHANGED <<wall, run, module, pin, wire, irq, store, obs>>

-----------------------------------------------------------------------------
IsrStep(b) ==
  \/ SignalStop(b) \/ Stamp(b)
  \/ Credit(b) \/ CreditDone(b) \/ SignalContinue(b) \/ Leave(b)

TakeInterrupt(b) == \E edge \in {"rise", "fall"} : Interrupt(b, edge)

Next ==
  \/ Tick
  \/ \E t \in Task : GetTime(t) \/ Exit(t) \/ TakeStop(t)
  \/ \E b \in Board :
       \/ vtgpio_init(b) \/ vtgpio_exit(b)
       \/ \E word \in {"freeze", "unfreeze"} : mode_store(b, word)
       \/ LetGo(b)
       \/ \E i \in Slot, p \in PidOrNone : pid_store(b, i, p)
       \/ \E value \in TDFs : tdf_store(b, value)
       \/ dilate_proc(b)
       \/ TakeInterrupt(b)
       \/ IsrStep(b)

Spec == Init /\ [][Next]_vars

\* A latched edge is handled, a handler returns, a signal is taken and a write to
\* a file goes on to its end; nobody has to write, to freeze or to exit.
Fairness ==
  /\ \A b \in Board : /\ WF_vars(TakeInterrupt(b))
                      /\ WF_vars(IsrStep(b))
                      /\ WF_vars(dilate_proc(b))
                      /\ WF_vars(LetGo(b))
  /\ \A t \in Task : WF_vars(TakeStop(t))

FairSpec == Spec /\ Fairness

-----------------------------------------------------------------------------
(***************************************************************************)
(* Properties.                                                             *)
(***************************************************************************)

\* The frozen time of t that no handler has credited yet.
Uncredited(t) ==
  LET b == home[t] IN
  IF At(b, "credit")
    THEN IF \E i \in isr[b].todo : isr[b].pids[i] = t THEN isr[b].duration ELSE 0
  ELSE IF run[t] = "stopped" /\ isr[b].pc \in {"idle", "end"}
    THEN wall - module[b].freeze_now
  ELSE 0

\* On one CPU the time that the handlers subtract from a process's clock is the
\* time the process was stopped, less what passed inside the handlers: each
\* process gets each freeze once, none it did not sit through.
ExactCredit ==
  \A t \in Task : Member(t) /\ InVT(vt[t]) =>
    vt[t].freeze_past + Uncredited(t) = obs[t].stopped - obs[t].latency

\* A process never reads a time earlier than one it has read, although the
\* benchmark reads the clock in its name in the middle of a pause.
ClockMonotone == [][\A t \in Task : obs'[t].seen >= obs[t].seen]_vars

\* Once the last change of the wire has been dealt with everywhere, either every
\* process enrolled on any board has been stopped or none has.
Still == {t \in Task : run[t] \in {"stopping", "stopped"}}
AllOrNone ==
  Settled => Still = IF High(pin) THEN {t \in Task : Member(t)} ELSE {}

\* Two processes of one board that entered virtual time at the same moment show
\* the same time whenever they are not in the middle of being credited.
BoardmatesAgree ==
  \A t, u \in Task :
    /\ home[t] = home[u] /\ Member(t) /\ Member(u)
    /\ InVT(vt[t]) /\ InVT(vt[u])
    /\ vt[t].virtual_start = vt[u].virtual_start
    /\ vt[t].dilation = One /\ vt[u].dilation = One
    /\ ~At(home[t], "credit")
    => TimeOfDay(vt[t], wall) = TimeOfDay(vt[u], wall)

\* A freeze on one board stops every process enrolled on any.
FreezeReachesAll ==
  \A t \in Task :
    Member(t) /\ High(pin) ~> run[t] \in {"stopped", "dead"} \/ ~High(pin)

\* An unfreeze continues every process that the freeze has stopped, on any board.
ResumeReachesAll ==
  \A t \in Task : run[t] = "stopped" /\ ~High(pin) ~> run[t] \in {"running", "dead"}

\* The boards together are one switch that stops and continues all processes.
AllQuiet == \A b \in Board : Quiet(b)
Switch == INSTANCE GlobalPause WITH
  member <- {t \in Task : Member(t)},
  still  <- Still,
  phase  <- IF High(pin) THEN IF AllQuiet THEN "paused" ELSE "pausing"
                         ELSE IF AllQuiet THEN "running" ELSE "resuming"
ImplementsSwitch == Switch!Spec
=============================================================================
