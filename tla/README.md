# Virtual time and distributed pause: a TLA+ model of emb-vt

emb-vt runs network emulations on small ARM boards in *virtual time*. A
modified Linux kernel gives each process a clock of its own, which can be
dilated and which does not advance while the process is frozen. A kernel module,
`vtgpio`, joins several boards by a wire, so that one of them can pause and
resume the processes of all. This directory holds the formal model of that
system: TLA+ modules, the TLC configurations that check them on small instances,
and theorems about them with proofs that `tlapm` checks.

Paths below are relative to the root of the repository (`src/vtgpio.c` is the
module, `kernel/bananaVT/` the modified kernel files).

    tlc -config MCKernelVT_orderly.cfg MCKernelVT.tla
    tlc -config MCVtGpio_bus.cfg MCVtGpio.tla
    tlc -config MCDssCoordinator_pause.cfg MCDssCoordinator.tla
    tlapm KernelVT_proofs.tla

## 1. The parts of the system

| Part | State | Operations | Talks to |
|---|---|---|---|
| **A. Virtual clock** (`kernel/time.c`, `kernel/time/timekeeping.c`, `kernel/fork.c`) | seven fields of `task_struct` (`include/linux/sched.h:1451`) | `do_virtual_time_keeping` in every `getnstimeofday`, `set_dilation`, `init_virtual_start_time`, `freeze_time`, `unfreeze_time`, `populate_frozen_time` | signals; the list of children |
| **B. /proc interface** (`fs/proc/base.c`) | none of its own | writers of `/proc/PID/dilation` and `/proc/PID/freeze`, `unshare(CLONE_NEWTIME)`, readers of `fpt`, `vpt`, `ppt` | A, with no lock |
| **C. vtgpio** (`src/vtgpio.c`, `src/vtgpio.h`) | `mode`, `tdf`, `pid_NN`, `all_pid_nrs`, `freeze_now` | files under `/sys/vt/VT7`; an interrupt handler for the rising edge (pause) and one for the falling edge (resume); insmod, rmmod | A and B directly; other boards by pin 7 |
| **D. The wire** | its level | a board drives it high, or low, or lets go | every board latches its edges |
| **E. Tools** (`kernel/bananaVT/mininet/vt`, `mininet/net.py`, `mnexec.c`) | lists of pids | freeze or dilate all, one thread per process | B |
| **F. vtmanager** (`src/mgmt/vtmanager.py`) | table of processes and their status | STOP and RESUME messages between hosts; polls process states | C |
| **G. DSSnet coordinator** (`eval/pw_useCase/master_template.py`) | event heap, `num_block` | listener, sync and post-processing threads | E, the power simulator |
| **H. Experiment scripts** (`eval/distributed/*.sh`) | whose turn it is | signals over ssh, sleeps | C |

What is hard about each, and what makes it correct:

* **A, B.** `freeze_time()` and `unfreeze_time()` send signals and update fields
  with no lock, while the process, its forks, other writers and the clock go on.
  *Correct* if frozen time is credited exactly, if nobody is left stopped with no
  way to continue it, if clocks are monotone and never ahead of the wall clock, if
  children share their parent's credit, and if a process outside virtual time
  reads the wall clock.
* **C, D.** Interrupts come between the steps of a write to a file; the two edges have
  handlers and latches of their own; processes are signalled and credited one after the
  other; the handlers read the clock of whatever process they interrupted. A board that
  unfreezes drives the wire low for a moment, whoever else drives it high. *Correct* if
  every enrolled process of every board stops for each freeze, continues after it, and
  is credited it once.
* **E.** One thread of many fails; the rest of the host is frozen without it.
* **F.** What a poll has seen is stale when it is used, and boards pause without
  knowing of each other's pauses. *Correct* if the processes of all boards stand
  still as long as any board has paused them, if nobody is left stopped when the last
  pause is over, and if every pause ends.
* **G.** `num_block` is counted by several threads without a lock, and pause and
  resume hang on its value; events come later than the clock readings they carry.
  A handler may be missing, or end its thread by an error before it has counted.
  *Correct* if the network stands still while a blocking event is open, runs again
  afterwards, every host that waits is answered, and the simulator is never asked
  about the past.
* **H.** Taking turns rests on signals, which coalesce, and on sleeps. *Correct* if
  the freezes of two boards never overlap, line k of every log is about the same
  freeze, all logs are collected, and the experiment ends.

`PROJECT.json` lists every hazard at its line, with the properties that cover it.

## 2. The modules

    VtTask           the fields of one process, as pure operators
      KernelVT         A and B: processes, writers, signals, one board
      VtGpio           C and D: any number of boards on the wire
        VtManager        F: the manager of each board, over VtGpio
    GlobalPause      what the boards promise together
    DssCoordinator   G and E: the coordinator, its threads, its hosts
    Experiment       H: leader.sh and local.sh, with time

Each has an `MC...` module with values for TLC, and the proofs are in modules of their
own: `VtTask_proofs`, `KernelVT_proofs`, `KernelVTClock_proofs`,
`VtGpio_proofs`, `VtGpioCredit_proofs`, `VtManager_proofs`,
`DssCoordinator_proofs` and `Experiment_proofs` (section 4).

How they fit together: `VtGpio` implements `GlobalPause` if the boards keep the habits
of `Discipline`. `Experiment` shows, and proves, that the scripts keep the
habit of turns. `VtManager` composes the managers with `VtGpio` where they do not
keep it, and asks what is left of the switch.

**VtTask** maps each kernel function that touches the seven fields to an operator
from the fields before the call to the fields after it. `KeepTime` and
`TimeOfDay` are `do_virtual_time_keeping`; `SetDilation` is `set_dilation` on one
process, `InitVirtualStartTime` and `Redilate` two of its branches;
`CreditFreeze` and `CopyFreeze` come from `unfreeze_time` and
`populate_frozen_time`. Division truncates toward zero as `div_s64_rem` does.
The suffix `_nsec` is dropped.

**KernelVT** has a wall clock, the fields `vt[t]` of each process, the process tree,
what signals have made of each process, and the call that each `Caller` is in. A freeze
is `FreezeWrite` (the check), `FreezeStop` (SIGSTOP), `FreezeStamp` (the time) and
`FreezeMark`; an unfreeze is `UnfreezeWrite` (check and time), `UnfreezeCredit`,
`UnfreezeClear` (with the walk down the children), `UnfreezeContinue`. Between any two
of them the clock may tick, a process may read its clock or fork, and another caller may
come. A fork is `ForkCopy` (`dup_task_struct` copies all fields, `fork.c:1183`) and, any
time later, `ForkLink` (the child joins the list of children that the walks go down,
`fork.c:1448`) or `ForkAbort` (a signal is pending, or an error); between the two the
parent is in the kernel and runs nothing of its own. On one CPU too: `copy_process`
sleeps for memory. With `SMP` a process that was sent SIGSTOP runs on (`"stopping"`)
until it takes the signal.

`Orderly` says how the files are written: only group leaders are frozen and only
in virtual time, dilation is not written while the process is frozen or its call
is under way, the factor of a process in virtual time is changed only if
`Redilates` says so, and the writer itself is outside virtual time. That is what
Mininet's `freezeEmulation` and the scripts do. Without `Orderly` anything goes.

**VtGpio** reuses `VtTask`, with a module per board: its static variables, how
it sets the pin, the edges it has latched, its interrupt handler, and the write
under way to `pid_NN` or `tdf`. A handler goes through `Interrupt` (reads the
time and the list of pids), `SignalStop` per process, `Stamp`; or `Interrupt`
(measures the freeze), `Credit` per process, `CreditDone`, `SignalContinue` per
process; and `Leave`. `pid_store` and `tdf_store` start a write, `dilate_proc`
is one process of it. `mode_store` drives the wire high, or low, and `LetGo` is the
end of an unfreeze, where the pin becomes an input again. `Drive` latches the edges on
every board that has its handlers registered. While one board drives the wire high and
another one low it has no defined level: `Levels` lets each board of `Dips` see either,
with the one restriction that a board that drives the wire lower makes nobody see it
rise, and the opposite. `wire.clashed` is history: it remembers that it has happened.

`Discipline` is the set of habits, out of three, that the experiments keep:
*turns* (one board freezes at a time, the next change comes when the last has
been dealt with), *enrol* (processes are enrolled alive, once, in the order of the
slots, and `tdf` is set, while nothing is frozen) and *loaded* (modules come and
go before their processes enter virtual time, and all are loaded before the
first freeze). `eval/distributed/local.sh` and `leader.sh` do this: they reload the
module, wait, enrol in order, then pause in turn with sleeps in between.

**GlobalPause** is the abstract specification: one switch for all processes,
with the phases running, pausing, paused, resuming. Membership changes only
while running (except that a process may die), the switch is down only when all
members are still, and up again only when none is.

**Experiment** is `leader.sh` on one board and `local.sh` on each of the others. A
script is a program counter and a timer, the ticks left of the command that bash
waits for; a trap runs only when that command has ended, the lowest signal first, and
signals of one kind coalesce. Serving an interrupt is one step here, within `Latency`
ticks: what happens inside is in `VtGpio`. `sleep 1` is `Second` ticks, an ssh takes
at least `Moment`; a pause, an ssh and the leader may take any longer, the loop of
`local.sh` and the interrupts may not.

**VtManager** extends `VtGpio` with the three processes of `vtmanager.py`: `main()`
enrols, `valueRetriever` asks for a pause, and `startConnectionManager` goes through
recv, `StopPoll` (wait until the process runs), `Freeze` (the shell that writes), the
sleep, `ResumePoll` (wait until it is stopped), `Unfreeze` and `Unfrozen` (the shell
exits). Poll and write are two steps: what was seen may have changed. The wire is
driven by `VtGpio`'s own `mode_store` and `LetGo` with no habit assumed
(`Discipline = {}`).

**DssCoordinator** has the threads `pipe_listen`, `sync` and one `postProcess` per
event, the pipe, the heap (a set, popped by time), `num_block`, and the hosts with
their clocks. `num_block += 1` is a load (`CountUp`, `CountDown`) and a store
(`StoreUp`, `StoreDown`); pause and resume write the freeze file of one process after
the other (`freeze_work`, `unfreeze_work`), which is `freeze_all_procs`. `Handler`
answers the host, lacks the handler (`NoHandler`; an AttributeError, which is caught) or
ends its thread by another error (`Raising`); the state `"raised"` keeps a blocking
event that is never counted down on the books. The time of
an event is read from the host's virtual clock when it is sent.

### Abstractions

* Time is counted in ticks that are as short as one needs; `s64` does not overflow
  and is not torn. The code's own bound is 104 days (`timekeeping.c:287`).
* `set_dilation` with its recursion, `populate_frozen_time` and one
  `getnstimeofday` are each one step. Reading the fields of another process
  (`fpt`, `vpt`, `ppt`) changes nothing and is left out, as is `num_ints`.
* A child keeps its parent: reparenting after the parent's exit is not modelled,
  nor is exit in `KernelVT`. Pids are not reused.
* On a wire driven both ways a board sees one level until some pin changes again: a
  level that flickers meanwhile is left out. Interrupts latched twice count once.
* `mode` has one writer at a time on each board: a second shell does not write between
  the two pin changes of an unfreeze.
* `DilationWrite` leaves out the one case that needs two readings of a clock that the
  write itself is changing: a process in virtual time that gives itself, together
  with some descendants or an ancestor, another factor. Alone, or on its way in or
  out of virtual time, it may.
* A board's two interrupts do not run at the same time (the GPIO bank has one
  parent interrupt) but come in either order when both are latched.
* `Prompt` of `VtManager` takes an interrupt to be served sooner than a shell is
  started. The kernel does not promise it.
* One writer at a time per board uses the `pid_NN` and `tdf` files. `insmod` is one
  step and does not fail. Only pids of processes of the same board, or 0, are written.
* The skew log of `Experiment` is the list of how many freezes a board had been
  credited at each line; that is what makes two lines comparable.
* In `VtManager` a board has one process, and what the manager logs or prints is left
  out. `MaxWork` bounds the requests that wait in its socket.
* In `DssCoordinator` the contents of requests and replies are left out: an event is
  who sent it and when. Identifiers of events are given in order, so that those
  under way are told apart and no more. `NoEvent` stands for no event, and a host is not
  called "none".

## 3. What is checked

Bounds: `MaxWall` and `MaxTime` bound the clocks, `MaxEvents` the events under way at
once, `MaxWork` the waiting requests; `Task`, `Board`, `Caller`, `Host`,
`MAX_NUM_PIDS` (16 in the code) and `TDFs` are small sets, `pause_order` a short list.
Nothing else is bounded.

| Run | Instance | Shows |
|---|---|---|
| kernel_orderly | a process that may fork a child, one CPU, one orderly caller, factors 0, 1, 2 and 200, clock up to 4 | TypeOK, ExactCredit, NoNegativeStretch, NeverAheadOfWall, StoppedCanContinue, FrozenIsStopped, VirtualPastBehind, PhaseInv, LeaderClockMonotone |
| kernel_family | three processes, of which one may fork the others and they each other, several CPUs, one orderly caller, clock up to 3 | CreditReachesFamily |
| kernel_any | a process that may fork, several CPUs, no order kept, refused factors, fairness, clock up to 2 | OutsideReadsWall, FreezeTakesEffect, UnfreezeTakesEffect |
| gpio_board | one board, two processes, two slots, one CPU, clock up to 3, factors -1, 0 and 1, all habits | TypeOK, ExactCredit, BoardmatesAgree, ClockMonotone |
| gpio_bus | two boards with a process each, several CPUs, one process may exit, fairness, all habits | AllOrNone, ImplementsSwitch, FreezeReachesAll, ResumeReachesAll |
| experiment_mixed | two boards and the leader, five turns in mixed order, timers in ticks, fairness | TypeOK, OnlyInTurn, KeepsTurns, LogsAligned, AllCollected, Completes |
| manager_pauses | two boards started together, each may have two requests waiting and may see either level of a wire driven both ways, no habits, fairness | ManagerTypeOK, HeldUntilClash, NobodyLeftStopped, PausesEndOrClash |
| dss_pause | three hosts (one blocks and waits, one blocks, only tells and has a handler that may be missing or raise an error, one does neither), two events under way, clock up to 2, no switch inside a count, fairness | TypeOK, OnlyLostUpdates, HeldWhileBlocked, NeverAsksThePast, NetworkResumes, AnswerComes |

`MaxWall` is the last value of a clock that starts at 1. Three ticks are enough for a
freeze with time before, inside and after it, or for two freezes and a reading between
them, with a way out of virtual time and back; two ticks on a board, for two freezes of
which one has a tick inside a handler. The third process of kernel_family makes a
grandchild, where a copy that stops at the children shows. Two processes on a board
tell the loop over the list from its first pass. In gpio_bus and manager_pauses the
clock stands still, because no guard of the wire, of the handlers or of the signals
looks at it; the ticks are in gpio_board. Runs on one CPU are those whose properties are
about one CPU (see below).

In experiment_mixed `Second = 4`, `Moment = 1` and `Latency = 3` keep the order of the
code's times: a board serves its interrupt within a second, which is what the scripts
rely on. With `Latency = Second`, KeepsTurns is violated. The order 0, 3, 3, 1, 0 has
a follower after the leader, the leader twice, and a follower after a follower.

manager_pauses has 221,834 states. Two boards are enough for a clash, for both edges
latched on one board in either order, and for a wire that each of the boards sees
otherwise. `Prompt` says that a board serves an interrupt sooner than another starts a
shell; the invariants hold with several CPUs as well.

In dss_pause two events are enough for an event to be queued behind another, to
arrive later and be earlier, and for the count to be 2. `Prompt` there is two things:
the listener reads what is in the pipe sooner than the power simulator answers, and no
host sends while a thread that has counted down tests the count or resumes the network.
The code guarantees neither: dss_overtaken drops it, and no theorem assumes it.
`Switching = FALSE` says that the interpreter does not switch threads between the load
and the store of `num_block += 1`, which it may. In this run OnlyLostUpdates therefore
is CountsOpen; the theorem about it is for any switches, and TLC has checked it with
`Switching = TRUE`, `Prompt = FALSE` and a clock up to 1 too, where states in which lost
updates have taken the count out of -1..3 are not followed (`FewLost`).

*Symmetry* (gpio_board): the two processes of the board are interchangeable, and
the run has no temporal property other than an action property. *View* (kernel_any,
kernel_family): the history variable is read by no property of the run and by no guard, and no step
under fairness changes it alone.
gpio_board leaves `pid_IDX` out of its view: it is only shown.
*Deadlock* is checked but in the runs of Experiment, which ends.

*Fairness.* A call to write `/proc` runs to its end, a fork links its child or is
undone, a signal that is pending is taken, a latched interrupt is served, a handler and
a write to `/sys` proceed, a thread of the coordinator, a script and a manager are
scheduled, and the power simulator replies: what the schedulers and the interrupt
controller give. All of it is weak. Nothing makes a manager that looks every second see
a state that comes and goes, so no run says that every request is granted. Nobody has to
write a file, fork, freeze, exit, read a clock, send an event or ask for a pause.

The properties in words:

* **ExactCredit**: the frozen time that a process's clock leaves out is the time for
  which the process was stopped, less what passed inside the freeze and unfreeze
  themselves (between SIGSTOP and the stamp, between the measurement and
  SIGCONT). No tick is credited twice, none that the process ran.
* **NoNegativeStretch**: a reading never accounts for negative time.
  **LeaderClockMonotone**, **ClockMonotone**: clocks do not go back.
  **NeverAheadOfWall**: with factors of 1 and above no clock passes the wall clock.
  **VirtualPastBehind**: truncation makes a dilated clock late, never early.
* **FrozenIsStopped**, **StoppedCanContinue**: mark and signal agree, so no freeze is
  credited while running and no process is stopped for ever. **PhaseInv**: each step
  of a freeze finds its process as the code expects it.
* **FamilySharesCredit**: parent and child always have the same frozen time. The window
  of a fork breaks it. **CreditReachesFamily**: nothing else does, at any depth. A child
  that has its parent's credit keeps up with it in every step, and the next unfreeze
  makes a child that was missed equal again, because it assigns the credit and does not
  add to it.
* **OutsideReadsWall**: nothing is left behind in a process with dilation 0.
* **BoardmatesAgree**: processes of one board that entered virtual time together
  show the same time. "Together" is equal `virtual_start`, at factor 1: a change from
  one factor to another resets that field and would make unequal clocks look equal.
* **AllOrNone**, **ImplementsSwitch**, **FreezeReachesAll**, **ResumeReachesAll**: the
  boards act as one switch.
* **OnlyInTurn**, **KeepsTurns**: what `VtGpio` takes as the habit *turns* is what the
  scripts do. **LogsAligned**, **AllCollected**, **Completes**: the experiment measures
  what it should, and ends.
* **HeldWhilePaused**: while a manager waits for its value nobody runs. A clash breaks
  it. **HeldUntilClash**: nothing else does, although the pauses overlap and nobody
  knows of the others. **NobodyLeftStopped**: whatever clashes there were, when all have
  let go and all edges are served everybody runs. **PausesEndOrClash**: a pause ends if
  no manager resumes against another. After a clash, a manager that sleeps may find its
  process running and wait for ever for it to stop (`vtmanager.py:179`).
* **CountsOpen**: `num_block` is the number of open blocking events;
  **OnlyLostUpdates**: only a lost update makes it anything else. **HeldWhileBlocked**,
  **NetworkResumes**: the pause lasts as long as an event is open, and no longer unless
  a handler has ended its thread. **PauseEnds** is the same without that exception.
  **AnswerComes**, **NeverAsksThePast**: queue and simulator; who has a sound handler is
  answered even when the handlers of others fail.

### Where the code does not do what its documents say

Four runs end in a counterexample that the code really has:

* **kernel_smp**: `freeze_time` does not wait for SIGSTOP to be taken; on a second CPU
  the process can read a time that is later credited as frozen, and its clock goes
  back (`time.c:234`).
* **experiment_own**: with the `pause_order` that is committed, the leader's own turns
  only, `leader.sh` waits for ever after the first: `should_wait` starts as 1 and only
  another board's answer clears it (`leader.sh:614`).
* **manager_late**: a board that is started while another has frozen the testbed and
  asks for a pause itself never sees its process stop, and keeps the wire high
  (`vtmanager.py:179`).
* **dss_overtaken**: a thread that has counted down to 0 resumes the network after the
  listener has paused it for the next event (`master_template.py:405`).

Others show with the same modules when a constant or the property is changed:

* `Redilates = TRUE` in kernel_orderly: changing the factor of a process in virtual
  time sets `virtual_start` to now and keeps `virtual_past`, so that the clock jumps
  ahead of the wall clock (`time.c:173`; NeverAheadOfWall).
* `Orderly = FALSE`: dilation 0 written while frozen forgets the mark without SIGCONT
  (`time.c:150`), and the unfreeze then does nothing (StoppedCanContinue).
* Two callers: two writers of one freeze file race (`time.c:229`, `:258`;
  ExactCredit).
* `Discipline` without *enrol*: a process enrolled during a freeze, without having
  been stopped, is credited the whole of it (`vtgpio.c:267`; ExactCredit).
* `Discipline` without *turns*: a board can have both edges latched; if it handles
  the fall first its processes stay stopped with the wire low (`vtgpio.c:566`;
  AllOrNone).
* `Discipline` without *loaded*: a board without its module misses an edge
  (`vtgpio.c:563`; ImplementsSwitch).
* FamilySharesCredit in kernel_orderly or kernel_family: a process is stopped in the
  middle of a fork, between the copy of its fields and the link of the child
  (`fork.c:1448`). The unfreeze does not find the child, which keeps the old frozen
  time, and the mark if there was one, until the next unfreeze of the family; what it
  reads meanwhile is ahead of its parent's clock.
* HeldWhilePaused in manager_pauses: two pauses overlap, and the first manager that
  resumes drives the wire low against the other (`vtgpio.c:438`). A board that sees the
  fall continues its process in the middle of the other pause.
* PauseEnds in dss_pause: `postProcess` catches AttributeError only, and handlers use
  `models`, which is not defined (`DSSnet_handler.py:46`). Their threads end before the
  count, and the network stays paused (`master_template.py:398`).
* `Switching = TRUE` in dss_pause: the listener counts up while a thread counts down,
  one of the two updates is lost and the network stays paused for ever
  (`master_template.py:404`; CountsOpen, NetworkResumes).

And others were met while reading:

* The comment at `time.c:217-221` speaks of the last freeze; the code counts from
  the first (`time.c:229`).
* The invariant in the comment at `timekeeping.c:272-275` holds only up to the
  remainders dropped (VirtualPastBehind is what does hold).
* `set_dilation` does not go below a child that already has the factor
  (`time.c:139`), although it is to update all children (`time.c:124-126`).
* The comment at `fork.c:1569` wants the wall clock, but a caller in virtual time
  gets virtual time.
* `freeze_past` is kept when the factor changes and subtracted from a stretch that
  began later (`time.c:175-181`).
* A factor of 2000 makes time slower, not faster as `README.md:52` says.
* SIGSTOP goes to the leader alone, although `time.c:216` and `:231` speak of the
  group.
* On a remote board `mode` still shows `unfreeze` during a freeze, and writing 0 to
  `pid_NN` does not take the process off `all_pid_nrs` (`vtgpio.h:72`), although
  `leader.sh` clears the pids that way.
* Module and `/proc/PID/freeze` are two ways to freeze, each with a mark of its own:
  `vtgpio` neither sets nor reads `freeze_start`, contrary to `README.md:81`.
* `master_template.py` does not parse as committed: a `'''` at line 57 is closed at
  line 328. The model follows the code inside it. An event without a pre-processing
  handler is sent with the `processed_event` of an earlier one (`:360-370`).
* `leader.sh` names its own skew log with `${i}`, which is not set there.
* `master.sh` sends signal 12 to boards whose `local.sh` now takes it for `make_pause`.

## 4. What is proved

All theorems hold for every set of processes, boards, hosts and events, every number
of slots, every set of factors and every bound on the clock, under the assumptions
named.

| Module | Theorem | States | Assumes |
|---|---|---|---|
| KernelVT_proofs | TypeCorrect | `[]TypeOK` | nothing |
| | EveryStepInPhase | `[]PhaseInv` | Orderly, one CPU, one caller |
| | CreditIsExact | `[]ExactCredit` | the same |
| | NoLeaderStranded | `[]StoppedCanContinue` | the same |
| | MarkMeansStopped | `[]FrozenIsStopped` | the same |
| KernelVTClock_proofs | OutsideIsWallTime | `[]OutsideReadsWall` | nothing |
| | StretchesArePositive | `[]NoNegativeStretch` | Orderly, one CPU, one caller, no Redilates |
| | DilatedClockIsLate | `[]VirtualPastBehind` | the same |
| | LateAtMost | `[]NeverAheadOfWall` | the same, and factors of at least 1.0 |
| | LeadersNeverGoBack | `LeaderClockMonotone` | the same, and factors of at least 1.0 |
| | CreditKeepsFamilies | `CreditReachesFamily` | Orderly, no Redilates |
| VtGpio_proofs | TypeCorrect | `[]TypeOK` | nothing |
| | WireInvariant | `[]WireInv` | all habits |
| | PauseIsWhole | `[]AllOrNone` | all habits |
| | BoardsAreOneSwitch | `ImplementsSwitch` | all habits |
| VtGpioCredit_proofs | CreditIsExact | `[]ExactCredit` | all habits, one CPU per board |
| | BoardmatesShowTheSame | `[]BoardmatesAgree` | the same, and no factor but 1.0 |
| | ClocksNeverGoBack | `ClockMonotone` | the same, and no factor but 1.0 |
| VtManager_proofs | ManagersTypeCorrect | `[]ManagerTypeOK` | nothing |
| | NobodyIsLeftStopped | `[]NobodyLeftStopped` | Prompt |
| | HeldWithoutClash | `[]HeldUntilClash` | Together, Prompt |
| Experiment_proofs | TurnsInvariant | `[]IInv` | nothing |
| | FreezesInTurn | `[]OnlyInTurn` | nothing |
| | TurnsAreKept | `KeepsTurns` | `Latency < Second` |
| | ScriptsTypeCorrect | `[]TypeOK` | nothing |
| | LinesBelongTogether | `[]LogsAligned` | `Punctual`, `FirstIsAnother` |
| | EverythingCollected | `[]AllCollected` | `Punctual`, `FirstIsAnother` |
| DssCoordinator_proofs | TypeCorrect | `[]TypeOK` | nothing |
| | CountOnlyLosesUpdates | `OnlyLostUpdates` | nothing |
| | AskedInOrder | `NeverAsksThePast` | nothing |

"Nothing" means nothing beyond the named assumption on the constants in the module
itself, which TLC evaluates in every run (that each board has one process and a slot for
it in `VtManager`, that no address is listed twice in `Experiment`). The other
assumptions are those under which the code is right: section 3 says what happens without
each.

*The credit of a leader* (KernelVT_proofs). ExactCredit is not inductive: that the
credit added at `UnfreezeCredit` is the time stopped depends on the leader having
been stopped since the mark, hence on where the call is. `PhaseInv` says that for each
step of a call: running or stopped, marked or not, and that the time taken lies
between the mark and now; it also ties virtual time to a nonzero factor, and calls to
leaders. `IInv == TypeOK /\ PhaseInv /\ ExactCredit` is inductive. The proof has one
step per action and under it one per conjunct. Leaders are not descendants of anyone,
so the walks of `UnfreezeClear` and `DilationWrite` pass other leaders by: lemma
`WalkApart`, from the definition of `Walk` as a least closed set.

*The clock of a leader* (KernelVTClock_proofs). `Accounted`: the physical time that the
clock has not accounted for yet is at least the time the leader was stopped, and
virtual time lags physical time. `ClockMoves` sums up what any step does to a leader's
clock: the wall clock ticks, the leader reads, enters or leaves virtual time, or
nothing changes but the frozen time. `Accounted` with `IInv` gives
StretchesArePositive and DilatedClockIsLate; `Behind`, the last value read is not
later than the next, needs that a virtual second is not shorter than a physical one.
The arithmetic of the truncating division is in `VtTask_proofs` (`DivS64Bound`,
`DeltaVirtualBound`).

*Families* (KernelVTClock_proofs). That parent and child agree is no invariant of the
code; that each step keeps it for a child that has it is, and CreditReachesFamily is an
action property. A step that changes the frozen time of a process is the credit
(`CreditStep`), the walk of `UnfreezeClear`, which assigns the leader's frozen time to
the children it tells (`CallShares`, `ToldByClear`), or a change of dilation, which
takes a family out of virtual time as far as it walks, or brings in all that are outside
(`DilationEffect`, `DilationShares`). The last walk stops at a child that has the factor
already, so one must know that a process outside virtual time has nobody below it whom
the walk would miss. The window of a fork makes that false: a child copied inside whose
parent leaves before the link stays inside (`Apart`). `FamilyInv` therefore names a set
of `Strays`: whoever is apart, and all below, copies included, are in virtual time. It
adds that a child on its way has no family (`ForkInv`) and that calls are about leaders.
`WalkGoesDown`, `WalkComesFrom` and `WalkWithin` say what a walk reaches.

*The wire* (VtGpio_proofs). `WireInv`: each board is in one of eight phases, up, rising,
stopping, ending, down, falling, crediting, continuing, told by the level of the wire,
its latched edges and its handler, and each phase fixes which of the board's processes
are stopped; with it, at most one board drives the wire (`OneDriver`), an unloaded
module lists nobody (`LoadInv`), and lists and handlers name processes of their own
board (`TableInv`, `HandlerInv`). All but `OneDriver` is `BoardsInv`, which the managers
keep too although they drive the wire together. AllOrNone follows at once. For the
refinement each action is shown to be a step of `GlobalPause` or a stutter. *Credit on
the boards* (VtGpioCredit_proofs) adds that no list has a process twice, that nobody is
dilated in a pause, and that only enrolled processes are in virtual time (`HabitInv`).
TLC has checked both as invariants of small instances: `WireInv` in 971,712 states,
`HabitInv` in 3,943,514.

*What the processes of a board read* (VtGpioCredit_proofs). `ClockInv` adds to
`HabitInv` that a process in virtual time is at normal speed with the virtual and the
physical books in step (`Plain`), so that a reading is the wall clock less the credit
(`PlainReading`) in whatever name a handler has read the clock meanwhile; that what a
process has read is not ahead of the wall clock less its frozen time, credited or not
(`ReadingInv`); and that two processes that entered at the same moment have been frozen
for as long (`Abreast`), which rests on the phases: between two handlers all of a
board's processes are stopped or none is. A process that runs has been credited all of
it (`RunsCredited`), so its readings never go back. `OneFactor` says that of the
positive values written to `tdf` there is only 1.0 (0 and negative ones may be written
too), as the repository's `README.md:52` asks ("should just stay at the default of
1000"): with a second factor TLC finds both properties violated, because `Redilate`
restarts the clock with what it has counted already (`time.c:173`). TLC has checked
`ClockInv` on the instance of gpio_board in 1,267,555 states.

*Managers* (VtManager_proofs). No manager keeps to turns, so `OneDriver` does not hold
and the phases of `WireInv` do not either; what counts is the level that each board
sees. A manager writes when every interrupt is served. Driving the wire high then makes
boards see it rise only, driving it low makes them see it fall only, and letting go may
make those see it rise that have a fall still to serve, but lets nobody see it fall
(lemmas `Edges`, `Rises`). So a board that sees the wire low has no rise to serve after
its last fall: `ReleaseInv` says of it that its process runs, or that the fall is still
to be served or just being served (`LowInv`); with it go the lists and the handlers
(`ListsInv`). When nobody drives the wire high every board sees it low, and
NobodyLeftStopped follows. `PauseInv` adds for HeldUntilClash that boards that are
started together pause only when all are enrolled (`BeforeInv`), that each lists its one
process (`OneList`), that the wire has one level unless it is driven both ways
(`LevelInv`), and that, while there has been no clash, a board that sees the wire high
has stopped its process or is about to (`HeldInv`). Each action of a manager is a step
of `VtGpio` (`GpioStep`). `Together` is the option -t. TLC has checked both invariants
on the instance of manager_pauses, also with several CPUs, and `ReleaseInv` on boards
that are not started together.

*Turns* (Experiment_proofs). `TurnInv`: a board that pauses, or has been asked to, is
the one whose turn it is, and the leader waits for its answer, which has not come; a
board drives the wire only while its script is between freeze and unfreeze. `LeaderInv`
says which signals may be on their way in each state of the leader; lemma `Sent` is the
step that sends one to the next board of the list. Nothing is assumed about timers, so
OnlyInTurn does not rest on the sleeps. KeepsTurns does: `CalmInv` adds that when the
timer of a freeze or of the leader's next turn has run out, any edge that is left to
serve would be a second old (`Ripe`), and an edge is served before that if `Latency <
Second`; hence a script that changes the wire finds every edge served (`RipeIsCalm`),
and every step keeps this (`CalmStep`).

*The lines of the logs* (Experiment_proofs). Nothing tells the leader that a follower
has written its line. `EvenInv`, on top of the turns, counts: each board has been
credited the freezes that have ended, less one while it has the fall to serve
(`CreditInv`); each log has a line for each round, less one while the signal for it
waits (`LinesInv`); such a line is written before the next freeze can end and before the
board is told to stop (`TimeInv`, which compares the timers: a follower looks within a
second, and a second at least lies between the signal and the end of the next freeze);
`Collected` follows each board through the three loops at the end. `Punctual` is
`Latency < Second` and `Moment > 0`: with an ssh that takes no time the signal to stop
can overtake the one for the last line. `FirstIsAnother` says that, where there are
other boards, the first turn is one of theirs: the first lines are asked for without a
sleep after them (`leader.sh:592`), and TLC finds that a follower may write its first
line after a freeze of the leader's own. The committed order with other boards is thus
excluded, which experiment_own shows never to end anyway. TLC has checked the invariant
(`SafeInv`) for the order of experiment_mixed in 7,714 states, and for another order and
other durations.

*The coordinator* (DssCoordinator_proofs). `PlaceInv`: an event under way is in one
place, the pipe, the listener, the queue, the simulator or its thread. Only the two
stores open and close a blocking event (`OpenStep`), each one event, and a handler that
raises an error leaves its event open: so a store that adds 1 to, or takes 1 from, the
value that is there keeps the difference between count and events. With no switch inside
a count that is CountsOpen, but the interpreter does not promise it, and the theorem is
about what holds with any switches. For AskedInOrder, `TimeInv` ties the last time asked
to the event that the simulator works on.

*Only model-checked*: everything temporal under fairness, which needs ENABLED
(FreezeTakesEffect, UnfreezeTakesEffect, FreezeReachesAll, ResumeReachesAll, Completes,
PausesEndOrClash, NetworkResumes, AnswerComes); and HeldWhileBlocked, which needs what
the interpreter and the simulator do not promise. Every other invariant
and action property of the passing runs is a theorem.

## 5. What is not modelled

* Upstream code that the repository carries and the virtual-time patch does not
  touch: the packet schedulers `sch_htb` (both copies), ping and the other iputils,
  most of Mininet, and of `fs/proc/base.c`, `fork.c`, `time.c`, `timekeeping.c` and
  `sched.h` all but the functions for virtual time. It makes up most of the lines
  of the repository. None of it keeps state of virtual time; what the modified
  functions call is modelled from its use and marked external.
* `dilate_all_procs` and `dilateEmulation`: each write they make is
  `DilationWrite` of KernelVT. Threads of `freeze_all_procs` that fail to open a file
  (every process of DssCoordinator exists as long as the network does).
* `master.sh`, an older leader whose signals mean something else to the present
  `local.sh`; `leader_solo.sh`, which has no other boards.
* In `master_template.py`: the set-up of the network (60-215), the contents of requests
  and replies, link changes, errors that end the listener or sync, and `heappush` and
  `heappop` of two threads inside each other.
* In `vtgpio.c`: the round-robin variant (compiled out; it divides by `num_procs`, 0
  when no listed process exists), failures of gpio and kobject calls, and the numbers
  that the benchmark prints, whose borrow at `:122` goes the wrong way.
* Fields read torn on a 32-bit core, overflow after 104 days without a reading, and
  `unshare(CLONE_NEWTIME)` by a child of a process in virtual time.
* The messages between the power-grid hosts themselves; the old `virtual_time_module`,
  which `vtgpio` replaces; the documents and the measurement data.
