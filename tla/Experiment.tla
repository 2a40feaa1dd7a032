----------------------------- MODULE Experiment -----------------------------
(***************************************************************************)
(* The distributed experiment: leader.sh on one board, local.sh on each of *)
(* the others.  In every turn one board freezes all of them for a second;  *)
(* then each writes a line of its skew log.  The scripts talk by signals   *)
(* over ssh and otherwise rely on their sleeps, so this module has time:   *)
(* timers that run out, and a bound on the latency of interrupts.          *)
(* What vtgpio does inside its handlers is in VtGpio.                      *)
(***************************************************************************)
EXTENDS Integers, Sequences

CONSTANTS
  IPs,          \* the boards that run local.sh, in the order of leader.sh
  Leader,       \* the board that runs leader.sh
  pause_order,  \* whose turn it is
  Second,       \* ticks of `sleep 1`
  Moment,       \* ticks of `sleep .1`, and at least of an ssh
  Latency       \* ticks within which a board serves an interrupt

Follower == {IPs[k] : k \in DOMAIN IPs}
Board    == Follower \union {Leader}
Turns    == Len(pause_order)

ASSUME ExperimentAssumption ==
  /\ IPs \in Seq(Follower)
  /\ \A j, k \in DOMAIN IPs : IPs[j] = IPs[k] => j = k
  /\ Leader \notin Follower
  /\ pause_order \in Seq(Board)
  /\ Second \in Nat /\ Moment \in Nat /\ Latency \in Nat

VARIABLES
  script,       \* where the script of each board is
  timer,        \* ticks left of the command that it runs
  signal,       \* signals it has not run its trap for yet
  should_wait,  \* of leader.sh, and so are LOPP and at,
  LOPP,         \* the turn, and
  at,           \* the board of IPs that it speaks to
  pin,          \* boards that drive the wire high
  latch,        \* edges that a board has not served yet
  age,          \* and for how long
  still,        \* boards whose processes are stopped
  credited,     \* the freezes that their fpt counts
  log,          \* the skew log of each board: credited at each line
  saved,        \* boards whose local.sh has written its overhead log
  skew,         \* the skew logs that the leader has collected
  overhead      \* boards that the leader has an overhead log of

wire == <<pin, latch, age, still, credited>>
logs == <<log, saved, skew, overhead>>
vars == <<script, timer, signal, should_wait, LOPP, at, wire, logs>>

Pausing == {"lead", "frozen", "thawed", "reply"}
FollowerStates == {"setup", "loop", "exited"} \union Pausing
LeaderStates == {"setup", "tell", "turn", "call", "frozen", "wait",
                 "kill", "skew", "overhead", "done"}

TypeOK ==
  /\ script \in [Board -> FollowerStates \union LeaderStates]
  /\ timer \in [Board -> Nat]
  /\ signal \in [Board -> SUBSET {6, 10, 12}]
  /\ should_wait \in {0, 1} /\ LOPP \in 0..Turns /\ at \in 1..(Len(IPs) + 1)
  /\ pin \subseteq Board /\ still \subseteq Board
  /\ latch \in [Board -> SUBSET {"rise", "fall"}]
  /\ age \in [Board -> Nat] /\ credited \in [Board -> Nat]
  /\ log \in [Board -> Seq(Nat)]
  /\ saved \subseteq Follower /\ overhead \subseteq Follower
  /\ skew \in [Follower -> Seq(Nat)]

-----------------------------------------------------------------------------
Init ==
  /\ script = [b \in Board |-> "setup"]
  /\ timer = [b \in Board |-> 0]
  /\ signal = [b \in Board |-> {}]
  /\ should_wait = 1 /\ LOPP = 0 /\ at = 1
  /\ pin = {} /\ still = {}
  /\ latch = [b \in Board |-> {}]
  /\ age = [b \in Board |-> 0] /\ credited = [b \in Board |-> 0]
  /\ log = [b \in Board |-> <<>>]
  /\ saved = {} /\ overhead = {} /\ skew = [f \in Follower |-> <<>>]

\* The one CPU of a board serves interrupts before it runs a script, and bash runs
\* its traps, lowest signal first, when the command it waits for has ended.
Prompt(b) == timer[b] = 0 /\ latch[b] = {}
Trapped(b) == IF script[b] \in Pausing THEN signal[b] \ {12} ELSE signal[b]
Trap(b, n) ==
  Prompt(b) /\ n \in Trapped(b) /\ \A k \in Trapped(b) : n <= k
Goes(b, pc) == Prompt(b) /\ Trapped(b) = {} /\ script[b] = pc
To(b, pc, ticks) ==
  /\ script' = [script EXCEPT ![b] = pc]
  /\ timer' = [timer EXCEPT ![b] = ticks]
Send(b, n) == signal' = [signal EXCEPT ![b] = @ \union {n}]
Done(b, n) == signal' = [signal EXCEPT ![b] = @ \ {n}]

\* cat /proc/PID/fpt into the skew log.
Line(b) == log' = [log EXCEPT ![b] = Append(@, credited[b])]

\* echo freeze, echo unfreeze > /sys/vt/VT7/mode
Drive(drivers) ==
  /\ pin' = drivers
  /\ latch' = [b \in Board |->
       IF pin = {} /\ drivers # {} THEN latch[b] \union {"rise"}
       ELSE IF pin # {} /\ drivers = {} THEN latch[b] \union {"fall"}
       ELSE latch[b]]
  /\ UNCHANGED <<age, still, credited>>

\* The interrupt handlers of vtgpio.
Serve(b, edge) ==
  /\ edge \in latch[b]
  /\ latch' = [latch EXCEPT ![b] = @ \ {edge}]
  /\ age' = [age EXCEPT ![b] = 0]
  /\ IF edge = "rise"
       THEN still' = still \union {b} /\ UNCHANGED credited
       ELSE still' = still \ {b} /\ credited' = [credited EXCEPT ![b] = @ + 1]
  /\ UNCHANGED <<script, timer, signal, should_wait, LOPP, at, pin, logs>>

\* Time does not wait for a pause, for ssh or for the leader; but the loop of local.sh
\* looks for signals after each `sleep 1`, and an interrupt is served in time.
Overdue(b) ==
  \/ script[b] = "loop" /\ timer[b] = 0
  \/ latch[b] # {} /\ age[b] >= Latency

Tick ==
  /\ \A b \in Board : ~Overdue(b)
  /\ timer' = [b \in Board |-> IF timer[b] = 0 THEN 0 ELSE timer[b] - 1]
  /\ age' = [b \in Board |-> IF latch[b] = {} THEN 0 ELSE age[b] + 1]
  /\ UNCHANGED <<script, signal, should_wait, LOPP, at, pin, latch, still, credited,
                 logs>>

-----------------------------------------------------------------------------
(***************************************************************************)
(* local.sh                                                                *)
(***************************************************************************)
\* insmod, enrol the processes, enter the loop that waits for signals.
setup(f) ==
  /\ Goes(f, "setup")
  /\ To(f, "loop", Second)
  /\ UNCHANGED <<signal, should_wait, LOPP, at, wire, logs>>

SleepOn(f) ==
  /\ Goes(f, "loop")
  /\ To(f, "loop", Second)
  /\ UNCHANGED <<signal, should_wait, LOPP, at, wire, logs>>

getFPT(f) ==
  /\ Trap(f, 10) /\ script[f] # "exited"
  /\ Line(f) /\ Done(f, 10)
  /\ UNCHANGED <<script, timer, should_wait, LOPP, at, wire, saved, skew, overhead>>

make_pause(f) ==
  /\ Trap(f, 12) /\ script[f] = "loop"
  /\ Done(f, 12) /\ To(f, "lead", 2 * Second)
  /\ UNCHANGED <<should_wait, LOPP, at, wire, logs>>

\* Faulty variant: the leader is answered before the pause is over.
Freeze_early(f) ==
  /\ Goes(f, "lead")
  /\ Drive(pin \union {f}) /\ To(f, "frozen", Second) /\ Send(Leader, 10)
  /\ UNCHANGED <<should_wait, LOPP, at, logs>>

Freeze(f) ==
  /\ Goes(f, "lead")
  /\ Drive(pin \union {f}) /\ To(f, "frozen", Second)
  /\ UNCHANGED <<signal, should_wait, LOPP, at, logs>>

Unfreeze(f) ==
  /\ Goes(f, "frozen")
  /\ Drive(pin \ {f}) /\ To(f, "thawed", Moment)
  /\ UNCHANGED <<signal, should_wait, LOPP, at, logs>>

Answer(f) ==
  /\ Goes(f, "thawed")
  /\ To(f, "reply", Moment)
  /\ UNCHANGED <<signal, should_wait, LOPP, at, wire, logs>>

\* Faulty variant: the answer does not get through.
Answered_mute(f) ==
  /\ Goes(f, "reply")
  /\ To(f, "loop", Second)
  /\ UNCHANGED <<signal, should_wait, LOPP, at, wire, logs>>

Answered(f) ==
  /\ Goes(f, "reply")
  /\ Send(Leader, 10) /\ To(f, "loop", Second)
  /\ UNCHANGED <<should_wait, LOPP, at, wire, logs>>

\* kill -9 of the processes, dmesg into the overhead log, exit.
cleanup(f) ==
  /\ Trap(f, 6) /\ script[f] # "exited"
  /\ Done(f, 6) /\ To(f, "exited", 0)
  /\ saved' = saved \union {f}
  /\ UNCHANGED <<should_wait, LOPP, at, wire, log, skew, overhead>>

local_sh(f) ==
  \/ setup(f) \/ SleepOn(f) \/ getFPT(f) \/ make_pause(f) \/ Freeze(f)
  \/ Unfreeze(f) \/ Answer(f) \/ Answered(f) \/ cleanup(f)

-----------------------------------------------------------------------------
(***************************************************************************)
(* leader.sh                                                               *)
(***************************************************************************)
\* for j in "${IPs[@]}": the next board, or on to pc after the last.
Each(pc, after, ticks) ==
  IF at < Len(IPs)
    THEN at' = at + 1 /\ To(Leader, pc, Moment)
    ELSE at' = 1 /\ To(Leader, after, ticks)
For(pc, after, ticks) ==
  /\ at' = 1
  /\ IF IPs = <<>> THEN To(Leader, after, ticks) ELSE To(Leader, pc, Moment)

\* setup, and the first line.  The experimenter starts leader.sh when local.sh waits
\* on every other board.
begin ==
  /\ Goes(Leader, "setup")
  /\ \A f \in Follower : script[f] = "loop"
  /\ Line(Leader) /\ For("tell", "turn", 0)
  /\ UNCHANGED <<signal, should_wait, LOPP, wire, saved, skew, overhead>>

\* ssh kill -10 to each board, and sleep 1 at the end of a turn.
After == IF LOPP = 0 THEN 0 ELSE Second
\* Faulty variant: no sleep between turns.
Tell_hasty ==
  /\ Goes(Leader, "tell")
  /\ Send(IPs[at], 10) /\ Each("tell", "turn", 0)
  /\ UNCHANGED <<should_wait, LOPP, wire, logs>>

Tell ==
  /\ Goes(Leader, "tell")
  /\ Send(IPs[at], 10) /\ Each("tell", "turn", After)
  /\ UNCHANGED <<should_wait, LOPP, wire, logs>>

NextTurn(own) ==
  /\ Goes(Leader, "turn") /\ LOPP < Turns
  /\ own <=> pause_order[LOPP + 1] = Leader
  /\ LOPP' = LOPP + 1

OwnTurn ==
  /\ NextTurn(TRUE)
  /\ Drive(pin \union {Leader}) /\ To(Leader, "frozen", Second)
  /\ UNCHANGED <<signal, should_wait, at, logs>>

EndOwnTurn ==
  /\ Goes(Leader, "frozen")
  /\ Drive(pin \ {Leader}) /\ To(Leader, "wait", 0)
  /\ UNCHANGED <<signal, should_wait, LOPP, at, logs>>

\* Faulty variant: the leader forgets that it has to wait.
GiveTurn_impatient ==
  /\ NextTurn(FALSE)
  /\ To(Leader, "call", Moment)
  /\ UNCHANGED <<signal, should_wait, at, wire, logs>>

\* Faulty variant: should_wait is counted up rather than set.
GiveTurn_counts ==
  /\ NextTurn(FALSE)
  /\ should_wait' = should_wait + 1 /\ To(Leader, "call", Moment)
  /\ UNCHANGED <<signal, at, wire, logs>>

GiveTurn ==
  /\ NextTurn(FALSE)
  /\ should_wait' = 1 /\ To(Leader, "call", Moment)
  /\ UNCHANGED <<signal, at, wire, logs>>

\* ssh kill -12
Call ==
  /\ Goes(Leader, "call")
  /\ Send(pause_order[LOPP], 12) /\ To(Leader, "wait", 0)
  /\ UNCHANGED <<should_wait, LOPP, at, wire, logs>>

response ==
  /\ Trap(Leader, 10)
  /\ Done(Leader, 10) /\ should_wait' = 0
  /\ UNCHANGED <<script, timer, LOPP, at, wire, logs>>

\* while [ $should_wait -eq 1 ]: how often it looks does not matter.
PauseOver ==
  /\ Goes(Leader, "wait") /\ should_wait = 0
  /\ Line(Leader) /\ For("tell", "turn", Second)
  /\ UNCHANGED <<signal, should_wait, LOPP, wire, saved, skew, overhead>>

-----------------------------------------------------------------------------
\* collect_logs: stop the other boards, wait, and fetch two logs from each.
collect_logs ==
  /\ Goes(Leader, "turn") /\ LOPP = Turns
  /\ For("kill", "skew", 2 * Second)
  /\ UNCHANGED <<signal, should_wait, LOPP, wire, logs>>

\* Faulty variant: no sleep before the logs are fetched.
Kill_hasty ==
  /\ Goes(Leader, "kill")
  /\ Send(IPs[at], 6) /\ Each("kill", "skew", 0)
  /\ UNCHANGED <<should_wait, LOPP, wire, logs>>

Kill ==
  /\ Goes(Leader, "kill")
  /\ Send(IPs[at], 6) /\ Each("kill", "skew", 2 * Second)
  /\ UNCHANGED <<should_wait, LOPP, wire, logs>>

FetchSkew ==
  /\ Goes(Leader, "skew")
  /\ IF IPs = <<>> THEN skew' = skew
     ELSE skew' = [skew EXCEPT ![IPs[at]] = log[IPs[at]]]
  /\ Each("skew", "overhead", 0)
  /\ UNCHANGED <<signal, should_wait, LOPP, wire, log, saved, overhead>>

FetchOverhead ==
  /\ Goes(Leader, "overhead")
  /\ overhead' = overhead \union
       {f \in saved : at \in DOMAIN IPs /\ f = IPs[at]}
  /\ Each("overhead", "done", 0)
  /\ UNCHANGED <<signal, should_wait, LOPP, wire, log, saved, skew>>

leader_sh ==
  \/ begin \/ Tell \/ OwnTurn \/ EndOwnTurn \/ GiveTurn \/ Call \/ response
  \/ PauseOver \/ collect_logs \/ Kill \/ FetchSkew \/ FetchOverhead

-----------------------------------------------------------------------------
ServeInterrupt(b) == \E edge \in {"rise", "fall"} : Serve(b, edge)

Next ==
  \/ Tick
  \/ leader_sh
  \/ \E f \in Follower : local_sh(f)
  \/ \E b \in Board : ServeInterrupt(b)

Spec == Init /\ [][Next]_vars

\* Time passes, the scripts and ssh go on, interrupts are served.
Fairness ==
  /\ WF_vars(Tick) /\ WF_vars(leader_sh)
  /\ \A f \in Follower : WF_vars(local_sh(f))
  /\ \A b \in Board : WF_vars(ServeInterrupt(b))

FairSpec == Spec /\ Fairness

-----------------------------------------------------------------------------
(***************************************************************************)
(* Properties.                                                             *)
(***************************************************************************)

\* Only the board whose turn it is drives the wire, so freezes of two boards never
\* overlap.
OnlyInTurn == \A b \in pin : LOPP > 0 /\ b = pause_order[LOPP]

\* The habit "turns" of VtGpio: a script changes the wire only when every board has
\* dealt with its last change, to freeze only if nobody drives it, to unfreeze only
\* if it is driven by that board alone.
KeepsTurns ==
  [][pin' # pin =>
       /\ \A b \in Board : latch[b] = {}
       /\ \E b \in Board : {pin, pin'} = {{}, {b}}]_vars

\* Line k of every skew log was written after k - 1 freezes, on every board: the
\* lines that are compared belong to the same freeze.
LogsAligned == \A b \in Board : \A k \in DOMAIN log[b] : log[b][k] = k - 1

\* The leader ends with all the lines of every board, and its overhead log.
AllCollected ==
  script[Leader] = "done" =>
    \A f \in Follower : Len(skew[f]) = Turns + 1 /\ f \in overhead

\* The experiment comes to its end.
Completes == <>(script[Leader] = "done")
=============================================================================
