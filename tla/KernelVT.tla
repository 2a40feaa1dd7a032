------------------------------ MODULE KernelVT ------------------------------
(***************************************************************************)
(* The virtual-time kernel of one board: processes that read their clocks, *)
(* fork and are stopped by signals, and the writers of                     *)
(* /proc/PID/dilation and /proc/PID/freeze.  freeze_time() and             *)
(* unfreeze_time() take no lock, so each is split where another process,   *)
(* another writer or the passing of time can come between its statements.  *)
(***************************************************************************)
EXTENDS VtTask, FiniteSets

CONSTANTS
  Task,      \* processes
  Nobody,    \* no process: the parent of a group leader, a writer outside VT
  Caller,    \* threads that write /proc/PID/freeze
  Unborn,    \* the processes that exist only once they have been forked
  TDFs,      \* the values written to /proc/PID/dilation (TDF times One)
  MaxWall,   \* bound on the wall clock
  SMP,       \* TRUE: a process may run on another CPU until it takes SIGSTOP
  Orderly,   \* TRUE: the files are written as the emulation scripts do
  Redilates  \* TRUE: also to change the factor of a process already in VT

ASSUME TaskAssumption ==
  /\ Nobody \notin Task
  /\ Unborn \subseteq Task
  /\ TDFs \subseteq Int
  /\ MaxWall \in Nat
  /\ SMP \in BOOLEAN
  /\ Orderly \in BOOLEAN
  /\ Redilates \in BOOLEAN

VARIABLES
  wall,      \* the wall clock of the timekeeper, __getnstimeofday()
  vt,        \* the virtual-time fields of each process
  parent,    \* parent[t], Nobody for a group leader
  copy,      \* copy[t], the child that t is forking and has not linked yet
  run,       \* what the signals have made of each process
  call,      \* the freeze_time()/unfreeze_time() call of each Caller
  obs        \* history, read by the properties only

vars == <<wall, vt, parent, copy, run, call, obs>>

\* obs[t].stopped and .latency: ticks for which t was stopped, and those of
\* them spent inside a freeze or unfreeze call, since t entered or left VT;
\* .seen is the last time t read.
Unobserved == [stopped |-> 0, latency |-> 0, seen |-> 0]
Afresh(o)  == [stopped |-> 0, latency |-> 0, seen |-> o.seen]

Idle == [pc |-> "idle", tsk |-> Nobody, now |-> 0]

CallStates ==
  {"idle", "f_stop", "f_stamp", "f_mark", "u_credit", "u_clear", "u_cont"}
RunStates  == {"unborn", "running", "stopping", "stopped"}

TypeOK ==
  /\ wall \in Nat \ {0}
  /\ vt \in [Task -> TaskFields]
  /\ parent \in [Task -> Task \union {Nobody}]
  /\ copy \in [Task -> Task \union {Nobody}]
  /\ run \in [Task -> RunStates]
  /\ call \in [Caller -> [pc: CallStates, tsk: Task \union {Nobody}, now: Int]]
  /\ \A c \in Caller : call[c].pc # "idle" <=> call[c].tsk \in Task
  /\ obs \in [Task -> [stopped: Nat, latency: Nat, seen: Int]]

Born(t)      == run[t] # "unborn"
Executing(t) == run[t] \in {"running", "stopping"} /\ copy[t] = Nobody
Leader(t)    == Born(t) /\ parent[t] = Nobody

\* Some call on t is between two of its steps; t is stopped by a freeze that has
\* not taken the time yet, or waits for an unfreeze that has.
Busy(t) == \E c \in Caller : call[c].tsk = t
Inside(t) ==
  \E c \in Caller :
    call[c].tsk = t /\ call[c].pc \in {"f_stamp", "u_credit", "u_clear", "u_cont"}

\* The processes that a walk down the children lists from t comes to, when it
\* goes on below the members of through: the least set closed under the walk.
Walk(t, through) ==
  {d \in Task : \A S \in SUBSET Task :
     (t \in S /\ \A c \in Task : parent[c] \in S \intersect through => c \in S)
       => d \in S}

Descendants(t) == Walk(t, Task) \ {t}

-----------------------------------------------------------------------------
Init ==
  /\ wall = 1
  /\ vt = [t \in Task |-> NoVirtualTime]
  /\ parent = [t \in Task |-> Nobody]
  /\ copy = [t \in Task |-> Nobody]
  /\ run = [t \in Task |-> IF t \in Unborn THEN "unborn" ELSE "running"]
  /\ call = [c \in Caller |-> Idle]
  /\ obs = [t \in Task |-> Unobserved]

\* The hardware clock advances, for everybody.
Tick ==
  /\ wall < MaxWall
  /\ wall' = wall + 1
  /\ obs' = [t \in Task |->
               IF run[t] = "stopped"
                 THEN [stopped |-> obs[t].stopped + 1,
                       latency |-> obs[t].latency + IF Inside(t) THEN 1 ELSE 0,
                       seen    |-> obs[t].seen]
                 ELSE obs[t]]
  /\ UNCHANGED <<vt, parent, copy, run, call>>

\* gettimeofday(): getnstimeofday() of the process itself.
GetTime(t) ==
  /\ Executing(t)
  /\ vt' = [vt EXCEPT ![t] = KeepTime(@, wall)]
  /\ obs' = [obs EXCEPT ![t].seen = TimeOfDay(vt[t], wall)]
  /\ UNCHANGED <<wall, parent, copy, run, call>>

\* fork(): dup_task_struct() copies the parent's task_struct, its virtual-time
\* fields with it.  Nobody else can see the child yet, and the parent is in the
\* kernel until the child is linked.
ForkCopy(p, c) ==
  /\ Executing(p)
  /\ run[c] = "unborn" /\ \A q \in Task : copy[q] # c
  /\ vt' = [vt EXCEPT ![c] = vt[p]]
  /\ copy' = [copy EXCEPT ![p] = c]
  /\ obs' = [obs EXCEPT ![c] = obs[p]]
  /\ UNCHANGED <<wall, parent, run, call>>

\* The child joins its parent's children, unless a signal is pending.
ForkLink(p) ==
  /\ copy[p] # Nobody /\ run[p] = "running"
  /\ parent' = [parent EXCEPT ![copy[p]] = p]
  /\ run' = [run EXCEPT ![copy[p]] = "running"]
  /\ copy' = [copy EXCEPT ![p] = Nobody]
  /\ UNCHANGED <<wall, vt, call, obs>>

\* A pending signal, SIGSTOP or another, or an error undoes the fork.
ForkAbort(p) ==
  /\ copy[p] # Nobody
  /\ vt' = [vt EXCEPT ![copy[p]] = NoVirtualTime]
  /\ obs' = [obs EXCEPT ![copy[p]] = Unobserved]
  /\ copy' = [copy EXCEPT ![p] = Nobody]
  /\ UNCHANGED <<wall, parent, run, call>>

\* unshare(CLONE_NEWTIME), as mnexec does before it runs a host's shell.
UnshareVirtualTime(t) ==
  /\ Executing(t)
  /\ Orderly => ~Busy(t) /\ Leader(t) /\ vt[t] = NoVirtualTime
  /\ vt' = [vt EXCEPT ![t] =
              InitVirtualStartTime(vt[t], One, TimeOfDay(vt[t], wall))]
  /\ obs' = [obs EXCEPT ![t] = Afresh(obs[t])]
  /\ UNCHANGED <<wall, parent, copy, run, call>>

\* The time that a process w, or a writer outside VT, is given.
WriterTime(w) == IF w = Nobody THEN wall ELSE TimeOfDay(vt[w], wall)

\* set_dilation() walks on below every process that it does not return from.
Dilated(t, tdf) ==
  Walk(t, {d \in Task : vt[d].dilation # tdf /\ ~RefusesDilation(vt[d], tdf)})

\* Process w writes tdf to /proc/t/dilation.  Asking for the time updates the
\* fields of w.  When w is one of several that the write reaches, it enters or
\* leaves virtual time with them and all are given the same time.
DilationWrite(w, t, tdf) ==
  LET all == Dilated(t, tdf)
      now == WriterTime(w)
      asks == \E d \in all : AsksTime(vt[d], tdf)
      old(d) == IF d = w /\ asks THEN KeepTime(vt[d], wall) ELSE vt[d]
      switches(d) == /\ d \in all
                     /\ \/ vt[d].dilation = 0 /\ tdf > 0
                        \/ vt[d].dilation # 0 /\ tdf = 0
  IN
  /\ Born(t)
  /\ w # Nobody =>
       /\ Executing(w)
       /\ w \in all => all = {w} \/ vt[w].dilation = 0 \/ tdf = 0
  /\ Orderly => /\ Leader(t) /\ ~Busy(t) /\ vt[t].freeze_start = 0
                /\ vt[t].dilation = 0 \/ tdf = 0 \/ Redilates
                /\ w # Nobody => ~InVT(vt[w])
  /\ vt' = [d \in Task |-> IF d \in all THEN SetDilation(old(d), tdf, now)
                                        ELSE old(d)]
  /\ obs' = [d \in Task |->
               IF switches(d) THEN Afresh(obs[d]) ELSE obs[d]]
  /\ UNCHANGED <<wall, parent, copy, run, call>>

-----------------------------------------------------------------------------
(***************************************************************************)
(* Writing /proc/t/freeze.  A caller that writes "1" runs freeze_time(t),  *)
(* one that writes "0" runs unfreeze_time(t).                              *)
(***************************************************************************)

\* Faulty variant: the call is left on the books.
Return_keeps(c)  == call' = [call EXCEPT ![c].pc = "idle"]

Goto(c, pc, now) ==
  call' = [call EXCEPT ![c] = [pc |-> pc, tsk |-> call[c].tsk, now |-> now]]
Return(c)        == call' = [call EXCEPT ![c] = Idle]
At(c, pc)        == call[c].pc = pc

\* Only group leaders in virtual time are frozen and unfrozen.
OrderlyFreeze(t) == Orderly => Leader(t) /\ InVT(vt[t])

\* freeze_write "1": freeze_time() looks at freeze_start and returns, or goes on.
FreezeWrite(c, t) ==
  /\ At(c, "idle") /\ Born(t)
  /\ OrderlyFreeze(t)
  /\ call' = IF vt[t].freeze_start > 0
               THEN call
               ELSE [call EXCEPT ![c] = [pc |-> "f_stop", tsk |-> t, now |-> 0]]
  /\ UNCHANGED <<wall, vt, parent, copy, run, obs>>

\* kill_pid(SIGSTOP), to this process alone.  When it cannot be running on
\* another CPU it executes nothing more of its own and counts as stopped, in the
\* middle of a fork too.
FreezeStop(c) ==
  LET t == call[c].tsk IN
  /\ At(c, "f_stop")
  /\ run' = [run EXCEPT ![t] = IF @ = "running" /\ SMP THEN "stopping"
                               ELSE IF @ = "running" THEN "stopped" ELSE @]
  /\ Goto(c, "f_stamp", 0)
  /\ UNCHANGED <<wall, vt, parent, copy, obs>>

\* A process running elsewhere takes SIGSTOP, but not in the middle of a fork.
TakeStop(t) ==
  /\ run[t] = "stopping" /\ copy[t] = Nobody
  /\ run' = [run EXCEPT ![t] = "stopped"]
  /\ UNCHANGED <<wall, vt, parent, copy, call, obs>>

\* now = __getnstimeofday()
FreezeStamp(c) ==
  /\ At(c, "f_stamp")
  /\ Goto(c, "f_mark", wall)
  /\ UNCHANGED <<wall, vt, parent, copy, run, obs>>

\* Faulty variant: returns without the mark.
FreezeMark_unmarked(c) ==
  /\ At(c, "f_mark")
  /\ Return(c)
  /\ UNCHANGED <<wall, vt, parent, copy, run, obs>>

\* freeze_start_nsec = now
FreezeMark(c) ==
  /\ At(c, "f_mark")
  /\ vt' = [vt EXCEPT ![call[c].tsk].freeze_start = call[c].now]
  /\ Return(c)
  /\ UNCHANGED <<wall, parent, copy, run, obs>>

\* Faulty variant: unfreezes what is not frozen.
UnfreezeWrite_unchecked(c, t) ==
  /\ At(c, "idle") /\ Born(t)
  /\ OrderlyFreeze(t)
  /\ call' = [call EXCEPT ![c] = [pc |-> "u_credit", tsk |-> t, now |-> wall]]
  /\ UNCHANGED <<wall, vt, parent, copy, run, obs>>

\* freeze_write "0": unfreeze_time() looks at freeze_start and takes the time.
UnfreezeWrite(c, t) ==
  /\ At(c, "idle") /\ Born(t)
  /\ OrderlyFreeze(t)
  /\ vt[t].freeze_start # 0
  /\ call' = [call EXCEPT ![c] = [pc |-> "u_credit", tsk |-> t, now |-> wall]]
  /\ UNCHANGED <<wall, vt, parent, copy, run, obs>>

\* freeze_past_nsec += now - freeze_start_nsec
UnfreezeCredit(c) ==
  /\ At(c, "u_credit")
  /\ vt' = [vt EXCEPT ![call[c].tsk] = CreditFreeze(@, call[c].now)]
  /\ Goto(c, "u_clear", 0)
  /\ UNCHANGED <<wall, parent, copy, run, obs>>

\* Faulty variants: the mark stays; only the direct children are told.
UnfreezeClear_marked(c) ==
  LET t == call[c].tsk IN
  /\ At(c, "u_clear")
  /\ vt' = [d \in Task |-> IF d \in Descendants(t)
                              THEN CopyFreeze(vt[d], vt[t]) ELSE vt[d]]
  /\ Goto(c, "u_cont", 0)
  /\ UNCHANGED <<wall, parent, copy, run, obs>>

UnfreezeClear_shallow(c) ==
  LET t == call[c].tsk
      cleared == [vt[t] EXCEPT !.freeze_start = 0]
  IN
  /\ At(c, "u_clear")
  /\ vt' = [d \in Task |-> IF d = t THEN cleared
                            ELSE IF parent[d] = t
                              THEN CopyFreeze(vt[d], cleared) ELSE vt[d]]
  /\ Goto(c, "u_cont", 0)
  /\ UNCHANGED <<wall, parent, copy, run, obs>>

\* freeze_start_nsec = 0, and populate_frozen_time() down the whole subtree.
UnfreezeClear(c) ==
  LET t == call[c].tsk
      cleared == [vt[t] EXCEPT !.freeze_start = 0]
  IN
  /\ At(c, "u_clear")
  /\ vt' = [d \in Task |-> IF d = t THEN cleared
                            ELSE IF d \in Descendants(t)
                              THEN CopyFreeze(vt[d], cleared) ELSE vt[d]]
  /\ Goto(c, "u_cont", 0)
  /\ UNCHANGED <<wall, parent, copy, run, obs>>

\* Faulty variant: no SIGCONT.
UnfreezeContinue_silent(c) ==
  /\ At(c, "u_cont")
  /\ Return(c)
  /\ UNCHANGED <<wall, vt, parent, copy, run, obs>>

\* kill_pid(SIGCONT); it also discards a SIGSTOP that is still pending.
UnfreezeContinue(c) ==
  /\ At(c, "u_cont")
  /\ run' = [run EXCEPT ![call[c].tsk] = "running"]
  /\ Return(c)
  /\ UNCHANGED <<wall, vt, parent, copy, obs>>

-----------------------------------------------------------------------------
CallStep(c) ==
  \/ FreezeStop(c) \/ FreezeStamp(c) \/ FreezeMark(c)
  \/ UnfreezeCredit(c) \/ UnfreezeClear(c) \/ UnfreezeContinue(c)

Next ==
  \/ Tick
  \/ \E t \in Task : GetTime(t) \/ UnshareVirtualTime(t) \/ TakeStop(t)
  \/ \E p, c \in Task : ForkCopy(p, c)
  \/ \E p \in Task : ForkLink(p) \/ ForkAbort(p)
  \/ \E w \in Task \union {Nobody}, t \in Task, tdf \in TDFs :
        DilationWrite(w, t, tdf)
  \/ \E c \in Caller, t \in Task : FreezeWrite(c, t) \/ UnfreezeWrite(c, t)
  \/ \E c \in Caller : CallStep(c)

Spec == Init /\ [][Next]_vars

\* A write to /proc and a fork run to their end, and a signal is taken, however
\* the scheduler interleaves them; nothing obliges anybody to write or to fork.
Fairness ==
  /\ \A c \in Caller : WF_vars(CallStep(c))
  /\ \A t \in Task : WF_vars(TakeStop(t)) /\ WF_vars(ForkLink(t) \/ ForkAbort(t))

FairSpec == Spec /\ Fairness

-----------------------------------------------------------------------------
(***************************************************************************)
(* What an orderly user gets.                                              *)
(***************************************************************************)

\* The part of the frozen time of t that no unfreeze has credited yet, when c is
\* the only caller.
Uncredited(c, t) ==
  IF At(c, "u_credit") /\ call[c].tsk = t THEN call[c].now - vt[t].freeze_start
  ELSE IF At(c, "u_clear") /\ call[c].tsk = t THEN 0
  ELSE IF At(c, "f_mark") /\ call[c].tsk = t THEN wall - call[c].now
  ELSE IF vt[t].freeze_start > 0 THEN wall - vt[t].freeze_start
  ELSE 0

\* The frozen duration that unfreeze_time() subtracts from a process's clock is
\* the time the process was really stopped, less what passed inside the calls:
\* no tick is credited twice, none is credited while the process ran.
Credited(c, t) ==
  InVT(vt[t]) =>
    vt[t].freeze_past + Uncredited(c, t) = obs[t].stopped - obs[t].latency
ExactCredit == \A c \in Caller, t \in Task : Leader(t) => Credited(c, t)

\* Frozen and credited time never exceed the time that has passed, so a reading
\* by a running leader never finds a negative stretch of time to account for.
NoNegativeStretch ==
  \A c \in Caller, t \in Task : Leader(t) /\ InVT(vt[t]) =>
    DeltaPhysical(vt[t], wall) >= Uncredited(c, t)

\* With factors of at least 1.0 the time a leader reads is never later than the
\* wall clock: it is the wall clock less the time frozen.
NeverAheadOfWall ==
  \A t \in Task : Leader(t) => obs[t].seen <= wall

\* Each reading drops the remainder of its division, so virtual_past falls behind
\* physical_past / TDF; it must never get ahead of it.
VirtualPastBehind ==
  \A t \in Task : Leader(t) /\ InVT(vt[t]) =>
    vt[t].virtual_past * vt[t].dilation <= vt[t].physical_past * One

\* A stopped leader can be continued: freeze_start is set, or a call that is
\* under way will set it or send SIGCONT.  (unfreeze_time() ignores a process
\* whose freeze_start is 0, so otherwise it would stay stopped for ever.)
StoppedCanContinue ==
  \A t \in Task : Leader(t) /\ run[t] = "stopped" =>
    vt[t].freeze_start > 0 \/ Busy(t)

\* Outside the calls a leader that is marked frozen is stopped: no time in which
\* it runs can be credited as frozen later.
FrozenIsStopped ==
  \A t \in Task : Leader(t) /\ vt[t].freeze_start > 0 /\ ~Busy(t) =>
    run[t] = "stopped"

\* The parent and the child of a process tree in virtual time have been credited
\* the same frozen time: set_dilation() and the clock take tsk's freeze_past_nsec
\* to be "either its own or populated".
FamilySharesCredit ==
  \A t \in Task :
    Born(t) /\ parent[t] # Nobody /\ InVT(vt[t]) /\ InVT(vt[parent[t]]) =>
      \/ vt[t].freeze_past = vt[parent[t]].freeze_past
      \/ \E c \in Caller : At(c, "u_clear")

\* A child in virtual time is so with its parent and with the same credit, but
\* for the moment in which the parent's unfreeze is about to spread it.
SharesCredit(t) ==
  vt[t].dilation # 0 =>
    /\ vt[parent[t]].dilation # 0
    /\ \/ vt[t].freeze_past = vt[parent[t]].freeze_past
       \/ \E c \in Caller : At(c, "u_clear") /\ call[c].tsk = parent[t]

\* In this step an unfreeze spreads its credit to t and to its parent.
Told(t) ==
  /\ vt[parent[t]].dilation # 0
  /\ \E c \in Caller : /\ At(c, "u_clear") /\ At(c, "u_cont")'
                       /\ t \in Descendants(call[c].tsk)

\* Only the window of a fork parts a child from its parent.  A child that once
\* has its parent's credit keeps up with it however freezes, unfreezes, further
\* forks and changes of virtual time interleave, and the next unfreeze of the
\* family makes up to a child that was missed what it has not been told.
CreditReachesFamily ==
  [][\A t \in Task : parent[t] # Nobody /\ (SharesCredit(t) \/ Told(t)) =>
       SharesCredit(t)']_vars

\* A process never reads a time earlier than one it has already read, across
\* freezes, entering and leaving virtual time included.
ClockNeverGoesBack(t) == obs'[t].seen >= obs[t].seen
LeaderClockMonotone ==
  [][\A t \in Task : Leader(t) => ClockNeverGoesBack(t)]_vars

\* Whoever wrote, froze or forked what in whatever order, a process whose
\* dilation is 0 reads the wall clock: leaving virtual time, a child's copy of
\* its parent's fields and populate_frozen_time() leave nothing behind that the
\* clock would still be computed from.
OutsideReadsWall ==
  \A t \in Task : vt[t].dilation = 0 => TimeOfDay(vt[t], wall) = wall

\* A freeze that got past its check ends with the process marked frozen and
\* stopped, or about to take its SIGSTOP.
FreezeTakesEffect ==
  \A c \in Caller, t \in Task :
    At(c, "f_stop") /\ call[c].tsk = t
      ~> run[t] \in {"stopping", "stopped"} /\ vt[t].freeze_start > 0

\* An unfreeze that got past its check ends with the process continued and the
\* mark gone.
UnfreezeTakesEffect ==
  \A c \in Caller, t \in Task :
    At(c, "u_credit") /\ call[c].tsk = t
      ~> run[t] = "running" /\ vt[t].freeze_start = 0

\* The inductive invariant behind ExactCredit: where each step of a call finds
\* and leaves a leader, when c is the only caller and the writers are orderly.
Phase(c, t) ==
  LET here(pc) == At(c, pc) /\ call[c].tsk = t
      start == vt[t].freeze_start
  IN
  /\ run[t] \in {"running", "stopped"}
  /\ start >= 0 /\ start <= wall
  /\ call[c].tsk # t => (run[t] = "stopped" <=> start > 0)
  /\ here("f_stop")  => run[t] = "running" /\ start = 0
  /\ here("f_stamp") => run[t] = "stopped" /\ start = 0
  /\ here("f_mark") => /\ run[t] = "stopped" /\ start = 0
                       /\ 0 < call[c].now /\ call[c].now <= wall
  /\ here("u_credit") => /\ run[t] = "stopped" /\ start > 0
                         /\ start <= call[c].now /\ call[c].now <= wall
  /\ here("u_clear") => run[t] = "stopped" /\ start > 0
  /\ here("u_cont")  => run[t] = "stopped" /\ start = 0
  /\ InVT(vt[t]) <=> vt[t].dilation # 0
  /\ start > 0 \/ call[c].tsk = t => InVT(vt[t])

\* Calls are about leaders, and in every step of every call a leader is where
\* that step of the code expects it: running or stopped, marked or not.
PhaseInv ==
  \A c \in Caller, t \in Task :
    /\ call[c].tsk = t => Leader(t)
    /\ Leader(t) => Phase(c, t)
=============================================================================
