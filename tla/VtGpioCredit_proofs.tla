------------------------- MODULE VtGpioCredit_proofs -------------------------
(***************************************************************************)
(* That the boards credit frozen time exactly, for any number of boards,   *)
(* processes, slots, pauses and factors: on one CPU each and under the     *)
(* habits of the scripts.  The phases of VtGpio_proofs say who is stopped  *)
(* when; what comes to them here is that no list has a process twice, that *)
(* nobody is dilated in a pause and that virtual time is for the enrolled. *)
(* From it, at normal speed: what the processes of a board read.           *)
(***************************************************************************)
EXTENDS VtGpio_proofs

\* A list has no gaps and no process twice, and neither has a handler's copy.
ListInv(b) ==
  /\ \A i \in Slot \ Listed(b) : module[b].all_pid_nrs[i] = NoPid
  /\ \A i, j \in Listed(b) :
       module[b].all_pid_nrs[i] = module[b].all_pid_nrs[j] => i = j
  /\ \A i, j \in Slots(isr[b].pids) : isr[b].pids[i] = isr[b].pids[j] => i = j

\* A write to pid_NN or tdf that is under way meets nobody frozen.
StoreInv(b) ==
  /\ store[b] \subseteq Listed(b)
  /\ store[b] # {} => ~High(pin) /\ \A x \in Board : irq[x] = {} /\ At(x, "idle")

\* A process in virtual time has a factor and is enrolled.
TaskInv(t) ==
  /\ run[t] # "stopping"
  /\ InVT(vt[t]) <=> vt[t].dilation # 0
  /\ Alive(t) /\ InVT(vt[t]) => Member(t)

Credited(t) ==
  Member(t) /\ InVT(vt[t]) =>
    vt[t].freeze_past + Uncredited(t) = obs[t].stopped - obs[t].latency

HabitInv ==
  /\ WireInv
  /\ \A b \in Board : ListInv(b) /\ StoreInv(b)
  /\ \A t \in Task : TaskInv(t) /\ Credited(t)

-----------------------------------------------------------------------------
(***************************************************************************)
(* What the steps leave alone.                                             *)
(***************************************************************************)

\* A reading keeps all but the times of the last reading.
LEMMA KeepTimeKeeps ==
  ASSUME NEW r \in TaskFields, NEW now
  PROVE  /\ KeepTime(r, now).freeze_past = r.freeze_past
         /\ KeepTime(r, now).virtual_start = r.virtual_start
         /\ KeepTime(r, now).dilation = r.dilation
BY DEF KeepTime

\* Entering virtual time starts with no credit, changing the factor keeps it, and
\* a process is in virtual time when it has a factor.
LEMMA SetDilationCredit ==
  ASSUME NEW r \in TaskFields, NEW tdf \in Int, NEW now \in Nat \ {0},
         InVT(r) <=> r.dilation # 0
  PROVE  LET s == SetDilation(r, tdf, now) IN
         /\ InVT(s) <=> s.dilation # 0
         /\ InVT(s) /\ InVT(r) => s.freeze_past = r.freeze_past
         /\ InVT(s) /\ ~InVT(r) => s.freeze_past = 0
<1> DEFINE s == SetDilation(r, tdf, now)
<1>1. CASE s = r
  BY <1>1
<1>2. CASE s # r
  <2>1. r.dilation \in Nat /\ r.dilation # tdf /\ ~RefusesDilation(r, tdf)
    BY <1>2 DEF SetDilation, TaskFields
  <2>2. CASE r.dilation = 0
    <3>1. s = InitVirtualStartTime(r, tdf, now)
      BY <2>1, <2>2 DEF SetDilation
    <3>2. tdf > 0
      BY <1>2, <3>1 DEF InitVirtualStartTime
    <3>3. s.virtual_start = now /\ s.dilation = tdf /\ s.freeze_past = 0
      BY <3>1, <3>2 DEF InitVirtualStartTime
    <3> QED BY <2>2, <3>2, <3>3 DEF InVT
  <2>3. CASE r.dilation # 0 /\ tdf = 0
    <3>1. s = NoVirtualTime
      BY <2>1, <2>3 DEF SetDilation
    <3> QED BY <3>1 DEF NoVirtualTime, InVT
  <2>4. CASE r.dilation # 0 /\ tdf # 0
    <3>1. s = Redilate(r, tdf, now)
      BY <2>1, <2>4 DEF SetDilation
    <3>2. s.virtual_start = now /\ s.dilation = tdf /\ s.freeze_past = r.freeze_past
      BY <3>1 DEF Redilate
    <3> QED BY <2>4, <3>2 DEF InVT
  <2> QED BY <2>2, <2>3, <2>4
<1> QED BY <1>1, <1>2

\* What a step leaves alone of the process t: its freeze and dilation fields.
SameFields(t) ==
  /\ vt'[t].freeze_past = vt[t].freeze_past
  /\ vt'[t].virtual_start = vt[t].virtual_start
  /\ vt'[t].dilation = vt[t].dilation

LEMMA ClockedKeeps == ASSUME TypeOK, NEW current \in PidOrNone, vt' = Clocked(current),
                             NEW t \in Task
                      PROVE  SameFields(t)
<1>1. vt \in [Task -> TaskFields] /\ vt[t] \in TaskFields
  BY DEF TypeOK
<1>2. vt'[t] = vt[t] \/ vt'[t] = KeepTime(vt[t], wall)
  BY <1>1 DEF Clocked
<1> QED BY <1>1, <1>2, KeepTimeKeeps DEF SameFields

\* The steps of a handler are taken by a board that is busy, and touch no other.
LEMMA HandlerStep == ASSUME TypeOK, NEW b \in Board, TakeInterrupt(b) \/ IsrStep(b)
                     PROVE  /\ irq[b] # {} \/ ~At(b, "idle")
                            /\ UNCHANGED <<wall, pin, store, obs>>
                            /\ \A x \in Board \ {b} : isr'[x] = isr[x]
                            /\ \A x \in Board : SameModule(x)
<1>1. CASE TakeInterrupt(b)
  BY <1>1 DEF TakeInterrupt, Interrupt, SameModule, TypeOK
<1>2. CASE SignalStop(b)
  BY <1>2 DEF SignalStop, SameModule, TypeOK, At
<1>3. CASE Stamp(b)
  BY <1>3 DEF Stamp, SameModule, TypeOK, At
<1>4. CASE Credit(b)
  BY <1>4 DEF Credit, SameModule, TypeOK, At
<1>5. CASE CreditDone(b)
  BY <1>5 DEF CreditDone, SameModule, TypeOK, At
<1>6. CASE SignalContinue(b)
  BY <1>6 DEF SignalContinue, SameModule, TypeOK, At
<1>7. CASE Leave(b)
  BY <1>7 DEF Leave, SameModule, TypeOK, At
<1> QED BY <1>1, <1>2, <1>3, <1>4, <1>5, <1>6, <1>7 DEF IsrStep

-----------------------------------------------------------------------------
(***************************************************************************)
(* Lists.                                                                  *)
(***************************************************************************)
LEMMA SameTable == ASSUME NEW b \in Board, ListInv(b),
                          module'[b].all_pid_nrs = module[b].all_pid_nrs,
                          isr'[b].pids = isr[b].pids
                   PROVE  ListInv(b)' /\ Listed(b)' = Listed(b)
BY DEF ListInv, Listed, Slots

LEMMA ListEmpty == ASSUME NEW b \in Board, module'[b].all_pid_nrs = NoPids,
                          isr'[b] = NoIsr
                   PROVE  ListInv(b)'
BY GpioAssumption DEF ListInv, Listed, NoPids, NoIsr, Slot, Slots

LEMMA ListLoad == ASSUME HabitInv, NEW x \in Board, vtgpio_init(x) \/ vtgpio_exit(x),
                         NEW b \in Board
                  PROVE  ListInv(b)'
<1>1. /\ isr' = isr /\ module'[x].all_pid_nrs = NoPids /\ At(x, "idle")
      /\ \A y \in Board \ {x} : module'[y] = module[y]
  BY DEF vtgpio_init, vtgpio_exit, Fresh, HabitInv, WireInv, BoardsInv, TypeOK, BoardInv, LoadInv
<1>2. isr[x] = NoIsr
  BY <1>1 DEF HabitInv, WireInv, BoardsInv, BoardInv, HandlerInv
<1>3. ListInv(b)
  BY DEF HabitInv
<1>4. CASE b = x
  BY <1>1, <1>2, <1>4, ListEmpty
<1>5. CASE b # x
  BY <1>1, <1>3, <1>5, SameTable
<1> QED BY <1>4, <1>5

\* The slot that a pid is written to is the first free one, and the pid is new.
LEMMA ListEnrol == ASSUME HabitInv, Discipline = Habits, NEW x \in Board, NEW i \in Slot,
                          NEW p \in PidOrNone, pid_store(x, i, p), NEW b \in Board
                   PROVE  /\ ListInv(b)'
                          /\ Listed(b) \subseteq Listed(b)'
                          /\ p # NoPid /\ b = x => i \in Listed(b)'
<1>1. isr' = isr /\ \A y \in Board \ {x} : module'[y] = module[y]
  BY DEF pid_store, HabitInv, WireInv, BoardsInv, TypeOK
<1>2. ListInv(b)
  BY DEF HabitInv
<1>3. CASE b # x
  <2>1. ListInv(b)' /\ Listed(b)' = Listed(b)
    BY <1>1, <1>2, <1>3, SameTable
  <2> QED BY <1>3, <2>1
<1>4. CASE b = x /\ p = NoPid
  <2>1. module'[b].all_pid_nrs = module[b].all_pid_nrs
    <3>1. module[b].all_pid_nrs \in [Slot -> PidOrNone]
      BY DEF HabitInv, WireInv, BoardsInv, TypeOK
    <3>2. module'[b].all_pid_nrs = [module[b].all_pid_nrs EXCEPT ![i] = @]
      BY <1>4 DEF pid_store, HabitInv, WireInv, BoardsInv, TypeOK
    <3> QED BY <3>1, <3>2
  <2>2. ListInv(b)' /\ Listed(b)' = Listed(b)
    BY <1>1, <1>2, <2>1, SameTable
  <2> QED BY <1>4, <2>2
<1>5. CASE b = x /\ p # NoPid
  <2> DEFINE old == module[b].all_pid_nrs
             new == module'[b].all_pid_nrs
  <2>1. /\ Settled /\ ~Member(p) /\ Alive(p) /\ home[p] = b /\ p \in Task
        /\ Listed(b) = 1..(i - 1) /\ old[i] = NoPid
    BY <1>5 DEF pid_store, Enrols, Habits, PidOrNone
  <2>2. new[i] = p /\ \A j \in Slot \ {i} : new[j] = old[j]
    BY <1>5 DEF pid_store, HabitInv, WireInv, BoardsInv, TypeOK
  <2>3. \A j \in Slot \ Listed(b) : old[j] = NoPid
    BY <1>2 DEF ListInv
  <2>4. \A j \in Listed(b) : old[j] # NoPid /\ j \in Slot
    BY DEF Listed, Slot
  <2>5. Listed(b)' = 1..i
    <3>1. \A j \in 1..i : j \in Slot /\ new[j] # NoPid
      BY <1>5, <2>1, <2>2, <2>4, GpioAssumption DEF Slot
    <3>2. \A j \in Slot : j > i => new[j] = NoPid
      BY <2>1, <2>2, <2>3 DEF Slot
    <3>3. Listed(b)' = {k \in Slot : \A j \in 1..k : new[j] # NoPid}
      BY DEF Listed
    <3>4. i \in Nat /\ Slot \subseteq Nat
      BY GpioAssumption DEF Slot
    <3> HIDE DEF new, old
    <3>5. ASSUME NEW k \in 1..i PROVE k \in Listed(b)'
      <4>1. \A j \in 1..k : j \in 1..i
        BY <3>4
      <4> QED BY <3>1, <3>3, <4>1
    <3>6. ASSUME NEW k \in Listed(b)' PROVE k \in 1..i
      <4>1. k \in Slot /\ k \in 1..k /\ new[k] # NoPid /\ k >= 1
        BY <3>3, <3>4 DEF Slot
      <4> QED BY <3>2, <3>4, <4>1
    <3> QED BY <3>5, <3>6
  <2>6. \A j \in Listed(b) : old[j] # p
    BY <2>1 DEF Member
  <2>7. \A j \in Slot \ Listed(b)' : new[j] = NoPid
    BY <2>1, <2>2, <2>3, <2>5 DEF Slot
  <2>8. \A j \in 1..i : j = i \/ j \in Listed(b)
    BY <2>1 DEF Slot
  <2>9. \A j, k \in Listed(b)' : new[j] = new[k] => j = k
    <3>1. \A j, k \in Listed(b) : old[j] = old[k] => j = k
      BY <1>2 DEF ListInv
    <3>2. \A j \in Listed(b) : new[j] = old[j]
      BY <2>1, <2>2, <2>4 DEF Slot
    <3> HIDE DEF new, old
    <3> QED BY <2>2, <2>5, <2>6, <2>8, <3>1, <3>2
  <2>10. \A j, k \in Slots(isr[b].pids)' : isr'[b].pids[j] = isr'[b].pids[k] => j = k
    BY <1>1, <1>2 DEF ListInv, Slots
  <2>11. Listed(b) \subseteq Listed(b)' /\ i \in Listed(b)'
    BY <2>1, <2>5 DEF Slot
  <2> QED BY <2>7, <2>9, <2>10, <2>11 DEF ListInv
<1> QED BY <1>3, <1>4, <1>5

LEMMA ListInterrupt == ASSUME HabitInv, NEW x \in Board, TakeInterrupt(x), NEW b \in Board
                       PROVE  ListInv(b)'
<1>1. PICK edge, current, duration :
        isr' = [isr EXCEPT ![x] =
          [pc |-> IF edge = "rise" THEN "stop" ELSE "credit",
           current |-> current, pids |-> AllPids(x), todo |-> Slots(AllPids(x)),
           duration |-> duration]]
  BY DEF TakeInterrupt, Interrupt
<1>2. UNCHANGED module
  BY DEF TakeInterrupt, Interrupt
<1>3. isr'[x].pids = AllPids(x) /\ \A y \in Board \ {x} : isr'[y] = isr[y]
  BY <1>1 DEF HabitInv, WireInv, BoardsInv, TypeOK
<1>4. ListInv(b)
  BY DEF HabitInv
<1>5. CASE b # x
  BY <1>2, <1>3, <1>4, <1>5, SameTable
<1>6. CASE b = x
  <2>1. \A i \in Slots(AllPids(b)) :
          i \in Listed(b) /\ AllPids(b)[i] = module[b].all_pid_nrs[i]
    BY DEF Slots, AllPids
  <2>2. Slots(isr[b].pids)' = Slots(AllPids(b))
    BY <1>3, <1>6 DEF Slots
  <2>3. \A i, j \in Slots(isr[b].pids)' : isr'[b].pids[i] = isr'[b].pids[j] => i = j
    BY <1>3, <1>4, <1>6, <2>1, <2>2 DEF ListInv
  <2> QED BY <1>2, <1>4, <2>3 DEF ListInv, Listed
<1> QED BY <1>5, <1>6

LEMMA ListOther == ASSUME HabitInv, NEW b \in Board,
                          \/ Tick \/ UNCHANGED vars
                          \/ \E t \in Task : GetTime(t) \/ Exit(t) \/ TakeStop(t)
                          \/ \E x \in Board : \/ LetGo(x) \/ \E word : mode_store(x, word)
                                              \/ \E value \in TDFs : tdf_store(x, value)
                                              \/ dilate_proc(x)
                   PROVE  ListInv(b)' /\ Listed(b)' = Listed(b)
<1>1. isr' = isr
  BY DEF Tick, vars, GetTime, Exit, TakeStop, LetGo, mode_store, tdf_store, dilate_proc
<1>2. module'[b].all_pid_nrs = module[b].all_pid_nrs
  <2>1. ASSUME NEW x \in Board, NEW word, mode_store(x, word)
        PROVE  module'[b].all_pid_nrs = module[b].all_pid_nrs
    BY <2>1 DEF mode_store, HabitInv, WireInv, BoardsInv, TypeOK
  <2>3. ASSUME NEW x \in Board, NEW value \in TDFs, tdf_store(x, value)
        PROVE  module'[b].all_pid_nrs = module[b].all_pid_nrs
    BY <2>3 DEF tdf_store, HabitInv, WireInv, BoardsInv, TypeOK
  <2>2. CASE UNCHANGED module
    BY <2>2
  <2> QED BY <2>1, <2>2, <2>3 DEF Tick, vars, GetTime, Exit, TakeStop, LetGo, dilate_proc
<1> QED BY <1>1, <1>2, SameTable DEF HabitInv

LEMMA ListHandler == ASSUME HabitInv, NEW x \in Board, IsrStep(x), NEW b \in Board
                     PROVE  ListInv(b)'
<1>1. /\ \A y \in Board \ {x} : isr'[y] = isr[y]
      /\ module'[b].all_pid_nrs = module[b].all_pid_nrs
  BY HandlerStep DEF SameModule, HabitInv, WireInv, BoardsInv
<1>2. isr'[x].pids = isr[x].pids \/ isr'[x] = NoIsr
  <2>0. TypeOK
    BY DEF HabitInv, WireInv, BoardsInv
  <2>1. CASE SignalStop(x)
    BY <2>0, <2>1 DEF SignalStop, TypeOK
  <2>2. CASE Stamp(x)
    BY <2>0, <2>2 DEF Stamp, TypeOK
  <2>3. CASE Credit(x)
    BY <2>0, <2>3 DEF Credit, TypeOK
  <2>4. CASE CreditDone(x)
    BY <2>0, <2>4 DEF CreditDone, TypeOK
  <2>5. CASE SignalContinue(x)
    BY <2>0, <2>5 DEF SignalContinue, TypeOK
  <2>6. CASE Leave(x)
    BY <2>0, <2>6 DEF Leave, TypeOK
  <2> QED BY <2>1, <2>2, <2>3, <2>4, <2>5, <2>6 DEF IsrStep
<1>3. ListInv(b)
  BY DEF HabitInv
<1>4. CASE isr'[b].pids = isr[b].pids
  BY <1>1, <1>3, <1>4, SameTable
<1>5. CASE isr'[b] = NoIsr
  BY <1>1, <1>3, <1>5 DEF ListInv, Listed, Slots, NoIsr, NoPids
<1> QED BY <1>1, <1>2, <1>4, <1>5

LEMMA ListStep == ASSUME HabitInv, Discipline = Habits, [Next]_vars, NEW b \in Board
                  PROVE  ListInv(b)'
BY ListLoad, ListEnrol, ListInterrupt, ListOther, ListHandler
   DEF Next, HabitInv, WireInv, BoardsInv

-----------------------------------------------------------------------------
(***************************************************************************)
(* Writes to the files pid_NN and tdf.                                     *)
(***************************************************************************)
LEMMA NoStore == ASSUME NEW b \in Board, store[b] = {}, UNCHANGED store
                 PROVE  StoreInv(b)'
BY DEF StoreInv

LEMMA SameStore == ASSUME NEW b \in Board, StoreInv(b), SameWire, UNCHANGED <<irq, isr>>,
                          store'[b] \subseteq store[b], Listed(b)' = Listed(b)
                   PROVE  StoreInv(b)'
BY DEF StoreInv, SameWire, At

LEMMA StoreStep == ASSUME HabitInv, Discipline = Habits, [Next]_vars, NEW b \in Board
                   PROVE  StoreInv(b)'
<1>0. StoreInv(b) /\ TypeOK
  BY DEF HabitInv, WireInv, BoardsInv
<1>1. ASSUME NEW x \in Board, vtgpio_init(x) \/ vtgpio_exit(x) PROVE StoreInv(b)'
  BY <1>1, NoStore DEF vtgpio_init, vtgpio_exit, Habits, Settled
<1>2. ASSUME NEW x \in Board, NEW word, mode_store(x, word) PROVE StoreInv(b)'
  BY <1>2, NoStore DEF mode_store, TakesTurns, Habits, Settled
<1>3. ASSUME NEW x \in Board, TakeInterrupt(x) \/ IsrStep(x) PROVE StoreInv(b)'
  BY <1>0, <1>3, HandlerStep, NoStore DEF StoreInv
<1>4. ASSUME NEW x \in Board, NEW i \in Slot, NEW p \in PidOrNone, pid_store(x, i, p)
      PROVE  StoreInv(b)'
  <2>1. Settled /\ ~High(pin) /\ UNCHANGED <<pin, irq, isr>>
    BY <1>4 DEF pid_store, Enrols, Habits
  <2>2. store'[b] = {} \/ (b = x /\ p # NoPid /\ store'[b] = {i})
    BY <1>0, <1>4, <2>1 DEF pid_store, TypeOK, Settled
  <2>3. store'[b] \subseteq Listed(b)'
    BY <1>4, <2>2, ListEnrol
  <2> QED BY <2>1, <2>3 DEF StoreInv, Settled, Quiet, At, High
<1>5. ASSUME NEW x \in Board, NEW value \in TDFs, tdf_store(x, value)
      PROVE  StoreInv(b)'
  <2>1. Settled /\ ~High(pin) /\ UNCHANGED <<pin, irq, isr>>
    BY <1>5 DEF tdf_store, Habits
  <2>2. store'[b] \subseteq Listed(b)
    BY <1>0, <1>5, <2>1 DEF tdf_store, TypeOK, Settled
  <2>3. Listed(b)' = Listed(b)
    BY <1>5, ListOther
  <2> QED BY <2>1, <2>2, <2>3 DEF StoreInv, Settled, Quiet, At, High
<1>6. ASSUME NEW x \in Board, dilate_proc(x) PROVE StoreInv(b)'
  <2>1. store'[b] \subseteq store[b] /\ SameWire /\ UNCHANGED <<irq, isr>>
    BY <1>0, <1>6 DEF dilate_proc, TypeOK, SameWire
  <2> QED BY <1>0, <1>6, <2>1, ListOther, SameStore
<1>7. CASE \/ Tick \/ UNCHANGED vars
           \/ \E t \in Task : GetTime(t) \/ Exit(t) \/ TakeStop(t)
  <2>1. store' = store /\ SameWire /\ UNCHANGED <<irq, isr>>
    BY <1>7 DEF Tick, vars, GetTime, Exit, TakeStop, SameWire
  <2>2. Listed(b)' = Listed(b)
    BY <1>7, ListOther
  <2> QED BY <1>0, <2>1, <2>2, SameStore
<1>8. ASSUME NEW x \in Board, LetGo(x) PROVE StoreInv(b)'
  <2>1. TypeOK'
    BY <1>0, TypeStep
  <2>2. SameWire /\ UNCHANGED <<irq, isr>>
    BY <1>8, <2>1, LetsGo DEF HabitInv, SameWire
  <2>3. store' = store /\ Listed(b)' = Listed(b)
    BY <1>8, ListOther DEF LetGo
  <2> QED BY <1>0, <2>2, <2>3, SameStore
<1> QED BY <1>1, <1>2, <1>3, <1>4, <1>5, <1>6, <1>7, <1>8 DEF Next

-----------------------------------------------------------------------------
(***************************************************************************)
(* Processes.                                                              *)
(***************************************************************************)

\* Nobody on a board whose module comes or goes is in virtual time.
LEMMA LoadOutside == ASSUME HabitInv, Discipline = Habits,
                            NEW b \in Board, vtgpio_init(b) \/ vtgpio_exit(b),
                            NEW t \in Task, home[t] = b, Alive(t)
                     PROVE  ~InVT(vt[t])
<1>1. CASE vtgpio_exit(b)
  BY <1>1 DEF vtgpio_exit, Habits
<1>2. CASE vtgpio_init(b)
  <2>1. module[b].all_pid_nrs = NoPids
    BY <1>2 DEF vtgpio_init, HabitInv, WireInv, BoardsInv, BoardInv, LoadInv
  <2>2. ~Member(t)
    BY <2>1, GpioAssumption DEF Member, Listed, NoPids
  <2> QED BY <2>2 DEF HabitInv, TaskInv
<1> QED BY <1>1, <1>2

\* Who is enrolled stays enrolled while its module is loaded.
LEMMA MemberStays ==
  ASSUME HabitInv, Discipline = Habits, [Next]_vars, NEW t \in Task, Member(t), Alive(t)',
         ~(vtgpio_init(home[t]) \/ vtgpio_exit(home[t]))
  PROVE  Member(t)'
<1> DEFINE b == home[t]
<1>0. b \in Board /\ TypeOK
  BY GpioAssumption DEF HabitInv, WireInv, BoardsInv
<1>1. PICK i \in Listed(b) : module[b].all_pid_nrs[i] = t
  BY DEF Member
<1>2. i \in Slot /\ t # NoPid
  BY GpioAssumption DEF Listed
<1>3. CASE \E x \in Board, j \in Slot, p \in PidOrNone : pid_store(x, j, p)
  <2>1. PICK x \in Board, j \in Slot, p \in PidOrNone : pid_store(x, j, p)
    BY <1>3
  <2>2. Listed(b) \subseteq Listed(b)'
    BY <1>0, <2>1, ListEnrol
  <2>3. module'[b].all_pid_nrs[i] = t
    BY <1>0, <1>1, <1>2, <2>1 DEF pid_store, Enrols, Habits, TypeOK
  <2> QED BY <1>1, <2>2, <2>3 DEF Member
<1>4. CASE module'[b].all_pid_nrs = module[b].all_pid_nrs
  BY <1>1, <1>4 DEF Member, Listed
<1>5. ASSUME NEW x \in Board, NEW word, mode_store(x, word)
      PROVE  module'[b].all_pid_nrs = module[b].all_pid_nrs
  BY <1>0, <1>5 DEF mode_store, TypeOK
<1>6. ASSUME NEW x \in Board, NEW value \in TDFs, tdf_store(x, value)
      PROVE  module'[b].all_pid_nrs = module[b].all_pid_nrs
  BY <1>0, <1>6 DEF tdf_store, TypeOK
<1>7. ASSUME NEW x \in Board, vtgpio_init(x) \/ vtgpio_exit(x)
      PROVE  module'[b].all_pid_nrs = module[b].all_pid_nrs
  BY <1>0, <1>7 DEF vtgpio_init, vtgpio_exit, TypeOK
<1>8. ASSUME NEW x \in Board, TakeInterrupt(x) \/ IsrStep(x)
      PROVE  module'[b].all_pid_nrs = module[b].all_pid_nrs
  BY <1>0, <1>8, HandlerStep DEF SameModule
<1> HIDE DEF b
<1> QED BY <1>3, <1>4, <1>5, <1>6, <1>7, <1>8
       DEF Next, Tick, vars, GetTime, Exit, TakeStop, LetGo, dilate_proc

\* The fields of a process change only by a dilation and by a credit.
LEMMA FieldsStay ==
  ASSUME HabitInv, [Next]_vars, NEW t \in Task,
         ~ \E b \in Board : dilate_proc(b) \/ Credit(b)
  PROVE  SameFields(t)
<1>0. TypeOK /\ vt[t] \in TaskFields
  BY DEF HabitInv, WireInv, BoardsInv, TypeOK
<1>1. ASSUME NEW u \in Task, GetTime(u) PROVE SameFields(t)
  <2>1. vt'[t] = vt[t] \/ vt'[t] = KeepTime(vt[t], wall)
    BY <1>0, <1>1 DEF GetTime, TypeOK
  <2> QED BY <1>0, <2>1, KeepTimeKeeps DEF SameFields
<1>2. ASSUME NEW b \in Board, TakeInterrupt(b) PROVE SameFields(t)
  <2>1. PICK current \in Interruptible(b) \union {NoPid} : vt' = Clocked(current)
    BY <1>2 DEF TakeInterrupt, Interrupt
  <2>2. current \in PidOrNone
    BY DEF Interruptible, PidOrNone
  <2> QED BY <1>0, <2>1, <2>2, ClockedKeeps
<1>3. ASSUME NEW b \in Board, Leave(b) PROVE SameFields(t)
  <2>1. isr[b].current \in PidOrNone
    BY <1>0 DEF TypeOK
  <2> QED BY <1>0, <1>3, <2>1, ClockedKeeps DEF Leave
<1>4. CASE UNCHANGED vt
  BY <1>4 DEF SameFields
<1>5. ASSUME NEW b \in Board,
             SignalStop(b) \/ Stamp(b) \/ CreditDone(b) \/ SignalContinue(b)
      PROVE  UNCHANGED vt
  BY <1>5 DEF SignalStop, Stamp, CreditDone, SignalContinue
<1>6. ASSUME NEW b \in Board, \/ vtgpio_init(b) \/ vtgpio_exit(b) \/ LetGo(b)
                              \/ \E word : mode_store(b, word)
      PROVE  UNCHANGED vt
  BY <1>6 DEF vtgpio_init, vtgpio_exit, LetGo, mode_store
<1>7. ASSUME NEW b \in Board, \/ \E i \in Slot, p \in PidOrNone : pid_store(b, i, p)
                              \/ \E value \in TDFs : tdf_store(b, value)
      PROVE  UNCHANGED vt
  BY <1>7 DEF pid_store, tdf_store
<1>8. ASSUME Tick \/ UNCHANGED vars \/ \E u \in Task : Exit(u) \/ TakeStop(u)
      PROVE  UNCHANGED vt
  BY <1>8 DEF Tick, vars, Exit, TakeStop
<1> QED BY <1>1, <1>2, <1>3, <1>4, <1>5, <1>6, <1>7, <1>8 DEF Next, IsrStep

\* A dilation reaches one process, which is enrolled and not frozen.
DilatedNow(b, t) ==
  /\ home[t] = b /\ Alive(t) /\ Member(t)
  /\ isr[b] = NoIsr /\ run[t] # "stopped"
  /\ vt'[t] = SetDilation(vt[t], module[b].tdf, wall)
  /\ obs'[t] = IF InVT(vt[t]) # InVT(vt'[t]) THEN Afresh(obs[t]) ELSE obs[t]

LEMMA DilateOne == ASSUME HabitInv, NEW b \in Board, dilate_proc(b), NEW t \in Task
                   PROVE  DilatedNow(b, t) \/ (vt'[t] = vt[t] /\ obs'[t] = obs[t])
<1>0. TypeOK /\ vt \in [Task -> TaskFields] /\ DOMAIN obs = Task
  BY DEF HabitInv, WireInv, BoardsInv, TypeOK
<1>1. PICK i \in store[b] :
        LET u == module[b].all_pid_nrs[i]
            tdf == module[b].tdf
        IN IF u \in Task /\ Alive(u)
             THEN /\ vt' = [vt EXCEPT ![u] = SetDilation(vt[u], tdf, wall)]
                  /\ obs' = IF InVT(vt[u]) # InVT(vt'[u])
                              THEN [obs EXCEPT ![u] = Afresh(obs[u])] ELSE obs
             ELSE UNCHANGED <<vt, obs>>
  BY DEF dilate_proc, First
<1>2. CASE module[b].all_pid_nrs[i] = t /\ Alive(t)
  <2>1. i \in Listed(b) /\ i \in Slot /\ t # NoPid
    BY GpioAssumption, <1>1 DEF HabitInv, StoreInv, Listed
  <2>2. home[t] = b /\ Member(t)
    BY <1>2, <2>1 DEF HabitInv, WireInv, BoardsInv, BoardInv, TableInv, Member
  <2>3. ~High(pin) /\ irq[b] = {} /\ At(b, "idle")
    BY <1>1 DEF HabitInv, StoreInv
  <2>4. Up(b)
    BY <2>3 DEF HabitInv, WireInv, BoardsInv, BoardInv, WirePhase, At, Up, Rising, Stopping, Ending,
       Down, Falling, Crediting, Continuing, In
  <2>5. isr[b] = NoIsr /\ run[t] # "stopped"
    BY <2>2, <2>3, <2>4 DEF HabitInv, WireInv, BoardsInv, BoardInv, HandlerInv, Up, Stopped
  <2>6. vt'[t] = SetDilation(vt[t], module[b].tdf, wall)
    BY <1>0, <1>1, <1>2
  <2>7. obs'[t] = IF InVT(vt[t]) # InVT(vt'[t]) THEN Afresh(obs[t]) ELSE obs[t]
    BY <1>0, <1>1, <1>2
  <2> QED BY <1>2, <2>2, <2>5, <2>6, <2>7 DEF DilatedNow
<1>3. CASE ~(module[b].all_pid_nrs[i] = t /\ Alive(t))
  <2> QED BY <1>0, <1>1, <1>3
<1> QED BY <1>2, <1>3

\* A credit reaches one process, and of it the frozen time only.
LEMMA CreditOne == ASSUME TypeOK, NEW b \in Board, Credit(b), NEW t \in Task
                   PROVE  /\ vt'[t].virtual_start = vt[t].virtual_start
                          /\ vt'[t].dilation = vt[t].dilation
<1>0. vt \in [Task -> TaskFields] /\ vt[t] \in TaskFields
  BY DEF TypeOK
<1>1. PICK i \in Slot :
        vt' = IF Alive(isr[b].pids[i])
                THEN [vt EXCEPT ![isr[b].pids[i]].freeze_past = @ + isr[b].duration]
                ELSE vt
  BY DEF Credit
<1> QED BY <1>0, <1>1 DEF TaskFields

LEMMA NeverStopping == ASSUME HabitInv, ~SMP, [Next]_vars, NEW t \in Task
                       PROVE  run'[t] # "stopping" /\ (Alive(t)' => Alive(t))
<1>0. TypeOK /\ run \in [Task -> {"running", "stopping", "stopped", "dead"}]
  BY DEF HabitInv, WireInv, BoardsInv, TypeOK
<1>1. run[t] # "stopping"
  BY DEF HabitInv, TaskInv
<1>2. ASSUME NEW b \in Board, SignalStop(b) PROVE run'[t] # "stopping" /\ (Alive(t)' => Alive(t))
  BY <1>0, <1>1, <1>2 DEF SignalStop, Alive
<1>3. ASSUME NEW b \in Board, SignalContinue(b)
      PROVE  run'[t] # "stopping" /\ (Alive(t)' => Alive(t))
  BY <1>0, <1>1, <1>3 DEF SignalContinue, Alive
<1>4. ASSUME NEW u \in Task, Exit(u) \/ TakeStop(u)
      PROVE  run'[t] # "stopping" /\ (Alive(t)' => Alive(t))
  BY <1>0, <1>1, <1>4 DEF Exit, TakeStop, Alive
<1>5. CASE UNCHANGED run
  BY <1>1, <1>5 DEF Alive
<1>6. ASSUME NEW b \in Board, Stamp(b) \/ Credit(b) \/ CreditDone(b) \/ Leave(b) \/ TakeInterrupt(b)
      PROVE  UNCHANGED run
  BY <1>6 DEF Stamp, Credit, CreditDone, Leave, TakeInterrupt, Interrupt
<1>7. ASSUME NEW b \in Board, vtgpio_init(b) \/ vtgpio_exit(b) \/ dilate_proc(b)
                              \/ LetGo(b) \/ \E word : mode_store(b, word)
      PROVE  UNCHANGED run
  BY <1>7 DEF vtgpio_init, vtgpio_exit, dilate_proc, LetGo, mode_store
<1>8. ASSUME NEW b \in Board, \/ \E i \in Slot, p \in PidOrNone : pid_store(b, i, p)
                              \/ \E value \in TDFs : tdf_store(b, value)
      PROVE  UNCHANGED run
  BY <1>8 DEF pid_store, tdf_store
<1>9. ASSUME Tick \/ UNCHANGED vars \/ \E u \in Task : GetTime(u)
      PROVE  UNCHANGED run
  BY <1>9 DEF Tick, vars, GetTime
<1> QED BY <1>2, <1>3, <1>4, <1>5, <1>6, <1>7, <1>8, <1>9 DEF Next, IsrStep

LEMMA TaskStep == ASSUME HabitInv, ~SMP, Discipline = Habits, [Next]_vars, NEW t \in Task
                  PROVE  TaskInv(t)'
<1>0. TypeOK /\ TaskInv(t) /\ vt[t] \in TaskFields /\ wall \in Nat \ {0}
  BY DEF HabitInv, WireInv, BoardsInv, TypeOK
<1>1. run'[t] # "stopping" /\ (Alive(t)' => Alive(t))
  BY NeverStopping
<1>2. CASE \E b \in Board : DilatedNow(b, t)
  <2>1. PICK b \in Board : DilatedNow(b, t)
    BY <1>2
  <2>2. module[b].tdf \in Int
    BY <1>0 DEF TypeOK
  <2>3. InVT(vt[t])' <=> vt'[t].dilation # 0
    BY <1>0, <2>1, <2>2, SetDilationCredit DEF TaskInv, DilatedNow
  <2>4. ~(vtgpio_init(home[t]) \/ vtgpio_exit(home[t])) => (Alive(t)' => Member(t)')
    BY <2>1, MemberStays DEF DilatedNow
  <2>5. CASE vtgpio_init(home[t]) \/ vtgpio_exit(home[t])
    <3>1. vt' = vt
      BY <2>5 DEF vtgpio_init, vtgpio_exit
    <3>2. Alive(t)' => ~InVT(vt[t])'
      BY <1>1, <2>5, <3>1, GpioAssumption, LoadOutside
    <3> QED BY <1>1, <2>3, <3>2 DEF TaskInv
  <2> QED BY <1>1, <2>3, <2>4, <2>5 DEF TaskInv
<1>3. CASE vt'[t].virtual_start = vt[t].virtual_start /\ vt'[t].dilation = vt[t].dilation
  <2>1. InVT(vt[t])' <=> InVT(vt[t])
    BY <1>3 DEF InVT
  <2>2. InVT(vt[t])' <=> vt'[t].dilation # 0
    BY <1>0, <1>3, <2>1 DEF TaskInv
  <2>3. ASSUME Alive(t)', InVT(vt[t])' PROVE Member(t)'
    <3>1. Alive(t) /\ InVT(vt[t]) /\ Member(t)
      BY <1>0, <1>1, <2>1, <2>3 DEF TaskInv
    <3>2. ~(vtgpio_init(home[t]) \/ vtgpio_exit(home[t]))
      BY <3>1, GpioAssumption, LoadOutside
    <3> QED BY <2>3, <3>1, <3>2, MemberStays
  <2> QED BY <1>1, <2>2, <2>3 DEF TaskInv
<1>4. CASE \E b \in Board : dilate_proc(b)
  BY <1>2, <1>3, <1>4, DilateOne
<1>5. CASE \E b \in Board : Credit(b)
  BY <1>0, <1>3, <1>5, CreditOne
<1>6. CASE ~ \E b \in Board : dilate_proc(b) \/ Credit(b)
  BY <1>3, <1>6, FieldsStay DEF SameFields
<1> QED BY <1>4, <1>5, <1>6

-----------------------------------------------------------------------------
(***************************************************************************)
(* Credit.                                                                 *)
(***************************************************************************)

\* A step that changes neither the frozen time of t nor what is credited of it.
LEMMA SameCredit ==
  ASSUME NEW t \in Task, Credited(t), SameFields(t), Member(t)' => Member(t),
         obs'[t].stopped = obs[t].stopped, obs'[t].latency = obs[t].latency,
         Uncredited(t)' = Uncredited(t)
  PROVE  Credited(t)'
BY DEF Credited, SameFields, InVT

LEMMA SameUncredited ==
  ASSUME NEW t \in Task, UNCHANGED wall, isr'[home[t]] = isr[home[t]], run'[t] = run[t],
         module'[home[t]].freeze_now = module[home[t]].freeze_now
  PROVE  Uncredited(t)' = Uncredited(t)
BY DEF Uncredited, At

\* Time that passes for a stopped process is credited, or is latency.
LEMMA CreditTick == ASSUME HabitInv, Tick, NEW t \in Task
                    PROVE  Credited(t)'
<1> DEFINE b == home[t]
<1>0. /\ b \in Board /\ wall \in Nat /\ module[b].freeze_now \in Nat
      /\ isr[b].duration \in Int /\ isr[b].pc \in {"idle", "stop", "credit", "cont", "end"}
      /\ obs[t].stopped \in Nat /\ obs[t].latency \in Nat /\ vt[t].freeze_past \in Int
  BY GpioAssumption DEF HabitInv, WireInv, BoardsInv, TypeOK, TaskFields
<1>1. wall' = wall + 1 /\ UNCHANGED <<vt, run, module, isr>>
  BY DEF Tick
<1>2. Credited(t) /\ (Member(t)' <=> Member(t))
  BY <1>1 DEF HabitInv, Member, Alive, Listed
<1>3. CASE run[t] = "stopped"
  <2>1. /\ obs'[t].stopped = obs[t].stopped + 1
        /\ obs'[t].latency =
             obs[t].latency + IF isr[b].pc \in {"stop", "credit", "cont"} THEN 1 ELSE 0
    BY <1>3 DEF Tick
  <2>2. CASE isr[b].pc \in {"stop", "credit", "cont"}
    <3>1. Uncredited(t)' = Uncredited(t)
      BY <1>1, <1>3, <2>2 DEF Uncredited, At
    <3>2. obs'[t].stopped - obs'[t].latency = obs[t].stopped - obs[t].latency
      BY <1>0, <2>1, <2>2
    <3> HIDE DEF b
    <3> QED BY <1>1, <1>2, <3>1, <3>2 DEF Credited
  <2>3. CASE isr[b].pc \in {"idle", "end"}
    <3>1. /\ Uncredited(t) = wall - module[b].freeze_now
          /\ Uncredited(t)' = wall + 1 - module[b].freeze_now
      <4>1. ~At(b, "credit") /\ ~At(b, "credit")' /\ run'[t] = "stopped"
        BY <1>1, <1>3, <2>3 DEF At
      <4>2. isr'[b].pc \in {"idle", "end"} /\ module'[b] = module[b]
        BY <1>1, <2>3
      <4>3. Uncredited(t) = wall - module[b].freeze_now
        BY <1>3, <2>3, <4>1 DEF Uncredited
      <4>4. Uncredited(t)' = wall' - module'[b].freeze_now
        BY <4>1, <4>2 DEF Uncredited
      <4>5. module'[b].freeze_now = module[b].freeze_now
        BY <4>2
      <4> HIDE DEF b
      <4> QED BY <1>0, <1>1, <4>3, <4>4, <4>5
    <3>2. obs'[t].stopped = obs[t].stopped + 1 /\ obs'[t].latency = obs[t].latency
      BY <1>0, <2>1, <2>3
    <3>3. Member(t) /\ InVT(vt[t]) =>
            vt[t].freeze_past + (wall - module[b].freeze_now) = obs[t].stopped - obs[t].latency
      BY <1>2, <3>1 DEF Credited
    <3>4. Member(t) /\ InVT(vt[t]) =>
            vt[t].freeze_past + (wall + 1 - module[b].freeze_now)
              = (obs[t].stopped + 1) - obs[t].latency
      BY <1>0, <3>3
    <3> HIDE DEF b
    <3> QED BY <1>1, <1>2, <3>1, <3>2, <3>4 DEF Credited
  <2> QED BY <1>0, <2>2, <2>3
<1>4. CASE run[t] # "stopped"
  <2>1. obs'[t] = obs[t]
    BY <1>4 DEF Tick
  <2>2. Uncredited(t)' = Uncredited(t)
    BY <1>1, <1>4 DEF Uncredited, At
  <2> QED BY <1>1, <1>2, <2>1, <2>2, SameCredit DEF SameFields
<1> QED BY <1>3, <1>4

LEMMA CreditTasks == ASSUME HabitInv, ~SMP, NEW t \in Task, SameFields(t),
                            \/ \E u \in Task : GetTime(u) \/ Exit(u) \/ TakeStop(u)
                            \/ UNCHANGED vars
                     PROVE  Credited(t)'
<1>0. TypeOK /\ Credited(t)
  BY DEF HabitInv, WireInv, BoardsInv
<1>1. UNCHANGED <<wall, module, isr>>
  BY DEF GetTime, Exit, TakeStop, vars
<1>2. obs'[t].stopped = obs[t].stopped /\ obs'[t].latency = obs[t].latency
  BY <1>0 DEF GetTime, Exit, TakeStop, vars, TypeOK
<1>3. \A u \in Task : run[u] # "stopping"
  BY DEF HabitInv, TaskInv
<1>4. run'[t] = run[t] \/ run'[t] = "dead"
  BY <1>0, <1>3 DEF GetTime, Exit, TakeStop, vars, TypeOK
<1>5. CASE run'[t] = "dead"
  BY <1>5 DEF Credited, Member, Alive
<1>6. CASE run'[t] = run[t]
  <2>1. Member(t)' => Member(t)
    BY <1>1, <1>6 DEF Member, Alive, Listed
  <2> QED BY <1>0, <1>1, <1>2, <1>6, <2>1, SameUncredited, SameCredit
<1> QED BY <1>4, <1>5, <1>6

LEMMA CreditLoad == ASSUME HabitInv, Discipline = Habits,
                           NEW x \in Board, vtgpio_init(x) \/ vtgpio_exit(x), NEW t \in Task
                    PROVE  Credited(t)'
<1>0. TypeOK /\ Credited(t) /\ home[t] \in Board
  BY GpioAssumption DEF HabitInv, WireInv, BoardsInv
<1>1. UNCHANGED <<wall, vt, run, isr, obs>>
  BY DEF vtgpio_init, vtgpio_exit
<1>2. CASE home[t] = x
  BY <1>1, <1>2, LoadOutside DEF Credited, Member, Alive
<1>3. CASE home[t] # x
  <2>1. module'[home[t]] = module[home[t]]
    BY <1>0, <1>3 DEF vtgpio_init, vtgpio_exit, TypeOK
  <2>2. Member(t)' => Member(t)
    BY <1>1, <2>1 DEF Member, Alive, Listed
  <2> QED BY <1>0, <1>1, <2>1, <2>2, SameUncredited, SameCredit DEF SameFields
<1> QED BY <1>2, <1>3

\* A newcomer is outside virtual time.
LEMMA CreditEnrol == ASSUME HabitInv, Discipline = Habits, NEW x \in Board, NEW i \in Slot,
                            NEW p \in PidOrNone, pid_store(x, i, p), NEW t \in Task
                     PROVE  Credited(t)'
<1>0. TypeOK /\ Credited(t) /\ TaskInv(t) /\ home[t] \in Board
  BY GpioAssumption DEF HabitInv, WireInv, BoardsInv
<1>1. UNCHANGED <<wall, vt, run, isr, obs>>
  BY DEF pid_store
<1>2. CASE ~Member(t)
  BY <1>0, <1>1, <1>2 DEF Credited, TaskInv, Member, Alive
<1>3. CASE Member(t)
  <2>1. module'[home[t]].freeze_now = module[home[t]].freeze_now
    BY <1>0 DEF pid_store, TypeOK
  <2> QED BY <1>0, <1>1, <1>3, <2>1, SameUncredited, SameCredit DEF SameFields
<1> QED BY <1>2, <1>3

LEMMA CreditFiles == ASSUME HabitInv, NEW x \in Board, NEW t \in Task,
                            LetGo(x) \/ (\E word : mode_store(x, word)) \/ \E v \in TDFs : tdf_store(x, v)
                     PROVE  Credited(t)'
<1>0. TypeOK /\ Credited(t) /\ home[t] \in Board
  BY GpioAssumption DEF HabitInv, WireInv, BoardsInv
<1>1. UNCHANGED <<wall, vt, run, isr, obs>>
  BY DEF LetGo, mode_store, tdf_store
<1>2. /\ module'[home[t]].freeze_now = module[home[t]].freeze_now
      /\ module'[home[t]].all_pid_nrs = module[home[t]].all_pid_nrs
  <2>1. CASE \E word : mode_store(x, word)
    BY <1>0, <2>1 DEF mode_store, TypeOK
  <2>2. CASE \E v \in TDFs : tdf_store(x, v)
    BY <1>0, <2>2 DEF tdf_store, TypeOK
  <2>3. CASE LetGo(x)
    BY <2>3 DEF LetGo
  <2> QED BY <2>1, <2>2, <2>3
<1>3. Member(t)' => Member(t)
  BY <1>1, <1>2 DEF Member, Alive, Listed
<1> QED BY <1>0, <1>1, <1>2, <1>3, SameUncredited, SameCredit DEF SameFields

\* Entering virtual time starts the count afresh, for a process that runs.
LEMMA CreditDilate == ASSUME HabitInv, NEW x \in Board, dilate_proc(x), NEW t \in Task
                      PROVE  Credited(t)'
<1>0. /\ TypeOK /\ Credited(t) /\ TaskInv(t) /\ home[t] \in Board
      /\ vt[t] \in TaskFields /\ wall \in Nat \ {0}
  BY GpioAssumption DEF HabitInv, WireInv, BoardsInv, TypeOK
<1>1. UNCHANGED <<wall, run, module, isr>>
  BY DEF dilate_proc
<1>2. (Member(t)' <=> Member(t)) /\ Uncredited(t)' = Uncredited(t)
  BY <1>1, SameUncredited DEF Member, Alive, Listed
<1>3. CASE vt'[t] = vt[t] /\ obs'[t] = obs[t]
  BY <1>0, <1>2, <1>3, SameCredit DEF SameFields
<1>4. CASE DilatedNow(x, t)
  <2>1. module[x].tdf \in Int
    BY <1>0 DEF TypeOK
  <2>2. /\ InVT(vt[t])' /\ InVT(vt[t]) => vt'[t].freeze_past = vt[t].freeze_past
        /\ InVT(vt[t])' /\ ~InVT(vt[t]) => vt'[t].freeze_past = 0
    BY <1>0, <1>4, <2>1, SetDilationCredit DEF DilatedNow, TaskInv
  <2>3. Uncredited(t) = 0
    BY <1>4 DEF DilatedNow, Uncredited, At, NoIsr
  <2>4. CASE InVT(vt[t])' /\ InVT(vt[t])
    <3>1. obs'[t] = obs[t]
      BY <1>4, <2>4 DEF DilatedNow
    <3> QED BY <1>0, <1>2, <2>2, <2>4, <3>1 DEF Credited
  <2>5. CASE InVT(vt[t])' /\ ~InVT(vt[t])
    <3>1. obs'[t] = Afresh(obs[t])
      BY <1>4, <2>5 DEF DilatedNow
    <3> QED BY <1>2, <2>2, <2>3, <2>5, <3>1 DEF Credited, Afresh
  <2>6. CASE ~InVT(vt[t])'
    BY <2>6 DEF Credited
  <2> QED BY <2>4, <2>5, <2>6
<1> QED BY <1>3, <1>4, DilateOne

\* A handler of another board.
LEMMA CreditApart == ASSUME HabitInv, ~SMP, [Next]_vars, NEW b \in Board,
                            TakeInterrupt(b) \/ IsrStep(b), NEW t \in Task, home[t] # b,
                            SameFields(t)
                     PROVE  Credited(t)'
<1>0. TypeOK /\ Credited(t) /\ home[t] \in Board /\ WireInv
  BY GpioAssumption DEF HabitInv, WireInv, BoardsInv
<1>1. /\ UNCHANGED <<wall, obs>> /\ isr'[home[t]] = isr[home[t]]
      /\ SameModule(home[t])
  BY <1>0, HandlerStep
<1>2. module'[home[t]] = module[home[t]]
  BY <1>0 DEF TakeInterrupt, Interrupt, IsrStep, SignalStop, Stamp, Credit, CreditDone,
     SignalContinue, Leave, TypeOK
<1>3. run'[t] = run[t]
  <2>1. \A i \in isr[b].todo : isr[b].pids[i] # t
    BY <1>0 DEF WireInv, BoardsInv, BoardInv, HandlerInv
  <2>2. CASE SignalStop(b)
    BY <1>0, <2>1, <2>2 DEF SignalStop, First, TypeOK
  <2>3. CASE SignalContinue(b)
    BY <1>0, <2>1, <2>3 DEF SignalContinue, First, TypeOK
  <2> QED BY <2>2, <2>3 DEF TakeInterrupt, Interrupt, IsrStep, Stamp, Credit, CreditDone,
            Leave
<1>4. Member(t)' => Member(t)
  BY <1>1, <1>3 DEF Member, Alive, Listed, SameModule
<1> QED BY <1>0, <1>1, <1>2, <1>3, <1>4, SameUncredited, SameCredit

\* In a handler that signals and stamps, nothing is waiting to be credited: before
\* the stamp nothing has been frozen, and after the loop of RESUME all is credited.
LEMMA NothingOwed ==
  ASSUME NEW t \in Task, At(home[t], "stop") \/ At(home[t], "cont")
  PROVE  Uncredited(t) = 0
BY DEF Uncredited, At

LEMMA CreditIsr == ASSUME HabitInv, ~SMP, [Next]_vars, NEW b \in Board,
                          TakeInterrupt(b) \/ IsrStep(b), ~Credit(b),
                          NEW t \in Task, home[t] = b, SameFields(t)
                   PROVE  Credited(t)'
<1>0. /\ TypeOK /\ Credited(t) /\ WireInv /\ BoardInv(b) /\ WirePhase(b)
      /\ run[t] # "stopping" /\ wall \in Nat /\ module[b].freeze_now \in Nat
  BY DEF HabitInv, WireInv, BoardsInv, BoardInv, TaskInv, TypeOK
<1>1. UNCHANGED <<wall, obs>> /\ SameModule(b)
  BY <1>0, HandlerStep
<1>2. Member(t)' => Member(t)
  <2>1. Alive(t)' => Alive(t)
    BY NeverStopping
  <2> QED BY <1>1, <2>1 DEF Member, Listed, SameModule
<1> SUFFICES ASSUME Member(t), Member(t)', InVT(vt[t])
             PROVE  Uncredited(t)' = Uncredited(t)
  BY <1>0, <1>1, <1>2, SameCredit DEF Credited, SameFields, InVT
<1>3. t \in Members(b)
  BY DEF Members
<1>4. CASE TakeInterrupt(b)
  <2>1. PICK edge \in {"rise", "fall"} : Interrupt(b, edge)
    BY <1>4 DEF TakeInterrupt
  <2>2. PICK current :
          isr' = [isr EXCEPT ![b] =
            [pc |-> IF edge = "rise" THEN "stop" ELSE "credit",
             current |-> current, pids |-> AllPids(b), todo |-> Slots(AllPids(b)),
             duration |-> IF edge = "rise" THEN 0 ELSE wall - module[b].freeze_now]]
    BY <2>1 DEF Interrupt
  <2>3. /\ edge \in irq[b] /\ At(b, "idle") /\ UNCHANGED <<run, module>>
        /\ isr'[b].pc = IF edge = "rise" THEN "stop" ELSE "credit"
        /\ isr'[b].pids = AllPids(b) /\ isr'[b].todo = Slots(AllPids(b))
        /\ edge = "fall" => isr'[b].duration = wall - module[b].freeze_now
    BY <1>0, <2>1, <2>2 DEF Interrupt, TypeOK
  <2>4. CASE edge = "rise"
    <3>1. Rising(b)
      BY <1>0, <2>3, <2>4 DEF WirePhase, Up, Rising, Stopping, Ending, Down, Falling,
         Crediting, Continuing, In
    <3>2. run[t] # "stopped"
      BY <3>1 DEF Rising, Stopped
    <3>3. Uncredited(t) = 0
      BY <2>3, <3>2 DEF Uncredited, At
    <3>4. Uncredited(t)' = 0
      BY <2>3, <2>4 DEF Uncredited, At
    <3> QED BY <3>3, <3>4
  <2>5. CASE edge = "fall"
    <3>1. Falling(b)
      BY <1>0, <2>3, <2>5 DEF WirePhase, Up, Rising, Stopping, Ending, Down, Falling,
         Crediting, Continuing, In
    <3>2. run[t] = "stopped"
      BY <1>0, <1>3, <3>1 DEF Falling, Stopped
    <3>3. Uncredited(t) = wall - module[b].freeze_now
      BY <2>3, <3>2 DEF Uncredited, At
    <3>4. \E i \in Slots(AllPids(b)) : AllPids(b)[i] = t
      BY GpioAssumption DEF Member, AllPids, Slots, Listed
    <3>5. Uncredited(t)' = wall - module[b].freeze_now
      BY <2>3, <2>5, <3>4 DEF Uncredited, At
    <3> QED BY <3>3, <3>5
  <2> QED BY <2>4, <2>5
<1>5. CASE SignalStop(b)
  <2>1. At(b, "stop") /\ At(b, "stop")'
    BY <1>0, <1>5 DEF SignalStop, At, TypeOK
  <2> QED BY <2>1 DEF Uncredited, At
<1>6. CASE Stamp(b)
  <2>1. At(b, "stop") /\ isr'[b].pc = "end" /\ module'[b].freeze_now = wall
    BY <1>0, <1>6 DEF Stamp, TypeOK
  <2>2. Uncredited(t)' = 0
    BY <1>0, <1>1, <2>1 DEF Uncredited, At
  <2> QED BY <2>1, <2>2, NothingOwed
<1>7. CASE CreditDone(b)
  <2>1. At(b, "credit") /\ isr[b].todo = {} /\ isr'[b].pc = "cont"
    BY <1>0, <1>7 DEF CreditDone, TypeOK
  <2>2. Uncredited(t) = 0 /\ Uncredited(t)' = 0
    BY <2>1 DEF Uncredited, At
  <2> QED BY <2>2
<1>8. CASE SignalContinue(b)
  <2>1. At(b, "cont") /\ At(b, "cont")'
    BY <1>0, <1>8 DEF SignalContinue, At, TypeOK
  <2> QED BY <2>1 DEF Uncredited, At
<1>9. CASE Leave(b)
  <2>1. isr'[b].pc = "idle" /\ UNCHANGED <<run, module>>
    BY <1>0, <1>9 DEF Leave, NoIsr, TypeOK
  <2>2. CASE At(b, "end")
    BY <1>1, <2>1, <2>2 DEF Uncredited, At
  <2>3. CASE At(b, "cont") /\ isr[b].todo = {}
    <3>1. Continuing(b)
      BY <1>0, <2>3 DEF At, WirePhase, Up, Rising, Stopping, Ending, Down, Falling,
         Crediting, Continuing, In
    <3>2. run[t] # "stopped"
      BY <2>3, <3>1 DEF Continuing, Stopped, Todo, PidsAt
    <3>3. Uncredited(t)' = 0
      BY <2>1, <3>2 DEF Uncredited, At
    <3> QED BY <2>3, <3>3, NothingOwed
  <2> QED BY <1>9, <2>2, <2>3 DEF Leave
<1> QED BY <1>4, <1>5, <1>6, <1>7, <1>8, <1>9 DEF IsrStep

\* tsk->freeze_past_nsec += freeze_duration: each process of the list has the
\* duration once, because it is on the list once.
LEMMA CreditCredit == ASSUME HabitInv, NEW b \in Board, Credit(b), NEW t \in Task
                      PROVE  Credited(t)'
<1>0. /\ TypeOK /\ Credited(t) /\ BoardInv(b) /\ ListInv(b)
      /\ vt \in [Task -> TaskFields] /\ vt[t].freeze_past \in Int
      /\ isr[b].duration \in Int /\ obs[t].stopped \in Nat /\ obs[t].latency \in Nat
  BY DEF HabitInv, WireInv, BoardsInv, TypeOK, TaskFields
<1>1. PICK i \in Slot :
        LET u == isr[b].pids[i] IN
        /\ At(b, "credit") /\ First(i, isr[b].todo)
        /\ vt' = IF Alive(u)
                   THEN [vt EXCEPT ![u].freeze_past = @ + isr[b].duration] ELSE vt
        /\ isr' = [isr EXCEPT ![b].todo = @ \ {i}]
        /\ UNCHANGED <<wall, run, module, pin, wire, irq, store, obs>>
  BY DEF Credit
<1> DEFINE u == isr[b].pids[i]
<1>2. /\ i \in isr[b].todo /\ isr[b].todo \subseteq Slots(isr[b].pids)
      /\ u \in Task /\ home[u] = b
  BY <1>0, <1>1 DEF First, BoardInv, HandlerInv
<1>3. /\ isr'[b].pc = "credit" /\ isr'[b].pids = isr[b].pids
      /\ isr'[b].duration = isr[b].duration /\ isr'[b].todo = isr[b].todo \ {i}
      /\ \A x \in Board \ {b} : isr'[x] = isr[x]
  BY <1>0, <1>1 DEF TypeOK, At
<1>4. Member(t)' <=> Member(t)
  BY <1>1 DEF Member, Alive, Listed
<1>5. vt'[t].virtual_start = vt[t].virtual_start
  BY <1>0, CreditOne
<1>6. CASE t # u
  <2>1. SameFields(t)
    BY <1>0, <1>1, <1>6 DEF SameFields
  <2>2. Uncredited(t)' = Uncredited(t)
    <3>1. CASE home[t] # b
      BY <1>1, <1>3, <3>1, GpioAssumption, SameUncredited
    <3>2. CASE home[t] = b
      <4>1. (\E j \in isr'[b].todo : isr'[b].pids[j] = t)
              <=> (\E j \in isr[b].todo : isr[b].pids[j] = t)
        BY <1>3, <1>6
      <4> HIDE DEF u
      <4> QED BY <1>1, <1>3, <3>2, <4>1 DEF Uncredited, At
    <3> QED BY <3>1, <3>2
  <2> QED BY <1>0, <1>1, <1>4, <2>1, <2>2, SameCredit
<1>7. CASE t = u
  <2>1. Uncredited(t) = isr[b].duration
    BY <1>1, <1>2, <1>7 DEF Uncredited, At
  <2>2. Uncredited(t)' = 0
    <3>1. \A j \in isr'[b].todo : isr'[b].pids[j] # t
      BY <1>0, <1>2, <1>3, <1>7 DEF ListInv
    <3> QED BY <1>2, <1>3, <1>7, <3>1 DEF Uncredited, At
  <2>3. Alive(t) => vt'[t].freeze_past = vt[t].freeze_past + isr[b].duration
    BY <1>0, <1>1, <1>7 DEF TaskFields
  <2>4. Member(t) => Alive(t)
    BY DEF Member
  <2>5. InVT(vt[t])' <=> InVT(vt[t])
    BY <1>5 DEF InVT
  <2>6. obs' = obs
    BY <1>1
  <2> HIDE DEF u
  <2> QED BY <1>0, <1>4, <2>1, <2>2, <2>3, <2>4, <2>5, <2>6 DEF Credited
<1> QED BY <1>6, <1>7

LEMMA CreditStep == ASSUME HabitInv, ~SMP, Discipline = Habits, [Next]_vars, NEW t \in Task
                    PROVE  Credited(t)'
<1>1. CASE \E b \in Board : Credit(b)
  BY <1>1, CreditCredit
<1>2. CASE \E b \in Board : dilate_proc(b)
  BY <1>2, CreditDilate
<1>3. CASE ~ \E b \in Board : dilate_proc(b) \/ Credit(b)
  <2>1. SameFields(t)
    BY <1>3, FieldsStay
  <2>2. ASSUME NEW b \in Board, TakeInterrupt(b) \/ IsrStep(b) PROVE Credited(t)'
    BY <1>3, <2>1, <2>2, CreditApart, CreditIsr
  <2>3. CASE UNCHANGED vars \/ \E u \in Task : GetTime(u) \/ Exit(u) \/ TakeStop(u)
    BY <2>1, <2>3, CreditTasks
  <2> QED BY <1>3, <2>2, <2>3, CreditTick, CreditLoad, CreditEnrol, CreditFiles DEF Next
<1> QED BY <1>1, <1>2, <1>3

LEMMA HabitInit == Init => HabitInv
<1> SUFFICES ASSUME Init PROVE HabitInv
  OBVIOUS
<1>1. WireInv
  BY WireInit
<1>2. ASSUME NEW b \in Board PROVE ListInv(b) /\ StoreInv(b)
  BY GpioAssumption
     DEF Init, ListInv, StoreInv, Fresh, NoIsr, NoPids, Listed, Slot, Slots
<1>3. ASSUME NEW t \in Task PROVE TaskInv(t) /\ Credited(t)
  BY DEF Init, TaskInv, Credited, NoVirtualTime, InVT
<1> QED BY <1>1, <1>2, <1>3 DEF HabitInv

LEMMA HabitStep == ASSUME HabitInv, Discipline = Habits, ~SMP, [Next]_vars
                   PROVE  HabitInv'
<1>1. WireInv'
  BY WireStep DEF HabitInv
<1> QED BY <1>1, ListStep, StoreStep, TaskStep, CreditStep DEF HabitInv

\* The frozen time that the handlers subtract from a process's clock is the time the
\* process was stopped, less what passed inside the handlers, on any number of
\* boards and over any number of pauses.
THEOREM CreditIsExact == ASSUME Discipline = Habits, ~SMP PROVE Spec => []ExactCredit
<1>1. HabitInv /\ [Next]_vars => HabitInv'
  BY HabitStep
<1>2. HabitInv => ExactCredit
  BY DEF HabitInv, Credited, ExactCredit
<1> QED BY <1>1, <1>2, HabitInit, PTL DEF Spec

-----------------------------------------------------------------------------
(***************************************************************************)
(* What the processes read.  At normal speed a reading is the wall clock   *)
(* less what has been credited, in whatever name the handlers have read    *)
(* the clock meanwhile.  A second factor would restart the clock with what *)
(* it has counted before; README.md:52 asks to leave tdf at 1000.          *)
(***************************************************************************)
OneFactor == \A tdf \in TDFs : tdf > 0 => tdf = One

\* The bookkeeping of a process at normal speed.
Plain(r) ==
  InVT(r) => /\ r.dilation = One
             /\ r.physical_start = r.virtual_start
             /\ r.physical_past = r.virtual_past

\* The frozen time that has been or will be credited to t.
Frozen(t) == obs[t].stopped - obs[t].latency

\* A process is not credited before it has seen time pass in virtual time, and what
\* it has read is not ahead of what it is to read next.
ReadingInv(t) ==
  /\ Plain(vt[t])
  /\ obs[t].latency <= obs[t].stopped
  /\ obs[t].seen <= wall
  /\ Alive(t) /\ InVT(vt[t]) =>
       /\ vt[t].virtual_start <= wall
       /\ vt[t].virtual_start = wall => Frozen(t) = 0
       /\ obs[t].seen <= wall - Frozen(t)

Abreast(t, u) ==
  home[t] = home[u] /\ Alive(t) /\ Alive(u) /\ InVT(vt[t]) /\ InVT(vt[u])
  /\ vt[t].virtual_start = vt[u].virtual_start => Frozen(t) = Frozen(u)

ClockInv ==
  /\ HabitInv
  /\ \A b \in Board : module[b].tdf > 0 => module[b].tdf = One
  /\ \A t \in Task : ReadingInv(t)
  /\ \A t, u \in Task : Abreast(t, u)

\* A reading at normal speed is the wall clock less the frozen time.
LEMMA PlainReading == ASSUME NEW r \in TaskFields, NEW now \in Nat, Plain(r)
                      PROVE  /\ Plain(KeepTime(r, now))
                             /\ InVT(r) => TimeOfDay(r, now) = now - r.freeze_past
<1>1. CASE ~InVT(r)
  BY <1>1 DEF KeepTime
<1>2. CASE InVT(r)
  <2> DEFINE d == DeltaPhysical(r, now)
  <2>1. /\ d \in Int /\ d = now - r.physical_past - r.physical_start - r.freeze_past
        /\ r.physical_start \in Int /\ r.physical_past \in Int /\ r.freeze_past \in Int
        /\ r.virtual_start \in Int /\ r.virtual_past \in Int
    BY DEF DeltaPhysical, TaskFields
  <2>2. /\ r.dilation = One /\ r.physical_start = r.virtual_start
        /\ r.physical_past = r.virtual_past
    BY <1>2 DEF Plain
  <2>3. DeltaVirtual(d, r.dilation) = d
    BY <2>2 DEF DeltaVirtual
  <2> DEFINE s == KeepTime(r, now)
  <2>4. /\ s.dilation = One /\ s.virtual_start = r.virtual_start
        /\ s.physical_start = r.physical_start
        /\ s.virtual_past = r.virtual_past + d /\ s.physical_past = r.physical_past + d
    BY <1>2, <2>2, <2>3 DEF KeepTime
  <2>5. TimeOfDay(r, now) = r.virtual_start + s.virtual_past
    BY <1>2 DEF TimeOfDay
  <2> HIDE DEF d, s
  <2>6. Plain(s)
    BY <2>2, <2>4 DEF Plain
  <2>7. TimeOfDay(r, now) = now - r.freeze_past
    BY <2>1, <2>2, <2>4, <2>5
  <2> QED BY <2>6, <2>7 DEF s
<1> QED BY <1>1, <1>2

\* With one factor a write of tdf enters, leaves or changes nothing.
LEMMA PlainDilation ==
  ASSUME NEW r \in TaskFields, NEW tdf \in Int, tdf > 0 => tdf = One, NEW now \in Nat \ {0},
         Plain(r), InVT(r) <=> r.dilation # 0
  PROVE  LET s == SetDilation(r, tdf, now) IN
         /\ Plain(s)
         /\ InVT(s) => \/ InVT(r) /\ s = r
                       \/ ~InVT(r) /\ s.virtual_start = now
<1> DEFINE s == SetDilation(r, tdf, now)
<1>1. CASE s = r
  BY <1>1
<1>2. CASE s # r
  <2>1. r.dilation \in Nat /\ r.dilation # tdf /\ ~RefusesDilation(r, tdf)
    BY <1>2 DEF SetDilation, TaskFields
  <2>2. CASE r.dilation = 0
    <3>1. s = InitVirtualStartTime(r, tdf, now)
      BY <2>1, <2>2 DEF SetDilation
    <3>2. tdf = One
      BY <1>2, <3>1 DEF InitVirtualStartTime
    <3>3. /\ s.virtual_start = now /\ s.dilation = One /\ s.physical_start = now
          /\ s.virtual_past = 0 /\ s.physical_past = 0
      BY <3>1, <3>2 DEF InitVirtualStartTime, One
    <3> HIDE DEF s
    <3>4. Plain(s) /\ ~InVT(r)
      BY <2>2, <3>3 DEF Plain
    <3> QED BY <3>3, <3>4 DEF s
  <2>3. CASE r.dilation # 0
    <3>1. tdf = 0
      BY <2>1, <2>3 DEF Plain, RefusesDilation
    <3>2. s = NoVirtualTime
      BY <2>1, <2>3, <3>1 DEF SetDilation
    <3>3. ~InVT(s)
      BY <3>2 DEF NoVirtualTime, InVT
    <3> QED BY <3>3 DEF Plain
  <2> QED BY <2>2, <2>3
<1> QED BY <1>1, <1>2

\* The four ways in which a step moves the fields of a process.
LEMMA VtMoves == ASSUME HabitInv, [Next]_vars, NEW t \in Task
                 PROVE  \/ vt'[t] = vt[t]
                        \/ vt'[t] = KeepTime(vt[t], wall)
                        \/ \E b \in Board : DilatedNow(b, t)
                        \/ \E d \in Int : vt'[t] = [vt[t] EXCEPT !.freeze_past = d]
<1>0. TypeOK /\ vt \in [Task -> TaskFields] /\ vt[t] \in TaskFields
  BY DEF HabitInv, WireInv, BoardsInv, TypeOK
<1> DEFINE Kept == vt'[t] = vt[t] \/ vt'[t] = KeepTime(vt[t], wall)
<1>1. ASSUME NEW u \in Task, GetTime(u) PROVE Kept
  BY <1>0, <1>1 DEF GetTime
<1>2. ASSUME NEW b \in Board, TakeInterrupt(b) PROVE Kept
  <2>1. PICK current : vt' = Clocked(current)
    BY <1>2 DEF TakeInterrupt, Interrupt
  <2> QED BY <1>0, <2>1 DEF Clocked
<1>3. ASSUME NEW b \in Board, Leave(b) PROVE Kept
  BY <1>0, <1>3 DEF Leave, Clocked
<1>4. ASSUME NEW b \in Board, Credit(b)
      PROVE  vt'[t] = vt[t] \/ \E d \in Int : vt'[t] = [vt[t] EXCEPT !.freeze_past = d]
  <2>1. PICK i \in Slot :
          vt' = IF Alive(isr[b].pids[i])
                  THEN [vt EXCEPT ![isr[b].pids[i]].freeze_past = @ + isr[b].duration]
                  ELSE vt
    BY <1>4 DEF Credit
  <2>2. vt[t].freeze_past + isr[b].duration \in Int
    BY <1>0 DEF TypeOK, TaskFields
  <2>3. \/ vt'[t] = vt[t]
        \/ vt'[t] = [vt[t] EXCEPT !.freeze_past = vt[t].freeze_past + isr[b].duration]
    BY <1>0, <2>1
  <2> QED BY <2>2, <2>3
<1>5. ASSUME NEW b \in Board, dilate_proc(b)
      PROVE  DilatedNow(b, t) \/ vt'[t] = vt[t]
  BY <1>0, <1>5, DilateOne
<1>6. CASE UNCHANGED vt
  BY <1>6
<1>7. ASSUME NEW b \in Board,
             SignalStop(b) \/ Stamp(b) \/ CreditDone(b) \/ SignalContinue(b)
      PROVE  UNCHANGED vt
  BY <1>7 DEF SignalStop, Stamp, CreditDone, SignalContinue
<1>8. ASSUME NEW b \in Board, \/ vtgpio_init(b) \/ vtgpio_exit(b) \/ LetGo(b)
                              \/ \E word : mode_store(b, word)
      PROVE  UNCHANGED vt
  BY <1>8 DEF vtgpio_init, vtgpio_exit, LetGo, mode_store
<1>9. ASSUME NEW b \in Board, \/ \E i \in Slot, p \in PidOrNone : pid_store(b, i, p)
                              \/ \E value \in TDFs : tdf_store(b, value)
      PROVE  UNCHANGED vt
  BY <1>9 DEF pid_store, tdf_store
<1>10. ASSUME Tick \/ UNCHANGED vars \/ \E u \in Task : Exit(u) \/ TakeStop(u)
       PROVE  UNCHANGED vt
  BY <1>10 DEF Tick, vars, Exit, TakeStop
<1> QED BY <1>1, <1>2, <1>3, <1>4, <1>5, <1>6, <1>7, <1>8, <1>9, <1>10 DEF Next, IsrStep

\* tdf is one of the values written to it, or 1.0 as in the static initialiser.
LEMMA FactorStep ==
  ASSUME HabitInv, OneFactor, [Next]_vars, NEW b \in Board,
         module[b].tdf > 0 => module[b].tdf = One
  PROVE  (module[b].tdf > 0 => module[b].tdf = One)'
<1>0. TypeOK
  BY DEF HabitInv, WireInv, BoardsInv
<1>1. ASSUME NEW x \in Board, vtgpio_init(x) \/ vtgpio_exit(x)
      PROVE  module'[b].tdf = module[b].tdf \/ module'[b].tdf = One
  <2>1. module' = [module EXCEPT ![x] = [Fresh EXCEPT !.loaded = TRUE]]
        \/ module' = [module EXCEPT ![x] = Fresh]
    BY <1>1 DEF vtgpio_init, vtgpio_exit
  <2>2. Fresh.tdf = One /\ [Fresh EXCEPT !.loaded = TRUE].tdf = One
    BY DEF Fresh
  <2>3. CASE b = x
    BY <1>0, <2>1, <2>2, <2>3 DEF TypeOK
  <2>4. CASE b # x
    BY <1>0, <2>1, <2>4 DEF TypeOK
  <2> QED BY <2>3, <2>4
<1>2. ASSUME NEW x \in Board, NEW word, mode_store(x, word)
      PROVE  module'[b].tdf = module[b].tdf
  BY <1>0, <1>2 DEF mode_store, TypeOK
<1>3. ASSUME NEW x \in Board, NEW i \in Slot, NEW p \in PidOrNone, pid_store(x, i, p)
      PROVE  module'[b].tdf = module[b].tdf
  BY <1>0, <1>3 DEF pid_store, TypeOK
<1>4. ASSUME NEW x \in Board, NEW value \in TDFs, tdf_store(x, value)
      PROVE  module'[b].tdf = module[b].tdf \/ module'[b].tdf = value
  BY <1>0, <1>4 DEF tdf_store, TypeOK
<1>5. ASSUME NEW x \in Board, Stamp(x) PROVE module'[b].tdf = module[b].tdf
  BY <1>0, <1>5 DEF Stamp, TypeOK
<1>6. ASSUME NEW x \in Board, \/ TakeInterrupt(x) \/ dilate_proc(x) \/ SignalStop(x)
                              \/ Credit(x) \/ CreditDone(x) \/ SignalContinue(x) \/ Leave(x)
      PROVE  UNCHANGED module
  BY <1>6 DEF TakeInterrupt, Interrupt, dilate_proc, SignalStop, Credit, CreditDone,
     SignalContinue, Leave
<1>7. ASSUME \/ Tick \/ UNCHANGED vars \/ \E x \in Board : LetGo(x)
             \/ \E t \in Task : GetTime(t) \/ Exit(t) \/ TakeStop(t)
      PROVE  UNCHANGED module
  BY <1>7 DEF Tick, vars, LetGo, GetTime, Exit, TakeStop
<1> QED BY <1>1, <1>2, <1>3, <1>4, <1>5, <1>6, <1>7 DEF Next, IsrStep, OneFactor

LEMMA PlainStep == ASSUME ClockInv, [Next]_vars, NEW t \in Task
                   PROVE  Plain(vt[t])'
<1>0. /\ HabitInv /\ Plain(vt[t]) /\ TaskInv(t)
      /\ vt[t] \in TaskFields /\ wall \in Nat \ {0}
  BY DEF ClockInv, ReadingInv, HabitInv, WireInv, BoardsInv, TypeOK
<1>1. CASE vt'[t] = vt[t] \/ vt'[t] = KeepTime(vt[t], wall)
  BY <1>0, <1>1, PlainReading
<1>2. ASSUME NEW b \in Board, DilatedNow(b, t) PROVE Plain(vt[t])'
  <2>1. module[b].tdf \in Int /\ (module[b].tdf > 0 => module[b].tdf = One)
    BY DEF ClockInv, HabitInv, WireInv, BoardsInv, TypeOK
  <2> QED BY <1>0, <1>2, <2>1, PlainDilation DEF DilatedNow, TaskInv
<1>3. ASSUME NEW d \in Int, vt'[t] = [vt[t] EXCEPT !.freeze_past = d] PROVE Plain(vt[t])'
  BY <1>0, <1>3 DEF Plain, InVT, TaskFields
<1> QED BY <1>0, <1>1, <1>2, <1>3, VtMoves

\* A process that runs has been credited all of its frozen time.
LEMMA RunsCredited == ASSUME ClockInv, ~SMP, NEW t \in Task, Runs(t)
                      PROVE  /\ Alive(t)
                             /\ InVT(vt[t]) => /\ vt[t].freeze_past = Frozen(t)
                                               /\ TimeOfDay(vt[t], wall) = wall - Frozen(t)
                             /\ ~InVT(vt[t]) => TimeOfDay(vt[t], wall) = wall
<1>0. /\ HabitInv /\ TaskInv(t) /\ Credited(t) /\ Plain(vt[t]) /\ vt[t] \in TaskFields
      /\ wall \in Nat /\ vt[t].freeze_past \in Int
  BY DEF ClockInv, ReadingInv, HabitInv, WireInv, BoardsInv, TypeOK, TaskFields
<1>1. Alive(t) /\ run[t] # "stopped" /\ At(home[t], "idle")
  BY DEF Runs, CpuFree, Alive
<1>2. Uncredited(t) = 0
  BY <1>1 DEF Uncredited, At
<1>3. InVT(vt[t]) => vt[t].freeze_past = Frozen(t)
  BY <1>0, <1>1, <1>2 DEF TaskInv, Credited, Frozen
<1>4. ~InVT(vt[t]) => TimeOfDay(vt[t], wall) = wall
  BY DEF TimeOfDay
<1> QED BY <1>0, <1>1, <1>3, <1>4, PlainReading

\* A clock that moves only by what has been stopped since.
LEMMA ReadingTick == ASSUME ClockInv, ~SMP, Tick, NEW t \in Task
                     PROVE  /\ ReadingInv(t)'
                            /\ Frozen(t)' = Frozen(t) +
                                 IF run[t] = "stopped" /\ isr[home[t]].pc \in {"idle", "end"}
                                   THEN 1 ELSE 0
<1> DEFINE b == home[t]
<1>0. /\ b \in Board /\ wall \in Nat
      /\ isr[b].pc \in {"idle", "stop", "credit", "cont", "end"}
      /\ obs[t].stopped \in Nat /\ obs[t].latency \in Nat /\ obs[t].seen \in Int
      /\ vt[t] \in TaskFields /\ vt[t].virtual_start \in Int
  BY GpioAssumption DEF ClockInv, HabitInv, WireInv, BoardsInv, TypeOK, TaskFields
<1>1. wall' = wall + 1 /\ UNCHANGED <<vt, run, module, isr>>
  BY DEF Tick
<1>2. ReadingInv(t)
  BY DEF ClockInv
<1>3. /\ obs'[t].seen = obs[t].seen /\ obs'[t].latency <= obs'[t].stopped
      /\ Frozen(t)' = Frozen(t) +
           IF run[t] = "stopped" /\ isr[b].pc \in {"idle", "end"} THEN 1 ELSE 0
  <2>1. CASE run[t] = "stopped"
    <3>1. /\ obs'[t].stopped = obs[t].stopped + 1 /\ obs'[t].seen = obs[t].seen
          /\ obs'[t].latency =
               obs[t].latency + IF isr[b].pc \in {"stop", "credit", "cont"} THEN 1 ELSE 0
      BY <2>1 DEF Tick
    <3> HIDE DEF b
    <3>2. CASE isr[b].pc \in {"stop", "credit", "cont"}
      BY <1>0, <1>2, <3>1, <3>2 DEF Frozen, ReadingInv
    <3>3. CASE isr[b].pc \in {"idle", "end"}
      BY <1>0, <1>2, <2>1, <3>1, <3>3 DEF Frozen, ReadingInv
    <3> QED BY <1>0, <3>2, <3>3
  <2>2. CASE run[t] # "stopped"
    <3>1. obs'[t] = obs[t]
      BY <2>2 DEF Tick
    <3>2. Frozen(t) \in Int /\ Frozen(t)' = Frozen(t)
      BY <1>0, <3>1 DEF Frozen
    <3> QED BY <1>2, <2>2, <3>1, <3>2 DEF ReadingInv
  <2> QED BY <2>1, <2>2
<1>4. Plain(vt[t])'
  BY <1>1, <1>2 DEF ReadingInv
<1>5. Frozen(t) \in Int
  BY <1>0 DEF Frozen
<1> HIDE DEF b
<1>6. wall - Frozen(t) <= wall' - Frozen(t)'
  BY <1>0, <1>1, <1>3, <1>5
<1>7. ASSUME Alive(t)', InVT(vt[t])'
      PROVE  /\ vt'[t].virtual_start <= wall'
             /\ vt'[t].virtual_start # wall'
             /\ obs'[t].seen <= wall' - Frozen(t)'
  <2>1. Alive(t) /\ InVT(vt[t])
    BY <1>1, <1>7 DEF Alive, InVT
  <2>2. vt[t].virtual_start <= wall /\ obs[t].seen <= wall - Frozen(t)
    BY <1>2, <2>1 DEF ReadingInv
  <2>3. Frozen(t)' \in Int
    BY <1>3, <1>5
  <2> QED BY <1>0, <1>1, <1>3, <1>5, <1>6, <2>2, <2>3
<1>8. obs'[t].seen <= wall'
  BY <1>0, <1>1, <1>2, <1>3 DEF ReadingInv
<1> QED BY <1>3, <1>4, <1>7, <1>8 DEF ReadingInv, b

\* Between two handlers either all of the processes enrolled on a board are stopped
\* or none is.
LEMMA AllStopped == ASSUME HabitInv, NEW t \in Task, NEW u \in Task, home[t] = home[u],
                           Member(t), Member(u), isr[home[t]].pc \in {"idle", "end"}
                    PROVE  run[t] = "stopped" <=> run[u] = "stopped"
<1> DEFINE b == home[t]
<1>1. b \in Board /\ t \in Members(b) /\ u \in Members(b)
  BY GpioAssumption DEF Members
<1>2. WirePhase(b)
  BY <1>1 DEF HabitInv, WireInv, BoardsInv, BoardInv
<1>3. Stopped(b) = {} \/ Stopped(b) = Members(b)
  BY <1>2 DEF WirePhase, Up, Rising, Stopping, Ending, Down, Falling, Crediting,
     Continuing, In, At
<1>4. \A x \in {t, u} : x \in Stopped(b) <=> run[x] = "stopped"
  BY DEF Stopped, HabitInv, TaskInv
<1> HIDE DEF b
<1> QED BY <1>1, <1>3, <1>4

\* Only the clock, a reading and a dilation touch what is remembered of a process.
LEMMA ObsStays == ASSUME [Next]_vars, ~Tick, ~ \E t \in Task : GetTime(t),
                         ~ \E b \in Board : dilate_proc(b)
                  PROVE  UNCHANGED obs
<1>1. ASSUME NEW b \in Board, \/ vtgpio_init(b) \/ vtgpio_exit(b) \/ LetGo(b)
                              \/ \E word : mode_store(b, word)
      PROVE  UNCHANGED obs
  BY <1>1 DEF vtgpio_init, vtgpio_exit, LetGo, mode_store
<1>2. ASSUME NEW b \in Board, \/ \E i \in Slot, p \in PidOrNone : pid_store(b, i, p)
                              \/ \E value \in TDFs : tdf_store(b, value)
      PROVE  UNCHANGED obs
  BY <1>2 DEF pid_store, tdf_store
<1>3. ASSUME NEW b \in Board, \/ TakeInterrupt(b) \/ SignalStop(b) \/ Stamp(b) \/ Credit(b)
                              \/ CreditDone(b) \/ SignalContinue(b) \/ Leave(b)
      PROVE  UNCHANGED obs
  BY <1>3 DEF TakeInterrupt, Interrupt, SignalStop, Stamp, Credit, CreditDone,
     SignalContinue, Leave
<1>4. ASSUME UNCHANGED vars \/ \E t \in Task : Exit(t) \/ TakeStop(t) PROVE UNCHANGED obs
  BY <1>4 DEF vars, Exit, TakeStop
<1> QED BY <1>1, <1>2, <1>3, <1>4 DEF Next, IsrStep

\* The wall clock is moved by Tick only.
LEMMA WallStays == ASSUME [Next]_vars, ~Tick PROVE UNCHANGED wall
<1>1. ASSUME NEW b \in Board, \/ vtgpio_init(b) \/ vtgpio_exit(b) \/ LetGo(b)
                              \/ \E word : mode_store(b, word)
      PROVE  UNCHANGED wall
  BY <1>1 DEF vtgpio_init, vtgpio_exit, LetGo, mode_store
<1>2. ASSUME NEW b \in Board, \/ \E i \in Slot, p \in PidOrNone : pid_store(b, i, p)
                              \/ \E value \in TDFs : tdf_store(b, value)
      PROVE  UNCHANGED wall
  BY <1>2 DEF pid_store, tdf_store
<1>3. ASSUME NEW b \in Board, \/ TakeInterrupt(b) \/ SignalStop(b) \/ Stamp(b) \/ Credit(b)
                              \/ CreditDone(b) \/ SignalContinue(b) \/ Leave(b)
                              \/ dilate_proc(b)
      PROVE  UNCHANGED wall
  BY <1>3 DEF TakeInterrupt, Interrupt, SignalStop, Stamp, Credit, CreditDone,
     SignalContinue, Leave, dilate_proc
<1>4. ASSUME UNCHANGED vars \/ \E t \in Task : GetTime(t) \/ Exit(t) \/ TakeStop(t)
      PROVE  UNCHANGED wall
  BY <1>4 DEF vars, GetTime, Exit, TakeStop
<1> QED BY <1>1, <1>2, <1>3, <1>4 DEF Next, IsrStep

\* A step that takes no time and starts no virtual time: who is left in virtual time
\* was there before, with the same frozen time.
LEMMA ReadingStays ==
  ASSUME ClockInv, ~SMP, [Next]_vars, ~Tick, NEW t \in Task,
         vt'[t].virtual_start = vt[t].virtual_start, Frozen(t)' = Frozen(t),
         obs'[t].latency <= obs'[t].stopped, obs'[t].seen <= wall,
         Alive(t) /\ InVT(vt[t]) => obs'[t].seen <= wall - Frozen(t)
  PROVE  ReadingInv(t)'
<1>1. HabitInv /\ ReadingInv(t) /\ Plain(vt[t])'
  BY PlainStep DEF ClockInv
<1>2. Alive(t)' => Alive(t)
  BY <1>1, NeverStopping
<1>3. InVT(vt[t])' <=> InVT(vt[t])
  BY DEF InVT
<1>4. wall' = wall
  BY WallStays
<1> QED BY <1>1, <1>2, <1>3, <1>4 DEF ReadingInv

LEMMA ReadingGetTime == ASSUME ClockInv, ~SMP, [Next]_vars, ~Tick, NEW u \in Task, GetTime(u),
                               NEW t \in Task
                        PROVE  ReadingInv(t)' /\ Frozen(t)' = Frozen(t)
                               /\ obs'[t].seen >= obs[t].seen
<1>0. /\ TypeOK /\ ReadingInv(t) /\ HabitInv /\ wall \in Int /\ vt[t] \in TaskFields
      /\ obs[t].stopped \in Nat /\ obs[t].latency \in Nat /\ obs[t].seen \in Int
  BY DEF ClockInv, HabitInv, WireInv, BoardsInv, TypeOK
<1>1. obs'[t].stopped = obs[t].stopped /\ obs'[t].latency = obs[t].latency
  BY <1>0 DEF GetTime, TypeOK
<1>2. Frozen(t)' = Frozen(t) /\ Frozen(t) \in Int /\ Frozen(t) >= 0
  BY <1>0, <1>1 DEF Frozen, ReadingInv
<1>3. vt'[t].virtual_start = vt[t].virtual_start
  <2>1. vt'[t] = vt[t] \/ vt'[t] = KeepTime(vt[t], wall)
    BY <1>0 DEF GetTime, TypeOK
  <2> QED BY <1>0, <2>1, KeepTimeKeeps
<1>4. CASE t # u
  <2>1. obs'[t] = obs[t]
    BY <1>0, <1>4 DEF GetTime, TypeOK
  <2> QED BY <1>0, <1>1, <1>2, <1>3, <2>1, ReadingStays DEF ReadingInv
<1>5. CASE t = u
  <2>1. Runs(t) /\ obs'[t].seen = TimeOfDay(vt[t], wall)
    BY <1>0, <1>5 DEF GetTime, TypeOK
  <2>2. /\ Alive(t)
        /\ InVT(vt[t]) => obs'[t].seen = wall - Frozen(t)
        /\ ~InVT(vt[t]) => obs'[t].seen = wall
    BY <2>1, RunsCredited
  <2>3. /\ obs'[t].seen >= obs[t].seen /\ obs'[t].seen <= wall
        /\ InVT(vt[t]) => obs'[t].seen <= wall - Frozen(t)
    BY <1>0, <1>2, <2>2 DEF ReadingInv
  <2> QED BY <1>0, <1>1, <1>2, <1>3, <2>3, ReadingStays DEF ReadingInv
<1> QED BY <1>4, <1>5

\* What a dilation does to a process: nothing, or it starts afresh, or it is out.
Started(t) == InVT(vt'[t]) /\ vt'[t].virtual_start = wall /\ ~InVT(vt[t])
              /\ obs'[t] = Afresh(obs[t])

LEMMA DilateWays == ASSUME ClockInv, NEW b \in Board, dilate_proc(b), NEW t \in Task
                    PROVE  \/ vt'[t] = vt[t] /\ obs'[t] = obs[t]
                           \/ Started(t)
                           \/ ~InVT(vt'[t]) /\ obs'[t] \in {obs[t], Afresh(obs[t])}
<1>0. /\ HabitInv /\ TaskInv(t) /\ Plain(vt[t]) /\ vt[t] \in TaskFields
      /\ wall \in Nat \ {0} /\ module[b].tdf \in Int
      /\ module[b].tdf > 0 => module[b].tdf = One
  BY DEF ClockInv, ReadingInv, HabitInv, WireInv, BoardsInv, TypeOK
<1>1. CASE DilatedNow(b, t)
  <2>1. InVT(vt'[t]) => \/ InVT(vt[t]) /\ vt'[t] = vt[t]
                        \/ ~InVT(vt[t]) /\ vt'[t].virtual_start = wall
    BY <1>0, <1>1, PlainDilation DEF DilatedNow, TaskInv
  <2> QED BY <1>1, <2>1 DEF DilatedNow, Started
<1> QED BY <1>0, <1>1, DilateOne

LEMMA ReadingDilate == ASSUME ClockInv, ~SMP, [Next]_vars, ~Tick, NEW b \in Board,
                              dilate_proc(b), NEW t \in Task
                       PROVE  ReadingInv(t)' /\ obs'[t].seen = obs[t].seen
<1>0. /\ HabitInv /\ ReadingInv(t) /\ Plain(vt[t])' /\ wall' = wall /\ wall \in Int
      /\ obs[t].stopped \in Nat /\ obs[t].latency \in Nat /\ obs[t].seen \in Int
  BY PlainStep, WallStays DEF ClockInv, HabitInv, WireInv, BoardsInv, TypeOK
<1>1. CASE vt'[t] = vt[t] /\ obs'[t] = obs[t]
  BY <1>0, <1>1, ReadingStays DEF Frozen, ReadingInv
<1>2. CASE Started(t)
  <2>1. /\ Frozen(t)' = 0 /\ obs'[t].latency <= obs'[t].stopped
        /\ obs'[t].seen = obs[t].seen
    BY <1>2 DEF Frozen, Started, Afresh
  <2>2. vt'[t].virtual_start <= wall
    BY <1>0, <1>2 DEF Started
  <2> QED BY <1>0, <2>1, <2>2 DEF ReadingInv
<1>3. CASE ~InVT(vt'[t]) /\ obs'[t] \in {obs[t], Afresh(obs[t])}
  <2>1. obs'[t].latency <= obs'[t].stopped /\ obs'[t].seen = obs[t].seen
    BY <1>0, <1>3 DEF Afresh, ReadingInv
  <2> QED BY <1>0, <1>3, <2>1 DEF ReadingInv
<1> QED BY <1>1, <1>2, <1>3, DilateWays

LEMMA StartStays == ASSUME HabitInv, [Next]_vars, NEW t \in Task,
                           ~ \E b \in Board : dilate_proc(b)
                    PROVE  vt'[t].virtual_start = vt[t].virtual_start
<1>1. CASE \E b \in Board : Credit(b)
  BY <1>1, CreditOne DEF HabitInv, WireInv, BoardsInv
<1>2. CASE ~ \E b \in Board : Credit(b)
  BY <1>2, FieldsStay DEF SameFields
<1> QED BY <1>1, <1>2

\* A reading is never ahead of the next one.
LEMMA ReadingStep == ASSUME ClockInv, ~SMP, [Next]_vars, NEW t \in Task
                     PROVE  ReadingInv(t)' /\ obs'[t].seen >= obs[t].seen
<1>0. HabitInv /\ ReadingInv(t) /\ obs[t].seen \in Int
  BY DEF ClockInv, HabitInv, WireInv, BoardsInv, TypeOK
<1>1. CASE Tick
  <2>1. obs'[t].seen = obs[t].seen
    BY <1>0, <1>1 DEF Tick
  <2> QED BY <1>0, <1>1, <2>1, ReadingTick
<1>2. CASE ~Tick /\ \E u \in Task : GetTime(u)
  BY <1>2, ReadingGetTime
<1>3. CASE ~Tick /\ \E b \in Board : dilate_proc(b)
  BY <1>0, <1>3, ReadingDilate
<1>4. CASE ~Tick /\ ~(\E u \in Task : GetTime(u)) /\ ~ \E b \in Board : dilate_proc(b)
  <2>1. obs' = obs
    BY <1>4, ObsStays
  <2>2. vt'[t].virtual_start = vt[t].virtual_start
    BY <1>0, <1>4, StartStays
  <2>3. ReadingInv(t)'
    BY <1>0, <1>4, <2>1, <2>2, ReadingStays DEF ReadingInv, Frozen
  <2> QED BY <1>0, <2>1, <2>3
<1> QED BY <1>1, <1>2, <1>3, <1>4

\* Whoever entered virtual time at the same moment has been frozen for as long.
LEMMA AbreastTick == ASSUME ClockInv, ~SMP, Tick, NEW t \in Task, NEW u \in Task
                     PROVE  Abreast(t, u)'
<1>1. /\ HabitInv /\ Abreast(t, u) /\ TaskInv(t) /\ TaskInv(u)
      /\ UNCHANGED <<vt, run, isr>>
  BY DEF ClockInv, HabitInv, Tick
<1> SUFFICES ASSUME home[t] = home[u], Alive(t), Alive(u), InVT(vt[t]), InVT(vt[u]),
                    vt[t].virtual_start = vt[u].virtual_start
             PROVE  Frozen(t)' = Frozen(u)'
  BY <1>1 DEF Abreast, Alive, InVT
<1>2. Frozen(t) = Frozen(u) /\ Member(t) /\ Member(u)
  BY <1>1 DEF Abreast, TaskInv
<1>3. isr[home[t]].pc \in {"idle", "end"} => (run[t] = "stopped" <=> run[u] = "stopped")
  BY <1>1, <1>2, AllStopped
<1> QED BY <1>2, <1>3, ReadingTick

LEMMA AbreastDilate == ASSUME ClockInv, ~SMP, [Next]_vars, NEW b \in Board, dilate_proc(b),
                              NEW t \in Task, NEW u \in Task
                       PROVE  Abreast(t, u)'
<1>1. HabitInv /\ Abreast(t, u) /\ ReadingInv(t) /\ ReadingInv(u)
  BY DEF ClockInv
<1> SUFFICES ASSUME home[t] = home[u], Alive(t)', Alive(u)', InVT(vt'[t]), InVT(vt'[u]),
                    vt'[t].virtual_start = vt'[u].virtual_start
             PROVE  Frozen(t)' = Frozen(u)'
  BY DEF Abreast, InVT
<1>2. Alive(t) /\ Alive(u)
  BY <1>1, NeverStopping
<1> DEFINE Same(x) == vt'[x] = vt[x] /\ obs'[x] = obs[x]
<1>3. \A x \in {t, u} : Same(x) \/ Started(x)
  BY DilateWays
<1>4. \A x \in {t, u} : Started(x) => Frozen(x)' = 0
  BY DEF Started, Afresh, Frozen
<1>5. \A x \in {t, u} : Same(x) => Frozen(x)' = Frozen(x)
  BY DEF Frozen
<1>6. \A x \in {t, u} : Same(x) /\ vt[x].virtual_start = wall => Frozen(x)' = 0
  BY <1>1, <1>2, <1>5 DEF ReadingInv
<1>7. CASE Same(t) /\ Same(u)
  BY <1>1, <1>2, <1>5, <1>7 DEF Abreast
<1>8. CASE Started(t) /\ Same(u)
  BY <1>4, <1>6, <1>8 DEF Started
<1>9. CASE Same(t) /\ Started(u)
  BY <1>4, <1>6, <1>9 DEF Started
<1>10. CASE Started(t) /\ Started(u)
  BY <1>4, <1>10
<1> QED BY <1>3, <1>7, <1>8, <1>9, <1>10

LEMMA AbreastStep == ASSUME ClockInv, ~SMP, [Next]_vars, NEW t \in Task, NEW u \in Task
                     PROVE  Abreast(t, u)'
<1>1. HabitInv /\ Abreast(t, u) /\ TypeOK
  BY DEF ClockInv, HabitInv, WireInv, BoardsInv
<1>2. CASE ~Tick /\ ~ \E b \in Board : dilate_proc(b)
  <2>1. \A x \in {t, u} : Frozen(x)' = Frozen(x)
    <3>1. CASE \E x \in Task : GetTime(x)
      BY <1>2, <3>1, ReadingGetTime
    <3>2. CASE ~ \E x \in Task : GetTime(x)
      BY <1>2, <3>2, ObsStays DEF Frozen
    <3> QED BY <3>1, <3>2
  <2>2. \A x \in {t, u} : /\ vt'[x].virtual_start = vt[x].virtual_start
                          /\ Alive(x)' => Alive(x)
    BY <1>1, <1>2, StartStays, NeverStopping
  <2> QED BY <1>1, <2>1, <2>2 DEF Abreast, InVT
<1> QED BY <1>2, AbreastTick, AbreastDilate

LEMMA ClockInit == Init => ClockInv
<1> SUFFICES ASSUME Init PROVE ClockInv
  OBVIOUS
<1>1. HabitInv
  BY HabitInit
<1>2. ASSUME NEW b \in Board PROVE module[b].tdf = One
  BY DEF Init, Fresh
<1>3. ASSUME NEW t \in Task PROVE ReadingInv(t) /\ ~InVT(vt[t])
  BY DEF Init, ReadingInv, Plain, NoVirtualTime, InVT, Unobserved
<1> QED BY <1>1, <1>2, <1>3 DEF ClockInv, Abreast

LEMMA ClockInvariant == ASSUME Discipline = Habits, ~SMP, OneFactor PROVE Spec => []ClockInv
<1>1. ClockInv /\ [Next]_vars => ClockInv'
  <2> SUFFICES ASSUME ClockInv, [Next]_vars PROVE ClockInv'
    OBVIOUS
  <2>1. HabitInv'
    BY HabitStep DEF ClockInv
  <2>2. \A b \in Board : (module[b].tdf > 0 => module[b].tdf = One)'
    BY FactorStep DEF ClockInv
  <2>3. \A t \in Task : ReadingInv(t)'
    BY ReadingStep
  <2>4. \A t, u \in Task : Abreast(t, u)'
    BY AbreastStep
  <2> QED BY <2>1, <2>2, <2>3, <2>4 DEF ClockInv
<1> QED BY <1>1, ClockInit, PTL DEF Spec

\* Two processes of a board that entered virtual time at the same moment show the
\* same time: they have been stopped together in every pause since, and outside the
\* loop that credits them they have been credited, or are owed, the same.
THEOREM BoardmatesShowTheSame ==
  ASSUME Discipline = Habits, ~SMP, OneFactor PROVE Spec => []BoardmatesAgree
<1>1. ClockInv => BoardmatesAgree
  <2> SUFFICES ASSUME ClockInv, NEW t \in Task, NEW u \in Task, home[t] = home[u],
                      Member(t), Member(u), InVT(vt[t]), InVT(vt[u]),
                      vt[t].virtual_start = vt[u].virtual_start, ~At(home[t], "credit")
               PROVE  TimeOfDay(vt[t], wall) = TimeOfDay(vt[u], wall)
    BY DEF BoardmatesAgree
  <2>1. /\ HabitInv /\ Abreast(t, u) /\ wall \in Nat
        /\ \A x \in {t, u} : /\ vt[x] \in TaskFields /\ Plain(vt[x]) /\ Credited(x)
                             /\ vt[x].freeze_past \in Int
    BY DEF ClockInv, ReadingInv, HabitInv, WireInv, BoardsInv, TypeOK, TaskFields
  <2>2. Frozen(t) = Frozen(u)
    BY <2>1 DEF Abreast, Member
  <2>3. Uncredited(t) = Uncredited(u) /\ Uncredited(t) \in Int
    <3>1. home[t] \in Board /\ module[home[t]].freeze_now \in Int
      BY <2>1, GpioAssumption DEF HabitInv, WireInv, BoardsInv, TypeOK
    <3>2. isr[home[t]].pc \in {"idle", "end"} => (run[t] = "stopped" <=> run[u] = "stopped")
      BY <2>1, AllStopped
    <3> QED BY <2>1, <3>1, <3>2 DEF Uncredited
  <2>4. vt[t].freeze_past = vt[u].freeze_past
    BY <2>1, <2>2, <2>3 DEF Credited, Frozen
  <2> QED BY <2>1, <2>4, PlainReading
<1> QED BY <1>1, ClockInvariant, PTL

\* No reading of a process is earlier than one before it: what is taken off its clock
\* at the end of a pause is time in which it could not read, and the readings that a
\* handler makes in its name keep the books in step.
THEOREM ClocksNeverGoBack ==
  ASSUME Discipline = Habits, ~SMP, OneFactor PROVE Spec => ClockMonotone
<1>1. ClockInv /\ [Next]_vars => [\A t \in Task : obs'[t].seen >= obs[t].seen]_vars
  BY ReadingStep
<1> QED BY <1>1, ClockInvariant, PTL DEF Spec, ClockMonotone
=============================================================================
