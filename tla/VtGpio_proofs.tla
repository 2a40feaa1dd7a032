---------------------------- MODULE VtGpio_proofs ----------------------------
(***************************************************************************)
(* What holds of the boards on one wire for any number of boards,          *)
(* processes and slots, and however far the clock runs.                    *)
(***************************************************************************)
EXTENDS VtGpio, VtTask_proofs

IsrType ==
  [pc: {"idle", "stop", "credit", "cont", "end"}, current: PidOrNone,
   pids: [Slot -> PidOrNone], todo: SUBSET Slot, duration: Int]
ModuleType ==
  [loaded: BOOLEAN, mode: {"ENABLED", "DISABLED"}, tdf: Int, freeze_now: Nat,
   pid_IDX: [Slot -> PidOrNone], all_pid_nrs: [Slot -> PidOrNone]]
ObsType == [stopped: Nat, latency: Nat, seen: Int]

-----------------------------------------------------------------------------
(***************************************************************************)
(* Every step keeps the variables in their types, whatever is written in   *)
(* whatever order.                                                         *)
(***************************************************************************)
LEMMA ClockedType == ASSUME TypeOK, NEW t \in PidOrNone
                     PROVE  Clocked(t) \in [Task -> TaskFields]
<1>1. \A u \in Task : KeepTime(vt[u], wall) \in TaskFields
  BY KeepTimeType DEF TypeOK
<1> QED BY <1>1 DEF Clocked, TypeOK, PidOrNone

LEMMA Parts == ASSUME TypeOK, NEW b \in Board
               PROVE  module[b] \in ModuleType /\ isr[b] \in IsrType /\ wall \in Nat
BY DEF TypeOK, ModuleType, IsrType

LEMMA NewModule == ASSUME TypeOK, NEW b \in Board, NEW m \in ModuleType,
                          module' = [module EXCEPT ![b] = m]
                   PROVE  module' \in [Board -> ModuleType]
BY DEF TypeOK, ModuleType

LEMMA NewIsr == ASSUME TypeOK, NEW b \in Board, NEW h \in IsrType,
                       isr' = [isr EXCEPT ![b] = h]
                PROVE  isr' \in [Board -> IsrType]
BY DEF TypeOK, IsrType

LEMMA FreshType == Fresh \in ModuleType
BY DEF Fresh, ModuleType, NoPids, One, PidOrNone

LEMMA NoIsrType == NoIsr \in IsrType
BY DEF NoIsr, IsrType, NoPids, PidOrNone

LEMMA DriveType == ASSUME TypeOK, NEW b \in Board, NEW level \in {"in", "high", "low"},
                          Drive(b, level)
                   PROVE  /\ pin' \in [Board -> {"in", "high", "low"}]
                          /\ wire' \in [low: SUBSET Dips, clashed: BOOLEAN]
                          /\ irq' \in [Board -> SUBSET {"rise", "fall"}]
<1>1. pin' \in [Board -> {"in", "high", "low"}]
  BY DEF Drive, SetPin, TypeOK
<1>2. PICK S \in Levels(level = "low" \/ (level = "in" /\ pin[b] = "high")) :
        wire' = [low |-> S, clashed |-> High(pin') /\ (wire.clashed \/ level = "low")]
  BY DEF Drive, SetPin
<1>3. S \in SUBSET Dips
  BY <1>2 DEF Levels
<1>4. wire' \in [low: SUBSET Dips, clashed: BOOLEAN]
  <2>1. (High(pin') /\ (wire.clashed \/ level = "low")) \in BOOLEAN
    BY DEF High
  <2> QED BY <1>2, <1>3, <2>1
<1>5. irq' \in [Board -> SUBSET {"rise", "fall"}]
  BY DEF Drive, TypeOK
<1> QED BY <1>1, <1>4, <1>5

LEMMA TypeInit == Init => TypeOK
<1> USE GpioAssumption
<1>1. Fresh \in ModuleType /\ NoIsr \in IsrType /\ NoVirtualTime \in TaskFields
  BY FreshType, NoIsrType, NoVirtualTimeType
<1> QED BY <1>1 DEF Init, TypeOK, ModuleType, IsrType, Unobserved, Undisturbed

LEMMA TypeStep == TypeOK /\ [Next]_vars => TypeOK'
<1> SUFFICES ASSUME TypeOK, [Next]_vars PROVE TypeOK'
  OBVIOUS
<1> USE GpioAssumption
<1>1. CASE Tick
  <2>1. \A t \in Task : obs'[t] \in ObsType
    <3> TAKE t \in Task
    <3>1. obs[t] \in ObsType
      BY DEF TypeOK, ObsType
    <3>2. CASE run[t] = "stopped"
      BY <1>1, <3>1, <3>2 DEF Tick, ObsType
    <3>3. CASE run[t] # "stopped"
      BY <1>1, <3>1, <3>3 DEF Tick
    <3> QED BY <3>2, <3>3
  <2>2. obs' \in [Task -> ObsType]
    BY <1>1, <2>1 DEF Tick
  <2> QED BY <1>1, <2>2 DEF Tick, TypeOK, ObsType
<1>2. ASSUME NEW t \in Task, GetTime(t) PROVE TypeOK'
  <2>1. vt[t] \in TaskFields /\ wall \in Int
    BY DEF TypeOK
  <2>2. KeepTime(vt[t], wall) \in TaskFields /\ TimeOfDay(vt[t], wall) \in Int
    BY <2>1, KeepTimeType
  <2> QED BY <1>2, <2>2 DEF GetTime, TypeOK
<1>3. ASSUME NEW t \in Task, Exit(t) PROVE TypeOK'
  BY <1>3 DEF Exit, TypeOK
<1>4. ASSUME NEW t \in Task, TakeStop(t) PROVE TypeOK'
  BY <1>4 DEF TakeStop, TypeOK
<1>5. ASSUME NEW b \in Board, vtgpio_init(b) PROVE TypeOK'
  <2>1. [Fresh EXCEPT !.loaded = TRUE] \in ModuleType
    BY FreshType DEF ModuleType
  <2>2. module' \in [Board -> ModuleType]
    BY <1>5, <2>1 DEF vtgpio_init, TypeOK, ModuleType
  <2> QED BY <1>5, <2>2, DriveType DEF vtgpio_init, TypeOK, ModuleType
<1>6. ASSUME NEW b \in Board, vtgpio_exit(b) PROVE TypeOK'
  <2>1. module' \in [Board -> ModuleType]
    BY <1>6, FreshType DEF vtgpio_exit, TypeOK, ModuleType
  <2> QED BY <1>6, <2>1 DEF vtgpio_exit, TypeOK, ModuleType
<1>7. ASSUME NEW b \in Board, NEW word, mode_store(b, word) PROVE TypeOK'
  <2> DEFINE m == [module[b] EXCEPT !.mode =
                    IF word = "freeze" THEN "ENABLED" ELSE "DISABLED"]
  <2>0. m \in ModuleType
    BY Parts DEF ModuleType
  <2>1. module' \in [Board -> ModuleType]
    <3>1. module' = [module EXCEPT ![b] = m]
      BY <1>7 DEF mode_store, TypeOK
    <3> QED BY <2>0, <3>1, NewModule
  <2> QED BY <1>7, <2>1, DriveType DEF mode_store, TypeOK, ModuleType
<1>8. ASSUME NEW b \in Board, NEW i \in Slot, NEW p \in PidOrNone, pid_store(b, i, p)
      PROVE  TypeOK'
  <2>1. module[b] \in ModuleType
    BY DEF TypeOK, ModuleType
  <2>2. module' \in [Board -> ModuleType]
    BY <1>8, <2>1 DEF pid_store, TypeOK, ModuleType
  <2> QED BY <1>8, <2>2 DEF pid_store, TypeOK, ModuleType
<1>9. ASSUME NEW b \in Board, NEW value \in TDFs, tdf_store(b, value) PROVE TypeOK'
  <2> DEFINE m == [module[b] EXCEPT !.tdf = value]
  <2>0. m \in ModuleType
    BY Parts DEF ModuleType
  <2>1. module' \in [Board -> ModuleType]
    <3>1. module' = [module EXCEPT ![b] = m]
      BY <1>9 DEF tdf_store, TypeOK
    <3> QED BY <2>0, <3>1, NewModule
  <2> QED BY <1>9, <2>1 DEF tdf_store, TypeOK, ModuleType, Listed
<1>10. ASSUME NEW b \in Board, dilate_proc(b) PROVE TypeOK'
  <2>1. PICK i \in Slot :
          LET t == module[b].all_pid_nrs[i]
              tdf == module[b].tdf
          IN
          /\ store' = [store EXCEPT ![b] = @ \ {i}]
          /\ IF t \in Task /\ Alive(t)
               THEN /\ vt' = [vt EXCEPT ![t] = SetDilation(vt[t], tdf, wall)]
                    /\ obs' = IF InVT(vt[t]) # InVT(vt'[t])
                                THEN [obs EXCEPT ![t] = Afresh(obs[t])] ELSE obs
               ELSE UNCHANGED <<vt, obs>>
          /\ UNCHANGED <<wall, run, module, pin, wire, irq, isr>>
    BY <1>10 DEF dilate_proc
  <2> DEFINE t == module[b].all_pid_nrs[i]
             tdf == module[b].tdf
  <2>2. store' \in [Board -> SUBSET Slot]
    BY <2>1 DEF TypeOK
  <2>3. tdf \in Int /\ wall \in Int
    BY DEF TypeOK
  <2>4. CASE t \in Task /\ Alive(t)
    <3>1. SetDilation(vt[t], tdf, wall) \in TaskFields
      BY <2>3, <2>4, SetDilationType DEF TypeOK
    <3>2. vt' \in [Task -> TaskFields]
      BY <2>1, <2>4, <3>1 DEF TypeOK
    <3>3. obs' \in [Task -> ObsType]
      <4>1. obs \in [Task -> ObsType] /\ obs[t] \in ObsType
        BY <2>4 DEF TypeOK, ObsType
      <4>2. Afresh(obs[t]) \in ObsType
        BY <4>1 DEF Afresh, ObsType
      <4>3. obs' = [obs EXCEPT ![t] = Afresh(obs[t])] \/ obs' = obs
        BY <2>1, <2>4
      <4> QED BY <4>1, <4>2, <4>3
    <3> QED BY <2>1, <2>2, <3>2, <3>3 DEF TypeOK, ObsType
  <2>5. CASE ~(t \in Task /\ Alive(t))
    BY <2>1, <2>2, <2>5 DEF TypeOK
  <2> QED BY <2>4, <2>5
<1>11. ASSUME NEW b \in Board, NEW edge \in {"rise", "fall"}, Interrupt(b, edge)
       PROVE  TypeOK'
  <2>1. PICK current \in Interruptible(b) \union {NoPid} :
          /\ vt' = Clocked(current)
          /\ isr' = [isr EXCEPT ![b] =
               [pc |-> IF edge = "rise" THEN "stop" ELSE "credit",
                current |-> current, pids |-> AllPids(b), todo |-> Slots(AllPids(b)),
                duration |-> IF edge = "rise" THEN 0 ELSE wall - module[b].freeze_now]]
    BY <1>11 DEF Interrupt
  <2>2. current \in PidOrNone
    BY DEF Interruptible, PidOrNone
  <2>3. vt' \in [Task -> TaskFields]
    BY <2>1, <2>2, ClockedType
  <2>4. AllPids(b) \in [Slot -> PidOrNone] /\ Slots(AllPids(b)) \subseteq Slot
    BY DEF AllPids, Slots, TypeOK, PidOrNone
  <2>5. wall - module[b].freeze_now \in Int
    BY DEF TypeOK
  <2>6. isr' \in [Board -> IsrType]
    BY <2>1, <2>2, <2>4, <2>5 DEF TypeOK, IsrType
  <2>7. irq' \in [Board -> SUBSET {"rise", "fall"}]
    BY <1>11 DEF Interrupt, TypeOK
  <2> QED BY <1>11, <2>3, <2>6, <2>7 DEF Interrupt, TypeOK, IsrType
<1>12. ASSUME NEW b \in Board, SignalStop(b) PROVE TypeOK'
  <2>1. PICK i \in Slot :
          LET t == isr[b].pids[i] IN
          /\ run' = [run EXCEPT ![t] = IF @ # "running" THEN @
                                       ELSE IF SMP THEN "stopping" ELSE "stopped"]
          /\ isr' = [isr EXCEPT ![b].todo = @ \ {i}]
    BY <1>12 DEF SignalStop
  <2>2. run' \in [Task -> {"running", "stopping", "stopped", "dead"}]
    BY <2>1 DEF TypeOK
  <2>3. isr' \in [Board -> IsrType]
    <3> DEFINE h == [isr[b] EXCEPT !.todo = @ \ {i}]
    <3>1. h \in IsrType
      BY Parts DEF IsrType
    <3>2. isr' = [isr EXCEPT ![b] = h]
      BY <2>1 DEF TypeOK
    <3> QED BY <3>1, <3>2, NewIsr
  <2>4. UNCHANGED <<wall, vt, module, pin, wire, irq, store, obs>>
    BY <1>12 DEF SignalStop
  <2> QED BY <2>2, <2>3, <2>4 DEF TypeOK, IsrType
<1>13. ASSUME NEW b \in Board, Stamp(b) PROVE TypeOK'
  <2> DEFINE m == [module[b] EXCEPT !.freeze_now = wall]
             h == [isr[b] EXCEPT !.pc = "end"]
  <2>0. m \in ModuleType /\ h \in IsrType
    BY Parts DEF ModuleType, IsrType
  <2>1. module' \in [Board -> ModuleType]
    <3>1. module' = [module EXCEPT ![b] = m]
      BY <1>13 DEF Stamp, TypeOK
    <3> QED BY <2>0, <3>1, NewModule
  <2>2. isr' \in [Board -> IsrType]
    <3>1. isr' = [isr EXCEPT ![b] = h]
      BY <1>13 DEF Stamp, TypeOK
    <3> QED BY <2>0, <3>1, NewIsr
  <2> QED BY <1>13, <2>1, <2>2 DEF Stamp, TypeOK, ModuleType, IsrType
<1>14. ASSUME NEW b \in Board, Credit(b) PROVE TypeOK'
  <2>1. PICK i \in Slot :
          LET t == isr[b].pids[i] IN
          /\ vt' = IF Alive(t)
                     THEN [vt EXCEPT ![t].freeze_past = @ + isr[b].duration] ELSE vt
          /\ isr' = [isr EXCEPT ![b].todo = @ \ {i}]
    BY <1>14 DEF Credit
  <2>2. vt' \in [Task -> TaskFields]
    <3> DEFINE t == isr[b].pids[i]
               r == [vt[t] EXCEPT !.freeze_past = @ + isr[b].duration]
    <3>1. vt \in [Task -> TaskFields] /\ isr[b].duration \in Int
      BY Parts DEF TypeOK, IsrType
    <3>2. CASE t \in Task /\ Alive(t)
      <4>1. r \in TaskFields
        BY <3>1, <3>2 DEF TaskFields
      <4>2. vt' = [vt EXCEPT ![t] = r]
        BY <2>1, <3>1, <3>2
      <4> QED BY <3>1, <3>2, <4>1, <4>2
    <3>3. CASE ~Alive(t)
      BY <2>1, <3>1, <3>3
    <3>4. CASE Alive(t) /\ t \notin Task
      BY <2>1, <3>1, <3>4
    <3> QED BY <3>2, <3>3, <3>4
  <2>3. isr' \in [Board -> IsrType]
    <3> DEFINE h == [isr[b] EXCEPT !.todo = @ \ {i}]
    <3>1. h \in IsrType
      BY Parts DEF IsrType
    <3>2. isr' = [isr EXCEPT ![b] = h]
      BY <2>1 DEF TypeOK
    <3> QED BY <3>1, <3>2, NewIsr
  <2> QED BY <1>14, <2>2, <2>3 DEF Credit, TypeOK, IsrType
<1>15. ASSUME NEW b \in Board, CreditDone(b) PROVE TypeOK'
  <2>1. isr' \in [Board -> IsrType]
    <3> DEFINE h == [isr[b] EXCEPT !.pc = "cont", !.todo = Slots(isr[b].pids)]
    <3>1. h \in IsrType
      BY Parts DEF IsrType, Slots
    <3>2. isr' = [isr EXCEPT ![b] = h]
      BY <1>15 DEF CreditDone, TypeOK
    <3> QED BY <3>1, <3>2, NewIsr
  <2> QED BY <1>15, <2>1 DEF CreditDone, TypeOK, IsrType
<1>16. ASSUME NEW b \in Board, SignalContinue(b) PROVE TypeOK'
  <2>1. PICK i \in Slot :
          LET t == isr[b].pids[i] IN
          /\ run' = IF Alive(t) THEN [run EXCEPT ![t] = "running"] ELSE run
          /\ isr' = [isr EXCEPT ![b].todo = @ \ {i}]
    BY <1>16 DEF SignalContinue
  <2>2. run' \in [Task -> {"running", "stopping", "stopped", "dead"}]
    BY <2>1 DEF TypeOK
  <2>3. isr' \in [Board -> IsrType]
    <3> DEFINE h == [isr[b] EXCEPT !.todo = @ \ {i}]
    <3>1. h \in IsrType
      BY Parts DEF IsrType
    <3>2. isr' = [isr EXCEPT ![b] = h]
      BY <2>1 DEF TypeOK
    <3> QED BY <3>1, <3>2, NewIsr
  <2> QED BY <1>16, <2>2, <2>3 DEF SignalContinue, TypeOK, IsrType
<1>17. ASSUME NEW b \in Board, Leave(b) PROVE TypeOK'
  <2>1. vt' \in [Task -> TaskFields]
    BY <1>17, ClockedType DEF Leave, TypeOK
  <2>2. isr' \in [Board -> IsrType]
    BY <1>17, NoIsrType DEF Leave, TypeOK, IsrType
  <2> QED BY <1>17, <2>1, <2>2 DEF Leave, TypeOK, IsrType
<1>18. CASE UNCHANGED vars
  BY <1>18 DEF vars, TypeOK
<1>19. ASSUME NEW b \in Board, LetGo(b) PROVE TypeOK'
  BY <1>19, DriveType DEF LetGo, TypeOK
<1> QED
  BY <1>1, <1>2, <1>3, <1>4, <1>5, <1>6, <1>7, <1>8, <1>9, <1>10, <1>11, <1>12,
     <1>13, <1>14, <1>15, <1>16, <1>17, <1>18, <1>19 DEF Next, TakeInterrupt, IsrStep

\* Every variable of the boards keeps its type: the numbers, tables and handlers of
\* vtgpio.c never take a value that its code does not expect.
THEOREM TypeCorrect == Spec => []TypeOK
<1>1. Init => TypeOK
  BY TypeInit
<1>2. TypeOK /\ [Next]_vars => TypeOK'
  BY TypeStep
<1> QED BY <1>1, <1>2, PTL DEF Spec

-----------------------------------------------------------------------------
(***************************************************************************)
(* The wire under the habits of the scripts.  A board goes round eight     *)
(* phases; which of them it may be in is told by the level of the wire, by *)
(* the edges it has latched and by its handler, and each fixes which of    *)
(* the board's processes are stopped.                                      *)
(***************************************************************************)
Members(b) == {t \in Task : home[t] = b /\ Member(t)}
Stopped(b) == {t \in Task : home[t] = b /\ run[t] \in {"stopping", "stopped"}}

\* The processes at the slots S of the list that a handler goes through.
PidsAt(b, S) == {isr[b].pids[i] : i \in S}
Todo(b) == PidsAt(b, isr[b].todo)

In(b, latched, pc) == irq[b] = latched /\ At(b, pc)

Up(b)         == ~High(pin) /\ In(b, {}, "idle") /\ Stopped(b) = {}
Rising(b)     == High(pin) /\ In(b, {"rise"}, "idle") /\ Stopped(b) = {}
Stopping(b)   == /\ High(pin) /\ In(b, {}, "stop")
                 /\ Stopped(b) \subseteq Members(b)
                 /\ Members(b) \ Stopped(b) \subseteq Todo(b)
Ending(b)     == High(pin) /\ In(b, {}, "end") /\ Stopped(b) = Members(b)
Down(b)       == High(pin) /\ In(b, {}, "idle") /\ Stopped(b) = Members(b)
Falling(b)    == ~High(pin) /\ In(b, {"fall"}, "idle") /\ Stopped(b) = Members(b)
Crediting(b)  == /\ ~High(pin) /\ In(b, {}, "credit")
                 /\ Stopped(b) = Members(b)
                 /\ Stopped(b) \subseteq PidsAt(b, Slots(isr[b].pids))
Continuing(b) == /\ ~High(pin) /\ In(b, {}, "cont")
                 /\ Stopped(b) \subseteq Members(b)
                 /\ Stopped(b) \subseteq Todo(b)

WirePhase(b) ==
  \/ Up(b) \/ Rising(b) \/ Stopping(b) \/ Ending(b)
  \/ Down(b) \/ Falling(b) \/ Crediting(b) \/ Continuing(b)

\* A module that is not loaded lists nobody and hears nothing; all are loaded
\* while the wire is high.
LoadInv(b) ==
  /\ ~module[b].loaded => irq[b] = {} /\ At(b, "idle") /\ module[b].all_pid_nrs = NoPids
  /\ High(pin) => module[b].loaded

\* A board lists its own processes only, and so does its handler.
TableInv(b) ==
  \A i \in Slot : module[b].all_pid_nrs[i] # NoPid => home[module[b].all_pid_nrs[i]] = b
HandlerInv(b) ==
  /\ At(b, "idle") => isr[b] = NoIsr
  /\ isr[b].todo \subseteq Slots(isr[b].pids)
  /\ \A i \in Slots(isr[b].pids) :
       LET t == isr[b].pids[i] IN t \in Task /\ home[t] = b /\ (Alive(t) => Member(t))

BoardInv(b) == LoadInv(b) /\ TableInv(b) /\ HandlerInv(b) /\ WirePhase(b)
BoardsInv == TypeOK /\ \A b \in Board : BoardInv(b)

\* With the habits, the wire is never driven from two ends, and all see the same
\* level of it.
OneDriver == \A x, y \in Board : pin[x] # "in" /\ pin[y] # "in" => x = y
Calm == wire.low = {}

WireInv == BoardsInv /\ OneDriver /\ Calm

-----------------------------------------------------------------------------
\* What a step leaves alone on the board b: the wire, the latches, the handler and
\* the list, and which of its processes are stopped and which are dead.
SameWire     == High(pin') <=> High(pin)
SameModule(b) == /\ module'[b].loaded = module[b].loaded
                 /\ module'[b].all_pid_nrs = module[b].all_pid_nrs
SameRun(b) ==
  \A t \in Task : home[t] = b =>
    /\ run'[t] = "dead" <=> run[t] = "dead"
    /\ run'[t] \in {"stopping", "stopped"} <=> run[t] \in {"stopping", "stopped"}
SameIsr(b) == isr'[b] = isr[b] /\ irq'[b] = irq[b]

LEMMA SameMembers == ASSUME NEW b \in Board, SameModule(b), SameRun(b)
                     PROVE  Members(b)' = Members(b) /\ Stopped(b)' = Stopped(b)
<1>1. \A t \in Task : home[t] = b => (Member(t)' <=> Member(t))
  BY DEF SameModule, SameRun, Member, Alive, Listed
<1> QED BY <1>1 DEF Members, Stopped, SameRun

LEMMA Frame == ASSUME NEW b \in Board, BoardInv(b), SameWire, SameModule(b),
                      SameRun(b), SameIsr(b)
               PROVE  BoardInv(b)'
<1>1. Members(b)' = Members(b) /\ Stopped(b)' = Stopped(b)
  BY SameMembers
<1>2. LoadInv(b)'
  BY DEF BoardInv, LoadInv, SameWire, SameModule, SameIsr, At
<1>3. TableInv(b)'
  BY DEF BoardInv, TableInv, SameModule
<1>4. HandlerInv(b)'
  <2>1. \A t \in Task : home[t] = b => (Member(t)' <=> Member(t))
    BY DEF SameModule, SameRun, Member, Alive, Listed
  <2>2. \A t \in Task : home[t] = b => (Alive(t)' <=> Alive(t))
    BY DEF SameRun, Alive
  <2> QED BY <2>1, <2>2 DEF BoardInv, HandlerInv, SameIsr, At, Slots
<1>5. WirePhase(b)'
  BY <1>1 DEF BoardInv, WirePhase, Up, Rising, Stopping, Ending, Down, Falling,
     Crediting, Continuing, In, Todo, PidsAt, SameWire, SameIsr, At, Slots
<1> QED BY <1>2, <1>3, <1>4, <1>5 DEF BoardInv

\* A pin that is set while no two drive the wire against each other.
LEMMA CalmDrive == ASSUME BoardsInv, NEW b \in Board, NEW level, Drive(b, level), Calm,
                          ~(High(pin') /\ Low(pin'))
                   PROVE  /\ Calm'
                          /\ (High(pin)' <=> High(pin)) => irq' = irq
                          /\ High(pin)' /\ ~High(pin) =>
                               \A x \in Board : module[x].loaded => irq'[x] = irq[x] \union {"rise"}
                          /\ ~High(pin)' /\ High(pin) =>
                               \A x \in Board : module[x].loaded => irq'[x] = irq[x] \union {"fall"}
<1>1. Calm'
  <2>1. PICK S \in Levels(level = "low" \/ (level = "in" /\ pin[b] = "high")) : wire'.low = S
    BY DEF Drive, SetPin
  <2> QED BY <2>1 DEF Levels, Calm
<1>2. /\ SeeLow = IF High(pin) THEN {} ELSE Board
      /\ SeeLow' = IF High(pin)' THEN {} ELSE Board
  BY <1>1 DEF SeeLow, Calm
<1>3. irq = [x \in Board |-> irq[x]]
  BY DEF BoardsInv, TypeOK
<1>4. irq' = [x \in Board |->
       IF ~module[x].loaded THEN irq[x]
       ELSE IF x \in SeeLow \ SeeLow' THEN irq[x] \union {"rise"}
       ELSE IF x \in SeeLow' \ SeeLow THEN irq[x] \union {"fall"}
       ELSE irq[x]]
  BY DEF Drive
<1>5. (High(pin)' <=> High(pin)) => irq' = irq
  <2> SUFFICES ASSUME High(pin)' <=> High(pin) PROVE irq' = irq
    OBVIOUS
  <2>1. SeeLow' = SeeLow
    BY <1>2
  <2> QED BY <1>3, <1>4, <2>1
<1>6. ASSUME High(pin)', ~High(pin), NEW x \in Board, module[x].loaded
      PROVE  irq'[x] = irq[x] \union {"rise"}
  BY <1>2, <1>4, <1>6
<1>7. ASSUME ~High(pin)', High(pin), NEW x \in Board, module[x].loaded
      PROVE  irq'[x] = irq[x] \union {"fall"}
  BY <1>2, <1>4, <1>7
<1> QED BY <1>1, <1>5, <1>6, <1>7

\* The steps of a handler change one handler, the board's own latches and processes.
Others(b) == \A x \in Board \ {b} : SameModule(x) /\ SameRun(x) /\ SameIsr(x)

LEMMA OneBoard == ASSUME BoardsInv, TypeOK', NEW b \in Board, UNCHANGED pin, Others(b),
                         BoardInv(b)'
                  PROVE  BoardsInv'
<1>1. SameWire
  BY DEF SameWire
<1>2. \A x \in Board \ {b} : BoardInv(x)'
  BY <1>1, Frame DEF BoardsInv, Others
<1> QED BY <1>1, <1>2 DEF BoardsInv

LEMMA NoBoard == ASSUME BoardsInv, TypeOK', UNCHANGED pin,
                        \A x \in Board : SameModule(x) /\ SameRun(x) /\ SameIsr(x)
                 PROVE  BoardsInv'
<1>1. SameWire
  BY DEF SameWire
<1> QED BY <1>1, Frame DEF BoardsInv

LEMMA WireInit == Init => WireInv
<1> SUFFICES ASSUME Init PROVE WireInv
  OBVIOUS
<1>1. TypeOK
  BY TypeInit
<1>2. OneDriver /\ ~High(pin) /\ Calm
  BY DEF Init, OneDriver, High, Calm, Undisturbed
<1>3. ASSUME NEW b \in Board PROVE BoardInv(b)
  <2>1. module[b] = Fresh /\ isr[b] = NoIsr /\ irq[b] = {}
    BY DEF Init
  <2>2. LoadInv(b) /\ TableInv(b) /\ HandlerInv(b)
    BY <1>2, <2>1 DEF LoadInv, TableInv, HandlerInv, Fresh, NoIsr, NoPids, At, Slots
  <2>3. Up(b)
    BY <1>2, <2>1 DEF Init, Up, In, At, NoIsr, Stopped
  <2> QED BY <2>2, <2>3 DEF BoardInv, WirePhase
<1> QED BY <1>1, <1>2, <1>3 DEF WireInv, BoardsInv

\* A board that is quiet is up or down, as the wire is.
LEMMA QuietUp == ASSUME BoardsInv, ~High(pin), NEW b \in Board, Quiet(b)
                 PROVE  Up(b)
BY DEF BoardsInv, BoardInv, WirePhase, Quiet, At, Up, Rising, Stopping, Ending,
       Down, Falling, Crediting, Continuing, In

LEMMA QuietDown == ASSUME BoardsInv, High(pin), NEW b \in Board, Quiet(b)
                   PROVE  Down(b)
BY DEF BoardsInv, BoardInv, WirePhase, Quiet, At, Up, Rising, Stopping, Ending,
       Down, Falling, Crediting, Continuing, In

\* While nothing is frozen and nothing under way, every board is up.
LEMMA SettledUp == ASSUME BoardsInv, Settled, ~High(pin), NEW b \in Board
                   PROVE  Up(b)
BY QuietUp DEF Settled

LEMMA SettledDown == ASSUME BoardsInv, Settled, High(pin), NEW b \in Board
                     PROVE  Down(b)
BY QuietDown DEF Settled

\* A board that stays up keeps its invariant whatever becomes of its list.
LEMMA StaysUp == ASSUME NEW b \in Board, Up(b), HandlerInv(b), SameWire, SameRun(b),
                        SameIsr(b), TableInv(b)', LoadInv(b)'
                 PROVE  BoardInv(b)'
<1>1. isr[b] = NoIsr
  BY DEF Up, In, HandlerInv
<1>2. Up(b)'
  BY DEF Up, In, At, Stopped, SameWire, SameRun, SameIsr
<1>3. HandlerInv(b)'
  BY <1>1 DEF HandlerInv, SameIsr, NoIsr, NoPids, Slots
<1> QED BY <1>2, <1>3 DEF BoardInv, WirePhase

LEMMA LoadDrives == ASSUME BoardsInv, Calm, Discipline = Habits,
                           NEW b \in Board, vtgpio_init(b) \/ vtgpio_exit(b)
                    PROVE  /\ Settled /\ ~High(pin)
                           /\ UNCHANGED <<pin, irq, isr, run>> /\ Calm'
<1>1. Settled /\ ~High(pin)
  BY DEF vtgpio_init, vtgpio_exit, Habits
<1>2. CASE vtgpio_init(b)
  <2>1. \A x \in Board : pin[x] = "in"
    BY <1>1 DEF High, Settled, BoardsInv, TypeOK
  <2>2. pin' = pin /\ UNCHANGED <<isr, run>>
    BY <1>2, <2>1 DEF vtgpio_init, Drive, SetPin, BoardsInv, TypeOK
  <2>3. ~High(pin')
    BY <1>1, <2>2
  <2> QED BY <1>1, <1>2, <2>2, <2>3, CalmDrive DEF vtgpio_init
<1>3. CASE vtgpio_exit(b)
  <2>1. irq[b] = {}
    BY <1>1 DEF Settled, Quiet
  <2> QED BY <1>1, <1>3, <2>1 DEF vtgpio_exit, BoardsInv, TypeOK, Calm
<1> QED BY <1>2, <1>3

LEMMA WireLoad == ASSUME BoardsInv, Calm, TypeOK', Discipline = Habits,
                         NEW b \in Board, vtgpio_init(b) \/ vtgpio_exit(b)
                  PROVE  BoardsInv' /\ pin' = pin /\ Calm'
<1>1. Settled /\ ~High(pin) /\ Calm'
  BY LoadDrives
<1>2. UNCHANGED <<pin, irq, isr, run>>
  BY LoadDrives
<1>3. module'[b].all_pid_nrs = NoPids /\ \A x \in Board \ {b} : module'[x] = module[x]
  BY DEF vtgpio_init, vtgpio_exit, Fresh, BoardsInv, TypeOK
<1>4. ~High(pin)'
  BY <1>1, <1>2 DEF High
<1>5. BoardInv(b)'
  <2>1. Up(b) /\ HandlerInv(b)
    BY <1>1, SettledUp DEF BoardsInv, BoardInv
  <2>2. TableInv(b)'
    BY <1>3 DEF TableInv, NoPids
  <2>3. LoadInv(b)'
    BY <1>2, <1>3, <1>4, <2>1 DEF LoadInv, Up, In, At
  <2>4. SameWire /\ SameRun(b) /\ SameIsr(b)
    BY <1>2 DEF SameWire, SameRun, SameIsr
  <2> QED BY <2>1, <2>2, <2>3, <2>4, StaysUp
<1>6. Others(b)
  BY <1>2, <1>3 DEF Others, SameModule, SameRun, SameIsr
<1> QED BY <1>1, <1>2, <1>5, <1>6, OneBoard

LEMMA WireEnrol == ASSUME BoardsInv, TypeOK', Discipline = Habits,
                          NEW b \in Board, NEW i \in Slot, NEW p \in PidOrNone,
                          pid_store(b, i, p)
                   PROVE  BoardsInv'
<1>1. Settled /\ ~High(pin) /\ module[b].loaded
  BY DEF pid_store, Enrols, Habits
<1>2. UNCHANGED <<pin, irq, isr, run>> /\ module'[b].loaded
  BY <1>1 DEF pid_store, BoardsInv, TypeOK
<1>3. \A j \in Slot : \/ module'[b].all_pid_nrs[j] = module[b].all_pid_nrs[j]
                      \/ p # NoPid /\ module'[b].all_pid_nrs[j] = p
  BY DEF pid_store, BoardsInv, TypeOK
<1>4. BoardInv(b)'
  <2>1. Up(b) /\ HandlerInv(b) /\ TableInv(b)
    BY <1>1, SettledUp DEF BoardsInv, BoardInv
  <2>2. TableInv(b)'
    BY <1>3, <2>1 DEF TableInv, pid_store
  <2>3. LoadInv(b)'
    BY <1>2 DEF LoadInv
  <2>4. SameWire /\ SameRun(b) /\ SameIsr(b)
    BY <1>2 DEF SameWire, SameRun, SameIsr
  <2> QED BY <2>1, <2>2, <2>3, <2>4, StaysUp
<1>5. \A x \in Board \ {b} : module'[x] = module[x]
  BY DEF pid_store, BoardsInv, TypeOK
<1>6. Others(b)
  BY <1>2, <1>5 DEF Others, SameModule, SameRun, SameIsr
<1> QED BY <1>2, <1>4, <1>6, OneBoard

\* A change of the wire reaches every board: all are loaded and none is busy.
LEMMA WireChange == ASSUME BoardsInv, Calm, TypeOK', NEW b \in Board, NEW word,
                           mode_store(b, word), AllQuiet,
                           \A x \in Board : module[x].loaded,
                           High(pin)' <=> ~High(pin), ~(High(pin') /\ Low(pin'))
                    PROVE  BoardsInv' /\ Calm' /\ \A x \in Board : irq'[x] # {}
<1>1. \A x \in Board : irq[x] = {} /\ isr'[x] = isr[x]
  BY DEF AllQuiet, Quiet, mode_store
<1>0. PICK level : Drive(b, level)
  BY DEF mode_store
<1>2. Calm' /\ \A x \in Board : irq'[x] = IF High(pin) THEN {"fall"} ELSE {"rise"}
  BY <1>0, <1>1, CalmDrive
<1>3. ASSUME NEW x \in Board PROVE BoardInv(x)'
  <2>1. run' = run
    BY DEF mode_store
  <2>2. /\ module'[x].loaded = module[x].loaded
        /\ module'[x].all_pid_nrs = module[x].all_pid_nrs
    BY DEF mode_store, BoardsInv, TypeOK
  <2>3. SameModule(x) /\ SameRun(x)
    BY <2>1, <2>2 DEF SameModule, SameRun
  <2>4. Members(x)' = Members(x) /\ Stopped(x)' = Stopped(x)
    BY <2>3, SameMembers
  <2>5. LoadInv(x)' /\ TableInv(x)'
    BY <2>2 DEF LoadInv, TableInv, BoardsInv, BoardInv
  <2>6. isr[x] = NoIsr /\ At(x, "idle") /\ isr'[x] = isr[x]
    BY <1>1 DEF AllQuiet, Quiet, BoardsInv, BoardInv, HandlerInv
  <2>7. HandlerInv(x)'
    BY <2>6 DEF HandlerInv, NoIsr, NoPids, Slots
  <2>8. CASE High(pin)
    <3>1. Down(x)
      BY <2>8, QuietDown DEF AllQuiet
    <3>2. Falling(x)'
      BY <1>2, <2>4, <2>6, <2>8, <3>1 DEF Falling, Down, In, At
    <3> QED BY <2>5, <2>7, <3>2 DEF BoardInv, WirePhase
  <2>9. CASE ~High(pin)
    <3>1. Up(x)
      BY <2>9, QuietUp DEF AllQuiet
    <3>2. Rising(x)'
      BY <1>2, <2>4, <2>6, <2>9, <3>1 DEF Rising, Up, In, At
    <3> QED BY <2>5, <2>7, <3>2 DEF BoardInv, WirePhase
  <2> QED BY <2>8, <2>9
<1> QED BY <1>2, <1>3 DEF BoardsInv

LEMMA WireMode == ASSUME WireInv, TypeOK', Discipline = Habits,
                         NEW b \in Board, NEW word \in {"freeze", "unfreeze"},
                         mode_store(b, word)
                  PROVE  /\ WireInv'
                         /\ High(pin)' <=> ~High(pin)
                         /\ AllQuiet /\ \A x \in Board : irq'[x] # {}
<1>1. AllQuiet /\ (\A x \in Board : module[x].loaded) /\ \A x \in Board : pin[x] # "low"
  BY DEF mode_store, TakesTurns, Habits, Settled, AllQuiet
<1>2. \/ /\ ~High(pin) /\ pin'[b] = "high"
         /\ \A x \in Board \ {b} : pin'[x] = pin[x]
      \/ /\ pin[b] = "high" /\ pin'[b] = "low"
         /\ \A x \in Board \ {b} : pin'[x] = pin[x]
  <2>1. pin \in [Board -> {"in", "high", "low"}]
    BY DEF WireInv, BoardsInv, TypeOK
  <2>2. CASE word = "freeze"
    BY <2>1, <2>2 DEF mode_store, TakesTurns, Drive, SetPin, Habits
  <2>3. CASE word = "unfreeze"
    BY <2>1, <2>3 DEF mode_store, TakesTurns, Drive, SetPin, Habits
  <2> QED BY <2>2, <2>3
<1>3. (High(pin)' <=> ~High(pin)) /\ OneDriver' /\ ~(High(pin') /\ Low(pin'))
  <2>1. \A x \in Board : pin[x] \in {"in", "high", "low"}
    BY DEF WireInv, BoardsInv, TypeOK
  <2> QED BY <1>1, <1>2, <2>1 DEF High, Low, OneDriver, WireInv
<1>4. BoardsInv' /\ Calm' /\ \A x \in Board : irq'[x] # {}
  BY <1>1, <1>3, WireChange DEF WireInv
<1> QED BY <1>1, <1>3, <1>4 DEF WireInv

\* An unfreeze that lets go of the wire changes nothing that a board can see, if
\* nobody drives it high.
LEMMA WireLetGo == ASSUME BoardsInv, Calm, TypeOK', NEW b \in Board, LetGo(b), ~High(pin)
                   PROVE  /\ BoardsInv' /\ Calm'
                          /\ pin' = [pin EXCEPT ![b] = "in"]
                          /\ UNCHANGED <<irq, isr, run, module>> /\ ~High(pin)'
<1>1. pin' = [pin EXCEPT ![b] = "in"] /\ UNCHANGED <<isr, run, module>>
  BY DEF LetGo, Drive, SetPin
<1>2. ~High(pin')
  BY <1>1 DEF High, BoardsInv, TypeOK
<1>3. irq' = irq /\ Calm'
  BY <1>2, CalmDrive DEF LetGo
<1>4. \A x \in Board : SameModule(x) /\ SameRun(x) /\ SameIsr(x)
  BY <1>1, <1>3 DEF SameModule, SameRun, SameIsr
<1>5. SameWire
  BY <1>2 DEF SameWire
<1>6. BoardsInv'
  BY <1>4, <1>5, Frame DEF BoardsInv
<1> QED BY <1>1, <1>2, <1>3, <1>6

LEMMA LetsGo == ASSUME WireInv, TypeOK', NEW b \in Board, LetGo(b)
                PROVE  WireInv' /\ UNCHANGED <<irq, isr, run, module>> /\ ~High(pin) /\ ~High(pin)'
<1>1. ~High(pin)
  BY DEF WireInv, OneDriver, High, LetGo
<1>2. /\ BoardsInv' /\ Calm' /\ pin' = [pin EXCEPT ![b] = "in"]
      /\ UNCHANGED <<irq, isr, run, module>> /\ ~High(pin)'
  BY <1>1, WireLetGo DEF WireInv
<1>3. OneDriver'
  BY <1>2 DEF OneDriver, WireInv, BoardsInv, TypeOK
<1> QED BY <1>1, <1>2, <1>3 DEF WireInv

LEMMA WireExit == ASSUME BoardsInv, TypeOK', NEW t \in Task, Exit(t)
                  PROVE  BoardsInv'
<1>1. /\ UNCHANGED <<module, pin, wire, irq, isr>>
      /\ run'[t] = "dead" /\ \A u \in Task \ {t} : run'[u] = run[u]
  BY DEF Exit, BoardsInv, TypeOK
<1>2. \A b \in Board : SameModule(b) /\ SameIsr(b)
  BY <1>1 DEF SameModule, SameIsr
<1>3. \A b \in Board : /\ Members(b)' = Members(b) \ {t}
                       /\ Stopped(b)' = Stopped(b) \ {t}
  BY <1>1 DEF Members, Stopped, Member, Alive, Listed
<1>4. ASSUME NEW b \in Board PROVE BoardInv(b)'
  <2>1. LoadInv(b)' /\ TableInv(b)'
    BY <1>1 DEF LoadInv, TableInv, BoardsInv, BoardInv, At
  <2>2. HandlerInv(b)'
    BY <1>1 DEF BoardsInv, BoardInv, HandlerInv, At, Slots, Alive, Member, Listed
  <2>3. WirePhase(b)'
    <3>1. /\ High(pin)' <=> High(pin)
          /\ \A latched, pc : In(b, latched, pc)' <=> In(b, latched, pc)
          /\ Todo(b)' = Todo(b)
          /\ PidsAt(b, Slots(isr[b].pids))' = PidsAt(b, Slots(isr[b].pids))
      BY <1>1 DEF In, At, Todo, PidsAt, Slots
    <3>2. WirePhase(b)
      BY DEF BoardsInv, BoardInv
    <3> QED BY <1>3, <3>1, <3>2 DEF WirePhase, Up, Rising, Stopping, Ending, Down,
              Falling, Crediting, Continuing
  <2> QED BY <2>1, <2>2, <2>3 DEF BoardInv
<1> QED BY <1>1, <1>4 DEF BoardsInv

\* A step of the handler of b that signals nobody.
LEMMA SilentStep == ASSUME BoardsInv, NEW b \in Board, UNCHANGED <<run, pin>>,
                           SameModule(b), LoadInv(b)', HandlerInv(b)', WirePhase(b)',
                           \A x \in Board \ {b} : SameModule(x) /\ SameIsr(x), TypeOK'
                    PROVE  BoardsInv'
<1>1. \A x \in Board : SameRun(x)
  BY DEF SameRun
<1>2. TableInv(b)'
  BY DEF BoardsInv, BoardInv, TableInv, SameModule
<1> QED BY <1>1, <1>2, OneBoard DEF Others, BoardInv

LEMMA WireInterrupt == ASSUME BoardsInv, TypeOK', NEW b \in Board,
                              NEW edge \in {"rise", "fall"}, Interrupt(b, edge)
                       PROVE  BoardsInv'
<1>1. PICK current, duration :
        isr' = [isr EXCEPT ![b] =
          [pc |-> IF edge = "rise" THEN "stop" ELSE "credit",
           current |-> current, pids |-> AllPids(b), todo |-> Slots(AllPids(b)),
           duration |-> duration]]
  BY DEF Interrupt
<1>2. /\ edge \in irq[b] /\ At(b, "idle") /\ irq' = [irq EXCEPT ![b] = @ \ {edge}]
      /\ UNCHANGED <<run, module, pin>>
  BY DEF Interrupt
<1>3. /\ isr'[b].pc = IF edge = "rise" THEN "stop" ELSE "credit"
      /\ isr'[b].pids = AllPids(b) /\ isr'[b].todo = Slots(AllPids(b))
      /\ \A x \in Board \ {b} : isr'[x] = isr[x] /\ irq'[x] = irq[x]
      /\ irq'[b] = irq[b] \ {edge}
  BY <1>1, <1>2 DEF BoardsInv, TypeOK
<1>4. \A t \in Members(b) : \E i \in Slots(AllPids(b)) : AllPids(b)[i] = t
  BY GpioAssumption DEF Members, Member, AllPids, Slots, Listed
<1>5. \A i \in Slots(AllPids(b)) : AllPids(b)[i] \in Members(b)
  <2> SUFFICES ASSUME NEW i \in Slot, AllPids(b)[i] # NoPid
               PROVE  AllPids(b)[i] \in Members(b)
    BY DEF Slots
  <2>1. /\ i \in Listed(b) /\ AllPids(b)[i] = module[b].all_pid_nrs[i]
        /\ Alive(AllPids(b)[i])
    BY DEF AllPids
  <2>2. home[AllPids(b)[i]] = b
    BY <2>1 DEF BoardsInv, BoardInv, TableInv
  <2>3. AllPids(b)[i] \in Task
    BY <2>1 DEF BoardsInv, TypeOK, PidOrNone
  <2> QED BY <2>1, <2>2, <2>3 DEF Members, Member
<1>6. Members(b)' = Members(b) /\ Stopped(b)' = Stopped(b)
  BY <1>2, SameMembers DEF SameModule, SameRun
<1>7. LoadInv(b)'
  BY <1>2, <1>3 DEF BoardsInv, BoardInv, LoadInv
<1>8. HandlerInv(b)'
  <2>1. ~At(b, "idle")'
    BY <1>3 DEF At
  <2>2. Slots(isr[b].pids)' = Slots(AllPids(b))
    BY <1>3 DEF Slots
  <2>3. \A t \in Members(b) : t \in Task /\ home[t] = b /\ Member(t)'
    BY <1>6 DEF Members
  <2> QED BY <1>3, <1>5, <2>1, <2>2, <2>3 DEF HandlerInv
<1>9. WirePhase(b)'
  <2>1. CASE edge = "rise"
    <3>1. Rising(b)
      BY <1>2, <2>1 DEF BoardsInv, BoardInv, WirePhase, Up, Rising, Stopping, Ending, Down,
         Falling, Crediting, Continuing, In
    <3>2. In(b, {}, "stop")'
      BY <1>3, <2>1, <3>1 DEF Rising, In, At
    <3>3. Members(b) \subseteq Todo(b)'
      BY <1>3, <1>4 DEF Todo, PidsAt
    <3> QED BY <1>2, <1>6, <3>1, <3>2, <3>3 DEF WirePhase, Rising, Stopping, High
  <2>2. CASE edge = "fall"
    <3>1. Falling(b)
      BY <1>2, <2>2 DEF BoardsInv, BoardInv, WirePhase, Up, Rising, Stopping, Ending, Down,
         Falling, Crediting, Continuing, In
    <3>2. In(b, {}, "credit")'
      BY <1>3, <2>2, <3>1 DEF Falling, In, At
    <3>3. Members(b) \subseteq PidsAt(b, Slots(isr[b].pids))'
      BY <1>3, <1>4 DEF PidsAt, Slots
    <3> QED BY <1>2, <1>6, <3>1, <3>2, <3>3 DEF WirePhase, Falling, Crediting, High
  <2> QED BY <2>1, <2>2
<1> QED BY <1>2, <1>3, <1>7, <1>8, <1>9, SilentStep DEF SameModule, SameIsr

\* The list that the handler of b has read stays good while it works through it.
LEMMA SameList == ASSUME BoardsInv, NEW b \in Board, SameModule(b), UNCHANGED run,
                         isr'[b].pids = isr[b].pids, ~At(b, "idle")',
                         isr'[b].todo \subseteq Slots(isr[b].pids)
                  PROVE  HandlerInv(b)'
<1>1. \A t \in Task : home[t] = b => (Member(t)' <=> Member(t))
  BY DEF SameModule, Member, Alive, Listed
<1>2. \A t \in Task : Alive(t)' <=> Alive(t)
  BY DEF Alive
<1>3. Slots(isr[b].pids)' = Slots(isr[b].pids)
  BY DEF Slots
<1> QED BY <1>1, <1>2, <1>3 DEF HandlerInv, BoardsInv, BoardInv

LEMMA BusyLoaded == ASSUME BoardsInv, NEW b \in Board, ~At(b, "idle"), SameModule(b),
                           UNCHANGED pin
                    PROVE  LoadInv(b)'
BY DEF BoardsInv, BoardInv, LoadInv, SameModule, High

LEMMA WireStamp == ASSUME BoardsInv, TypeOK', NEW b \in Board, Stamp(b)
                   PROVE  BoardsInv'
<1>1. /\ isr'[b].pc = "end" /\ isr'[b].pids = isr[b].pids /\ isr'[b].todo = {}
      /\ \A x \in Board \ {b} : isr'[x] = isr[x]
      /\ At(b, "stop") /\ isr[b].todo = {} /\ UNCHANGED <<run, pin, irq>>
  BY DEF Stamp, BoardsInv, TypeOK
<1>2. \A x \in Board : SameModule(x)
  BY DEF SameModule, Stamp, BoardsInv, TypeOK
<1>3. Members(b)' = Members(b) /\ Stopped(b)' = Stopped(b)
  BY <1>1, <1>2, SameMembers DEF SameRun
<1>4. Stopping(b)
  BY <1>1 DEF At, BoardsInv, BoardInv, WirePhase, Up, Rising, Stopping, Ending, Down,
     Falling, Crediting, Continuing, In
<1>5. Ending(b)'
  <2>1. Todo(b) = {}
    BY <1>1 DEF Todo, PidsAt
  <2>2. Stopped(b) = Members(b) /\ High(pin) /\ irq[b] = {}
    BY <1>4, <2>1 DEF Stopping, In
  <2> QED BY <1>1, <1>3, <2>2 DEF Ending, In, At
<1>6. HandlerInv(b)'
  BY <1>1, <1>2, SameList DEF At
<1>7. LoadInv(b)'
  BY <1>1, <1>2, BusyLoaded DEF At
<1> QED BY <1>1, <1>2, <1>5, <1>6, <1>7, SilentStep DEF WirePhase, SameIsr

LEMMA WireCredit == ASSUME BoardsInv, TypeOK', NEW b \in Board, Credit(b) \/ CreditDone(b)
                    PROVE  BoardsInv'
<1>1. /\ isr'[b].pids = isr[b].pids /\ isr'[b].todo \subseteq Slots(isr[b].pids)
      /\ \/ isr'[b].pc = "credit"
         \/ isr'[b].pc = "cont" /\ isr'[b].todo = Slots(isr[b].pids)
      /\ \A x \in Board \ {b} : isr'[x] = isr[x]
      /\ At(b, "credit") /\ UNCHANGED <<run, pin, irq, module>>
  <2>1. isr[b].todo \subseteq Slots(isr[b].pids)
    BY DEF BoardsInv, BoardInv, HandlerInv
  <2>2. CASE Credit(b)
    <3>1. PICK i \in Slot : isr' = [isr EXCEPT ![b].todo = @ \ {i}]
      BY <2>2 DEF Credit
    <3> QED BY <2>1, <2>2, <3>1 DEF Credit, BoardsInv, TypeOK, At
  <2>3. CASE CreditDone(b)
    BY <2>3 DEF CreditDone, BoardsInv, TypeOK, At
  <2> QED BY <2>2, <2>3
<1>2. \A x \in Board : SameModule(x)
  BY <1>1 DEF SameModule
<1>3. Members(b)' = Members(b) /\ Stopped(b)' = Stopped(b)
  BY <1>1, <1>2, SameMembers DEF SameRun
<1>4. Crediting(b)
  BY <1>1 DEF At, BoardsInv, BoardInv, WirePhase, Up, Rising, Stopping, Ending, Down,
     Falling, Crediting, Continuing, In
<1>5. PidsAt(b, Slots(isr[b].pids))' = PidsAt(b, Slots(isr[b].pids))
  BY <1>1 DEF PidsAt, Slots
<1>6. ASSUME isr'[b].todo = Slots(isr[b].pids)
      PROVE  Todo(b)' = PidsAt(b, Slots(isr[b].pids))
  BY <1>1, <1>6 DEF Todo, PidsAt
<1>7. (Crediting(b) \/ Continuing(b))'
  <2>1. ~High(pin)' /\ irq'[b] = {} /\ Stopped(b) = Members(b)
        /\ Stopped(b) \subseteq PidsAt(b, Slots(isr[b].pids))
    BY <1>1, <1>4 DEF Crediting, In
  <2>2. CASE isr'[b].pc = "credit"
    BY <1>3, <1>5, <2>1, <2>2 DEF Crediting, In, At
  <2>3. CASE isr'[b].pc = "cont" /\ isr'[b].todo = Slots(isr[b].pids)
    BY <1>3, <1>6, <2>1, <2>3 DEF Continuing, In, At
  <2> QED BY <1>1, <2>2, <2>3
<1>8. HandlerInv(b)'
  BY <1>1, <1>2, SameList DEF At
<1>9. LoadInv(b)'
  BY <1>1, <1>2, BusyLoaded DEF At
<1> QED BY <1>1, <1>2, <1>7, <1>8, <1>9, SilentStep DEF WirePhase, SameIsr

LEMMA WireLeave == ASSUME BoardsInv, TypeOK', NEW b \in Board, Leave(b)
                   PROVE  BoardsInv'
<1>1. /\ isr'[b] = NoIsr /\ \A x \in Board \ {b} : isr'[x] = isr[x]
      /\ ~At(b, "idle") /\ UNCHANGED <<run, pin, irq, module>>
  BY DEF Leave, BoardsInv, TypeOK, At
<1>2. \A x \in Board : SameModule(x)
  BY <1>1 DEF SameModule
<1>3. Members(b)' = Members(b) /\ Stopped(b)' = Stopped(b)
  BY <1>1, <1>2, SameMembers DEF SameRun
<1>4. At(b, "idle")'
  BY <1>1 DEF At, NoIsr
<1>5. (Up(b) \/ Down(b))'
  <2>1. CASE At(b, "end")
    <3>1. Ending(b)
      BY <2>1 DEF At, BoardsInv, BoardInv, WirePhase, Up, Rising, Stopping, Ending, Down,
         Falling, Crediting, Continuing, In
    <3> QED BY <1>1, <1>3, <1>4, <3>1 DEF Ending, Down, In, High
  <2>2. CASE At(b, "cont") /\ isr[b].todo = {}
    <3>1. Continuing(b)
      BY <2>2 DEF At, BoardsInv, BoardInv, WirePhase, Up, Rising, Stopping, Ending, Down,
         Falling, Crediting, Continuing, In
    <3> QED BY <1>1, <1>3, <1>4, <2>2, <3>1 DEF Continuing, Up, In, High, Todo, PidsAt
  <2> QED BY <2>1, <2>2 DEF Leave
<1>6. HandlerInv(b)'
  BY <1>1 DEF HandlerInv, NoIsr, NoPids, Slots
<1>7. LoadInv(b)'
  BY <1>1, <1>2, BusyLoaded
<1> QED BY <1>1, <1>2, <1>5, <1>6, <1>7, SilentStep DEF WirePhase, SameIsr

LEMMA WireStop == ASSUME BoardsInv, TypeOK', NEW b \in Board, SignalStop(b)
                  PROVE  BoardsInv'
<1>1. PICK i \in Slot :
        LET t == isr[b].pids[i] IN
        /\ At(b, "stop") /\ First(i, isr[b].todo)
        /\ run' = [run EXCEPT ![t] = IF @ # "running" THEN @
                                     ELSE IF SMP THEN "stopping" ELSE "stopped"]
        /\ isr' = [isr EXCEPT ![b].todo = @ \ {i}]
        /\ UNCHANGED <<wall, vt, module, pin, wire, irq, store, obs>>
  BY DEF SignalStop
<1> DEFINE t == isr[b].pids[i]
<1>2. t \in Task /\ home[t] = b /\ (Alive(t) => Member(t)) /\ i \in isr[b].todo
  BY <1>1 DEF First, BoardsInv, BoardInv, HandlerInv
<1>3. /\ isr'[b].pc = "stop" /\ isr'[b].pids = isr[b].pids
      /\ isr'[b].todo = isr[b].todo \ {i}
      /\ \A x \in Board \ {b} : isr'[x] = isr[x]
      /\ UNCHANGED <<pin, irq, module>>
  BY <1>1 DEF BoardsInv, TypeOK, At
<1>4. /\ \A u \in Task \ {t} : run'[u] = run[u]
      /\ run'[t] = "dead" <=> run[t] = "dead"
      /\ run'[t] # "dead" => run'[t] \in {"stopping", "stopped"}
      /\ run[t] \in {"stopping", "stopped"} => run'[t] = run[t]
  BY <1>1, <1>2 DEF BoardsInv, TypeOK
<1> HIDE DEF t
<1>5. \A u \in Task : (Alive(u)' <=> Alive(u)) /\ (Member(u)' <=> Member(u))
  BY <1>3, <1>4 DEF Member, Alive, Listed
<1>6. /\ Members(b)' = Members(b)
      /\ Stopped(b) \subseteq Stopped(b)' /\ Stopped(b)' \subseteq Stopped(b) \union {t}
      /\ Alive(t) => t \in Stopped(b)'
      /\ ~Alive(t) => t \notin Stopped(b)'
  BY <1>2, <1>4, <1>5 DEF Members, Stopped, Alive
<1>7. Stopping(b)
  BY <1>1 DEF At, BoardsInv, BoardInv, WirePhase, Up, Rising, Stopping, Ending, Down,
     Falling, Crediting, Continuing, In
<1>8. t \in Members(b) <=> Alive(t)
  BY <1>2 DEF Members, Member
<1>9. Todo(b) \subseteq Todo(b)' \union {t}
  BY <1>3 DEF Todo, PidsAt, t
<1>10. Stopping(b)'
  <2>1. Stopped(b)' \subseteq Members(b)'
    BY <1>6, <1>7, <1>8 DEF Stopping
  <2>2. Members(b)' \ Stopped(b)' \subseteq Todo(b)'
    BY <1>6, <1>7, <1>8, <1>9 DEF Stopping
  <2>3. High(pin)' /\ In(b, {}, "stop")'
    BY <1>3, <1>7 DEF Stopping, In, At
  <2> QED BY <2>1, <2>2, <2>3 DEF Stopping
<1>11. HandlerInv(b)'
  <2>1. Slots(isr[b].pids)' = Slots(isr[b].pids) /\ ~At(b, "idle")'
    BY <1>3 DEF Slots, At
  <2> QED BY <1>3, <1>5, <2>1 DEF HandlerInv, BoardsInv, BoardInv
<1>12. LoadInv(b)' /\ TableInv(b)'
  BY <1>1, <1>3 DEF BoardsInv, BoardInv, LoadInv, TableInv, At
<1>13. Others(b)
  BY <1>2, <1>3, <1>4 DEF Others, SameModule, SameRun, SameIsr
<1> QED BY <1>3, <1>10, <1>11, <1>12, <1>13, OneBoard DEF BoardInv, WirePhase

LEMMA WireContinue == ASSUME BoardsInv, TypeOK', NEW b \in Board, SignalContinue(b)
                      PROVE  BoardsInv'
<1>1. PICK i \in Slot :
        LET t == isr[b].pids[i] IN
        /\ At(b, "cont") /\ First(i, isr[b].todo)
        /\ run' = IF Alive(t) THEN [run EXCEPT ![t] = "running"] ELSE run
        /\ isr' = [isr EXCEPT ![b].todo = @ \ {i}]
        /\ UNCHANGED <<wall, vt, module, pin, wire, irq, store, obs>>
  BY DEF SignalContinue
<1> DEFINE t == isr[b].pids[i]
<1>2. t \in Task /\ home[t] = b /\ (Alive(t) => Member(t)) /\ i \in isr[b].todo
  BY <1>1 DEF First, BoardsInv, BoardInv, HandlerInv
<1>3. /\ isr'[b].pc = "cont" /\ isr'[b].pids = isr[b].pids
      /\ isr'[b].todo = isr[b].todo \ {i}
      /\ \A x \in Board \ {b} : isr'[x] = isr[x]
      /\ UNCHANGED <<pin, irq, module>>
  BY <1>1 DEF BoardsInv, TypeOK, At
<1>4. /\ \A u \in Task \ {t} : run'[u] = run[u]
      /\ run'[t] = "dead" <=> run[t] = "dead"
      /\ run'[t] \in {"running", "dead"}
  BY <1>1, <1>2 DEF BoardsInv, TypeOK, Alive
<1> HIDE DEF t
<1>5. \A u \in Task : (Alive(u)' <=> Alive(u)) /\ (Member(u)' <=> Member(u))
  BY <1>3, <1>4 DEF Member, Alive, Listed
<1>6. Members(b)' = Members(b) /\ Stopped(b)' = Stopped(b) \ {t}
  BY <1>2, <1>4, <1>5 DEF Members, Stopped
<1>7. Continuing(b)
  BY <1>1 DEF At, BoardsInv, BoardInv, WirePhase, Up, Rising, Stopping, Ending, Down,
     Falling, Crediting, Continuing, In
<1>8. Todo(b) \subseteq Todo(b)' \union {t}
  BY <1>3 DEF Todo, PidsAt, t
<1>9. Continuing(b)'
  <2>1. Stopped(b)' \subseteq Members(b)' /\ Stopped(b)' \subseteq Todo(b)'
    BY <1>6, <1>7, <1>8 DEF Continuing
  <2>2. ~High(pin)' /\ In(b, {}, "cont")'
    BY <1>3, <1>7 DEF Continuing, In, At
  <2> QED BY <2>1, <2>2 DEF Continuing
<1>10. HandlerInv(b)'
  <2>1. Slots(isr[b].pids)' = Slots(isr[b].pids) /\ ~At(b, "idle")'
    BY <1>3 DEF Slots, At
  <2> QED BY <1>3, <1>5, <2>1 DEF HandlerInv, BoardsInv, BoardInv
<1>11. LoadInv(b)' /\ TableInv(b)'
  BY <1>1, <1>3 DEF BoardsInv, BoardInv, LoadInv, TableInv, At
<1>12. Others(b)
  BY <1>2, <1>3, <1>4 DEF Others, SameModule, SameRun, SameIsr
<1> QED BY <1>3, <1>9, <1>10, <1>11, <1>12, OneBoard DEF BoardInv, WirePhase

\* The steps that no board's phase depends on.
LEMMA WireOther == ASSUME BoardsInv, TypeOK',
                          \/ Tick \/ UNCHANGED vars
                          \/ \E t \in Task : GetTime(t) \/ TakeStop(t)
                          \/ \E b \in Board : dilate_proc(b)
                          \/ \E b \in Board, value \in TDFs : tdf_store(b, value)
                   PROVE  BoardsInv'
<1>1. UNCHANGED <<pin, irq, isr>>
  BY DEF Tick, GetTime, TakeStop, dilate_proc, tdf_store, vars
<1>2. \A x \in Board : SameRun(x)
  <2>1. CASE \E t \in Task : TakeStop(t)
    BY <2>1 DEF TakeStop, SameRun, BoardsInv, TypeOK
  <2>2. CASE UNCHANGED run
    BY <2>2 DEF SameRun
  <2> QED BY <2>1, <2>2 DEF Tick, GetTime, dilate_proc, tdf_store, vars
<1>3. \A x \in Board : SameModule(x)
  <2>1. CASE \E b \in Board, value \in TDFs : tdf_store(b, value)
    BY <2>1 DEF tdf_store, SameModule, BoardsInv, TypeOK
  <2>2. CASE UNCHANGED module
    BY <2>2 DEF SameModule
  <2> QED BY <2>1, <2>2 DEF Tick, GetTime, TakeStop, dilate_proc, vars
<1> QED BY <1>1, <1>2, <1>3, NoBoard DEF SameIsr

\* The steps of the kernel and its module that nobody asks for.
LEMMA KernelStep == ASSUME BoardsInv, TypeOK',
                           \/ \E b \in Board : TakeInterrupt(b) \/ IsrStep(b) \/ dilate_proc(b)
                           \/ \E t \in Task : TakeStop(t)
                    PROVE  BoardsInv' /\ UNCHANGED <<pin, wire>>
<1>1. UNCHANGED <<pin, wire>>
  BY DEF TakeInterrupt, Interrupt, IsrStep, SignalStop, Stamp, Credit, CreditDone,
     SignalContinue, Leave, dilate_proc, TakeStop
<1> QED BY <1>1, WireInterrupt, WireStamp, WireCredit, WireLeave, WireStop, WireContinue,
       WireOther DEF TakeInterrupt, IsrStep

LEMMA WireStep == ASSUME Discipline = Habits
                  PROVE  WireInv /\ [Next]_vars => WireInv'
<1> SUFFICES ASSUME WireInv, [Next]_vars PROVE WireInv'
  OBVIOUS
<1>1. TypeOK' /\ BoardsInv /\ Calm
  BY TypeStep DEF WireInv, BoardsInv
<1>2. ASSUME NEW b \in Board, NEW word \in {"freeze", "unfreeze"}, mode_store(b, word)
      PROVE  WireInv'
  BY <1>1, <1>2, WireMode
<1>3. ASSUME BoardsInv', pin' = pin, Calm' PROVE WireInv'
  BY <1>3 DEF WireInv, OneDriver
<1>4. ASSUME BoardsInv', UNCHANGED <<pin, wire>> PROVE WireInv'
  BY <1>1, <1>3, <1>4 DEF Calm
<1>5. ASSUME NEW b \in Board, vtgpio_init(b) \/ vtgpio_exit(b) PROVE WireInv'
  BY <1>1, <1>3, <1>5, WireLoad
<1>6. ASSUME NEW b \in Board, NEW i \in Slot, NEW p \in PidOrNone, pid_store(b, i, p)
      PROVE  WireInv'
  BY <1>1, <1>4, <1>6, WireEnrol DEF pid_store
<1>7. ASSUME NEW t \in Task, Exit(t) PROVE WireInv'
  BY <1>1, <1>4, <1>7, WireExit DEF Exit
<1>8. ASSUME \/ Tick \/ UNCHANGED vars \/ \E t \in Task : GetTime(t)
             \/ \E b \in Board, value \in TDFs : tdf_store(b, value)
      PROVE  WireInv'
  BY <1>1, <1>4, <1>8, WireOther DEF Tick, GetTime, tdf_store, vars
<1>9. ASSUME NEW b \in Board, LetGo(b) PROVE WireInv'
  BY <1>1, <1>9, LetsGo
<1> QED BY <1>1, <1>2, <1>4, <1>5, <1>6, <1>7, <1>8, <1>9, KernelStep DEF Next

\* The invariant of the wire: in every step of every pause each board is in one of
\* its eight phases, and just the processes that the phase names are stopped.
THEOREM WireInvariant == ASSUME Discipline = Habits PROVE Spec => []WireInv
<1>1. Init => WireInv
  BY WireInit
<1>2. WireInv /\ [Next]_vars => WireInv'
  BY WireStep
<1> QED BY <1>1, <1>2, PTL DEF Spec

\* A pause is whole: once a change of the wire has been dealt with, either every
\* process enrolled on any board has been stopped by its handler or none has.
THEOREM PauseIsWhole == ASSUME Discipline = Habits PROVE Spec => []AllOrNone
<1>1. BoardsInv => AllOrNone
  <2> SUFFICES ASSUME BoardsInv, Settled
               PROVE  Still = IF High(pin) THEN {t \in Task : Member(t)} ELSE {}
    BY DEF AllOrNone
  <2>1. \A t \in Task : home[t] \in Board
    BY GpioAssumption
  <2>2. CASE High(pin)
    <3>1. \A b \in Board : Stopped(b) = Members(b)
      BY <2>2, SettledDown DEF Down
    <3> QED BY <2>1, <2>2, <3>1 DEF Stopped, Members, Still
  <2>3. CASE ~High(pin)
    <3>1. \A b \in Board : Stopped(b) = {}
      BY <2>3, SettledUp DEF Up
    <3> QED BY <2>1, <2>3, <3>1 DEF Stopped, Still
  <2> QED BY <2>2, <2>3
<1>2. WireInv => AllOrNone
  BY <1>1 DEF WireInv
<1> QED BY <1>2, WireInvariant, PTL

-----------------------------------------------------------------------------
(***************************************************************************)
(* The boards implement the switch of GlobalPause: each step of theirs is  *)
(* a step of the switch or leaves it as it is.                             *)
(***************************************************************************)
AllMembers == {t \in Task : Member(t)}
SwitchPhase == IF High(pin) THEN IF AllQuiet THEN "paused" ELSE "pausing"
                            ELSE IF AllQuiet THEN "running" ELSE "resuming"

LEMMA SameSwitch == ASSUME \A x \in Board : SameModule(x) /\ SameRun(x)
                    PROVE  AllMembers' = AllMembers /\ Still' = Still
<1>1. \A t \in Task : home[t] \in Board
  BY GpioAssumption
<1>2. \A t \in Task : Member(t)' <=> Member(t)
  BY <1>1 DEF SameModule, SameRun, Member, Alive, Listed
<1> QED BY <1>1, <1>2 DEF AllMembers, Still, SameRun

LEMMA Stutter == ASSUME AllMembers' = AllMembers, Still' = Still,
                        SwitchPhase' = SwitchPhase
                 PROVE  UNCHANGED Switch!vars
BY DEF Switch!vars, AllMembers, SwitchPhase

\* Steps that change no handler, no latch and not the wire.
LEMMA SameSwitchPhase == ASSUME UNCHANGED <<pin, irq, isr>>
                         PROVE  SwitchPhase' = SwitchPhase
BY DEF SwitchPhase, High, AllQuiet, Quiet, At

\* Steps of a handler that does not return.
LEMMA BusyPhase == ASSUME BoardsInv, NEW b \in Board, UNCHANGED pin,
                          ~Quiet(b), ~Quiet(b)'
                   PROVE  SwitchPhase' = SwitchPhase
BY DEF SwitchPhase, High, AllQuiet

LEMMA SwitchEnrol ==
  ASSUME BoardsInv, BoardsInv', UNCHANGED <<pin, isr, run>>, \A x \in Board : irq'[x] = irq[x],
         Settled, ~High(pin)
  PROVE  Switch!Enrol
<1>1. SwitchPhase = "running" /\ SwitchPhase' = "running"
  BY DEF SwitchPhase, Settled, AllQuiet, Quiet, High, At
<1>2. Still' = Still /\ AllMembers' \in SUBSET Task
  BY DEF Still, AllMembers
<1> QED BY <1>1, <1>2 DEF Switch!Enrol, SwitchPhase, AllMembers

LEMMA SwitchLoad == ASSUME WireInv, BoardsInv', Discipline = Habits,
                           NEW b \in Board, vtgpio_init(b) \/ vtgpio_exit(b)
                    PROVE  Switch!Enrol
<1>1. BoardsInv /\ Calm
  BY DEF WireInv
<1>2. Settled /\ ~High(pin) /\ UNCHANGED <<pin, irq, isr, run>>
  BY <1>1, LoadDrives
<1> QED BY <1>1, <1>2, SwitchEnrol

LEMMA SwitchChange == ASSUME BoardsInv, NEW b \in Board, NEW word, mode_store(b, word),
                             AllQuiet, ~AllQuiet', High(pin)' <=> ~High(pin)
                      PROVE  Switch!Pause \/ Switch!Resume
<1>1. AllMembers' = AllMembers /\ Still' = Still
  <2>1. \A x \in Board : SameModule(x) /\ SameRun(x)
    BY DEF SameModule, SameRun, mode_store, BoardsInv, TypeOK
  <2> QED BY <2>1, SameSwitch
<1>2. \/ SwitchPhase = "running" /\ SwitchPhase' = "pausing"
      \/ SwitchPhase = "paused" /\ SwitchPhase' = "resuming"
  BY DEF SwitchPhase
<1> QED BY <1>1, <1>2 DEF Switch!Pause, Switch!Resume, AllMembers, SwitchPhase

LEMMA SwitchMode == ASSUME WireInv, WireInv', Discipline = Habits,
                           NEW b \in Board, NEW word \in {"freeze", "unfreeze"},
                           mode_store(b, word)
                    PROVE  Switch!Pause \/ Switch!Resume
<1>1. AllQuiet /\ (High(pin)' <=> ~High(pin)) /\ irq'[b] # {}
  BY WireMode DEF WireInv, BoardsInv
<1>2. ~AllQuiet'
  BY <1>1 DEF AllQuiet, Quiet
<1> QED BY <1>1, <1>2, SwitchChange DEF WireInv

LEMMA SwitchLetGo == ASSUME WireInv, TypeOK', NEW b \in Board, LetGo(b)
                     PROVE  UNCHANGED Switch!vars
<1>1. UNCHANGED <<irq, isr, run, module>> /\ ~High(pin) /\ ~High(pin)'
  BY LetsGo
<1>2. AllMembers' = AllMembers /\ Still' = Still
  BY <1>1, SameSwitch DEF SameModule, SameRun
<1>3. SwitchPhase' = SwitchPhase
  BY <1>1 DEF SwitchPhase, AllQuiet, Quiet, At
<1> QED BY <1>2, <1>3, Stutter

LEMMA SwitchExit == ASSUME BoardsInv, NEW t \in Task, Exit(t)
                    PROVE  Switch!Exit(t)
<1>1. /\ UNCHANGED <<module, pin, wire, irq, isr>>
      /\ run'[t] = "dead" /\ \A u \in Task \ {t} : run'[u] = run[u]
  BY DEF Exit, BoardsInv, TypeOK
<1>2. SwitchPhase' = SwitchPhase
  BY <1>1, SameSwitchPhase
<1>3. Still' = Still \ {t} /\ AllMembers' = AllMembers \ {t}
  BY <1>1 DEF Still, AllMembers, Member, Alive, Listed
<1> QED BY <1>2, <1>3 DEF Switch!Exit, SwitchPhase, AllMembers

LEMMA SwitchStop == ASSUME BoardsInv, NEW b \in Board, SignalStop(b)
                    PROVE  (\E t \in Task : Switch!Stop(t)) \/ UNCHANGED Switch!vars
<1>1. PICK i \in Slot :
        LET t == isr[b].pids[i] IN
        /\ At(b, "stop") /\ First(i, isr[b].todo)
        /\ run' = [run EXCEPT ![t] = IF @ # "running" THEN @
                                     ELSE IF SMP THEN "stopping" ELSE "stopped"]
        /\ isr' = [isr EXCEPT ![b].todo = @ \ {i}]
        /\ UNCHANGED <<wall, vt, module, pin, wire, irq, store, obs>>
  BY DEF SignalStop
<1> DEFINE t == isr[b].pids[i]
<1>2. t \in Task /\ (Alive(t) => Member(t))
  BY <1>1 DEF First, BoardsInv, BoardInv, HandlerInv
<1>3. /\ \A u \in Task \ {t} : run'[u] = run[u]
      /\ run'[t] = "dead" <=> run[t] = "dead"
      /\ run'[t] # "dead" => run'[t] \in {"stopping", "stopped"}
  BY <1>1, <1>2 DEF BoardsInv, TypeOK
<1> HIDE DEF t
<1>4. AllMembers' = AllMembers
  BY <1>1, <1>3 DEF AllMembers, Member, Alive, Listed
<1>5. ~Quiet(b) /\ ~Quiet(b)'
  BY <1>1 DEF Quiet, At, BoardsInv, TypeOK
<1>6. Stopping(b)
  BY <1>1 DEF At, BoardsInv, BoardInv, WirePhase, Up, Rising, Stopping, Ending, Down,
     Falling, Crediting, Continuing, In
<1>7. SwitchPhase = "pausing" /\ SwitchPhase' = "pausing"
  BY <1>1, <1>5, <1>6 DEF SwitchPhase, AllQuiet, Stopping, High
<1>8. CASE Alive(t)
  <2>1. Still' = Still \union {t}
    BY <1>2, <1>3, <1>8 DEF Still, Alive
  <2>2. t \in AllMembers
    BY <1>2, <1>8 DEF AllMembers
  <2> QED BY <1>2, <1>4, <1>7, <2>1, <2>2 DEF Switch!Stop, AllMembers, SwitchPhase
<1>9. CASE ~Alive(t)
  <2>1. Still' = Still
    BY <1>2, <1>3, <1>9 DEF Still, Alive
  <2> QED BY <1>4, <1>7, <2>1, Stutter
<1> QED BY <1>8, <1>9

LEMMA SwitchContinue == ASSUME BoardsInv, NEW b \in Board, SignalContinue(b)
                        PROVE  \E t \in Task : Switch!Continue(t)
<1>1. PICK i \in Slot :
        LET t == isr[b].pids[i] IN
        /\ At(b, "cont") /\ First(i, isr[b].todo)
        /\ run' = IF Alive(t) THEN [run EXCEPT ![t] = "running"] ELSE run
        /\ isr' = [isr EXCEPT ![b].todo = @ \ {i}]
        /\ UNCHANGED <<wall, vt, module, pin, wire, irq, store, obs>>
  BY DEF SignalContinue
<1> DEFINE t == isr[b].pids[i]
<1>2. t \in Task
  BY <1>1 DEF First, BoardsInv, BoardInv, HandlerInv
<1>3. /\ \A u \in Task \ {t} : run'[u] = run[u]
      /\ run'[t] = "dead" <=> run[t] = "dead"
      /\ run'[t] \in {"running", "dead"}
  BY <1>1, <1>2 DEF BoardsInv, TypeOK, Alive
<1> HIDE DEF t
<1>4. AllMembers' = AllMembers /\ Still' = Still \ {t}
  BY <1>1, <1>2, <1>3 DEF AllMembers, Still, Member, Alive, Listed
<1>5. ~Quiet(b) /\ ~Quiet(b)'
  BY <1>1 DEF Quiet, At, BoardsInv, TypeOK
<1>6. Continuing(b)
  BY <1>1 DEF At, BoardsInv, BoardInv, WirePhase, Up, Rising, Stopping, Ending, Down,
     Falling, Crediting, Continuing, In
<1>7. SwitchPhase = "resuming" /\ SwitchPhase' = "resuming"
  BY <1>1, <1>5, <1>6 DEF SwitchPhase, AllQuiet, Continuing, High
<1> QED BY <1>2, <1>4, <1>7 DEF Switch!Continue, AllMembers, SwitchPhase

\* The last handler to return completes the pause, or the resume.
LEMMA SwitchLeave == ASSUME BoardsInv, BoardsInv', NEW b \in Board, Leave(b)
                     PROVE  Switch!Paused \/ Switch!Running \/ UNCHANGED Switch!vars
<1>1. ~Quiet(b) /\ UNCHANGED <<run, module, pin>>
  BY DEF Leave, At, Quiet
<1>2. AllMembers' = AllMembers /\ Still' = Still
  BY <1>1, SameSwitch DEF SameModule, SameRun
<1>3. ~AllQuiet
  BY <1>1 DEF AllQuiet
<1>4. CASE ~AllQuiet'
  <2>1. SwitchPhase' = SwitchPhase
    BY <1>1, <1>3, <1>4 DEF SwitchPhase, High
  <2> QED BY <1>2, <2>1, Stutter
<1>5. CASE AllQuiet'
  <2>1. \A t \in Task : home[t] \in Board
    BY GpioAssumption
  <2>2. \A x \in Board : (Up(x) \/ Down(x))'
    BY <1>5 DEF AllQuiet, Quiet, At, BoardsInv, BoardInv, WirePhase, Up, Rising, Stopping,
       Ending, Down, Falling, Crediting, Continuing, In
  <2>3. CASE High(pin)
    <3>1. \A x \in Board : Stopped(x)' = Members(x)'
      BY <1>1, <2>2, <2>3 DEF Up, Down, High
    <3>2. Still' = AllMembers'
      BY <2>1, <3>1 DEF Stopped, Members, Still, AllMembers
    <3>3. SwitchPhase = "pausing" /\ SwitchPhase' = "paused"
      BY <1>1, <1>3, <1>5, <2>3 DEF SwitchPhase, High
    <3> QED BY <1>2, <3>2, <3>3 DEF Switch!Paused, AllMembers, SwitchPhase
  <2>4. CASE ~High(pin)
    <3>1. \A x \in Board : Stopped(x)' = {}
      BY <1>1, <2>2, <2>4 DEF Up, Down, High
    <3>2. Still' = {}
      BY <2>1, <3>1 DEF Stopped, Still
    <3>3. SwitchPhase = "resuming" /\ SwitchPhase' = "running"
      BY <1>1, <1>3, <1>5, <2>4 DEF SwitchPhase, High
    <3> QED BY <1>2, <3>2, <3>3 DEF Switch!Running, AllMembers, SwitchPhase
  <2> QED BY <2>3, <2>4
<1> QED BY <1>4, <1>5

LEMMA SwitchSilent == ASSUME BoardsInv, BoardsInv', NEW b \in Board,
                             \/ \E edge \in {"rise", "fall"} : Interrupt(b, edge)
                             \/ Stamp(b) \/ Credit(b) \/ CreditDone(b)
                      PROVE  UNCHANGED Switch!vars
<1>1. UNCHANGED <<run, pin>>
  BY DEF Interrupt, Stamp, Credit, CreditDone
<1>2. \A x \in Board : SameModule(x)
  <2>1. CASE Stamp(b)
    BY <2>1 DEF Stamp, SameModule, BoardsInv, TypeOK
  <2>2. CASE UNCHANGED module
    BY <2>2 DEF SameModule
  <2> QED BY <2>1, <2>2 DEF Interrupt, Credit, CreditDone
<1>3. ~Quiet(b) /\ ~Quiet(b)'
  <2>1. ~Quiet(b)
    BY DEF Quiet, At, Interrupt, Stamp, Credit, CreditDone
  <2>2. isr'[b].pc # "idle"
    <3>1. CASE \E edge \in {"rise", "fall"} : Interrupt(b, edge)
      <4>1. PICK edge, current, duration :
              isr' = [isr EXCEPT ![b] =
                [pc |-> IF edge = "rise" THEN "stop" ELSE "credit",
                 current |-> current, pids |-> AllPids(b), todo |-> Slots(AllPids(b)),
                 duration |-> duration]]
        BY <3>1 DEF Interrupt
      <4> QED BY <4>1 DEF BoardsInv, TypeOK
    <3>2. CASE Stamp(b)
      BY <3>2 DEF Stamp, BoardsInv, TypeOK
    <3>3. CASE Credit(b)
      <4>1. PICK i \in Slot : isr' = [isr EXCEPT ![b].todo = @ \ {i}]
        BY <3>3 DEF Credit
      <4> QED BY <3>3, <4>1 DEF Credit, At, BoardsInv, TypeOK
    <3>4. CASE CreditDone(b)
      BY <3>4 DEF CreditDone, BoardsInv, TypeOK
    <3> QED BY <3>1, <3>2, <3>3, <3>4
  <2> QED BY <2>1, <2>2 DEF Quiet, At
<1> QED BY <1>1, <1>2, <1>3, SameSwitch, BusyPhase, Stutter DEF SameRun

LEMMA SwitchOther == ASSUME BoardsInv,
                            \/ Tick \/ UNCHANGED vars
                            \/ \E t \in Task : GetTime(t) \/ TakeStop(t)
                            \/ \E b \in Board : dilate_proc(b)
                            \/ \E b \in Board, value \in TDFs : tdf_store(b, value)
                     PROVE  UNCHANGED Switch!vars
<1>1. UNCHANGED <<pin, irq, isr>>
  BY DEF Tick, GetTime, TakeStop, dilate_proc, tdf_store, vars
<1>2. \A x \in Board : SameRun(x)
  <2>1. CASE \E t \in Task : TakeStop(t)
    BY <2>1 DEF TakeStop, SameRun, BoardsInv, TypeOK
  <2>2. CASE UNCHANGED run
    BY <2>2 DEF SameRun
  <2> QED BY <2>1, <2>2 DEF Tick, GetTime, dilate_proc, tdf_store, vars
<1>3. \A x \in Board : SameModule(x)
  <2>1. CASE \E b \in Board, value \in TDFs : tdf_store(b, value)
    BY <2>1 DEF tdf_store, SameModule, BoardsInv, TypeOK
  <2>2. CASE UNCHANGED module
    BY <2>2 DEF SameModule
  <2> QED BY <2>1, <2>2 DEF Tick, GetTime, TakeStop, dilate_proc, vars
<1> QED BY <1>1, <1>2, <1>3, SameSwitch, SameSwitchPhase, Stutter

LEMMA SwitchKernel == ASSUME BoardsInv, BoardsInv',
                             \/ \E b \in Board : TakeInterrupt(b) \/ IsrStep(b) \/ dilate_proc(b)
                             \/ \E t \in Task : TakeStop(t)
                      PROVE  Switch!Next \/ UNCHANGED Switch!vars
BY SwitchStop, SwitchContinue, SwitchLeave, SwitchSilent, SwitchOther
   DEF TakeInterrupt, IsrStep, Switch!Next

LEMMA SwitchStep == ASSUME Discipline = Habits
                    PROVE  WireInv /\ WireInv' /\ [Next]_vars => [Switch!Next]_(Switch!vars)
<1> SUFFICES ASSUME WireInv, WireInv', [Next]_vars
             PROVE  Switch!Next \/ UNCHANGED Switch!vars
  OBVIOUS
<1>0. BoardsInv /\ BoardsInv' /\ TypeOK'
  BY DEF WireInv, BoardsInv
<1>1. ASSUME NEW b \in Board, NEW i \in Slot, NEW p \in PidOrNone, pid_store(b, i, p)
      PROVE  Switch!Enrol
  <2>1. Settled /\ ~High(pin) /\ UNCHANGED <<pin, irq, isr, run>>
    BY <1>1 DEF pid_store, Enrols, Habits
  <2> QED BY <1>0, <2>1, SwitchEnrol
<1> QED BY <1>0, <1>1, SwitchLoad, SwitchMode, SwitchLetGo, SwitchExit, SwitchKernel,
       SwitchOther DEF Next, Switch!Next

LEMMA SwitchInit == Init => Switch!Init
<1> SUFFICES ASSUME Init PROVE Switch!Init
  OBVIOUS
<1>1. ~High(pin) /\ AllQuiet /\ Still = {}
  BY DEF Init, High, AllQuiet, Quiet, At, NoIsr, Still
<1>2. \A t \in Task : ~Member(t)
  <2> SUFFICES ASSUME NEW t \in Task, NEW i \in Listed(home[t]),
                      module[home[t]].all_pid_nrs[i] = t
               PROVE  FALSE
    BY DEF Member
  <2> QED BY GpioAssumption DEF Init, Listed, Fresh, NoPids
<1> QED BY <1>1, <1>2 DEF Switch!Init

\* However many boards are joined by the wire, together they do what one switch
\* for all processes would do.
THEOREM BoardsAreOneSwitch == ASSUME Discipline = Habits PROVE Spec => ImplementsSwitch
<1>1. Init => Switch!Init
  BY SwitchInit
<1>2. WireInv /\ WireInv' /\ [Next]_vars => [Switch!Next]_(Switch!vars)
  BY SwitchStep
<1>3. Spec => []WireInv
  BY WireInvariant
<1> QED BY <1>1, <1>2, <1>3, PTL DEF Spec, ImplementsSwitch, Switch!Spec
=============================================================================
