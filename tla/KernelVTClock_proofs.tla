------------------------ MODULE KernelVTClock_proofs ------------------------
(***************************************************************************)
(* What the processes of KernelVT read: the wall clock outside virtual     *)
(* time, whatever is written in whatever order; and, for group leaders     *)
(* under orderly use, a clock that neither goes back nor runs ahead.  Then *)
(* frozen time in a tree of processes: what keeps a child with its parent  *)
(* once fork() has linked it, between the steps of any number of writers,  *)
(* on one CPU or several.                                                  *)
(***************************************************************************)
EXTENDS KernelVT_proofs

-----------------------------------------------------------------------------
(***************************************************************************)
(* Outside virtual time.  No step leaves virtual_start set in a process    *)
(* that it leaves with, or gives, a dilation of 0.                         *)
(***************************************************************************)
DatedInv == TypeOK /\ \A t \in Task : Dated(vt[t])

LEMMA DatedInit == Init => DatedInv
BY TypeInit DEF DatedInv, Init, Dated, NoVirtualTime, InVT

LEMMA DatedStep == DatedInv /\ [Next]_vars => DatedInv'
<1> SUFFICES ASSUME DatedInv, [Next]_vars PROVE \A t \in Task : Dated(vt'[t])
  BY TypeStep DEF DatedInv, Dated, InVT
<1> USE TaskAssumption
<1>1. /\ TypeOK /\ wall \in Int /\ vt \in [Task -> TaskFields]
      /\ \A t \in Task : vt[t] \in TaskFields /\ Dated(vt[t])
  BY DEF DatedInv, TypeOK
<1>2. ASSUME NEW u \in Task, GetTime(u) PROVE \A t \in Task : Dated(vt'[t])
  BY <1>1, <1>2, DatedKept DEF GetTime
<1>3. ASSUME NEW u \in Task, UnshareVirtualTime(u) PROVE \A t \in Task : Dated(vt'[t])
  <2>1. One \in Int /\ TimeOfDay(vt[u], wall) \in Int
    BY <1>1, KeepTimeType DEF One
  <2>2. Dated(InitVirtualStartTime(vt[u], One, TimeOfDay(vt[u], wall)))
    BY <1>1, <2>1, DatedKept
  <2> QED BY <1>1, <1>3, <2>2 DEF UnshareVirtualTime
<1>4. ASSUME NEW p \in Task, (\E c \in Task : ForkCopy(p, c)) \/ ForkAbort(p)
      PROVE  \A t \in Task : Dated(vt'[t])
  <2>1. Dated(NoVirtualTime)
    BY DEF Dated, InVT, NoVirtualTime
  <2> QED BY <1>1, <1>4, <2>1 DEF ForkCopy, ForkAbort
<1>5. ASSUME NEW w \in Task \union {Nobody}, NEW u \in Task, NEW tdf \in TDFs,
             DilationWrite(w, u, tdf)
      PROVE  \A t \in Task : Dated(vt'[t])
  <2>1. tdf \in Int /\ WriterTime(w) \in Int
    BY <1>1, KeepTimeType DEF WriterTime
  <2>2. \A t \in Task : KeepTime(vt[t], wall) \in TaskFields /\ Dated(KeepTime(vt[t], wall))
    BY <1>1, <2>1, KeepTimeType, DatedKept
  <2>3. \A r \in TaskFields : Dated(r) => Dated(SetDilation(r, tdf, WriterTime(w)))
    BY <2>1, DatedKept
  <2> QED BY <1>1, <1>5, <2>2, <2>3 DEF DilationWrite
<1>6. ASSUME NEW c \in Caller, FreezeMark(c) PROVE \A t \in Task : Dated(vt'[t])
  <2>1. vt' = [vt EXCEPT ![call[c].tsk].freeze_start = call[c].now]
    BY <1>6 DEF FreezeMark
  <2> QED BY <1>1, <2>1 DEF Dated, InVT, TaskFields
<1>7. ASSUME NEW c \in Caller, UnfreezeCredit(c) PROVE \A t \in Task : Dated(vt'[t])
  <2>1. call[c].now \in Int
    BY <1>1 DEF TypeOK
  <2>2. vt' = [vt EXCEPT ![call[c].tsk] = CreditFreeze(@, call[c].now)]
    BY <1>7 DEF UnfreezeCredit
  <2>3. \A t \in Task : Dated(CreditFreeze(vt[t], call[c].now))
    BY <1>1, <2>1, DatedKept
  <2> QED BY <1>1, <2>2, <2>3
<1>8. ASSUME NEW c \in Caller, UnfreezeClear(c) PROVE \A t \in Task : Dated(vt'[t])
  <2> DEFINE cleared == [vt[call[c].tsk] EXCEPT !.freeze_start = 0]
  <2>1. call[c].tsk \in Task
    BY <1>1, <1>8 DEF UnfreezeClear, At, TypeOK
  <2>2. cleared \in TaskFields /\ Dated(cleared)
    <3>1. cleared \in TaskFields
      BY <1>1, <2>1, MarkType
    <3>2. Dated(vt[call[c].tsk]) /\ vt[call[c].tsk] \in TaskFields
      BY <1>1, <2>1
    <3> QED BY <3>1, <3>2 DEF Dated, InVT, TaskFields
  <2>3. vt' = [d \in Task |-> IF d = call[c].tsk THEN cleared
                             ELSE IF d \in Descendants(call[c].tsk)
                               THEN CopyFreeze(vt[d], cleared) ELSE vt[d]]
    BY <1>8 DEF UnfreezeClear
  <2> HIDE DEF cleared
  <2>4. \A t \in Task : Dated(CopyFreeze(vt[t], cleared))
    BY <1>1, <2>2, DatedKept
  <2> QED BY <1>1, <2>2, <2>3, <2>4
<1>9. CASE UNCHANGED vt
  BY <1>1, <1>9
<1> QED
  BY <1>2, <1>3, <1>4, <1>5, <1>6, <1>7, <1>8, <1>9
     DEF Next, CallStep, vars, Tick, ForkLink, TakeStop, FreezeWrite, UnfreezeWrite,
         FreezeStop, FreezeStamp, UnfreezeContinue

\* A process whose dilation is 0 reads the wall clock, for any number of writers
\* in any order, on one CPU or several, whatever the factors they write.
THEOREM OutsideIsWallTime == Spec => []OutsideReadsWall
<1>1. Init => DatedInv
  BY DatedInit
<1>2. DatedInv /\ [Next]_vars => DatedInv'
  BY DatedStep
<1>3. DatedInv => OutsideReadsWall
  BY DEF DatedInv, Dated, OutsideReadsWall, TimeOfDay
<1> QED BY <1>1, <1>2, <1>3, PTL DEF Spec

-----------------------------------------------------------------------------
(***************************************************************************)
(* Inside virtual time: group leaders, one orderly caller, one CPU, and no *)
(* change from one factor to another.                                      *)
(***************************************************************************)

\* The bookkeeping of a leader: the physical time that is not accounted for yet
\* includes the time it was stopped, and virtual time is behind physical time.
Accounted(t) ==
  LET r == vt[t] IN
  /\ r.freeze_past >= 0
  /\ InVT(r) =>
       /\ r.physical_start = r.virtual_start
       /\ r.physical_past >= 0
       /\ r.virtual_past >= 0
       /\ r.virtual_past * r.dilation <= r.physical_past * One
       /\ obs[t].stopped - obs[t].latency <= wall - r.physical_start - r.physical_past

\* The fields that reading the clock depends on, and the history.
SameClock(t) ==
  /\ wall' = wall /\ obs'[t] = obs[t]
  /\ vt'[t].dilation = vt[t].dilation
  /\ vt'[t].virtual_start = vt[t].virtual_start
  /\ vt'[t].virtual_past = vt[t].virtual_past
  /\ vt'[t].physical_start = vt[t].physical_start
  /\ vt'[t].physical_past = vt[t].physical_past
  /\ vt'[t].freeze_past >= vt[t].freeze_past

\* What a step can do to the clock of a leader: the clock on the wall ticks, the
\* leader reads its own, it enters or leaves virtual time, or nothing changes
\* but the frozen time, which grows.
ReadsOwn(t) ==
  /\ wall' = wall
  /\ run[t] = "running" /\ vt[t].freeze_start = 0
  /\ \A c \in Caller : call[c].tsk = t => call[c].pc \notin {"f_mark", "u_credit"}
  /\ vt'[t] = KeepTime(vt[t], wall)
  /\ obs'[t].stopped = obs[t].stopped /\ obs'[t].latency = obs[t].latency
  /\ obs'[t].seen = TimeOfDay(vt[t], wall)
Enters(t) ==
  /\ wall' = wall
  /\ ~InVT(vt[t])
  /\ \E tdf \in TDFs \union {One} : tdf > 0 /\ vt'[t] = InitVirtualStartTime(vt[t], tdf, wall)
  /\ obs'[t] = Afresh(obs[t])
Leaves(t) ==
  /\ wall' = wall
  /\ vt'[t] = NoVirtualTime
  /\ obs'[t] = Afresh(obs[t])

LEMMA DilationMoves ==
  ASSUME IInv, Orderly, ~Redilates, NEW c \in Caller, Caller = {c},
         NEW t \in Task, Leader(t),
         NEW w \in Task \union {Nobody}, NEW u \in Task, NEW tdf \in TDFs,
         DilationWrite(w, u, tdf)
  PROVE  SameClock(t) \/ Enters(t) \/ Leaves(t)
<1> DEFINE all == Dilated(u, tdf)
<1>1. TypeOK /\ Phase(c, t) /\ vt[t] \in TaskFields /\ tdf \in Int
  BY TaskAssumption DEF IInv, PhaseInv, TypeOK
<1>2. WriterTime(w) = wall
  BY DEF DilationWrite, WriterTime, TimeOfDay
<1>3. \A d \in Task : d = w => KeepTime(vt[d], wall) = vt[d]
  BY TaskAssumption DEF DilationWrite, KeepTime
<1>4. /\ vt' = [d \in Task |-> IF d \in all THEN SetDilation(vt[d], tdf, wall)
                                            ELSE vt[d]]
      /\ wall' = wall
  BY <1>2, <1>3 DEF DilationWrite
<1>5. /\ (vt[t].dilation = 0 /\ tdf > 0) \/ (vt[t].dilation # 0 /\ tdf = 0)
           => obs'[t] = IF t \in all THEN Afresh(obs[t]) ELSE obs[t]
      /\ ~((vt[t].dilation = 0 /\ tdf > 0) \/ (vt[t].dilation # 0 /\ tdf = 0))
           => obs'[t] = obs[t]
  BY DEF DilationWrite
<1>6. CASE t \notin all
  <2>1. vt'[t] = vt[t] /\ obs'[t] = obs[t]
    BY <1>4, <1>6 DEF DilationWrite
  <2> QED BY <1>1, <1>4, <2>1 DEF SameClock, TaskFields
<1>7. CASE t \in all
  <2>1. t = u
    BY <1>1, <1>7, WalkApart DEF Dilated, Leader
  <2>2. vt[t].dilation = 0 \/ tdf = 0
    BY <2>1 DEF DilationWrite
  <2>3. vt'[t] = SetDilation(vt[t], tdf, wall)
    BY <1>4, <1>7
  <2>4. vt[t].dilation \in Nat
    BY <1>1 DEF TaskFields
  <2>5. CASE vt[t].dilation = 0 /\ tdf > 0
    <3>1. vt'[t] = InitVirtualStartTime(vt[t], tdf, wall)
      BY <2>3, <2>5 DEF SetDilation, RefusesDilation
    <3>2. ~InVT(vt[t])
      BY <1>1, <2>5 DEF Phase
    <3> QED BY <1>4, <1>5, <1>7, <2>5, <3>1, <3>2 DEF Enters
  <2>6. CASE vt[t].dilation # 0 /\ tdf = 0
    <3>1. vt'[t] = NoVirtualTime
      BY <2>3, <2>6 DEF SetDilation, RefusesDilation
    <3> QED BY <1>4, <1>5, <1>7, <2>6, <3>1 DEF Leaves
  <2>7. CASE vt[t].dilation = 0 /\ tdf <= 0
    <3>1. vt'[t] = vt[t]
      BY <1>1, <2>3, <2>7 DEF SetDilation, InitVirtualStartTime
    <3>2. obs'[t] = obs[t]
      BY <1>1, <1>5, <2>7
    <3> QED BY <1>1, <1>4, <3>1, <3>2 DEF SameClock, TaskFields
  <2> QED BY <1>1, <2>2, <2>4, <2>5, <2>6, <2>7
<1> QED BY <1>6, <1>7

LEMMA CallMoves ==
  ASSUME IInv, ~SMP, NEW c \in Caller, Caller = {c},
         NEW t \in Task, Leader(t), CallStep(c)
  PROVE  SameClock(t)
<1>1. /\ TypeOK /\ Phase(c, t) /\ vt[t] \in TaskFields
      /\ vt \in [Task -> TaskFields] /\ wall \in Int
  BY DEF IInv, PhaseInv, TypeOK
<1>2. CASE FreezeStop(c) \/ FreezeStamp(c) \/ UnfreezeContinue(c)
  BY <1>1, <1>2 DEF FreezeStop, FreezeStamp, UnfreezeContinue, SameClock, TaskFields
<1>3. CASE FreezeMark(c)
  <2>1. /\ vt' = [vt EXCEPT ![call[c].tsk].freeze_start = call[c].now]
        /\ wall' = wall /\ obs' = obs
    BY <1>3 DEF FreezeMark
  <2> QED BY <1>1, <2>1 DEF SameClock, TaskFields
<1>4. CASE UnfreezeCredit(c)
  <2>1. /\ vt' = [vt EXCEPT ![call[c].tsk] = CreditFreeze(@, call[c].now)]
        /\ wall' = wall /\ obs' = obs /\ At(c, "u_credit")
    BY <1>4 DEF UnfreezeCredit
  <2>2. CASE call[c].tsk = t
    <3>1. vt[t].freeze_start <= call[c].now /\ call[c].now \in Int
      BY <1>1, <2>1, <2>2 DEF Phase, TypeOK
    <3>2. vt'[t] = CreditFreeze(vt[t], call[c].now)
      BY <1>1, <2>1, <2>2
    <3> QED BY <1>1, <2>1, <3>1, <3>2 DEF SameClock, CreditFreeze, TaskFields
  <2>3. CASE call[c].tsk # t
    <3>1. vt'[t] = vt[t]
      BY <1>1, <2>1, <2>3
    <3> QED BY <1>1, <2>1, <3>1 DEF SameClock, TaskFields
  <2> QED BY <2>2, <2>3
<1>5. CASE UnfreezeClear(c)
  <2>1. wall' = wall /\ obs' = obs /\ call[c].tsk \in Task
    BY <1>1, <1>5 DEF UnfreezeClear, At, TypeOK
  <2>2. CASE call[c].tsk = t
    <3>1. vt'[t] = [vt[t] EXCEPT !.freeze_start = 0]
      BY <1>5, <2>2 DEF UnfreezeClear
    <3> QED BY <1>1, <2>1, <3>1 DEF SameClock, TaskFields
  <2>3. CASE call[c].tsk # t
    <3>1. t \notin Descendants(call[c].tsk)
      BY <1>1, <2>1, <2>3, WalkApart DEF Descendants, Leader
    <3>2. vt'[t] = vt[t]
      BY <1>5, <2>3, <3>1 DEF UnfreezeClear
    <3> QED BY <1>1, <2>1, <3>2 DEF SameClock, TaskFields
  <2> QED BY <2>2, <2>3
<1> QED BY <1>2, <1>3, <1>4, <1>5 DEF CallStep

LEMMA ClockMoves ==
  ASSUME IInv, [Next]_vars, Orderly, ~SMP, ~Redilates, NEW c \in Caller,
         Caller = {c}, NEW t \in Task, Leader(t)
  PROVE  Tick \/ ReadsOwn(t) \/ Enters(t) \/ Leaves(t) \/ SameClock(t)
<1> USE TaskAssumption
<1>1. /\ TypeOK /\ Phase(c, t) /\ vt[t] \in TaskFields /\ call[c].pc \in CallStates
      /\ vt \in [Task -> TaskFields] /\ wall \in Int /\ obs \in [Task -> [stopped: Nat, latency: Nat, seen: Int]]
  BY DEF IInv, PhaseInv, TypeOK
<1>2. ASSUME vt'[t] = vt[t], obs'[t] = obs[t], wall' = wall PROVE SameClock(t)
  BY <1>1, <1>2 DEF SameClock, TaskFields
<1>3. ASSUME NEW u \in Task, GetTime(u) PROVE ReadsOwn(t) \/ SameClock(t)
  <2>1. CASE u # t
    BY <1>1, <1>2, <1>3, <2>1 DEF GetTime
  <2>2. CASE u = t
    <3>1. run[t] = "running"
      BY <1>1, <1>3, <2>2 DEF GetTime, Executing, Phase
    <3>2. /\ vt[t].freeze_start = 0
          /\ call[c].tsk = t => call[c].pc \notin {"f_mark", "u_credit"}
      <4>1. call[c].tsk = t => call[c].pc # "idle"
        BY <1>1 DEF TypeOK
      <4>2. CASE call[c].tsk = t
        BY <1>1, <3>1, <4>1, <4>2 DEF Phase, At, CallStates
      <4>3. CASE call[c].tsk # t
        BY <1>1, <3>1, <4>3 DEF Phase, TaskFields
      <4> QED BY <4>2, <4>3
    <3>3. /\ wall' = wall /\ vt'[t] = KeepTime(vt[t], wall)
          /\ obs'[t].stopped = obs[t].stopped /\ obs'[t].latency = obs[t].latency
          /\ obs'[t].seen = TimeOfDay(vt[t], wall)
      BY <1>1, <1>3, <2>2 DEF GetTime
    <3> QED BY <3>1, <3>2, <3>3 DEF ReadsOwn
  <2> QED BY <2>1, <2>2
<1>4. ASSUME NEW u \in Task, UnshareVirtualTime(u) PROVE Enters(t) \/ SameClock(t)
  <2>1. CASE u # t
    BY <1>1, <1>2, <1>4, <2>1 DEF UnshareVirtualTime
  <2>2. CASE u = t
    <3>1. vt[t] = NoVirtualTime
      BY <1>4, <2>2 DEF UnshareVirtualTime
    <3>2. ~InVT(vt[t])
      BY <3>1 DEF InVT, NoVirtualTime
    <3>3. vt'[t] = InitVirtualStartTime(vt[t], One, wall)
      BY <1>1, <1>4, <2>2, <3>2 DEF UnshareVirtualTime, TimeOfDay
    <3>4. obs'[t] = Afresh(obs[t]) /\ wall' = wall
      BY <1>1, <1>4, <2>2 DEF UnshareVirtualTime
    <3>5. One \in TDFs \union {One} /\ One > 0
      BY DEF One
    <3> QED BY <3>2, <3>3, <3>4, <3>5 DEF Enters
  <2> QED BY <2>1, <2>2
<1>5. ASSUME NEW p \in Task,
             (\E q \in Task : ForkCopy(p, q)) \/ ForkLink(p) \/ ForkAbort(p)
      PROVE  SameClock(t)
  <2>1. ForkAbort(p) => copy[p] # t
    BY DEF ForkAbort, IInv, ForkInv, Leader
  <2>2. \A q \in Task : ForkCopy(p, q) => q # t
    BY DEF ForkCopy, Leader, Born
  <2> QED BY <1>1, <1>2, <1>5, <2>1, <2>2 DEF ForkCopy, ForkLink, ForkAbort
<1>6. CASE UNCHANGED <<wall, vt, obs>>
  BY <1>2, <1>6
<1>7. ASSUME NEW w \in Task \union {Nobody}, NEW u \in Task, NEW tdf \in TDFs,
             DilationWrite(w, u, tdf)
      PROVE  SameClock(t) \/ Enters(t) \/ Leaves(t)
  BY <1>7, DilationMoves
<1>8. CASE CallStep(c)
  BY <1>8, CallMoves
<1> QED
  BY <1>3, <1>4, <1>5, <1>6, <1>7, <1>8
     DEF Next, vars, TakeStop, FreezeWrite, UnfreezeWrite

\* For a leader that runs, the time it was stopped is the time credited to it.
LEMMA RunningIsCredited ==
  ASSUME IInv, NEW c \in Caller, Caller = {c}, NEW t \in Task, Leader(t),
         ReadsOwn(t), InVT(vt[t])
  PROVE  vt[t].freeze_past = obs[t].stopped - obs[t].latency
<1>1. Credited(c, t) /\ vt[t].freeze_past \in Int
  BY DEF IInv, ExactCredit, TypeOK, TaskFields
<1>2. Uncredited(c, t) = 0
  BY DEF Uncredited, ReadsOwn, At
<1> QED BY <1>1, <1>2 DEF Credited

\* One reading accounts for a stretch that is not negative.
LEMMA ReadingMoves ==
  ASSUME IInv, NEW c \in Caller, Caller = {c}, NEW t \in Task, Leader(t),
         ReadsOwn(t), InVT(vt[t]), Accounted(t)
  PROVE  \E d, v \in Nat :
           /\ v * vt[t].dilation <= d * One
           /\ vt[t].dilation >= One => v <= d
           /\ vt'[t].physical_past = vt[t].physical_past + d
           /\ vt'[t].virtual_past = vt[t].virtual_past + v
           /\ d = wall - vt[t].physical_past - vt[t].physical_start - vt[t].freeze_past
           /\ vt'[t].physical_start = vt[t].physical_start
           /\ vt'[t].virtual_start = vt[t].virtual_start
           /\ vt'[t].freeze_past = vt[t].freeze_past
           /\ vt'[t].dilation = vt[t].dilation
           /\ obs'[t].seen = vt[t].virtual_start + vt[t].virtual_past + v
<1> DEFINE d == DeltaPhysical(vt[t], wall)
           v == DeltaVirtual(d, vt[t].dilation)
<1>1. vt[t] \in TaskFields /\ wall \in Int /\ obs[t].stopped \in Int /\ obs[t].latency \in Int
  BY DEF IInv, TypeOK
<1>2. vt[t].freeze_past = obs[t].stopped - obs[t].latency
  BY RunningIsCredited
<1>3. d = wall - vt[t].physical_past - vt[t].physical_start - vt[t].freeze_past
  BY DEF DeltaPhysical
<1>4. d \in Nat
  BY <1>1, <1>2, <1>3 DEF Accounted, TaskFields
<1>5. /\ v \in Nat /\ v * vt[t].dilation <= d * One
      /\ vt[t].dilation >= One => v <= d
  BY <1>1, <1>4, DeltaVirtualBound DEF TaskFields
<1>6. KeepTime(vt[t], wall) =
        [dilation       |-> vt[t].dilation,
         virtual_start  |-> vt[t].virtual_start,
         virtual_past   |-> vt[t].virtual_past + v,
         physical_start |-> vt[t].physical_start,
         physical_past  |-> vt[t].physical_past + d,
         freeze_start   |-> vt[t].freeze_start,
         freeze_past    |-> vt[t].freeze_past]
  BY DEF KeepTime
<1> HIDE DEF d, v
<1>7. obs'[t].seen = vt[t].virtual_start + (vt[t].virtual_past + v)
  BY <1>6 DEF ReadsOwn, TimeOfDay
<1>8. obs'[t].seen = vt[t].virtual_start + vt[t].virtual_past + v
  BY <1>1, <1>5, <1>7 DEF TaskFields
<1> QED BY <1>3, <1>4, <1>5, <1>6, <1>8 DEF ReadsOwn

LEMMA FactorType ==
  ASSUME NEW tdf \in TDFs \union {One}, tdf > 0 PROVE tdf \in Nat
<1>1. CASE tdf = One
  BY <1>1 DEF One
<1>2. CASE tdf \in TDFs
  <2>1. tdf \in Int
    BY <1>2, TaskAssumption
  <2> QED BY <2>1
<1> QED BY <1>1, <1>2

LEMMA AccountedStep ==
  ASSUME IInv, [Next]_vars, Orderly, ~SMP, ~Redilates, NEW c \in Caller,
         Caller = {c}, NEW t \in Task, Leader(t), Accounted(t)
  PROVE  Accounted(t)'
<1>1. /\ vt[t] \in TaskFields /\ wall \in Nat /\ wall > 0
      /\ obs[t].stopped \in Nat /\ obs[t].latency \in Nat
  BY DEF IInv, TypeOK
<1>2. CASE Tick
  <2>1. vt' = vt /\ wall' = wall + 1
    BY <1>2 DEF Tick
  <2>2. CASE run[t] = "stopped"
    <3>1. /\ obs'[t].stopped = obs[t].stopped + 1
          /\ obs'[t].latency = obs[t].latency + IF Inside(t) THEN 1 ELSE 0
      BY <1>2, <2>2 DEF Tick
    <3>2. obs'[t].latency \in Nat /\ obs'[t].latency >= obs[t].latency
      BY <1>1, <3>1
    <3> QED BY <1>1, <2>1, <3>1, <3>2 DEF Accounted, InVT, TaskFields
  <2>3. CASE run[t] # "stopped"
    <3>1. obs'[t] = obs[t]
      BY <1>2, <2>3 DEF Tick
    <3> QED BY <1>1, <2>1, <3>1 DEF Accounted, InVT, TaskFields
  <2> QED BY <2>2, <2>3
<1>3. CASE ReadsOwn(t)
  <2>1. CASE ~InVT(vt[t])
    <3>1. vt'[t] = vt[t] /\ wall' = wall
      BY <1>3, <2>1 DEF ReadsOwn, KeepTime
    <3> QED BY <2>1, <3>1 DEF Accounted
  <2>2. CASE InVT(vt[t])
    <3>1. PICK d \in Nat, v \in Nat :
           /\ v * vt[t].dilation <= d * One
           /\ vt'[t].physical_past = vt[t].physical_past + d
           /\ vt'[t].virtual_past = vt[t].virtual_past + v
           /\ d = wall - vt[t].physical_past - vt[t].physical_start - vt[t].freeze_past
           /\ vt'[t].physical_start = vt[t].physical_start
           /\ vt'[t].virtual_start = vt[t].virtual_start
           /\ vt'[t].freeze_past = vt[t].freeze_past
           /\ vt'[t].dilation = vt[t].dilation
      BY <1>3, <2>2, ReadingMoves
    <3>2. vt[t].freeze_past = obs[t].stopped - obs[t].latency
      BY <1>3, <2>2, RunningIsCredited
    <3>3. vt'[t].virtual_past * vt'[t].dilation <= vt'[t].physical_past * One
      <4>1. \A a, b, x, y, m \in Int :
              a * m <= b * One /\ x * m <= y * One => (a + x) * m <= (b + y) * One
        BY DEF One
      <4>2. vt[t].virtual_past * vt[t].dilation <= vt[t].physical_past * One
        BY <2>2 DEF Accounted
      <4>3. /\ vt[t].virtual_past \in Int /\ vt[t].physical_past \in Int
            /\ vt[t].dilation \in Int /\ d \in Int /\ v \in Int
        BY <1>1 DEF TaskFields
      <4>4. (vt[t].virtual_past + v) * vt[t].dilation <= (vt[t].physical_past + d) * One
        <5>1. v * vt[t].dilation <= d * One
          BY <3>1
        <5> HIDE DEF One
        <5> QED BY <4>1, <4>2, <4>3, <5>1
      <4> QED BY <3>1, <4>4
    <3>4. obs'[t].stopped - obs'[t].latency
            <= wall - vt'[t].physical_start - vt'[t].physical_past
      BY <1>1, <1>3, <3>1, <3>2 DEF ReadsOwn, TaskFields
    <3>5. wall' = wall
      BY <1>3 DEF ReadsOwn
    <3> QED BY <1>1, <2>2, <3>1, <3>3, <3>4, <3>5 DEF Accounted, TaskFields
  <2> QED BY <2>1, <2>2
<1>4. CASE Enters(t)
  <2>1. /\ vt'[t].freeze_past = 0 /\ vt'[t].physical_start = wall
        /\ vt'[t].virtual_start = wall /\ vt'[t].physical_past = 0
        /\ vt'[t].virtual_past = 0 /\ vt'[t].dilation \in Nat
        /\ obs'[t].stopped = 0 /\ obs'[t].latency = 0 /\ wall' = wall
    <3>1. PICK tdf \in TDFs \union {One} :
             tdf > 0 /\ vt'[t] = InitVirtualStartTime(vt[t], tdf, wall)
      BY <1>4 DEF Enters
    <3>2. tdf \in Nat
      BY <3>1, FactorType
    <3> QED BY <1>4, <3>1, <3>2 DEF Enters, InitVirtualStartTime, Afresh
  <2>2. vt'[t].virtual_past * vt'[t].dilation <= vt'[t].physical_past * One
    <3>1. \A m \in Nat : 0 * m <= 0 * One
      BY DEF One
    <3> QED BY <2>1, <3>1
  <2>3. obs'[t].stopped - obs'[t].latency <= wall' - vt'[t].physical_start - vt'[t].physical_past
    BY <1>1, <2>1
  <2> QED BY <2>1, <2>2, <2>3 DEF Accounted
<1>5. CASE Leaves(t)
  BY <1>5 DEF Leaves, Accounted, NoVirtualTime, InVT
<1>6. CASE SameClock(t)
  <2>1. vt'[t].freeze_past \in Int
    <3>1. TypeOK'
      BY TypeStep DEF IInv
    <3> QED BY <3>1 DEF TypeOK, TaskFields
  <2> QED BY <1>1, <1>6, <2>1 DEF SameClock, Accounted, InVT, TaskFields
<1> QED BY <1>2, <1>3, <1>4, <1>5, <1>6, ClockMoves

ClockInv == IInv /\ \A t \in Task : Leader(t) => Accounted(t)

LEMMA ClockInit == Init => ClockInv
BY TypeInit, ForkInit, PhaseInit
   DEF ClockInv, IInv, Init, Accounted, InVT, NoVirtualTime

LEMMA ClockStep ==
  ASSUME ClockInv, [Next]_vars, Orderly, ~SMP, ~Redilates,
         NEW c \in Caller, Caller = {c}
  PROVE  ClockInv'
<1>1. IInv'
  BY InvStep DEF ClockInv
<1>2. ASSUME NEW t \in Task, Leader(t)' PROVE Accounted(t)'
  <2>1. Leader(t)
    BY <1>2, LeaderSame DEF ClockInv, IInv
  <2> QED BY <2>1, AccountedStep DEF ClockInv
<1> QED BY <1>1, <1>2 DEF ClockInv

\* No reading by a leader finds a negative stretch of time to account for: what
\* is frozen and credited never exceeds what has passed, whatever the factors.
THEOREM StretchesArePositive ==
  ASSUME Orderly, ~SMP, ~Redilates, NEW c \in Caller, Caller = {c}
  PROVE  Spec => []NoNegativeStretch
<1>1. Init => ClockInv
  BY ClockInit
<1>2. ClockInv /\ [Next]_vars => ClockInv'
  BY ClockStep
<1>3. ClockInv => NoNegativeStretch
  <2> SUFFICES ASSUME ClockInv, NEW t \in Task, Leader(t), InVT(vt[t])
               PROVE  DeltaPhysical(vt[t], wall) >= Uncredited(c, t)
    BY DEF NoNegativeStretch
  <2>1. /\ vt[t] \in TaskFields /\ wall \in Int /\ obs[t].stopped \in Int
        /\ obs[t].latency \in Int /\ call[c].now \in Int
    BY DEF ClockInv, IInv, TypeOK
  <2>2. Uncredited(c, t) \in Int
    BY <2>1 DEF Uncredited, TaskFields
  <2>3. vt[t].freeze_past + Uncredited(c, t) = obs[t].stopped - obs[t].latency
    BY DEF ClockInv, IInv, ExactCredit, Credited
  <2>4. obs[t].stopped - obs[t].latency
          <= wall - vt[t].physical_start - vt[t].physical_past
    BY DEF ClockInv, Accounted
  <2> QED BY <2>1, <2>2, <2>3, <2>4 DEF DeltaPhysical, TaskFields
<1> QED BY <1>1, <1>2, <1>3, PTL DEF Spec

\* The remainders that the divisions drop make a dilated clock late, never early.
THEOREM DilatedClockIsLate ==
  ASSUME Orderly, ~SMP, ~Redilates, NEW c \in Caller, Caller = {c}
  PROVE  Spec => []VirtualPastBehind
<1>1. Init => ClockInv
  BY ClockInit
<1>2. ClockInv /\ [Next]_vars => ClockInv'
  BY ClockStep
<1>3. ClockInv => VirtualPastBehind
  BY DEF ClockInv, Accounted, VirtualPastBehind
<1> QED BY <1>1, <1>2, <1>3, PTL DEF Spec

-----------------------------------------------------------------------------
(***************************************************************************)
(* With factors of at least 1.0 a leader's clock is never ahead of the     *)
(* wall, and so never goes back when the leader leaves virtual time.       *)
(***************************************************************************)
Slow == \A tdf \in TDFs : tdf > 0 => tdf >= One

\* What a leader has read is behind what it would read now.
Behind(t) ==
  LET r == vt[t] IN
  IF InVT(r)
    THEN /\ r.dilation >= One
         /\ r.virtual_past <= r.physical_past
         /\ obs[t].seen <= r.virtual_start + r.virtual_past
    ELSE obs[t].seen <= wall

LEMMA BehindWall ==
  ASSUME ClockInv, NEW c \in Caller, Caller = {c},
         NEW t \in Task, Leader(t), Behind(t)
  PROVE  obs[t].seen <= wall
<1>1. /\ vt[t] \in TaskFields /\ wall \in Int /\ obs[t].stopped \in Int
      /\ obs[t].latency \in Int /\ call[c].now \in Int /\ obs[t].seen \in Int
  BY DEF ClockInv, IInv, TypeOK
<1>2. Accounted(t) /\ Phase(c, t) /\ Credited(c, t)
  BY DEF ClockInv, IInv, PhaseInv, ExactCredit
<1>3. Uncredited(c, t) \in Int /\ Uncredited(c, t) >= 0
  BY <1>1, <1>2 DEF Uncredited, Phase, TaskFields
<1>4. CASE InVT(vt[t])
  <2>1. obs[t].stopped - obs[t].latency >= 0
    BY <1>1, <1>2, <1>3, <1>4 DEF Accounted, Credited, TaskFields
  <2>2. /\ obs[t].seen <= vt[t].virtual_start + vt[t].virtual_past
        /\ vt[t].virtual_past <= vt[t].physical_past
    BY <1>4 DEF Behind
  <2>3. /\ vt[t].virtual_start = vt[t].physical_start
        /\ obs[t].stopped - obs[t].latency
             <= wall - vt[t].physical_start - vt[t].physical_past
    BY <1>2, <1>4 DEF Accounted
  <2> QED BY <1>1, <2>1, <2>2, <2>3 DEF TaskFields
<1>5. CASE ~InVT(vt[t])
  BY <1>5 DEF Behind
<1> QED BY <1>4, <1>5

LEMMA BehindStep ==
  ASSUME ClockInv, [Next]_vars, Orderly, ~SMP, ~Redilates, Slow,
         NEW c \in Caller, Caller = {c}, NEW t \in Task, Leader(t), Behind(t)
  PROVE  Behind(t)' /\ ClockNeverGoesBack(t)
<1>1. /\ vt[t] \in TaskFields /\ wall \in Nat /\ obs[t].seen \in Int
      /\ IInv /\ Accounted(t)
  BY DEF ClockInv, IInv, TypeOK
<1>2. obs[t].seen <= wall
  BY BehindWall
<1>3. CASE Tick
  <2>1. vt' = vt /\ wall' = wall + 1 /\ obs'[t].seen = obs[t].seen
    BY <1>3 DEF Tick
  <2> QED BY <1>1, <1>2, <2>1 DEF Behind, InVT, ClockNeverGoesBack
<1>4. CASE ReadsOwn(t)
  <2>1. CASE ~InVT(vt[t])
    <3>1. vt'[t] = vt[t] /\ wall' = wall /\ obs'[t].seen = wall
      BY <1>4, <2>1 DEF ReadsOwn, KeepTime, TimeOfDay
    <3> QED BY <1>1, <1>2, <2>1, <3>1 DEF Behind, ClockNeverGoesBack, InVT
  <2>2. CASE InVT(vt[t])
    <3>1. PICK d \in Nat, v \in Nat :
           /\ vt[t].dilation >= One => v <= d
           /\ vt'[t].physical_past = vt[t].physical_past + d
           /\ vt'[t].virtual_past = vt[t].virtual_past + v
           /\ vt'[t].virtual_start = vt[t].virtual_start
           /\ vt'[t].dilation = vt[t].dilation
           /\ obs'[t].seen = vt[t].virtual_start + vt[t].virtual_past + v
      BY <1>1, <1>4, <2>2, ReadingMoves
    <3>2. /\ vt[t].dilation >= One /\ vt[t].virtual_past <= vt[t].physical_past
          /\ obs[t].seen <= vt[t].virtual_start + vt[t].virtual_past
      BY <2>2 DEF Behind
    <3>3. obs'[t].seen = vt'[t].virtual_start + vt'[t].virtual_past
      BY <1>1, <3>1 DEF TaskFields
    <3>4. vt'[t].virtual_past <= vt'[t].physical_past
      BY <1>1, <3>1, <3>2 DEF TaskFields
    <3>5. obs'[t].seen >= obs[t].seen
      BY <1>1, <3>1, <3>2 DEF TaskFields
    <3>6. obs'[t].seen <= vt'[t].virtual_start + vt'[t].virtual_past
      BY <1>1, <3>1, <3>3 DEF TaskFields
    <3>7. InVT(vt[t])' /\ vt'[t].dilation >= One
      BY <2>2, <3>1, <3>2 DEF InVT
    <3> QED BY <3>4, <3>5, <3>6, <3>7 DEF Behind, ClockNeverGoesBack
  <2> QED BY <2>1, <2>2
<1>5. CASE Enters(t)
  <2>1. PICK tdf \in TDFs \union {One} :
           tdf > 0 /\ vt'[t] = InitVirtualStartTime(vt[t], tdf, wall)
    BY <1>5 DEF Enters
  <2>2. tdf >= One
    BY <2>1 DEF Slow, One
  <2>3. /\ vt'[t].dilation = tdf /\ vt'[t].virtual_start = wall
        /\ vt'[t].virtual_past = 0 /\ vt'[t].physical_past = 0
        /\ obs'[t].seen = obs[t].seen /\ wall' = wall
    BY <1>5, <2>1 DEF Enters, InitVirtualStartTime, Afresh
  <2> QED BY <1>1, <1>2, <2>2, <2>3 DEF Behind, ClockNeverGoesBack
<1>6. CASE Leaves(t)
  <2>1. /\ ~InVT(vt'[t]) /\ wall' = wall /\ obs'[t].seen = obs[t].seen
    BY <1>6 DEF Leaves, NoVirtualTime, InVT, Afresh
  <2> QED BY <1>1, <1>2, <2>1 DEF Behind, ClockNeverGoesBack, InVT
<1>7. CASE SameClock(t)
  BY <1>1, <1>7 DEF SameClock, Behind, ClockNeverGoesBack, InVT
<1> QED BY <1>1, <1>3, <1>4, <1>5, <1>6, <1>7, ClockMoves

ReadingInv == ClockInv /\ \A t \in Task : Leader(t) => Behind(t)

LEMMA ReadingInit == Init => ReadingInv
BY ClockInit DEF ReadingInv, Init, Behind, InVT, NoVirtualTime, Unobserved

LEMMA ReadingStep ==
  ASSUME ReadingInv, [Next]_vars, Orderly, ~SMP, ~Redilates, Slow,
         NEW c \in Caller, Caller = {c}
  PROVE  ReadingInv' /\ \A t \in Task : Leader(t) => ClockNeverGoesBack(t)
<1>1. ClockInv'
  BY ClockStep DEF ReadingInv
<1>2. ASSUME NEW t \in Task, Leader(t)' PROVE Behind(t)'
  <2>1. Leader(t)
    BY <1>2, LeaderSame DEF ReadingInv, ClockInv, IInv
  <2> QED BY <2>1, BehindStep DEF ReadingInv
<1>3. \A t \in Task : Leader(t) => ClockNeverGoesBack(t)
  BY BehindStep DEF ReadingInv
<1> QED BY <1>1, <1>2, <1>3 DEF ReadingInv

\* With factors of at least 1.0 no leader reads a time later than the wall clock.
THEOREM LateAtMost ==
  ASSUME Orderly, ~SMP, ~Redilates, Slow, NEW c \in Caller, Caller = {c}
  PROVE  Spec => []NeverAheadOfWall
<1>1. Init => ReadingInv
  BY ReadingInit
<1>2. ReadingInv /\ [Next]_vars => ReadingInv'
  BY ReadingStep
<1>3. ReadingInv => NeverAheadOfWall
  BY BehindWall DEF ReadingInv, NeverAheadOfWall
<1> QED BY <1>1, <1>2, <1>3, PTL DEF Spec

\* No leader reads a time earlier than one it has read, across freezes and across
\* entering and leaving virtual time.
THEOREM LeadersNeverGoBack ==
  ASSUME Orderly, ~SMP, ~Redilates, Slow, NEW c \in Caller, Caller = {c}
  PROVE  Spec => LeaderClockMonotone
<1>1. Init => ReadingInv
  BY ReadingInit
<1>2. ReadingInv /\ [Next]_vars => ReadingInv'
  BY ReadingStep
<1>3. ReadingInv /\ [Next]_vars
        => [\A t \in Task : Leader(t) => ClockNeverGoesBack(t)]_vars
  BY ReadingStep
<1> QED BY <1>1, <1>2, <1>3, PTL DEF Spec, LeaderClockMonotone

-----------------------------------------------------------------------------
(***************************************************************************)
(* The walk down the lists of children.                                    *)
(***************************************************************************)
LEMMA WalkStarts == ASSUME NEW t \in Task, NEW D PROVE t \in Walk(t, D)
BY DEF Walk

\* It goes on to the children of whoever is in through,
LEMMA WalkGoesDown ==
  ASSUME NEW t \in Task, NEW D, NEW p \in Walk(t, D), p \in D,
         NEW d \in Task, parent[d] = p
  PROVE  d \in Walk(t, D)
<1> SUFFICES ASSUME NEW S \in SUBSET Task, t \in S,
                    \A c \in Task : parent[c] \in S \intersect D => c \in S
             PROVE  d \in S
  BY DEF Walk
<1>1. p \in S
  BY DEF Walk
<1> QED BY <1>1

\* and reaches nobody but by way of the parent.
LEMMA WalkComesFrom ==
  ASSUME NEW t \in Task, NEW D, NEW d \in Walk(t, D), d # t
  PROVE  parent[d] \in Walk(t, D) /\ parent[d] \in D
<1> SUFFICES ASSUME ~(parent[d] \in Walk(t, D) /\ parent[d] \in D) PROVE FALSE
  OBVIOUS
<1> DEFINE S == Walk(t, D) \ {d}
<1>1. S \in SUBSET Task /\ t \in S /\ d \in Task
  BY WalkStarts DEF Walk
<1>2. ASSUME NEW c \in Task, parent[c] \in S \intersect D PROVE c \in S
  <2>1. c \in Walk(t, D)
    BY <1>2, WalkGoesDown
  <2>2. c # d
    BY <1>2
  <2> QED BY <2>1, <2>2
<1>3. d \notin S
  OBVIOUS
<1> HIDE DEF S
<1> QED BY <1>1, <1>2, <1>3 DEF Walk

\* It stays within any set that the children of its members belong to.
LEMMA WalkWithin ==
  ASSUME NEW t \in Task, NEW D, NEW S \in SUBSET Task, t \in S,
         \A c \in Task : parent[c] \in S => c \in S
  PROVE  Walk(t, D) \subseteq S
BY DEF Walk

-----------------------------------------------------------------------------
(***************************************************************************)
(* The invariant: calls are about leaders, and a process whose parent left *)
(* virtual time while it was being forked has everything below it inside.  *)
(***************************************************************************)
CallsLead == \A c \in Caller : call[c].tsk \in Task => Leader(call[c].tsk)

Apart(t) ==
  parent[t] # Nobody /\ vt[t].dilation # 0 /\ vt[parent[t]].dilation = 0

\* S holds every process that is apart and every process below one, and they are
\* all in virtual time, with the copies that they are forking.
Strays(S) ==
  /\ \A t \in Task : parent[t] \in S \/ Apart(t) => t \in S
  /\ \A t \in S : /\ Born(t) /\ vt[t].dilation # 0
                  /\ copy[t] # Nobody => vt[copy[t]].dilation # 0

FamilyInv ==
  /\ TypeOK
  /\ ForkInv
  /\ CallsLead
  /\ \E S \in SUBSET Task : Strays(S)

LEMMA FamilyInit == Init => FamilyInv
<1> SUFFICES ASSUME Init PROVE FamilyInv
  OBVIOUS
<1>1. TypeOK /\ ForkInv
  BY TypeInit, ForkInit
<1>2. CallsLead
  BY TaskAssumption DEF CallsLead, Init, Idle
<1>3. Strays({})
  BY DEF Strays, Apart, Init
<1> QED BY <1>1, <1>2, <1>3 DEF FamilyInv

LEMMA CallsLeadStep ==
  ASSUME TypeOK, ForkInv, CallsLead, Orderly, [Next]_vars
  PROVE  CallsLead'
<1>1. ASSUME NEW c \in Caller, call'[c].tsk \in Task
      PROVE  call'[c].tsk = call[c].tsk \/ Leader(call'[c].tsk)
  <2>1. ASSUME NEW b \in Caller, NEW u \in Task, FreezeWrite(b, u) \/ UnfreezeWrite(b, u)
        PROVE  call'[c].tsk = call[c].tsk \/ (call'[c].tsk = u /\ Leader(u))
    BY <2>1 DEF FreezeWrite, UnfreezeWrite, OrderlyFreeze, TypeOK
  <2>2. ASSUME NEW b \in Caller, CallStep(b)
        PROVE  call'[c].tsk = call[c].tsk \/ call'[c].tsk = Nobody
    BY <2>2 DEF CallStep, FreezeStop, FreezeStamp, FreezeMark, UnfreezeCredit,
                UnfreezeClear, UnfreezeContinue, Goto, Return, Idle, TypeOK
  <2> QED BY <1>1, <2>1, <2>2, TaskAssumption
          DEF Next, vars, Tick, GetTime, UnshareVirtualTime, TakeStop, ForkCopy,
              ForkLink, ForkAbort, DilationWrite
<1>2. \A c \in Caller : call'[c].tsk \in Task => Leader(call'[c].tsk)
  BY <1>1 DEF CallsLead
<1>3. Lasting
  BY ForkStep
<1>4. ASSUME NEW c \in Caller, call'[c].tsk \in Task PROVE Leader(call[c].tsk)'
  <2>1. Leader(call'[c].tsk)
    BY <1>2, <1>4
  <2>2. run'[call'[c].tsk] # "unborn" /\ parent'[call'[c].tsk] = Nobody
    BY <1>3, <1>4, <2>1 DEF Leader, Lasting, Born
  <2> QED BY <2>2 DEF Leader, Born
<1> QED BY <1>4 DEF CallsLead

-----------------------------------------------------------------------------
(***************************************************************************)
(* What set_dilation() does to a family: it takes it out of virtual time   *)
(* as far as it walks, or brings in all of those that are outside.         *)
(***************************************************************************)
LEMMA DilationEffect ==
  ASSUME TypeOK, ForkInv, Orderly, ~Redilates,
         NEW w \in Task \union {Nobody}, NEW u \in Task, NEW tdf \in TDFs,
         DilationWrite(w, u, tdf)
  PROVE  /\ parent' = parent /\ copy' = copy /\ run' = run /\ call' = call
         /\ Leader(u) /\ (vt[u].dilation = 0 \/ tdf = 0)
         /\ \A d \in Task : d \notin Dilated(u, tdf) => vt'[d] = vt[d]
         /\ \A d \in Task : parent[d] = Nobody /\ d # u => d \notin Dilated(u, tdf)
         /\ \A d \in Task : d \in Dilated(u, tdf) /\ d # u =>
              parent[d] \in Dilated(u, tdf)
         /\ tdf = 0 =>
              /\ \A d \in Task : d \in Dilated(u, tdf) => vt'[d].dilation = 0
              /\ \A d \in Task : /\ parent[d] \in Dilated(u, tdf)
                                 /\ vt[parent[d]].dilation # 0
                                 => d \in Dilated(u, tdf)
         /\ tdf # 0 => \A d \in Task :
              /\ vt[d].dilation # 0 =>
                   vt'[d].dilation # 0 /\ vt'[d].freeze_past = vt[d].freeze_past
              /\ vt[d].dilation = 0 /\ d \in Dilated(u, tdf) =>
                   \/ vt'[d] = vt[d] /\ ~(tdf > 0)
                   \/ vt'[d].dilation = tdf /\ vt'[d].freeze_past = 0 /\ tdf > 0
<1> DEFINE D == {d \in Task : vt[d].dilation # tdf /\ ~RefusesDilation(vt[d], tdf)}
           all == Walk(u, D)
<1>1. /\ WriterTime(w) = wall /\ parent' = parent /\ copy' = copy
      /\ run' = run /\ call' = call /\ Leader(u) /\ (vt[u].dilation = 0 \/ tdf = 0)
  BY DEF DilationWrite, WriterTime, TimeOfDay
<1>2. \A d \in Task : d = w => KeepTime(vt[d], wall) = vt[d]
  BY TaskAssumption DEF DilationWrite, KeepTime
<1>3. all = Dilated(u, tdf)
  BY DEF Dilated
<1>4. vt' = [d \in Task |-> IF d \in all THEN SetDilation(vt[d], tdf, wall)
                                         ELSE vt[d]]
  BY <1>1, <1>2, <1>3 DEF DilationWrite
<1>5. tdf \in Int /\ \A d \in Task : vt[d] \in TaskFields /\ vt[d].dilation \in Nat
  BY TaskAssumption DEF TypeOK, TaskFields
<1>6. \A d \in Task : d \notin all => vt'[d] = vt[d]
  BY <1>4
<1>7. \A d \in Task : parent[d] = Nobody /\ d # u => d \notin all
  BY WalkApart
<1>8. \A d \in Task : d \in all /\ d # u => parent[d] \in all
  BY WalkComesFrom
<1>9. ASSUME tdf = 0, NEW d \in Task, d \in all PROVE vt'[d].dilation = 0
  <2>1. vt'[d] = SetDilation(vt[d], tdf, wall)
    BY <1>4, <1>9
  <2>2. CASE vt[d].dilation = 0
    BY <1>9, <2>1, <2>2 DEF SetDilation
  <2>3. CASE vt[d].dilation # 0
    BY <1>9, <2>1, <2>3 DEF SetDilation, RefusesDilation, NoVirtualTime
  <2> QED BY <2>2, <2>3
<1>10. ASSUME tdf = 0, NEW d \in Task, parent[d] \in all, vt[parent[d]].dilation # 0
       PROVE  d \in all
  <2>1. parent[d] \in D
    BY <1>10 DEF RefusesDilation, Walk
  <2> HIDE DEF D
  <2> QED BY <1>10, <2>1, WalkGoesDown
<1>11. ASSUME tdf # 0, NEW d \in Task, vt[d].dilation # 0
       PROVE  vt'[d].dilation # 0 /\ vt'[d].freeze_past = vt[d].freeze_past
  <2>1. CASE d \notin all \/ vt[d].dilation = tdf \/ RefusesDilation(vt[d], tdf)
    <3>1. vt'[d] = vt[d]
      BY <1>4, <2>1 DEF SetDilation
    <3> QED BY <1>11, <3>1
  <2>2. CASE d \in all /\ vt[d].dilation # tdf /\ ~RefusesDilation(vt[d], tdf)
    <3>1. vt'[d] = Redilate(vt[d], tdf, wall)
      BY <1>4, <1>11, <2>2 DEF SetDilation
    <3> QED BY <1>11, <3>1 DEF Redilate
  <2> QED BY <2>1, <2>2
<1>12. ASSUME tdf # 0, NEW d \in Task, vt[d].dilation = 0, d \in all
       PROVE  \/ vt'[d] = vt[d] /\ ~(tdf > 0)
              \/ vt'[d].dilation = tdf /\ vt'[d].freeze_past = 0 /\ tdf > 0
  <2>1. vt'[d] = InitVirtualStartTime(vt[d], tdf, wall)
    BY <1>4, <1>12 DEF SetDilation, RefusesDilation
  <2> QED BY <2>1 DEF InitVirtualStartTime
<1> HIDE DEF all, D
<1> QED BY <1>1, <1>3, <1>6, <1>7, <1>8, <1>9, <1>10, <1>11, <1>12

\* When it comes to a process outside virtual time, everything on the way there
\* was outside too.
LEMMA WalkOutside ==
  ASSUME TypeOK, NEW S \in SUBSET Task, Strays(S), NEW u \in Task, NEW D,
         vt[u].dilation = 0, NEW d \in Walk(u, D), vt[d].dilation # 0
  PROVE  d \in S
<1> DEFINE W == S \union {e \in Task : vt[e].dilation = 0}
<1>1. W \in SUBSET Task /\ u \in W
  OBVIOUS
<1>2. \A c \in Task : parent[c] \in W => c \in W
  <2> SUFFICES ASSUME NEW c \in Task, parent[c] \in W PROVE c \in W
    OBVIOUS
  <2>1. parent[c] # Nobody
    BY TaskAssumption
  <2> QED BY <2>1 DEF Strays, Apart
<1> HIDE DEF W
<1>3. Walk(u, D) \subseteq W
  BY <1>1, <1>2, WalkWithin
<1> QED BY <1>3 DEF W

-----------------------------------------------------------------------------
(***************************************************************************)
(* The invariant is kept.                                                  *)
(***************************************************************************)
LEMMA StraysUntouched ==
  ASSUME TypeOK, ForkInv, NEW S \in SUBSET Task, Strays(S),
         parent' = parent, copy' = copy,
         \A t \in Task : Born(t) => Born(t)',
         \A t \in Task : vt'[t].dilation = vt[t].dilation
  PROVE  Strays(S)'
<1>1. \A t \in Task : copy[t] \in Task \union {Nobody} /\ parent[t] \in Task \union {Nobody}
  BY DEF TypeOK
<1>2. \A t \in Task : Apart(t)' => Apart(t)
  BY <1>1 DEF Apart
<1>3. \A t \in S : copy[t] # Nobody => vt'[copy[t]].dilation # 0
  BY <1>1 DEF Strays
<1> QED BY <1>2, <1>3 DEF Strays

LEMMA ForkStrays ==
  ASSUME TypeOK, ForkInv, NEW S \in SUBSET Task, Strays(S), NEW p \in Task,
         (\E c \in Task : ForkCopy(p, c)) \/ ForkLink(p) \/ ForkAbort(p)
  PROVE  \E T \in SUBSET Task : Strays(T)'
<1>1. /\ vt \in [Task -> TaskFields] /\ copy \in [Task -> Task \union {Nobody}]
      /\ parent \in [Task -> Task \union {Nobody}] /\ run \in [Task -> RunStates]
  BY DEF TypeOK
<1>2. ASSUME NEW c \in Task, ForkCopy(p, c) PROVE Strays(S)'
  <2>1. /\ vt' = [vt EXCEPT ![c] = vt[p]] /\ copy' = [copy EXCEPT ![p] = c]
        /\ parent' = parent /\ run' = run
        /\ ~Born(c) /\ p # c /\ \A q \in Task : copy[q] # c
    BY <1>2 DEF ForkCopy, Executing, Born
  <2>2. \A t \in Task : parent[t] # Nobody => t # c /\ parent[t] # c
    BY <2>1 DEF ForkInv
  <2>3. \A t \in Task : Apart(t)' => Apart(t)
    BY <1>1, <2>1, <2>2 DEF Apart
  <2>4. ASSUME NEW t \in S
        PROVE  /\ Born(t)' /\ vt'[t].dilation # 0
               /\ copy'[t] # Nobody => vt'[copy'[t]].dilation # 0
    <3>1. Born(t) /\ vt[t].dilation # 0 /\ t # c
      BY <2>1 DEF Strays
    <3>2. vt'[t] = vt[t] /\ Born(t)'
      BY <1>1, <2>1, <3>1 DEF Born
    <3>3. CASE t = p
      BY <1>1, <2>1, <3>1, <3>2, <3>3
    <3>4. CASE t # p
      <4>1. copy'[t] = copy[t] /\ copy[t] # c
        BY <1>1, <2>1, <3>4
      <4>2. copy[t] # Nobody => vt'[copy[t]] = vt[copy[t]]
        BY <1>1, <2>1, <4>1
      <4> QED BY <3>1, <3>2, <4>1, <4>2 DEF Strays
    <3> QED BY <3>1, <3>2, <3>3, <3>4
  <2> QED BY <2>1, <2>3, <2>4 DEF Strays
<1>3. CASE ForkAbort(p)
  <2> DEFINE c == copy[p]
  <2>1. /\ vt' = [vt EXCEPT ![c] = NoVirtualTime] /\ copy' = [copy EXCEPT ![p] = Nobody]
        /\ parent' = parent /\ run' = run
        /\ ~Born(c) /\ \A q \in Task : copy[q] = c => q = p
    BY <1>3 DEF ForkAbort, ForkInv
  <2> HIDE DEF c
  <2>2. \A t \in Task : parent[t] # Nobody => t # c /\ parent[t] # c
    BY <2>1 DEF ForkInv
  <2>3. \A t \in Task : Apart(t)' => Apart(t)
    BY <1>1, <2>1, <2>2 DEF Apart
  <2>4. ASSUME NEW t \in S
        PROVE  /\ Born(t)' /\ vt'[t].dilation # 0
               /\ copy'[t] # Nobody => vt'[copy'[t]].dilation # 0
    <3>1. Born(t) /\ vt[t].dilation # 0 /\ t # c
      BY <2>1 DEF Strays
    <3>2. vt'[t] = vt[t] /\ Born(t)'
      BY <1>1, <2>1, <3>1 DEF Born
    <3>3. copy'[t] # Nobody => copy'[t] = copy[t] /\ copy[t] # c
      BY <1>1, <2>1
    <3>4. copy'[t] # Nobody => vt'[copy'[t]] = vt[copy[t]]
      BY <1>1, <2>1, <3>3
    <3> QED BY <3>1, <3>2, <3>3, <3>4 DEF Strays
  <2>5. Strays(S)'
    BY <2>1, <2>3, <2>4 DEF Strays
  <2> QED BY <2>5
<1>4. CASE ForkLink(p)
  <2> DEFINE c == copy[p]
             joins == p \in S \/ (vt[c].dilation # 0 /\ vt[p].dilation = 0)
  <2>1. /\ c \in Task /\ c # Nobody /\ parent' = [parent EXCEPT ![c] = p]
        /\ run' = [run EXCEPT ![c] = "running"]
        /\ copy' = [copy EXCEPT ![p] = Nobody] /\ vt' = vt
        /\ ~Born(c) /\ p # c /\ copy[c] = Nobody
    BY <1>1, <1>4 DEF ForkLink, ForkInv
  <2>0. joins => vt[c].dilation # 0
    BY <2>1 DEF Strays
  <2> HIDE DEF c
  <2>7. PICK T \in SUBSET Task : T = IF joins THEN S \union {c} ELSE S
    BY <2>1
  <2>2. \A t \in Task : parent[t] # c
    BY <2>1 DEF ForkInv
  <2>3. \A t \in Task : t # c => parent'[t] = parent[t]
    BY <1>1, <2>1
  <2>4. parent'[c] = p /\ p # Nobody
    BY <1>1, <2>1, TaskAssumption
  <2>5. ASSUME NEW t \in Task, parent'[t] \in T \/ Apart(t)' PROVE t \in T
    <3>1. CASE t = c
      <4>1. p \in T => p \in S
        BY <2>1, <2>7
      <4>2. Apart(t)' => vt[c].dilation # 0 /\ vt[p].dilation = 0
        BY <2>1, <2>4, <3>1 DEF Apart
      <4> QED BY <2>4, <2>5, <2>7, <3>1, <4>1, <4>2
    <3>2. CASE t # c
      <4>1. parent'[t] = parent[t] /\ parent[t] # c
        BY <2>2, <2>3, <3>2
      <4>2. parent[t] \in S \/ Apart(t)
        BY <2>1, <2>5, <2>7, <4>1 DEF Apart
      <4> QED BY <2>7, <4>2 DEF Strays
    <3> QED BY <3>1, <3>2
  <2>6. ASSUME NEW t \in T
        PROVE  /\ Born(t)' /\ vt'[t].dilation # 0
               /\ copy'[t] # Nobody => vt'[copy'[t]].dilation # 0
    <3>1. CASE t = c
      <4>1. joins
        BY <2>1, <2>6, <2>7, <3>1 DEF Strays
      <4>2. copy'[t] = Nobody /\ run'[t] = "running"
        BY <1>1, <2>1, <3>1
      <4> HIDE DEF joins
      <4> QED BY <2>0, <2>1, <3>1, <4>1, <4>2 DEF Born
    <3>2. CASE t # c
      <4>1. t \in S /\ t \in Task
        BY <2>6, <2>7, <3>2
      <4>2. run'[t] = run[t] /\ copy'[t] \in {Nobody, copy[t]}
        BY <1>1, <2>1, <3>2, <4>1
      <4> QED BY <2>1, <4>1, <4>2 DEF Strays, Born
    <3> QED BY <3>1, <3>2
  <2>8. Strays(T)'
    BY <2>5, <2>6 DEF Strays
  <2> QED BY <2>7, <2>8
<1> QED BY <1>2, <1>3, <1>4

LEMMA DilationStrays ==
  ASSUME TypeOK, ForkInv, Orderly, ~Redilates, NEW S \in SUBSET Task, Strays(S),
         NEW w \in Task \union {Nobody}, NEW u \in Task, NEW tdf \in TDFs,
         DilationWrite(w, u, tdf)
  PROVE  \E T \in SUBSET Task : Strays(T)'
<1> DEFINE all == Dilated(u, tdf)
<1>1. /\ parent' = parent /\ copy' = copy /\ run' = run
      /\ Born(u) /\ parent[u] = Nobody
      /\ \A d \in Task : d \notin all => vt'[d] = vt[d]
      /\ \A d \in Task : parent[d] = Nobody /\ d # u => d \notin all
      /\ \A d \in Task : d \in all /\ d # u => parent[d] \in all
  BY DilationEffect DEF Leader
<1>2. \A t \in Task : copy[t] # Nobody => copy[t] \in Task /\ vt'[copy[t]] = vt[copy[t]]
  BY <1>1 DEF ForkInv, TypeOK
<1>3. \A t \in Task : parent[t] \in Task \union {Nobody}
  BY DEF TypeOK
<1>4. CASE tdf = 0
  <2>1. /\ \A d \in Task : d \in all => vt'[d].dilation = 0
        /\ \A d \in Task : parent[d] \in all /\ vt[parent[d]].dilation # 0 => d \in all
    BY <1>4, DilationEffect
  <2> HIDE DEF all
  <2>6. PICK T \in SUBSET Task : T = S \ all
    OBVIOUS
  <2>2. ASSUME NEW t \in Task, parent[t] \in T PROVE t \in T
    <3>1. t \in S /\ t # u
      BY <1>1, <2>2, <2>6, TaskAssumption DEF Strays
    <3> QED BY <1>1, <2>2, <2>6, <3>1
  <2>3. ASSUME NEW t \in Task, Apart(t)' PROVE t \in T
    <3>1. /\ parent[t] # Nobody /\ parent[t] \in Task
          /\ vt'[t].dilation # 0 /\ vt'[parent[t]].dilation = 0
      BY <1>1, <1>3, <2>3 DEF Apart
    <3>2. t \notin all /\ vt'[t] = vt[t]
      BY <1>1, <2>1, <3>1
    <3>3. vt[parent[t]].dilation = 0
      BY <1>1, <2>1, <3>1, <3>2
    <3> QED BY <2>6, <3>1, <3>2, <3>3 DEF Apart, Strays
  <2>4. ASSUME NEW t \in T
        PROVE  /\ Born(t)' /\ vt'[t].dilation # 0
               /\ copy'[t] # Nobody => vt'[copy'[t]].dilation # 0
    BY <1>1, <1>2, <2>6 DEF Strays, Born
  <2>5. Strays(T)'
    BY <1>1, <2>2, <2>3, <2>4 DEF Strays
  <2> QED BY <2>5
<1>5. CASE tdf # 0
  <2>1. \A d \in Task :
          /\ vt[d].dilation # 0 => vt'[d].dilation # 0
          /\ vt[d].dilation = 0 /\ d \in all =>
               \/ vt'[d] = vt[d] /\ ~(tdf > 0)
               \/ vt'[d].dilation = tdf /\ tdf > 0
    BY <1>5, DilationEffect
  <2> HIDE DEF all
  <2>2. ASSUME NEW t \in Task, Apart(t)' PROVE Apart(t)
    <3>1. /\ parent[t] # Nobody /\ parent[t] \in Task /\ t # u
          /\ vt'[t].dilation # 0 /\ vt'[parent[t]].dilation = 0
      BY <1>1, <1>3, <2>2 DEF Apart
    <3>2. vt[parent[t]].dilation = 0
      BY <2>1, <3>1
    <3>3. ASSUME vt[t].dilation = 0 PROVE FALSE
      <4>1. t \in all /\ tdf > 0
        BY <1>1, <2>1, <3>1, <3>3
      <4>2. parent[t] \in all
        BY <1>1, <3>1, <4>1
      <4> QED BY <1>5, <2>1, <3>1, <3>2, <4>1, <4>2
    <3> QED BY <3>1, <3>2, <3>3 DEF Apart
  <2>3. Strays(S)'
    BY <1>1, <1>2, <2>1, <2>2 DEF Strays, Born
  <2> QED BY <2>3
<1> QED BY <1>4, <1>5

\* No step of a call changes a factor.
LEMMA DilationKept ==
  ASSUME vt \in [Task -> TaskFields], NEW c \in Caller, CallStep(c), NEW t \in Task
  PROVE  vt'[t].dilation = vt[t].dilation
<1> DEFINE u == call[c].tsk
<1>1. vt[t] \in TaskFields
  OBVIOUS
<1>2. CASE FreezeStop(c) \/ FreezeStamp(c) \/ UnfreezeContinue(c)
  BY <1>2 DEF FreezeStop, FreezeStamp, UnfreezeContinue
<1>3. CASE FreezeMark(c)
  <2>1. vt' = [vt EXCEPT ![u].freeze_start = call[c].now]
    BY <1>3 DEF FreezeMark
  <2> HIDE DEF u
  <2> QED BY <1>1, <2>1 DEF TaskFields
<1>4. CASE UnfreezeCredit(c)
  <2>1. vt' = [vt EXCEPT ![u] = CreditFreeze(@, call[c].now)]
    BY <1>4 DEF UnfreezeCredit
  <2> HIDE DEF u
  <2>2. vt'[t] = vt[t] \/ vt'[t] = CreditFreeze(vt[t], call[c].now)
    BY <2>1
  <2> QED BY <1>1, <2>2 DEF CreditFreeze, TaskFields
<1>5. CASE UnfreezeClear(c)
  <2> DEFINE cleared == [vt[u] EXCEPT !.freeze_start = 0]
  <2>1. vt' = [d \in Task |-> IF d = u THEN cleared
                              ELSE IF d \in Descendants(u)
                                THEN CopyFreeze(vt[d], cleared) ELSE vt[d]]
    BY <1>5 DEF UnfreezeClear
  <2>2. CASE t = u
    BY <1>1, <2>1, <2>2 DEF TaskFields
  <2> HIDE DEF u, cleared
  <2>3. CASE t # u
    BY <1>1, <2>1, <2>3 DEF CopyFreeze, TaskFields
  <2> QED BY <2>2, <2>3
<1> QED BY <1>2, <1>3, <1>4, <1>5 DEF CallStep

LEMMA FamilyStep ==
  ASSUME FamilyInv, [Next]_vars, Orderly, ~Redilates
  PROVE  FamilyInv'
<1>1. TypeOK' /\ ForkInv' /\ CallsLead' /\ Lasting
  BY TypeStep, ForkStep, CallsLeadStep DEF FamilyInv
<1>2. PICK S \in SUBSET Task : Strays(S)
  BY DEF FamilyInv
<1>3. /\ TypeOK /\ ForkInv /\ vt \in [Task -> TaskFields]
  BY DEF FamilyInv, TypeOK
<1>4. \A t \in Task : Born(t) => Born(t)'
  BY <1>1 DEF Lasting
<1>5. ASSUME NEW u \in Task, GetTime(u) PROVE Strays(S)'
  <2>1. \A t \in Task : vt'[t].dilation = vt[t].dilation
    BY <1>3, <1>5 DEF GetTime, KeepTime
  <2> QED BY <1>2, <1>3, <1>4, <1>5, <2>1, StraysUntouched DEF GetTime
<1>6. ASSUME NEW u \in Task, UnshareVirtualTime(u) PROVE Strays(S)'
  <2>1. /\ Born(u) /\ parent[u] = Nobody /\ vt[u].dilation = 0
        /\ parent' = parent /\ copy' = copy /\ run' = run
    BY <1>6 DEF UnshareVirtualTime, Leader, NoVirtualTime
  <2>2. vt'[u].dilation # 0 /\ \A t \in Task \ {u} : vt'[t] = vt[t]
    BY <1>3, <1>6 DEF UnshareVirtualTime, InitVirtualStartTime, One
  <2>3. \A t \in Task : copy[t] # Nobody => copy[t] # u /\ copy[t] \in Task
    BY <1>3, <2>1 DEF ForkInv, TypeOK
  <2>4. ASSUME NEW t \in Task, Apart(t)' PROVE Apart(t)
    <3>1. /\ parent[t] # Nobody /\ parent[t] \in Task /\ t # u
          /\ vt'[t].dilation # 0 /\ vt'[parent[t]].dilation = 0
      BY <1>3, <2>1, <2>4 DEF Apart, TypeOK
    <3> QED BY <2>2, <3>1 DEF Apart
  <2> QED BY <1>2, <2>1, <2>2, <2>3, <2>4 DEF Strays, Born
<1>7. ASSUME NEW p \in Task,
             (\E c \in Task : ForkCopy(p, c)) \/ ForkLink(p) \/ ForkAbort(p)
      PROVE  \E T \in SUBSET Task : Strays(T)'
  BY <1>2, <1>3, <1>7, ForkStrays
<1>8. ASSUME NEW w \in Task \union {Nobody}, NEW u \in Task, NEW tdf \in TDFs,
             DilationWrite(w, u, tdf)
      PROVE  \E T \in SUBSET Task : Strays(T)'
  BY <1>2, <1>3, <1>8, DilationStrays
<1>9. ASSUME NEW c \in Caller, CallStep(c) PROVE Strays(S)'
  <2>1. parent' = parent /\ copy' = copy
    BY <1>9 DEF CallStep, FreezeStop, FreezeStamp, FreezeMark, UnfreezeCredit,
                UnfreezeClear, UnfreezeContinue
  <2>2. \A t \in Task : vt'[t].dilation = vt[t].dilation
    BY <1>3, <1>9, DilationKept
  <2> QED BY <1>2, <1>3, <1>4, <2>1, <2>2, StraysUntouched
<1>10. ASSUME UNCHANGED <<parent, copy, vt>> PROVE Strays(S)'
  BY <1>2, <1>3, <1>4, <1>10, StraysUntouched
<1>11. \E T \in SUBSET Task : Strays(T)'
  BY <1>5, <1>6, <1>7, <1>8, <1>9, <1>10
     DEF Next, vars, Tick, TakeStop, FreezeWrite, UnfreezeWrite
<1> QED BY <1>1, <1>11 DEF FamilyInv

-----------------------------------------------------------------------------
(***************************************************************************)
(* A child that has its parent's credit, or is told it, has it afterwards. *)
(***************************************************************************)
LEMMA SharesUntouched ==
  ASSUME NEW t \in Task, SharesCredit(t), parent'[t] = parent[t],
         \A d \in {t, parent[t]} : /\ vt'[d].dilation = vt[d].dilation
                                   /\ vt'[d].freeze_past = vt[d].freeze_past,
         \A c \in Caller : At(c, "u_clear") => call'[c] = call[c]
  PROVE  SharesCredit(t)'
<1>1. CASE vt[t].dilation = 0
  BY <1>1 DEF SharesCredit
<1>2. CASE vt[t].freeze_past = vt[parent[t]].freeze_past /\ vt[parent[t]].dilation # 0
  BY <1>2 DEF SharesCredit
<1>3. CASE /\ vt[parent[t]].dilation # 0
           /\ \E c \in Caller : At(c, "u_clear") /\ call[c].tsk = parent[t]
  BY <1>3 DEF SharesCredit, At
<1> QED BY <1>1, <1>2, <1>3 DEF SharesCredit

\* Only the step that clears the mark tells anybody.
LEMMA ToldByClear ==
  ASSUME TypeOK, [Next]_vars, NEW t \in Task, Told(t)
  PROVE  \E c \in Caller : UnfreezeClear(c) /\ t \in Descendants(call[c].tsk)
<1>1. PICK c \in Caller : /\ At(c, "u_clear") /\ At(c, "u_cont")'
                          /\ t \in Descendants(call[c].tsk)
  BY DEF Told
<1>2. call'[c] # call[c]
  BY <1>1 DEF At
<1>3. ASSUME NEW d \in Caller, CallStep(d) PROVE d = c /\ UnfreezeClear(c)
  <2>1. d = c
    BY <1>2, <1>3 DEF CallStep, FreezeStop, FreezeStamp, FreezeMark, UnfreezeCredit,
       UnfreezeClear, UnfreezeContinue, Goto, Return, TypeOK
  <2> QED BY <1>1, <1>3, <2>1 DEF CallStep, FreezeStop, FreezeStamp, FreezeMark,
          UnfreezeCredit, UnfreezeContinue, At
<1>4. ASSUME NEW d \in Caller, NEW u \in Task, FreezeWrite(d, u) \/ UnfreezeWrite(d, u)
      PROVE  FALSE
  BY <1>1, <1>2, <1>4 DEF FreezeWrite, UnfreezeWrite, At, TypeOK
<1> QED BY <1>1, <1>2, <1>3, <1>4
        DEF Next, vars, Tick, GetTime, UnshareVirtualTime, TakeStop, ForkCopy,
            ForkLink, ForkAbort, DilationWrite

\* set_dilation() finds a child that it brings in with its parent outside.
LEMMA DilationShares ==
  ASSUME FamilyInv, Orderly, ~Redilates,
         NEW w \in Task \union {Nobody}, NEW u \in Task, NEW tdf \in TDFs,
         DilationWrite(w, u, tdf),
         NEW t \in Task, parent[t] \in Task, SharesCredit(t)
  PROVE  SharesCredit(t)'
<1> DEFINE all == Dilated(u, tdf)
           p == parent[t]
<1>1. /\ parent' = parent /\ call' = call /\ p \in Task
      /\ parent[u] = Nobody /\ (vt[u].dilation = 0 \/ tdf = 0)
      /\ \A d \in Task : d \notin all => vt'[d] = vt[d]
      /\ \A d \in Task : d \in all /\ d # u => parent[d] \in all
  BY DilationEffect DEF FamilyInv, Leader
<1>2. t # u /\ parent'[t] = p
  BY <1>1, TaskAssumption
<1>3. SUFFICES ASSUME vt'[t].dilation # 0 PROVE SharesCredit(t)'
  BY DEF SharesCredit
<1>4. CASE tdf = 0
  <2>1. /\ \A d \in Task : d \in all => vt'[d].dilation = 0
        /\ p \in all /\ vt[p].dilation # 0 => t \in all
    BY <1>4, DilationEffect DEF FamilyInv
  <2>2. t \notin all /\ vt'[t] = vt[t]
    BY <1>1, <1>3, <2>1
  <2>3. vt[p].dilation # 0
    BY <1>3, <2>2 DEF SharesCredit
  <2>4. vt'[p] = vt[p]
    BY <1>1, <2>1, <2>2, <2>3
  <2> HIDE DEF all
  <2> QED BY <1>1, <1>2, <2>2, <2>4, SharesUntouched
<1>5. CASE tdf # 0
  <2>1. \A d \in Task :
          /\ vt[d].dilation # 0 =>
               vt'[d].dilation # 0 /\ vt'[d].freeze_past = vt[d].freeze_past
          /\ vt[d].dilation = 0 /\ d \in all =>
               \/ vt'[d] = vt[d] /\ ~(tdf > 0)
               \/ vt'[d].dilation = tdf /\ vt'[d].freeze_past = 0 /\ tdf > 0
    BY <1>5, DilationEffect DEF FamilyInv
  <2>2. CASE vt[t].dilation # 0
    <3>1. vt[p].dilation # 0
      BY <2>2 DEF SharesCredit
    <3>2. /\ vt'[p].dilation # 0 /\ vt'[p].freeze_past = vt[p].freeze_past
          /\ vt'[t].freeze_past = vt[t].freeze_past
      BY <1>1, <2>1, <2>2, <3>1
    <3>3. CASE vt[t].freeze_past = vt[p].freeze_past
      <4> HIDE DEF p
      <4> QED BY <1>2, <3>2, <3>3 DEF SharesCredit
    <3>4. CASE \E c \in Caller : At(c, "u_clear") /\ call[c].tsk = p
      BY <1>1, <3>2, <3>4 DEF SharesCredit, At
    <3> QED BY <2>2, <3>3, <3>4 DEF SharesCredit
  <2>3. CASE vt[t].dilation = 0
    <3>1. t \in all /\ tdf > 0 /\ p \in all
      BY <1>1, <1>2, <1>3, <2>1, <2>3
    <3>2. PICK S \in SUBSET Task : Strays(S)
      BY DEF FamilyInv
    <3>3. vt[p].dilation # 0 => p \in S
      BY <1>1, <1>5, <3>1, <3>2, WalkOutside DEF FamilyInv, Dilated
    <3>4. p \in S => t \in S
      BY <3>2 DEF Strays
    <3>5. vt[p].dilation = 0
      BY <2>3, <3>2, <3>3, <3>4 DEF Strays
    <3>6. /\ vt'[p].dilation = tdf /\ vt'[p].freeze_past = 0
          /\ vt'[t].freeze_past = 0
      BY <1>1, <2>1, <2>3, <3>1, <3>5
    <3> HIDE DEF p, all
    <3> QED BY <1>2, <1>5, <3>6 DEF SharesCredit
  <2> QED BY <2>2, <2>3
<1> QED BY <1>4, <1>5

\* The steps of a call.  A credit parts a leader from its children until the
\* call has spread it.
LEMMA CallShares ==
  ASSUME FamilyInv, NEW c \in Caller, CallStep(c),
         NEW t \in Task, parent[t] \in Task,
         \/ SharesCredit(t)
         \/ Told(t) /\ UnfreezeClear(c) /\ t \in Descendants(call[c].tsk)
  PROVE  SharesCredit(t)'
<1> DEFINE u == call[c].tsk
           p == parent[t]
<1>1. /\ parent' = parent /\ vt \in [Task -> TaskFields]
      /\ call \in [Caller -> [pc: CallStates, tsk: Task \union {Nobody}, now: Int]]
      /\ p \in Task /\ parent[t] # Nobody
  BY TaskAssumption
     DEF CallStep, FreezeStop, FreezeStamp, FreezeMark, UnfreezeCredit,
         UnfreezeClear, UnfreezeContinue, FamilyInv, TypeOK
<1>2. parent[u] = Nobody /\ u \in Task
  <2>1. call[c].pc # "idle"
    BY DEF CallStep, FreezeStop, FreezeStamp, FreezeMark, UnfreezeCredit,
           UnfreezeClear, UnfreezeContinue, At
  <2> QED BY <2>1 DEF FamilyInv, TypeOK, CallsLead, Leader
<1>3. t # u
  BY <1>1, <1>2
<1>4. \A d \in Caller : d # c => call'[d] = call[d]
  BY <1>1 DEF CallStep, FreezeStop, FreezeStamp, FreezeMark, UnfreezeCredit,
              UnfreezeClear, UnfreezeContinue, Goto, Return
<1>5. CASE FreezeStop(c) \/ FreezeStamp(c) \/ FreezeMark(c) \/ UnfreezeContinue(c)
  <2>1. ~At(c, "u_clear") /\ SharesCredit(t)
    BY <1>5 DEF FreezeStop, FreezeStamp, FreezeMark, UnfreezeContinue, UnfreezeClear, At
  <2>2. \A d \in Task : /\ vt'[d].dilation = vt[d].dilation
                        /\ vt'[d].freeze_past = vt[d].freeze_past
    <3>1. vt' = vt \/ vt' = [vt EXCEPT ![u].freeze_start = call[c].now]
      BY <1>5 DEF FreezeStop, FreezeStamp, FreezeMark, UnfreezeContinue
    <3> QED BY <1>1, <1>2, <3>1 DEF TaskFields
  <2>3. \A d \in Caller : At(d, "u_clear") => call'[d] = call[d]
    BY <1>4, <2>1
  <2> HIDE DEF u, p
  <2> QED BY <1>1, <2>1, <2>2, <2>3, SharesUntouched DEF p
<1>6. CASE UnfreezeCredit(c)
  <2>1. /\ vt' = [vt EXCEPT ![u] = CreditFreeze(@, call[c].now)]
        /\ At(c, "u_credit") /\ SharesCredit(t)
        /\ call'[c] = [pc |-> "u_clear", tsk |-> u, now |-> 0]
    BY <1>1, <1>6 DEF UnfreezeCredit, UnfreezeClear, Goto, At
  <2>2. \A d \in Task \ {u} : vt'[d] = vt[d]
    BY <1>1, <2>1
  <2>3. CASE p # u
    <3>1. \A d \in Caller : At(d, "u_clear") => call'[d] = call[d]
      BY <1>4, <2>1 DEF At
    <3> HIDE DEF u, p
    <3> QED BY <1>1, <1>3, <2>1, <2>2, <2>3, <3>1, SharesUntouched DEF p
  <2>4. CASE p = u
    <3>1. vt'[u].dilation = vt[u].dilation
      BY <1>1, <1>2, <2>1 DEF CreditFreeze, TaskFields
    <3>2. vt'[t] = vt[t] /\ parent'[t] = u
      BY <1>1, <1>3, <2>2, <2>4
    <3>3. At(c, "u_clear")' /\ call'[c].tsk = parent'[t]
      BY <2>1, <3>2 DEF At
    <3> QED BY <2>1, <2>4, <3>1, <3>2, <3>3 DEF SharesCredit
  <2> QED BY <2>3, <2>4
<1>7. CASE UnfreezeClear(c)
  <2> DEFINE cleared == [vt[u] EXCEPT !.freeze_start = 0]
  <2>1. /\ vt' = [d \in Task |-> IF d = u THEN cleared
                                ELSE IF d \in Descendants(u)
                                  THEN CopyFreeze(vt[d], cleared) ELSE vt[d]]
        /\ At(c, "u_clear")
    BY <1>7 DEF UnfreezeClear
  <2>2. cleared.freeze_past = vt[u].freeze_past /\ cleared.dilation = vt[u].dilation
    BY <1>1, <1>2 DEF TaskFields
  <2> HIDE DEF cleared
  <2>3. \A d \in Task : d \in Walk(u, Task) => vt'[d].freeze_past = vt[u].freeze_past
    <3> SUFFICES ASSUME NEW d \in Task, d \in Walk(u, Task)
                 PROVE  vt'[d].freeze_past = vt[u].freeze_past
      OBVIOUS
    <3>1. CASE d = u
      BY <2>1, <2>2, <3>1
    <3>2. CASE d # u
      <4>1. vt'[d] = CopyFreeze(vt[d], cleared)
        BY <2>1, <3>2 DEF Descendants
      <4>2. vt[d] \in TaskFields
        BY <1>1
      <4> QED BY <2>2, <4>1, <4>2 DEF CopyFreeze, TaskFields
    <3> QED BY <3>1, <3>2
  <2>4. \A d \in Task : d \notin Walk(u, Task) => vt'[d] = vt[d]
    BY <1>2, <2>1, WalkStarts DEF Descendants
  <2>5. \A d \in Task : vt'[d].dilation = vt[d].dilation
    <3> SUFFICES ASSUME NEW d \in Task PROVE vt'[d].dilation = vt[d].dilation
      OBVIOUS
    <3>1. vt[d] \in TaskFields
      BY <1>1
    <3>2. CopyFreeze(vt[d], cleared).dilation = vt[d].dilation
      BY <3>1 DEF CopyFreeze, TaskFields
    <3> QED BY <2>1, <2>2, <3>2
  <2>6. vt'[t].dilation # 0 => vt'[p].dilation # 0
    BY <1>1, <2>5 DEF SharesCredit, Told
  <2>7. CASE p \in Walk(u, Task)
    <3>1. t \in Walk(u, Task)
      BY <1>1, <1>2, <2>7, WalkGoesDown
    <3>2. vt'[t].freeze_past = vt'[p].freeze_past
      BY <1>1, <2>3, <2>7, <3>1
    <3> QED BY <1>1, <2>6, <3>2 DEF SharesCredit
  <2>8. CASE p \notin Walk(u, Task)
    <3>1. t \notin Walk(u, Task)
      BY <1>2, <1>3, <2>8, WalkComesFrom
    <3>2. SharesCredit(t)
      BY <3>1 DEF Descendants
    <3>3. vt'[t] = vt[t] /\ vt'[p] = vt[p] /\ p # u
      BY <1>1, <1>2, <2>4, <2>8, <3>1, WalkStarts
    <3>4. CASE \E d \in Caller : At(d, "u_clear") /\ call[d].tsk = p
      <4>1. PICK d \in Caller : At(d, "u_clear") /\ call[d].tsk = p
        BY <3>4
      <4>2. d # c /\ call'[d] = call[d]
        BY <1>4, <3>3, <4>1
      <4> QED BY <1>1, <2>6, <4>1, <4>2 DEF SharesCredit, At
    <3>5. CASE ~\E d \in Caller : At(d, "u_clear") /\ call[d].tsk = p
      <4>1. vt[t].dilation # 0 => vt[t].freeze_past = vt[p].freeze_past
        BY <3>2, <3>5 DEF SharesCredit
      <4>2. parent'[t] = p
        BY <1>1
      <4> HIDE DEF p, u
      <4> QED BY <2>6, <3>3, <4>1, <4>2 DEF SharesCredit
    <3> QED BY <3>4, <3>5
  <2> QED BY <2>7, <2>8
<1> QED BY <1>5, <1>6, <1>7 DEF CallStep

LEMMA CreditStep ==
  ASSUME FamilyInv, [Next]_vars, Orderly, ~Redilates,
         NEW t \in Task, parent[t] # Nobody, SharesCredit(t) \/ Told(t)
  PROVE  SharesCredit(t)'
<1>1. /\ TypeOK /\ ForkInv /\ vt \in [Task -> TaskFields] /\ parent[t] \in Task
      /\ Born(t) /\ Born(parent[t])
  BY DEF FamilyInv, TypeOK, ForkInv
<1>2. parent'[t] = parent[t]
  BY <1>1, ForkStep DEF Lasting
<1>3. CASE Told(t)
  <2>1. PICK c \in Caller : UnfreezeClear(c) /\ t \in Descendants(call[c].tsk)
    BY <1>1, <1>3, ToldByClear
  <2> QED BY <1>1, <1>3, <2>1, CallShares DEF CallStep
<1>4. CASE SharesCredit(t)
  <2>1. ASSUME NEW u \in Task, GetTime(u) PROVE SharesCredit(t)'
    <3>1. \A d \in Task : /\ vt'[d].dilation = vt[d].dilation
                          /\ vt'[d].freeze_past = vt[d].freeze_past
      BY <1>1, <2>1 DEF GetTime, KeepTime
    <3> QED BY <1>1, <1>2, <1>4, <2>1, <3>1, SharesUntouched DEF GetTime
  <2>2. ASSUME NEW u \in Task, UnshareVirtualTime(u) PROVE SharesCredit(t)'
    <3>1. t # u /\ vt[u].dilation = 0
      BY <1>1, <2>2, TaskAssumption DEF UnshareVirtualTime, Leader, NoVirtualTime
    <3>2. \A d \in Task \ {u} : vt'[d] = vt[d]
      BY <1>1, <2>2 DEF UnshareVirtualTime
    <3>3. CASE vt[t].dilation = 0
      BY <3>1, <3>2, <3>3 DEF SharesCredit
    <3>4. CASE vt[t].dilation # 0
      <4>1. parent[t] # u
        BY <1>4, <3>1, <3>4 DEF SharesCredit
      <4> QED BY <1>1, <1>2, <1>4, <2>2, <3>1, <3>2, <4>1, SharesUntouched
              DEF UnshareVirtualTime
    <3> QED BY <3>3, <3>4
  <2>3. ASSUME NEW p \in Task,
               (\E c \in Task : ForkCopy(p, c)) \/ ForkLink(p) \/ ForkAbort(p)
        PROVE  SharesCredit(t)'
    <3>1. ForkAbort(p) => ~Born(copy[p])
      BY <1>1 DEF ForkAbort, ForkInv
    <3>2. \A c \in Task : ForkCopy(p, c) => ~Born(c)
      BY DEF ForkCopy, Born
    <3>3. vt'[t] = vt[t] /\ vt'[parent[t]] = vt[parent[t]] /\ call' = call
      BY <1>1, <2>3, <3>1, <3>2 DEF ForkCopy, ForkLink, ForkAbort
    <3> QED BY <1>2, <1>4, <3>3, SharesUntouched
  <2>4. ASSUME NEW w \in Task \union {Nobody}, NEW u \in Task, NEW tdf \in TDFs,
               DilationWrite(w, u, tdf)
        PROVE  SharesCredit(t)'
    BY <1>1, <1>4, <2>4, DilationShares
  <2>5. ASSUME NEW c \in Caller, CallStep(c) PROVE SharesCredit(t)'
    BY <1>1, <1>4, <2>5, CallShares
  <2>6. ASSUME NEW c \in Caller, NEW u \in Task, FreezeWrite(c, u) \/ UnfreezeWrite(c, u)
        PROVE  SharesCredit(t)'
    <3>1. vt' = vt
      BY <2>6 DEF FreezeWrite, UnfreezeWrite
    <3>2. \A d \in Caller : At(d, "u_clear") => call'[d] = call[d]
      BY <1>1, <2>6 DEF FreezeWrite, UnfreezeWrite, At, TypeOK
    <3> QED BY <1>2, <1>4, <3>1, <3>2, SharesUntouched
  <2>7. CASE UNCHANGED <<vt, call>>
    BY <1>2, <1>4, <2>7, SharesUntouched
  <2> QED
    BY <2>1, <2>2, <2>3, <2>4, <2>5, <2>6, <2>7
       DEF Next, vars, Tick, TakeStop
<1> QED BY <1>3, <1>4

\* Only the window of a fork parts a child in virtual time from its parent: one
\* that has its parent's credit keeps it, and the next unfreeze gives it to one
\* that has not, for families of any size and depth, any number of orderly
\* writers, on one CPU or several.
THEOREM CreditKeepsFamilies ==
  ASSUME Orderly, ~Redilates
  PROVE  Spec => CreditReachesFamily
<1>1. Init => FamilyInv
  BY FamilyInit
<1>2. FamilyInv /\ [Next]_vars => FamilyInv'
  BY FamilyStep
<1>3. FamilyInv /\ [Next]_vars
        => [\A t \in Task : parent[t] # Nobody /\ (SharesCredit(t) \/ Told(t)) =>
              SharesCredit(t)']_vars
  BY CreditStep
<1> QED BY <1>1, <1>2, <1>3, PTL DEF Spec, CreditReachesFamily
=============================================================================
