--------------------------- MODULE KernelVT_proofs ---------------------------
(***************************************************************************)
(* What holds of KernelVT for every set of processes, callers and factors, *)
(* and however far the clock runs.                                         *)
(***************************************************************************)
EXTENDS KernelVT, VtTask_proofs

-----------------------------------------------------------------------------
(***************************************************************************)
(* Every step keeps the variables in their types, whatever is written in   *)
(* whatever order, on one CPU or several.                                  *)
(***************************************************************************)
LEMMA GotoType ==
  ASSUME TypeOK, NEW c \in Caller, NEW pc \in CallStates \ {"idle"},
         NEW now \in Int, call[c].tsk \in Task, Goto(c, pc, now)
  PROVE  /\ call' \in [Caller -> [pc: CallStates, tsk: Task \union {Nobody}, now: Int]]
         /\ \A d \in Caller : call'[d].pc # "idle" <=> call'[d].tsk \in Task
BY DEF TypeOK, Goto, CallStates

LEMMA TypeStep == TypeOK /\ [Next]_vars => TypeOK'
<1> SUFFICES ASSUME TypeOK, [Next]_vars PROVE TypeOK'
  OBVIOUS
<1> USE TaskAssumption
<1>1. CASE Tick
  <2>1. \A t \in Task : obs'[t] \in [stopped: Nat, latency: Nat, seen: Int]
    <3> TAKE t \in Task
    <3>1. obs[t] \in [stopped: Nat, latency: Nat, seen: Int]
      BY DEF TypeOK
    <3>2. CASE run[t] = "stopped" /\ Inside(t)
      BY <1>1, <3>1, <3>2 DEF Tick
    <3>3. CASE run[t] = "stopped" /\ ~Inside(t)
      BY <1>1, <3>1, <3>3 DEF Tick
    <3>4. CASE run[t] # "stopped"
      BY <1>1, <3>1, <3>4 DEF Tick
    <3> QED BY <3>2, <3>3, <3>4
  <2>2. obs' \in [Task -> [stopped: Nat, latency: Nat, seen: Int]]
    BY <1>1, <2>1 DEF Tick
  <2> QED BY <1>1, <2>2 DEF Tick, TypeOK
<1>2. ASSUME NEW t \in Task, GetTime(t) PROVE TypeOK'
  <2>1. vt[t] \in TaskFields /\ wall \in Int
    BY DEF TypeOK
  <2>2. KeepTime(vt[t], wall) \in TaskFields /\ TimeOfDay(vt[t], wall) \in Int
    BY <2>1, KeepTimeType
  <2> QED BY <1>2, <2>2 DEF GetTime, TypeOK
<1>3. ASSUME NEW p \in Task,
             (\E c \in Task : ForkCopy(p, c)) \/ ForkLink(p) \/ ForkAbort(p)
      PROVE  TypeOK'
  <2>1. CASE \E c \in Task : ForkCopy(p, c)
    BY <2>1 DEF ForkCopy, TypeOK
  <2>2. CASE ForkLink(p)
    BY <2>2 DEF ForkLink, TypeOK, RunStates
  <2>3. CASE ForkAbort(p)
    BY <2>3, NoVirtualTimeType DEF ForkAbort, TypeOK, Unobserved
  <2> QED BY <1>3, <2>1, <2>2, <2>3
<1>4. ASSUME NEW t \in Task, UnshareVirtualTime(t) PROVE TypeOK'
  <2>1. vt[t] \in TaskFields /\ wall \in Int
    BY DEF TypeOK
  <2>2. TimeOfDay(vt[t], wall) \in Int
    BY <2>1, KeepTimeType
  <2>3. InitVirtualStartTime(vt[t], One, TimeOfDay(vt[t], wall)) \in TaskFields
    BY <2>1, <2>2, InitVirtualStartTimeType DEF One
  <2> QED BY <1>4, <2>3 DEF UnshareVirtualTime, TypeOK, Afresh
<1>5. ASSUME NEW w \in Task \union {Nobody}, NEW t \in Task, NEW tdf \in TDFs,
             DilationWrite(w, t, tdf)
      PROVE  TypeOK'
  <2>1. vt \in [Task -> TaskFields] /\ wall \in Int /\ tdf \in Int
    BY DEF TypeOK
  <2>2. WriterTime(w) \in Int
    BY <2>1, KeepTimeType DEF WriterTime
  <2>3. \A d \in Task : KeepTime(vt[d], wall) \in TaskFields
    BY <2>1, KeepTimeType
  <2>4. \A r \in TaskFields : SetDilation(r, tdf, WriterTime(w)) \in TaskFields
    BY <2>1, <2>2, SetDilationType
  <2>5. vt' \in [Task -> TaskFields]
    BY <1>5, <2>1, <2>3, <2>4 DEF DilationWrite
  <2>6. obs' \in [Task -> [stopped: Nat, latency: Nat, seen: Int]]
    BY <1>5 DEF DilationWrite, TypeOK, Afresh
  <2> QED BY <1>5, <2>5, <2>6 DEF DilationWrite, TypeOK
<1>6. ASSUME NEW c \in Caller, NEW t \in Task, FreezeWrite(c, t) PROVE TypeOK'
  BY <1>6 DEF FreezeWrite, TypeOK, CallStates
<1>7. ASSUME NEW c \in Caller, NEW t \in Task, UnfreezeWrite(c, t) PROVE TypeOK'
  BY <1>7 DEF UnfreezeWrite, TypeOK, CallStates
<1>8. ASSUME NEW t \in Task, TakeStop(t) PROVE TypeOK'
  BY <1>8 DEF TakeStop, TypeOK, RunStates
<1>9. ASSUME NEW c \in Caller, FreezeStop(c) PROVE TypeOK'
  <2>1. call[c].tsk \in Task
    BY <1>9 DEF FreezeStop, At, TypeOK
  <2>2. run' \in [Task -> RunStates]
    BY <1>9, <2>1 DEF FreezeStop, TypeOK, RunStates
  <2> QED BY <1>9, <2>1, <2>2, GotoType DEF FreezeStop, CallStates, TypeOK
<1>10. ASSUME NEW c \in Caller, FreezeStamp(c) \/ FreezeMark(c) PROVE TypeOK'
  <2>1. call[c].tsk \in Task
    BY <1>10 DEF FreezeStamp, FreezeMark, At, TypeOK
  <2>2. CASE FreezeStamp(c)
    BY <2>1, <2>2, GotoType DEF FreezeStamp, CallStates, TypeOK
  <2>3. CASE FreezeMark(c)
    <3>1. call[c].now \in Int
      BY DEF TypeOK
    <3>2. vt' \in [Task -> TaskFields]
      BY <2>1, <2>3, <3>1 DEF FreezeMark, TypeOK, TaskFields
    <3>3. /\ call' \in [Caller -> [pc: CallStates, tsk: Task \union {Nobody}, now: Int]]
          /\ \A d \in Caller : call'[d].pc # "idle" <=> call'[d].tsk \in Task
      BY <2>3 DEF FreezeMark, TypeOK, CallStates, Return, Idle
    <3> QED BY <2>3, <3>2, <3>3 DEF FreezeMark, TypeOK
  <2> QED BY <1>10, <2>2, <2>3
<1>11. ASSUME NEW c \in Caller, UnfreezeCredit(c) PROVE TypeOK'
  <2>1. call[c].tsk \in Task /\ call[c].now \in Int
    BY <1>11 DEF UnfreezeCredit, At, TypeOK
  <2>2. vt[call[c].tsk] \in TaskFields
    BY <2>1 DEF TypeOK
  <2>3. CreditFreeze(vt[call[c].tsk], call[c].now) \in TaskFields
    BY <2>1, <2>2, CreditFreezeType
  <2>4. vt' \in [Task -> TaskFields]
    BY <1>11, <2>1, <2>3 DEF UnfreezeCredit, TypeOK
  <2> QED BY <1>11, <2>1, <2>4, GotoType DEF UnfreezeCredit, CallStates, TypeOK
<1>12. ASSUME NEW c \in Caller, UnfreezeClear(c) PROVE TypeOK'
  <2> DEFINE t == call[c].tsk
             cleared == [vt[t] EXCEPT !.freeze_start = 0]
  <2>1. t \in Task
    BY <1>12 DEF UnfreezeClear, At, TypeOK
  <2>2. vt[t] \in TaskFields
    BY <2>1 DEF TypeOK
  <2>3. cleared \in TaskFields
    BY <2>2, MarkType
  <2>4. \A d \in Task : CopyFreeze(vt[d], cleared) \in TaskFields
    <3> TAKE d \in Task
    <3>1. vt[d] \in TaskFields
      BY DEF TypeOK
    <3> QED BY <2>3, <3>1, CopyFreezeType
  <2>5. vt' \in [Task -> TaskFields]
    <3>1. vt' = [d \in Task |-> IF d = t THEN cleared
                               ELSE IF d \in Descendants(t)
                                 THEN CopyFreeze(vt[d], cleared) ELSE vt[d]]
      BY <1>12 DEF UnfreezeClear
    <3> HIDE DEF cleared, t
    <3> QED BY <2>3, <2>4, <3>1 DEF TypeOK
  <2>6. Goto(c, "u_cont", 0) /\ UNCHANGED <<wall, parent, copy, run, obs>>
    BY <1>12 DEF UnfreezeClear
  <2>7. call[c].tsk \in Task
    BY <2>1
  <2> HIDE DEF t, cleared
  <2> QED BY <2>5, <2>6, <2>7, GotoType DEF CallStates, TypeOK
<1>13. ASSUME NEW c \in Caller, UnfreezeContinue(c) PROVE TypeOK'
  BY <1>13 DEF UnfreezeContinue, TypeOK, RunStates, CallStates, Return, Idle, At
<1>14. CASE UNCHANGED vars
  BY <1>14 DEF vars, TypeOK
<1> QED
  BY <1>1, <1>2, <1>3, <1>4, <1>5, <1>6, <1>7, <1>8, <1>9, <1>10, <1>11, <1>12,
     <1>13, <1>14 DEF Next, CallStep

LEMMA TypeInit == Init => TypeOK
BY TaskAssumption, NoVirtualTimeType
   DEF Init, TypeOK, Idle, CallStates, RunStates, Unobserved

\* Every variable of the kernel model keeps its type.
THEOREM TypeCorrect == Spec => []TypeOK
<1>1. Init => TypeOK
  BY TypeInit
<1>2. TypeOK /\ [Next]_vars => TypeOK'
  BY TypeStep
<1> QED BY <1>1, <1>2, PTL DEF Spec

-----------------------------------------------------------------------------
(***************************************************************************)
(* Orderly use: one caller of freeze_time() and unfreeze_time(), a process *)
(* that stops at once, and group leaders only.                             *)
(***************************************************************************)

\* A walk down the children of one process does not come to another leader.
LEMMA WalkApart ==
  ASSUME TypeOK, NEW t \in Task, parent[t] = Nobody,
         NEW u \in Task, u # t, NEW D
  PROVE  t \notin Walk(u, D)
<1> DEFINE S == Task \ {t}
<1>1. S \in SUBSET Task /\ u \in S
  OBVIOUS
<1>2. \A c \in Task : parent[c] \in S \intersect D => c \in S
  <2> SUFFICES ASSUME NEW c \in Task, parent[c] \in S PROVE c \in S
    OBVIOUS
  <2>1. parent[c] # Nobody
    BY TaskAssumption
  <2> QED BY <2>1
<1>3. t \notin S
  OBVIOUS
<1> HIDE DEF S
<1> QED BY <1>1, <1>2, <1>3 DEF Walk

\* Only ForkLink makes a process, and it makes a child: copies and their parents
\* are apart, calls are about processes that exist, and so are parents.
ForkInv ==
  /\ \A c \in Caller : call[c].tsk \in Task => Born(call[c].tsk)
  /\ \A t \in Task : parent[t] # Nobody => Born(t) /\ Born(parent[t])
  /\ \A p \in Task : copy[p] # Nobody =>
       /\ Born(p) /\ ~Born(copy[p])
       /\ \A q \in Task : copy[q] = copy[p] => q = p

Lasting ==
  /\ \A t \in Task : Born(t) => Born(t)' /\ parent'[t] = parent[t]
  /\ \A t \in Task : Born(t)' => Born(t) \/ parent'[t] # Nobody

LEMMA ForkInit == Init => ForkInv
BY TaskAssumption DEF Init, ForkInv, Idle

LEMMA ForkStep ==
  ASSUME TypeOK, ForkInv, [Next]_vars PROVE ForkInv' /\ Lasting
<1> USE TaskAssumption
<1>1. /\ parent \in [Task -> Task \union {Nobody}] /\ run \in [Task -> RunStates]
      /\ copy \in [Task -> Task \union {Nobody}]
      /\ \A c \in Caller : call[c].tsk \in Task \union {Nobody}
  BY DEF TypeOK
<1>2. ASSUME NEW p \in Task, NEW c \in Task, ForkCopy(p, c)
      PROVE  ForkInv' /\ Lasting
  <2>1. /\ Born(p) /\ ~Born(c) /\ \A q \in Task : copy[q] # c
        /\ copy' = [copy EXCEPT ![p] = c]
        /\ parent' = parent /\ run' = run /\ call' = call
    BY <1>2 DEF ForkCopy, Executing, Born
  <2>2. \A t \in Task : Born(t)' <=> Born(t)
    BY <2>1 DEF Born
  <2>3. \A q \in Task : copy'[q] # Nobody => Born(q) /\ ~Born(copy'[q])
    BY <1>1, <2>1 DEF ForkInv
  <2>4. \A q, r \in Task : copy'[q] # Nobody /\ copy'[r] = copy'[q] => r = q
    BY <1>1, <2>1 DEF ForkInv
  <2>5. \A q \in Task : ~Born(copy'[q]) => ~Born(copy[q])'
    BY <2>1 DEF Born
  <2> QED BY <1>1, <2>1, <2>2, <2>3, <2>4, <2>5 DEF ForkInv, Lasting, Born
<1>3. ASSUME NEW p \in Task, ForkLink(p) PROVE ForkInv' /\ Lasting
  <2> DEFINE c == copy[p]
  <2>1. /\ c \in Task /\ c # Nobody /\ Born(p) /\ ~Born(c) /\ p # c
        /\ \A q \in Task : copy[q] = c => q = p
        /\ parent' = [parent EXCEPT ![c] = p] /\ run' = [run EXCEPT ![c] = "running"]
        /\ copy' = [copy EXCEPT ![p] = Nobody] /\ call' = call
    BY <1>1, <1>3 DEF ForkLink, ForkInv
  <2> HIDE DEF c
  <2>2. \A t \in Task : Born(t)' <=> Born(t) \/ t = c
    BY <1>1, <2>1 DEF Born
  <2>3. \A t \in Task : t # c => parent'[t] = parent[t]
    BY <1>1, <2>1
  <2>4. Lasting
    BY <1>1, <2>1, <2>2, <2>3 DEF Lasting
  <2>5. \A d \in Caller : call'[d].tsk \in Task => Born(call[d].tsk)'
    BY <1>1, <2>1, <2>2 DEF ForkInv, Born
  <2>6. \A t \in Task : parent'[t] # Nobody => Born(t)' /\ Born(parent[t])'
    <3> SUFFICES ASSUME NEW t \in Task, parent'[t] # Nobody
                 PROVE  Born(t)' /\ Born(parent[t])'
      OBVIOUS
    <3>1. CASE t = c
      <4>1. parent'[t] = p /\ run'[p] = run[p] /\ run'[c] = "running"
        BY <1>1, <2>1, <3>1
      <4> QED BY <2>1, <3>1, <4>1 DEF Born
    <3>2. CASE t # c
      <4>1. parent'[t] = parent[t] /\ Born(t) /\ Born(parent[t]) /\ parent[t] \in Task
        BY <1>1, <2>3, <3>2 DEF ForkInv
      <4>2. run'[parent[t]] # "unborn" /\ Born(t)'
        BY <2>2, <4>1 DEF Born
      <4> QED BY <4>1, <4>2 DEF Born
    <3> QED BY <3>1, <3>2
  <2>7. \A q \in Task : copy'[q] # Nobody =>
          /\ Born(q)' /\ ~Born(copy[q])'
          /\ \A r \in Task : copy'[r] = copy'[q] => r = q
    <3> SUFFICES ASSUME NEW q \in Task, copy'[q] # Nobody
                 PROVE  /\ Born(q)' /\ ~Born(copy[q])'
                        /\ \A r \in Task : copy'[r] = copy'[q] => r = q
      OBVIOUS
    <3>1. q # p /\ copy'[q] = copy[q] /\ copy[q] # c /\ copy[q] \in Task
      BY <1>1, <2>1
    <3>2. Born(q) /\ ~Born(copy[q]) /\ \A r \in Task : copy[r] = copy[q] => r = q
      BY <3>1 DEF ForkInv
    <3>3. run'[copy[q]] = "unborn"
      BY <1>1, <2>1, <3>1, <3>2 DEF Born
    <3>4. \A r \in Task : copy'[r] = copy'[q] => r = q
      BY <1>1, <2>1, <3>1, <3>2
    <3> QED BY <2>2, <3>1, <3>2, <3>3, <3>4 DEF Born
  <2> QED BY <2>4, <2>5, <2>6, <2>7 DEF ForkInv
<1>4. ASSUME NEW p \in Task, ForkAbort(p) PROVE ForkInv' /\ Lasting
  <2>1. /\ copy' = [copy EXCEPT ![p] = Nobody]
        /\ parent' = parent /\ run' = run /\ call' = call
    BY <1>4 DEF ForkAbort
  <2>2. \A q \in Task : copy'[q] # Nobody => copy'[q] = copy[q]
    BY <1>1, <2>1
  <2>3. \A q \in Task : copy'[q] # Nobody =>
          /\ Born(q) /\ ~Born(copy'[q])
          /\ \A r \in Task : copy'[r] = copy'[q] => r = q
    BY <1>1, <2>1, <2>2 DEF ForkInv
  <2> QED BY <1>1, <2>1, <2>3 DEF ForkInv, Lasting, Born
<1>5. ASSUME parent' = parent, copy' = copy, \A t \in Task : Born(t)' <=> Born(t),
             \A c \in Caller : call'[c].tsk \in Task =>
               call'[c].tsk = call[c].tsk \/ Born(call'[c].tsk)
      PROVE  ForkInv' /\ Lasting
  <2>1. \A c \in Caller : call'[c].tsk \in Task => Born(call'[c].tsk)
    BY <1>5 DEF ForkInv
  <2>2. \A c \in Caller : call'[c].tsk \in Task => run'[call'[c].tsk] # "unborn"
    BY <1>5, <2>1 DEF Born
  <2>3. \A t \in Task : parent[t] # Nobody => Born(t)' /\ run'[parent[t]] # "unborn"
    BY <1>1, <1>5 DEF ForkInv, Born
  <2>4. \A p \in Task : copy[p] # Nobody => Born(p)' /\ run'[copy[p]] = "unborn"
    BY <1>1, <1>5 DEF ForkInv, Born
  <2> QED BY <1>5, <2>2, <2>3, <2>4 DEF ForkInv, Lasting, Born
<1>6. ASSUME NEW c \in Caller, CallStep(c) PROVE ForkInv' /\ Lasting
  <2>1. call[c].tsk \in Task /\ Born(call[c].tsk)
    <3>1. call[c].pc # "idle"
      BY <1>6 DEF CallStep, FreezeStop, FreezeStamp, FreezeMark, UnfreezeCredit,
                  UnfreezeClear, UnfreezeContinue, At
    <3> QED BY <1>1, <3>1 DEF TypeOK, ForkInv
  <2>2. \A t \in Task : Born(t)' <=> Born(t)
    BY <1>1, <1>6, <2>1
       DEF CallStep, FreezeStop, FreezeStamp, FreezeMark, UnfreezeCredit,
           UnfreezeClear, UnfreezeContinue, Born
  <2>3. \A d \in Caller : call'[d].tsk \in Task => call'[d].tsk = call[d].tsk
    <3>1. \/ call' = [call EXCEPT ![c] = Idle]
          \/ \E pc, now : call' = [call EXCEPT ![c] = [pc |-> pc, tsk |-> call[c].tsk, now |-> now]]
      BY <1>6 DEF CallStep, FreezeStop, FreezeStamp, FreezeMark, UnfreezeCredit,
                  UnfreezeClear, UnfreezeContinue, Goto, Return
    <3>2. \A d \in Caller : d # c => call'[d] = call[d]
      BY <3>1 DEF TypeOK
    <3>3. call'[c].tsk \in {Nobody, call[c].tsk}
      BY <3>1 DEF TypeOK, Idle
    <3> QED BY <3>2, <3>3
  <2>4. parent' = parent /\ copy' = copy
    BY <1>6 DEF CallStep, FreezeStop, FreezeStamp, FreezeMark, UnfreezeCredit,
                UnfreezeClear, UnfreezeContinue
  <2> QED BY <1>5, <2>2, <2>3, <2>4
<1>7. ASSUME NEW c \in Caller, NEW t \in Task, FreezeWrite(c, t) \/ UnfreezeWrite(c, t)
      PROVE  ForkInv' /\ Lasting
  <2>1. /\ parent' = parent /\ copy' = copy /\ run' = run
        /\ \A d \in Caller : call'[d].tsk = call[d].tsk \/ Born(call'[d].tsk)
    BY <1>7 DEF FreezeWrite, UnfreezeWrite, TypeOK
  <2>2. \A u \in Task : Born(u)' <=> Born(u)
    BY <2>1 DEF Born
  <2> QED BY <1>5, <2>1, <2>2
<1>8. ASSUME NEW u \in Task, TakeStop(u) PROVE ForkInv' /\ Lasting
  <2>1. parent' = parent /\ copy' = copy /\ call' = call /\ \A t \in Task : Born(t)' <=> Born(t)
    BY <1>1, <1>8 DEF TakeStop, Born
  <2> QED BY <1>5, <2>1
<1>9. CASE UNCHANGED <<parent, copy, run, call>>
  BY <1>5, <1>9 DEF Born
<1> QED
  BY <1>2, <1>3, <1>4, <1>6, <1>7, <1>8, <1>9
     DEF Next, vars, Tick, GetTime, UnshareVirtualTime, DilationWrite

\* Who is a leader never changes: fork() makes no leader and unmakes none.
LEMMA LeaderSame ==
  ASSUME TypeOK, ForkInv, [Next]_vars, NEW t \in Task
  PROVE  Leader(t)' <=> Leader(t)
BY ForkStep DEF Lasting, Leader

\* A step that leaves the freeze fields, the signals and the history of a leader
\* alone, and the call if it is about that leader, keeps what Phase and Credited
\* say of it.
LEMMA Untouched ==
  ASSUME TypeOK, NEW c \in Caller, NEW t \in Task, Phase(c, t), Credited(c, t),
         wall' = wall, run'[t] = run[t],
         vt'[t].freeze_start = vt[t].freeze_start,
         vt'[t].freeze_past = vt[t].freeze_past,
         vt'[t].virtual_start = vt[t].virtual_start,
         vt'[t].dilation = vt[t].dilation,
         obs'[t].stopped = obs[t].stopped, obs'[t].latency = obs[t].latency,
         call'[c] = call[c] \/ (call[c].tsk # t /\ call'[c].tsk # t)
  PROVE  Phase(c, t)' /\ Credited(c, t)'
BY DEF Phase, Credited, Uncredited, At, InVT

\* The clock: frozen time and the history grow together.
LEMMA TickStep ==
  ASSUME TypeOK, NEW c \in Caller, Caller = {c}, NEW t \in Task,
         Phase(c, t), Credited(c, t), Tick
  PROVE  Phase(c, t)' /\ Credited(c, t)'
<1>1. /\ wall' = wall + 1 /\ vt' = vt /\ run' = run /\ call' = call
      /\ wall \in Nat /\ vt[t].freeze_start \in Int /\ vt[t].freeze_past \in Int
      /\ obs[t].stopped \in Int /\ obs[t].latency \in Int
      /\ call[c].now \in Int /\ call[c].pc \in CallStates
      /\ call[c].tsk = t => call[c].pc # "idle"
  BY DEF Tick, TypeOK, TaskFields
<1>2. Phase(c, t)'
  BY <1>1 DEF Phase, At, InVT
<1>3. Inside(t) <=> /\ call[c].tsk = t
                   /\ call[c].pc \in {"f_stamp", "u_credit", "u_clear", "u_cont"}
  BY DEF Inside
<1>4. CASE run[t] = "stopped"
  <2>1. /\ obs'[t].stopped = obs[t].stopped + 1
        /\ obs'[t].latency = obs[t].latency + IF Inside(t) THEN 1 ELSE 0
    BY <1>4 DEF Tick
  <2>2. CASE call[c].tsk = t /\ call[c].pc # "f_mark"
    <3>1. Inside(t)
      BY <1>1, <1>3, <1>4, <2>2 DEF Phase, At, CallStates
    <3>2. Uncredited(c, t)' = Uncredited(c, t)
      BY <1>1, <1>4, <2>2 DEF Uncredited, Phase, At, CallStates
    <3> QED BY <1>1, <1>2, <2>1, <3>1, <3>2 DEF Credited, InVT
  <2>4. CASE call[c].tsk = t /\ call[c].pc = "f_mark"
    <3>1. ~Inside(t)
      BY <1>3, <2>4
    <3>2. /\ Uncredited(c, t) = wall - call[c].now
          /\ Uncredited(c, t)' = wall + 1 - call[c].now
      BY <1>1, <2>4 DEF Uncredited, At
    <3>3. obs'[t].stopped = obs[t].stopped + 1 /\ obs'[t].latency = obs[t].latency
      BY <1>1, <2>1, <3>1
    <3>4. InVT(vt[t]) => vt[t].freeze_past + wall - call[c].now
                           = obs[t].stopped - obs[t].latency
      BY <1>1, <3>2 DEF Credited
    <3>5. Credited(c, t)'
      BY <1>1, <3>2, <3>3, <3>4 DEF Credited, InVT
    <3> QED BY <1>2, <3>5
  <2>3. CASE call[c].tsk # t
    <3>1. ~Inside(t) /\ vt[t].freeze_start > 0
      BY <1>3, <1>4, <2>3 DEF Phase
    <3>2. /\ Uncredited(c, t) = wall - vt[t].freeze_start
          /\ Uncredited(c, t)' = wall + 1 - vt[t].freeze_start
      BY <1>1, <2>3, <3>1 DEF Uncredited, At
    <3>3. obs'[t].stopped = obs[t].stopped + 1 /\ obs'[t].latency = obs[t].latency
      BY <1>1, <2>1, <3>1
    <3>4. InVT(vt[t]) => vt[t].freeze_past + wall - vt[t].freeze_start
                           = obs[t].stopped - obs[t].latency
      BY <1>1, <3>2 DEF Credited
    <3>5. Credited(c, t)'
      BY <1>1, <3>2, <3>3, <3>4 DEF Credited, InVT
    <3> QED BY <1>2, <3>5
  <2> QED BY <2>2, <2>3, <2>4
<1>5. CASE run[t] # "stopped"
  <2>1. obs'[t] = obs[t]
    BY <1>5 DEF Tick
  <2>2. /\ vt[t].freeze_start = 0
        /\ ~(At(c, "u_credit") /\ call[c].tsk = t) /\ ~(At(c, "f_mark") /\ call[c].tsk = t)
    BY <1>1, <1>5 DEF Phase, At, CallStates
  <2>3. Uncredited(c, t)' = Uncredited(c, t)
    BY <1>1, <2>2 DEF Uncredited, At
  <2> QED BY <1>1, <1>2, <2>1, <2>3 DEF Credited, InVT
<1> QED BY <1>4, <1>5

\* A process that reads its clock keeps its freeze fields.
LEMMA GetTimeStep ==
  ASSUME TypeOK, NEW c \in Caller, NEW t \in Task, Phase(c, t), Credited(c, t),
         NEW u \in Task, GetTime(u)
  PROVE  Phase(c, t)' /\ Credited(c, t)'
<1>1. vt'[t].freeze_start = vt[t].freeze_start /\ vt'[t].freeze_past = vt[t].freeze_past
      /\ vt'[t].virtual_start = vt[t].virtual_start /\ vt'[t].dilation = vt[t].dilation
  BY DEF GetTime, TypeOK, KeepTime
<1>2. obs'[t].stopped = obs[t].stopped /\ obs'[t].latency = obs[t].latency
  BY DEF GetTime, TypeOK
<1> QED BY <1>1, <1>2, Untouched DEF GetTime

\* A leader that enters virtual time does so with no frozen time behind it.
LEMMA UnshareStep ==
  ASSUME TypeOK, Orderly, NEW c \in Caller, NEW t \in Task, Phase(c, t),
         Credited(c, t), NEW u \in Task, UnshareVirtualTime(u)
  PROVE  Phase(c, t)' /\ Credited(c, t)'
<1>1. CASE u # t
  BY <1>1, Untouched DEF UnshareVirtualTime, TypeOK
<1>2. CASE u = t
  <2>1. /\ vt'[t] = InitVirtualStartTime(vt[t], One, wall)
        /\ vt[t] = NoVirtualTime
        /\ obs'[t].stopped = 0 /\ obs'[t].latency = 0
        /\ call[c].tsk # t
    BY <1>2 DEF UnshareVirtualTime, TypeOK, Busy, Afresh, TimeOfDay, InVT, NoVirtualTime
  <2>2. /\ vt'[t].freeze_start = 0 /\ vt'[t].freeze_past = 0
        /\ vt'[t].virtual_start = wall /\ vt'[t].dilation = One
    BY <2>1 DEF InitVirtualStartTime, One
  <2>3. vt[t].freeze_start = 0 /\ wall \in Nat /\ wall > 0
    BY <2>1 DEF NoVirtualTime, TypeOK
  <2>4. run' = run /\ call' = call /\ wall' = wall
    BY DEF UnshareVirtualTime
  <2>5. Phase(c, t)'
    BY <2>1, <2>2, <2>3, <2>4 DEF Phase, At, InVT, One
  <2>6. Uncredited(c, t)' = 0
    BY <2>1, <2>2, <2>4 DEF Uncredited, At
  <2> QED BY <2>1, <2>2, <2>5, <2>6 DEF Credited
<1> QED BY <1>1, <1>2

\* set_dilation() reaches one leader, the one it is called on, outside any call
\* and while it is not frozen.
LEMMA DilationStep ==
  ASSUME TypeOK, Orderly, NEW c \in Caller, NEW t \in Task, Leader(t),
         Phase(c, t), Credited(c, t),
         NEW w \in Task \union {Nobody}, NEW u \in Task, NEW tdf \in TDFs,
         DilationWrite(w, u, tdf)
  PROVE  Phase(c, t)' /\ Credited(c, t)'
<1> DEFINE all == Dilated(u, tdf)
<1>1. WriterTime(w) = wall
  BY DEF DilationWrite, WriterTime, TimeOfDay
<1>2. \A d \in Task : d = w => KeepTime(vt[d], wall) = vt[d]
  BY TaskAssumption DEF DilationWrite, KeepTime
<1>3. vt' = [d \in Task |-> IF d \in all THEN SetDilation(vt[d], tdf, wall)
                                         ELSE vt[d]]
  BY <1>1, <1>2 DEF DilationWrite
<1>4. UNCHANGED <<wall, parent, run, call>>
  BY DEF DilationWrite
<1>5. /\ (vt[t].dilation = 0 /\ tdf > 0) \/ (vt[t].dilation # 0 /\ tdf = 0)
           => obs'[t] = IF t \in all THEN Afresh(obs[t]) ELSE obs[t]
      /\ ~((vt[t].dilation = 0 /\ tdf > 0) \/ (vt[t].dilation # 0 /\ tdf = 0))
           => obs'[t] = obs[t]
  BY DEF DilationWrite
<1>6. CASE t \notin all
  <2>1. vt'[t] = vt[t] /\ obs'[t] = obs[t]
    BY <1>3, <1>6 DEF DilationWrite
  <2> QED BY <1>4, <2>1, Untouched
<1>7. CASE t \in all
  <2>1. t = u
    BY <1>7, WalkApart DEF Dilated, Leader
  <2>2. call[c].tsk # t /\ vt[t].freeze_start = 0
    BY <2>1 DEF DilationWrite, Busy
  <2>3. vt'[t] = SetDilation(vt[t], tdf, wall)
    BY <1>3, <1>7
  <2>4. wall \in Nat /\ wall > 0 /\ tdf \in Int /\ vt[t].dilation \in Nat
    BY TaskAssumption DEF TypeOK, TaskFields
  <2>5. CASE vt[t].dilation = tdf \/ RefusesDilation(vt[t], tdf)
             \/ (vt[t].dilation = 0 /\ tdf <= 0)
    <3>1. vt'[t] = vt[t]
      BY <2>3, <2>4, <2>5 DEF SetDilation, InitVirtualStartTime
    <3>2. obs'[t] = obs[t]
      BY <1>5, <2>4, <2>5 DEF RefusesDilation
    <3> QED BY <1>4, <3>1, <3>2, Untouched
  <2>6. CASE vt[t].dilation = 0 /\ tdf > 0
    <3>1. vt'[t] = InitVirtualStartTime(vt[t], tdf, wall)
      BY <2>3, <2>4, <2>6 DEF SetDilation, RefusesDilation
    <3>2. /\ vt'[t].freeze_start = 0 /\ vt'[t].freeze_past = 0
          /\ vt'[t].virtual_start = wall /\ vt'[t].dilation = tdf
      BY <2>6, <3>1 DEF InitVirtualStartTime
    <3>3. obs'[t].stopped = 0 /\ obs'[t].latency = 0
      BY <1>5, <1>7, <2>6 DEF Afresh
    <3>4. Phase(c, t)'
      BY <1>4, <2>2, <2>4, <2>6, <3>2 DEF Phase, At, InVT
    <3>5. Uncredited(c, t)' = 0
      BY <1>4, <2>2, <3>2 DEF Uncredited, At
    <3> QED BY <3>2, <3>3, <3>4, <3>5 DEF Credited
  <2>7. CASE vt[t].dilation # 0 /\ tdf = 0
    <3>1. vt'[t] = NoVirtualTime
      BY <2>3, <2>4, <2>7 DEF SetDilation, RefusesDilation
    <3>2. /\ vt'[t].freeze_start = 0 /\ vt'[t].virtual_start = 0
          /\ vt'[t].dilation = 0
      BY <3>1 DEF NoVirtualTime
    <3>3. Phase(c, t)'
      BY <1>4, <2>2, <2>4, <3>2 DEF Phase, At, InVT
    <3> QED BY <3>2, <3>3 DEF Credited, InVT
  <2>8. CASE vt[t].dilation # 0 /\ tdf > 0 /\ vt[t].dilation # tdf
    <3>1. vt'[t] = Redilate(vt[t], tdf, wall)
      BY <2>3, <2>4, <2>8 DEF SetDilation, RefusesDilation
    <3>2. /\ vt'[t].freeze_start = vt[t].freeze_start
          /\ vt'[t].freeze_past = vt[t].freeze_past
          /\ vt'[t].virtual_start = wall /\ vt'[t].dilation = tdf
      BY <3>1 DEF Redilate
    <3>3. obs'[t] = obs[t]
      BY <1>5, <2>4, <2>8
    <3>4. InVT(vt[t])
      BY <2>8 DEF Phase
    <3>5. Phase(c, t)'
      BY <1>4, <2>2, <2>4, <2>8, <3>2 DEF Phase, At, InVT
    <3>6. Uncredited(c, t)' = 0 /\ Uncredited(c, t) = 0
      BY <1>4, <2>2, <3>2 DEF Uncredited, At
    <3> QED BY <3>2, <3>3, <3>4, <3>5, <3>6 DEF Credited
  <2> QED BY <2>4, <2>5, <2>6, <2>7, <2>8 DEF RefusesDilation
<1> QED BY <1>6, <1>7

\* freeze_write: the check of freeze_start, and the time that an unfreeze takes.
LEMMA WriteStep ==
  ASSUME TypeOK, Orderly, NEW c \in Caller, NEW t \in Task, Phase(c, t),
         Credited(c, t), NEW u \in Task, FreezeWrite(c, u) \/ UnfreezeWrite(c, u)
  PROVE  Phase(c, t)' /\ Credited(c, t)'
<1>1. /\ UNCHANGED <<wall, vt, run>> /\ call[c].pc = "idle" /\ call[c].tsk # t
      /\ obs'[t].stopped = obs[t].stopped /\ obs'[t].latency = obs[t].latency
      /\ InVT(vt[u]) /\ vt[t].freeze_start \in Int /\ wall \in Int
  BY DEF FreezeWrite, UnfreezeWrite, OrderlyFreeze, At, TypeOK, TaskFields
<1>2. CASE call' = call
  BY <1>1, <1>2, Untouched
<1>3. CASE call'[c] = [pc |-> "f_stop", tsk |-> u, now |-> 0] /\ vt[u].freeze_start <= 0
  <2>1. CASE u # t
    BY <1>1, <1>3, <2>1, Untouched
  <2>2. CASE u = t
    <3>1. run[t] = "running" /\ vt[t].freeze_start = 0
      BY <1>1, <1>3, <2>2 DEF Phase
    <3>2. Phase(c, t)'
      BY <1>1, <1>3, <2>2, <3>1 DEF Phase, At, InVT
    <3>3. Uncredited(c, t)' = 0 /\ Uncredited(c, t) = 0
      BY <1>1, <1>3, <2>2, <3>1 DEF Uncredited, At
    <3> QED BY <1>1, <3>2, <3>3 DEF Credited, InVT
  <2> QED BY <2>1, <2>2
<1>4. CASE call'[c] = [pc |-> "u_credit", tsk |-> u, now |-> wall] /\ vt[u].freeze_start # 0
  <2>1. CASE u # t
    BY <1>1, <1>4, <2>1, Untouched
  <2>2. CASE u = t
    <3>1. run[t] = "stopped" /\ vt[t].freeze_start > 0
      BY <1>1, <1>4, <2>2 DEF Phase
    <3>2. Phase(c, t)'
      BY <1>1, <1>4, <2>2, <3>1 DEF Phase, At, InVT
    <3>3. Uncredited(c, t)' = wall - vt[t].freeze_start
      BY <1>1, <1>4, <2>2, <3>1 DEF Uncredited, At
    <3>4. Uncredited(c, t) = wall - vt[t].freeze_start
      BY <1>1, <3>1 DEF Uncredited, At
    <3> QED BY <1>1, <3>2, <3>3, <3>4 DEF Credited, InVT
  <2> QED BY <2>1, <2>2
<1> QED
  <2>1. CASE FreezeWrite(c, u)
    BY <1>1, <1>2, <1>3, <2>1 DEF FreezeWrite, TypeOK, TaskFields
  <2>2. CASE UnfreezeWrite(c, u)
    BY <1>1, <1>4, <2>2 DEF UnfreezeWrite, TypeOK
  <2> QED BY <2>1, <2>2

\* freeze_time(): the process stops, the time is taken, the mark is set.
LEMMA FreezeStep ==
  ASSUME TypeOK, ~SMP, NEW c \in Caller, NEW t \in Task, Phase(c, t),
         Credited(c, t), FreezeStop(c) \/ FreezeStamp(c) \/ FreezeMark(c)
  PROVE  Phase(c, t)' /\ Credited(c, t)'
<1>1. /\ wall' = wall /\ obs' = obs /\ wall \in Nat /\ wall > 0
      /\ call[c].tsk \in Task /\ vt[t] \in TaskFields
  BY DEF FreezeStop, FreezeStamp, FreezeMark, At, TypeOK
<1>2. CASE FreezeStop(c) /\ call[c].tsk = t
  <2>1. /\ call'[c] = [pc |-> "f_stamp", tsk |-> t, now |-> 0]
        /\ vt' = vt /\ vt[t].freeze_start = 0 /\ run[t] = "running"
        /\ run'[t] = "stopped" /\ InVT(vt[t]) /\ call[c].pc = "f_stop"
    BY <1>2 DEF FreezeStop, Goto, At, Phase, TypeOK
  <2>2. Phase(c, t)'
    BY <1>1, <2>1 DEF Phase, At, InVT
  <2>3. Uncredited(c, t)' = 0 /\ Uncredited(c, t) = 0
    BY <1>1, <2>1 DEF Uncredited, At
  <2> QED BY <1>1, <2>1, <2>2, <2>3 DEF Credited, InVT
<1>3. CASE FreezeStamp(c) /\ call[c].tsk = t
  <2>1. /\ call'[c] = [pc |-> "f_mark", tsk |-> t, now |-> wall]
        /\ vt' = vt /\ vt[t].freeze_start = 0 /\ run'[t] = "stopped"
        /\ run[t] = "stopped" /\ InVT(vt[t]) /\ call[c].pc = "f_stamp"
    BY <1>3 DEF FreezeStamp, Goto, At, Phase, TypeOK
  <2>2. Phase(c, t)'
    BY <1>1, <2>1 DEF Phase, At, InVT
  <2>3. Uncredited(c, t)' = 0 /\ Uncredited(c, t) = 0
    BY <1>1, <1>3, <2>1 DEF Uncredited, At
  <2> QED BY <1>1, <2>1, <2>2, <2>3 DEF Credited, InVT
<1>4. CASE FreezeMark(c) /\ call[c].tsk = t
  <2>1. /\ call'[c] = [pc |-> "idle", tsk |-> Nobody, now |-> 0]
        /\ vt[t].freeze_start = 0 /\ run'[t] = "stopped" /\ run[t] = "stopped"
        /\ InVT(vt[t]) /\ call[c].pc = "f_mark"
        /\ call[c].now \in Int /\ 0 < call[c].now /\ call[c].now <= wall
    BY <1>4 DEF FreezeMark, Return, Idle, At, Phase, TypeOK
  <2>2. /\ vt'[t].freeze_start = call[c].now
        /\ vt'[t].freeze_past = vt[t].freeze_past
        /\ vt'[t].virtual_start = vt[t].virtual_start
        /\ vt'[t].dilation = vt[t].dilation
    BY <1>1, <1>4 DEF FreezeMark, TypeOK, TaskFields
  <2>3. Nobody # t
    BY TaskAssumption
  <2>4. Phase(c, t)'
    BY <1>1, <2>1, <2>2, <2>3 DEF Phase, At, InVT
  <2>5. /\ Uncredited(c, t)' = wall - call[c].now
        /\ Uncredited(c, t) = wall - call[c].now
    BY <1>1, <1>4, <2>1, <2>2, <2>3 DEF Uncredited, At
  <2> QED BY <1>1, <2>1, <2>2, <2>4, <2>5 DEF Credited, InVT
<1>5. CASE call[c].tsk # t
  <2>1. run'[t] = run[t] /\ vt'[t] = vt[t] /\ call'[c].tsk # t
    BY <1>5, TaskAssumption
       DEF FreezeStop, FreezeStamp, FreezeMark, Goto, Return, Idle, TypeOK
  <2> QED BY <1>1, <1>5, <2>1, Untouched
<1> QED BY <1>2, <1>3, <1>4, <1>5

\* unfreeze_time(): the credit, the mark and its copies, SIGCONT.
LEMMA UnfreezeCreditStep ==
  ASSUME TypeOK, NEW c \in Caller, NEW t \in Task, Phase(c, t), Credited(c, t),
         UnfreezeCredit(c)
  PROVE  Phase(c, t)' /\ Credited(c, t)'
<1>1. /\ wall' = wall /\ obs' = obs /\ run' = run /\ wall \in Nat
      /\ call[c].tsk \in Task /\ vt[t] \in TaskFields /\ call[c].now \in Int
      /\ call[c].pc = "u_credit"
      /\ call'[c] = [pc |-> "u_clear", tsk |-> call[c].tsk, now |-> 0]
  BY DEF UnfreezeCredit, Goto, At, TypeOK
<1>2. CASE call[c].tsk = t
  <2>1. /\ vt'[t].freeze_start = vt[t].freeze_start
        /\ vt'[t].freeze_past
             = vt[t].freeze_past + (call[c].now - vt[t].freeze_start)
        /\ vt'[t].virtual_start = vt[t].virtual_start
        /\ vt'[t].dilation = vt[t].dilation
    BY <1>1, <1>2 DEF UnfreezeCredit, CreditFreeze, TypeOK, TaskFields
  <2>2. run[t] = "stopped" /\ vt[t].freeze_start > 0 /\ InVT(vt[t])
    BY <1>1, <1>2 DEF Phase, At
  <2>3. Phase(c, t)'
    BY <1>1, <1>2, <2>1, <2>2 DEF Phase, At, InVT
  <2>4. /\ Uncredited(c, t)' = 0
        /\ Uncredited(c, t) = call[c].now - vt[t].freeze_start
    BY <1>1, <1>2 DEF Uncredited, At
  <2>5. vt[t].freeze_past \in Int /\ vt[t].freeze_start \in Int
    BY <1>1 DEF TaskFields
  <2> QED BY <1>1, <2>1, <2>2, <2>3, <2>4, <2>5 DEF Credited
<1>3. CASE call[c].tsk # t
  <2>1. vt'[t] = vt[t]
    BY <1>1, <1>3 DEF UnfreezeCredit, TypeOK
  <2> QED BY <1>1, <1>3, <2>1, Untouched
<1> QED BY <1>2, <1>3

LEMMA UnfreezeClearStep ==
  ASSUME TypeOK, NEW c \in Caller, NEW t \in Task, Leader(t), Phase(c, t),
         Credited(c, t), UnfreezeClear(c)
  PROVE  Phase(c, t)' /\ Credited(c, t)'
<1>1. /\ wall' = wall /\ obs' = obs /\ run' = run /\ wall \in Nat
      /\ call[c].tsk \in Task /\ vt[t] \in TaskFields
      /\ call[c].pc = "u_clear"
      /\ call'[c] = [pc |-> "u_cont", tsk |-> call[c].tsk, now |-> 0]
  BY DEF UnfreezeClear, Goto, At, TypeOK
<1>2. CASE call[c].tsk = t
  <2>1. vt'[t] = [vt[t] EXCEPT !.freeze_start = 0]
    BY <1>2 DEF UnfreezeClear
  <2>2. /\ vt'[t].freeze_start = 0
        /\ vt'[t].freeze_past = vt[t].freeze_past
        /\ vt'[t].virtual_start = vt[t].virtual_start
        /\ vt'[t].dilation = vt[t].dilation
    BY <1>1, <2>1 DEF TaskFields
  <2>3. run[t] = "stopped" /\ InVT(vt[t])
    BY <1>1, <1>2 DEF Phase, At
  <2>4. Phase(c, t)'
    BY <1>1, <1>2, <2>2, <2>3 DEF Phase, At, InVT
  <2>5. Uncredited(c, t)' = 0 /\ Uncredited(c, t) = 0
    BY <1>1, <1>2, <2>2 DEF Uncredited, At
  <2> QED BY <1>1, <2>2, <2>3, <2>4, <2>5 DEF Credited
<1>3. CASE call[c].tsk # t
  <2>1. t \notin Descendants(call[c].tsk)
    BY <1>1, <1>3, WalkApart DEF Descendants, Leader
  <2>2. vt'[t] = vt[t]
    BY <1>3, <2>1 DEF UnfreezeClear
  <2> QED BY <1>1, <1>3, <2>2, Untouched
<1> QED BY <1>2, <1>3

LEMMA UnfreezeContinueStep ==
  ASSUME TypeOK, NEW c \in Caller, NEW t \in Task, Phase(c, t), Credited(c, t),
         UnfreezeContinue(c)
  PROVE  Phase(c, t)' /\ Credited(c, t)'
<1>1. /\ wall' = wall /\ obs' = obs /\ vt' = vt /\ wall \in Nat
      /\ vt[t] \in TaskFields /\ call[c].pc = "u_cont"
      /\ call'[c] = [pc |-> "idle", tsk |-> Nobody, now |-> 0] /\ Nobody # t
  BY TaskAssumption DEF UnfreezeContinue, Return, Idle, At, TypeOK
<1>2. CASE call[c].tsk = t
  <2>1. run'[t] = "running" /\ vt[t].freeze_start = 0
    BY <1>1, <1>2 DEF UnfreezeContinue, Phase, At, TypeOK
  <2>2. Phase(c, t)'
    BY <1>1, <2>1 DEF Phase, At, InVT
  <2>3. Uncredited(c, t)' = 0 /\ Uncredited(c, t) = 0
    BY <1>1, <2>1 DEF Uncredited, At
  <2> QED BY <1>1, <2>2, <2>3 DEF Credited, InVT
<1>3. CASE call[c].tsk # t
  <2>1. run'[t] = run[t] /\ call'[c].tsk # t
    BY <1>1, <1>3 DEF UnfreezeContinue, TypeOK
  <2> QED BY <1>1, <1>3, <2>1, Untouched
<1> QED BY <1>2, <1>3

\* Steps of processes that are not leaders.
LEMMA OtherStep ==
  ASSUME TypeOK, ForkInv, NEW c \in Caller, NEW t \in Task, Leader(t), Phase(c, t),
         Credited(c, t), NEW p \in Task, NEW q \in Task,
         ForkCopy(p, q) \/ ForkLink(p) \/ ForkAbort(p) \/ TakeStop(q) \/ UNCHANGED vars
  PROVE  Phase(c, t)' /\ Credited(c, t)'
<1>1. ForkLink(p) \/ ForkAbort(p) => copy[p] \in Task /\ copy[p] # t
  BY DEF ForkLink, ForkAbort, ForkInv, Leader, TypeOK
<1>2. /\ wall' = wall /\ call' = call
      /\ run'[t] = run[t] /\ vt'[t] = vt[t] /\ obs'[t] = obs[t]
  BY <1>1 DEF ForkCopy, ForkLink, ForkAbort, TakeStop, vars, Leader, Born, Phase, TypeOK
<1> QED BY <1>2, Untouched

-----------------------------------------------------------------------------
(***************************************************************************)
(* The two invariants together are inductive.                              *)
(***************************************************************************)
IInv == TypeOK /\ ForkInv /\ PhaseInv /\ ExactCredit

LEMMA PhaseInit == Init => PhaseInv /\ ExactCredit
<1> SUFFICES ASSUME Init, NEW c \in Caller, NEW t \in Task
             PROVE  /\ call[c].tsk = t => Leader(t)
                    /\ Leader(t) => Phase(c, t)
                    /\ Credited(c, t)
  BY DEF PhaseInv, ExactCredit
<1>1. /\ call[c].tsk # t /\ call[c].pc = "idle" /\ wall = 1
      /\ vt[t].freeze_start = 0 /\ vt[t].virtual_start = 0 /\ vt[t].dilation = 0
      /\ run[t] # "unborn" => run[t] = "running"
  BY TaskAssumption DEF Init, Idle, NoVirtualTime
<1> QED BY <1>1 DEF Phase, Credited, Leader, Born, At, InVT

LEMMA LeaderStep ==
  ASSUME IInv, [Next]_vars, Orderly, ~SMP, NEW c \in Caller, Caller = {c},
         NEW t \in Task, Leader(t)
  PROVE  Phase(c, t)' /\ Credited(c, t)'
<1>1. TypeOK /\ ForkInv /\ Phase(c, t) /\ Credited(c, t)
  BY DEF IInv, PhaseInv, ExactCredit
<1>2. CASE Tick
  BY <1>1, <1>2, TickStep
<1>3. ASSUME NEW u \in Task, GetTime(u) \/ UnshareVirtualTime(u)
      PROVE  Phase(c, t)' /\ Credited(c, t)'
  BY <1>1, <1>3, GetTimeStep, UnshareStep
<1>4. ASSUME NEW w \in Task \union {Nobody}, NEW u \in Task, NEW tdf \in TDFs,
             DilationWrite(w, u, tdf)
      PROVE  Phase(c, t)' /\ Credited(c, t)'
  BY <1>1, <1>4, DilationStep
<1>5. ASSUME NEW u \in Task, FreezeWrite(c, u) \/ UnfreezeWrite(c, u)
      PROVE  Phase(c, t)' /\ Credited(c, t)'
  BY <1>1, <1>5, WriteStep
<1>6. CASE CallStep(c)
  BY <1>1, <1>6, FreezeStep, UnfreezeCreditStep, UnfreezeClearStep,
     UnfreezeContinueStep DEF CallStep
<1>7. ASSUME NEW p \in Task, NEW q \in Task,
             ForkCopy(p, q) \/ ForkLink(p) \/ ForkAbort(p) \/ TakeStop(q)
      PROVE  Phase(c, t)' /\ Credited(c, t)'
  BY <1>1, <1>7, OtherStep
<1>8. CASE UNCHANGED vars
  BY <1>1, <1>8, OtherStep
<1> QED BY <1>2, <1>3, <1>4, <1>5, <1>6, <1>7, <1>8 DEF Next

LEMMA CallTaskStep ==
  ASSUME TypeOK, ForkInv, PhaseInv, Orderly, [Next]_vars,
         NEW c \in Caller, NEW t \in Task, call'[c].tsk = t
  PROVE  Leader(t)'
<1>1. ASSUME NEW b \in Caller, NEW u \in Task, FreezeWrite(b, u) \/ UnfreezeWrite(b, u)
      PROVE  call'[c].tsk = call[c].tsk \/ (call'[c].tsk = u /\ Leader(u))
  BY <1>1 DEF FreezeWrite, UnfreezeWrite, OrderlyFreeze, TypeOK
<1>2. ASSUME NEW b \in Caller, CallStep(b)
      PROVE  call'[c].tsk = call[c].tsk \/ call'[c].tsk = Nobody
  BY <1>2 DEF CallStep, FreezeStop, FreezeStamp, FreezeMark, UnfreezeCredit,
              UnfreezeClear, UnfreezeContinue, Goto, Return, Idle, TypeOK
<1>3. call'[c].tsk = call[c].tsk \/ Leader(t)
  BY <1>1, <1>2, TaskAssumption
     DEF Next, vars, Tick, GetTime, UnshareVirtualTime, TakeStop, ForkCopy, ForkLink,
         ForkAbort, DilationWrite
<1>4. Leader(t)
  BY <1>3 DEF PhaseInv
<1> QED BY <1>4, LeaderSame

LEMMA InvStep ==
  ASSUME IInv, [Next]_vars, Orderly, ~SMP, NEW c \in Caller, Caller = {c}
  PROVE  IInv'
<1>1. TypeOK' /\ ForkInv'
  BY TypeStep, ForkStep DEF IInv
<1>2. ASSUME NEW t \in Task, call'[c].tsk = t PROVE Leader(t)'
  BY <1>2, CallTaskStep DEF IInv
<1>3. ASSUME NEW t \in Task, Leader(t)' PROVE Phase(c, t)' /\ Credited(c, t)'
  BY <1>3, LeaderSame, LeaderStep DEF IInv
<1>4. PhaseInv'
  BY <1>2, <1>3 DEF PhaseInv
<1>5. ExactCredit'
  BY <1>3 DEF ExactCredit
<1> QED BY <1>1, <1>4, <1>5 DEF IInv

-----------------------------------------------------------------------------
(***************************************************************************)
(* On one CPU, with one orderly caller.                                    *)
(***************************************************************************)

\* Every step of freeze_time() and unfreeze_time() finds a leader where that step
\* of the code expects it.
THEOREM EveryStepInPhase ==
  ASSUME Orderly, ~SMP, NEW c \in Caller, Caller = {c}
  PROVE  Spec => []PhaseInv
<1>1. Init => IInv
  BY TypeInit, ForkInit, PhaseInit DEF IInv
<1>2. IInv /\ [Next]_vars => IInv'
  BY InvStep
<1>3. IInv => PhaseInv
  BY DEF IInv
<1> QED BY <1>1, <1>2, <1>3, PTL DEF Spec

\* unfreeze_time() credits exactly the time for which the leader was stopped,
\* whatever the factors and however often it is frozen, unfrozen or asked to.
THEOREM CreditIsExact ==
  ASSUME Orderly, ~SMP, NEW c \in Caller, Caller = {c}
  PROVE  Spec => []ExactCredit
<1>1. Init => IInv
  BY TypeInit, ForkInit, PhaseInit DEF IInv
<1>2. IInv /\ [Next]_vars => IInv'
  BY InvStep
<1>3. IInv => ExactCredit
  BY DEF IInv
<1> QED BY <1>1, <1>2, <1>3, PTL DEF Spec

\* No leader is left stopped with freeze_start = 0, where unfreeze_time() would
\* ignore it for ever.
THEOREM NoLeaderStranded ==
  ASSUME Orderly, ~SMP, NEW c \in Caller, Caller = {c}
  PROVE  Spec => []StoppedCanContinue
<1>1. PhaseInv => StoppedCanContinue
  BY DEF PhaseInv, Phase, StoppedCanContinue, Busy
<1> QED BY <1>1, EveryStepInPhase, PTL

\* A leader that is marked frozen is stopped.
THEOREM MarkMeansStopped ==
  ASSUME Orderly, ~SMP, NEW c \in Caller, Caller = {c}
  PROVE  Spec => []FrozenIsStopped
<1>1. PhaseInv => FrozenIsStopped
  BY DEF PhaseInv, Phase, FrozenIsStopped, Busy
<1> QED BY <1>1, EveryStepInPhase, PTL
=============================================================================
