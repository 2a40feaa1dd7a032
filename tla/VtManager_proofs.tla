-------------------------- MODULE VtManager_proofs --------------------------
(***************************************************************************)
(* The managers of any number of boards, which know nothing of each other: *)
(* their pauses overlap, one may drive the wire low while another drives   *)
(* it high, and each board sees of that what its pins make of it.          *)
(***************************************************************************)
EXTENDS VtManager, VtGpio_proofs

-----------------------------------------------------------------------------
(***************************************************************************)
(* The invariants.  A manager writes when every interrupt has been served; *)
(* then boards see the wire rise, or some see it fall and, when the writer *)
(* lets go, rise again.  So whoever sees it low has no rise to serve after *)
(* its last fall.                                                          *)
(***************************************************************************)
\* The lists and the handlers, whatever the level of the wire.
ListsInv(b) ==
  /\ module[b].loaded /\ TableInv(b) /\ HandlerInv(b)
  /\ Stopped(b) \subseteq Members(b)

\* A board that sees the wire low has continued its process, or is about to.
LowInv(b) ==
  b \in SeeLow =>
    \/ In(b, {}, "idle") /\ Stopped(b) = {}
    \/ In(b, {"fall"}, "idle")
    \/ In(b, {}, "credit") /\ Stopped(b) \subseteq PidsAt(b, Slots(isr[b].pids))
    \/ In(b, {}, "cont") /\ Stopped(b) \subseteq Todo(b)

ReleaseInv == ManagerTypeOK /\ \A b \in Board : ListsInv(b) /\ LowInv(b)

\* Each board lists its process once it is enrolled, and nothing else.
OneList(b) ==
  /\ main[b] # "enrolled" => store[b] = {}
  /\ module[b].all_pid_nrs =
       IF main[b] = "enrolled" THEN [NoPids EXCEPT ![1] = p2(b)] ELSE NoPids

\* Nobody pauses before everybody is enrolled.
AllReady  == \A x \in Board : Ready(x)
BeforeInv ==
  ~AllReady => \A b \in Board : work[b] = 0 /\ manager[b] = "recv" /\ pin[b] = "in"

\* None exits.
Reach == run \in [Task -> {"running", "stopping", "stopped"}]

\* Until a board has driven the wire low against another one, a board that sees it
\* high has stopped its process, or is about to; one that does not is quiet.
Holds(b) ==
  \/ In(b, {"rise"}, "idle")
  \/ In(b, {}, "stop") /\ p2(b) \in Stopped(b) \union Todo(b)
  \/ In(b, {}, "end") /\ p2(b) \in Stopped(b)
  \/ In(b, {}, "idle") /\ p2(b) \in Stopped(b)
HeldInv(b) ==
  High(pin) /\ ~wire.clashed => IF b \in SeeLow THEN Quiet(b) ELSE Holds(b)

\* A wire that is not driven both ways has one level.
LevelInv == ~(High(pin) /\ Low(pin)) => wire.low = {}

PauseInv ==
  /\ ReleaseInv /\ Reach /\ BeforeInv /\ LevelInv
  /\ \A b \in Board : OneList(b) /\ HeldInv(b)

-----------------------------------------------------------------------------
\* One process on each board.
LEMMA OneEachBoard ==
  ASSUME NEW b \in Board
  PROVE  /\ p2(b) \in Task /\ home[p2(b)] = b
         /\ \A t \in Task : home[t] = b => t = p2(b)
<1>1. \E t \in Task : home[t] = b
  BY ManagerAssumption
<1>2. p2(b) \in Task /\ home[p2(b)] = b
  BY <1>1 DEF p2
<1> QED BY <1>2, ManagerAssumption

LEMMA FirstSlot == 1 \in Slot
BY GpioAssumption, ManagerAssumption DEF Slot

\* Every step of the managers is a step of VtGpio, or leaves it alone.
LEMMA GpioStep == [ManagerNext]_allVars => [Next]_vars
<1> SUFFICES ASSUME [ManagerNext]_allVars PROVE Next \/ UNCHANGED vars
  OBVIOUS
<1>1. ASSUME Kernel PROVE Next
  BY <1>1 DEF Kernel, Next
<1>2. ASSUME NEW b \in Board, writeProcToFile(b) PROVE Next
  <2>1. p2(b) \in PidOrNone
    BY OneEachBoard DEF PidOrNone
  <2> QED BY <1>2, <2>1, FirstSlot DEF writeProcToFile, Next
<1>3. ASSUME NEW b \in Board, Freeze(b) \/ Unfreeze(b) \/ Unfrozen(b) PROVE Next
  BY <1>3 DEF Freeze, Unfreeze, Unfrozen, Next
<1>4. ASSUME NEW b \in Board, \/ Start(b) \/ valueRetriever(b) \/ Recv(b) \/ StopPoll(b)
                              \/ Wake(b) \/ ResumePoll(b)
      PROVE  UNCHANGED vars
  BY <1>4 DEF Start, valueRetriever, Recv, StopPoll, Wake, ResumePoll
<1> QED BY <1>1, <1>2, <1>3, <1>4 DEF ManagerNext, startConnectionManager, allVars

LEMMA ManagerTypeInit == ManagerInit => ManagerTypeOK
<1> USE GpioAssumption, ManagerAssumption
<1> SUFFICES ASSUME ManagerInit PROVE ManagerTypeOK
  OBVIOUS
<1>1. NoIsr \in IsrType /\ NoVirtualTime \in TaskFields
  BY NoIsrType, NoVirtualTimeType
<1>2. [Fresh EXCEPT !.loaded = TRUE] \in ModuleType
  BY FreshType DEF ModuleType
<1>3. \E m \in ModuleType : module = [b \in Board |-> m]
  BY <1>2 DEF ManagerInit
<1>4. module \in [Board -> ModuleType]
  BY <1>3
<1>5. wire \in [low: SUBSET Dips, clashed: BOOLEAN]
  BY DEF ManagerInit, Undisturbed
<1>6. /\ vt = [t \in Task |-> NoVirtualTime] /\ isr = [b \in Board |-> NoIsr]
      /\ obs = [t \in Task |-> Unobserved] /\ run = [t \in Task |-> "running"]
      /\ wall = 1 /\ pin = [b \in Board |-> "in"]
      /\ irq = [b \in Board |-> {}] /\ store = [b \in Board |-> {}]
  BY DEF ManagerInit
<1>7. TypeOK
  BY <1>1, <1>4, <1>5, <1>6 DEF TypeOK, ModuleType, IsrType, Unobserved
<1> QED BY <1>7 DEF ManagerInit, ManagerTypeOK, ManagerStates

LEMMA ManagerTypeStep == ManagerTypeOK /\ [ManagerNext]_allVars => ManagerTypeOK'
<1> SUFFICES ASSUME ManagerTypeOK, [ManagerNext]_allVars PROVE ManagerTypeOK'
  OBVIOUS
<1>1. TypeOK'
  BY GpioStep, TypeStep DEF ManagerTypeOK
<1>2. MaxWork \in Nat
  BY ManagerAssumption
<1>3. CASE Kernel \/ UNCHANGED allVars
  BY <1>1, <1>3 DEF Kernel, allVars, managers, ManagerTypeOK
<1>4. ASSUME NEW b \in Board, Start(b) \/ writeProcToFile(b) PROVE ManagerTypeOK'
  BY <1>1, <1>4 DEF Start, writeProcToFile, ManagerTypeOK
<1>5. ASSUME NEW b \in Board, valueRetriever(b) PROVE ManagerTypeOK'
  BY <1>1, <1>2, <1>5 DEF valueRetriever, ManagerTypeOK
<1>6. ASSUME NEW b \in Board, Recv(b) PROVE ManagerTypeOK'
  BY <1>1, <1>2, <1>6 DEF Recv, Goes, ManagerTypeOK, ManagerStates
<1>7. ASSUME NEW b \in Board, \/ StopPoll(b) \/ Freeze(b) \/ Wake(b) \/ ResumePoll(b)
                              \/ Unfreeze(b) \/ Unfrozen(b)
      PROVE  ManagerTypeOK'
  <2>1. \E next \in ManagerStates : manager' = [manager EXCEPT ![b] = next]
    BY <1>7 DEF StopPoll, Freeze, Wake, ResumePoll, Unfreeze, Unfrozen, Goes,
       ManagerStates
  <2>2. UNCHANGED <<main, work>>
    BY <1>7 DEF StopPoll, Freeze, Wake, ResumePoll, Unfreeze, Unfrozen
  <2> QED BY <1>1, <2>1, <2>2 DEF ManagerTypeOK
<1> QED BY <1>3, <1>4, <1>5, <1>6, <1>7 DEF ManagerNext, startConnectionManager

\* Types, whatever the managers do and whenever.
THEOREM ManagersTypeCorrect == ManagerSpec => []ManagerTypeOK
BY ManagerTypeInit, ManagerTypeStep, PTL DEF ManagerSpec

-----------------------------------------------------------------------------
(***************************************************************************)
(* What a step leaves alone.                                               *)
(***************************************************************************)
SameBoard(b) == SameModule(b) /\ SameRun(b) /\ SameIsr(b)

\* The lists and the handlers do not depend on the wire.
LEMMA SameLists == ASSUME NEW b \in Board, ListsInv(b), SameModule(b), SameRun(b),
                          isr'[b] = isr[b]
                   PROVE  /\ ListsInv(b)'
                          /\ Members(b)' = Members(b) /\ Stopped(b)' = Stopped(b)
<1>1. Members(b)' = Members(b) /\ Stopped(b)' = Stopped(b)
  BY SameMembers
<1>2. \A t \in Task : home[t] = b => (Member(t)' <=> Member(t)) /\ (Alive(t)' <=> Alive(t))
  BY DEF SameModule, SameRun, Member, Alive, Listed
<1>3. HandlerInv(b)'
  BY <1>2 DEF ListsInv, HandlerInv, At, Slots
<1> QED BY <1>1, <1>3 DEF ListsInv, TableInv, SameModule

\* A board of which nothing has changed, and which sees the wire as before.
LEMMA SameLow == ASSUME NEW b \in Board, ListsInv(b), LowInv(b), SameBoard(b),
                        UNCHANGED <<pin, wire>>
                 PROVE  ListsInv(b)' /\ LowInv(b)'
<1>1. ListsInv(b)' /\ Members(b)' = Members(b) /\ Stopped(b)' = Stopped(b)
  BY SameLists DEF SameBoard, SameIsr
<1>2. SeeLow' = SeeLow
  BY DEF SeeLow, High
<1>3. isr'[b] = isr[b] /\ irq'[b] = irq[b]
  BY DEF SameBoard, SameIsr
<1> QED BY <1>1, <1>2, <1>3 DEF LowInv, In, At, Todo, PidsAt, Slots

LEMMA SameHeld == ASSUME NEW b \in Board, HeldInv(b), SameBoard(b), UNCHANGED <<pin, wire>>
                  PROVE  HeldInv(b)'
<1>1. Stopped(b)' = Stopped(b)
  BY SameMembers DEF SameBoard
<1>2. SeeLow' = SeeLow /\ (High(pin)' <=> High(pin))
  BY DEF SeeLow, High
<1>3. isr'[b] = isr[b] /\ irq'[b] = irq[b]
  BY DEF SameBoard, SameIsr
<1> QED BY <1>1, <1>2, <1>3 DEF HeldInv, Holds, Quiet, In, At, Todo, PidsAt

\* A step that concerns no board: the clock, the managers' polls, a process that
\* takes its signal, a dilation.
LEMMA Idle == ASSUME ManagerTypeOK,
                     \/ \E b \in Board : \/ Start(b) \/ valueRetriever(b) \/ Recv(b)
                                         \/ StopPoll(b) \/ Wake(b) \/ ResumePoll(b)
                     \/ \E b \in Board : dilate_proc(b)
                     \/ \E t \in Task : TakeStop(t)
                     \/ UNCHANGED vars
              PROVE  UNCHANGED <<pin, wire, module>> /\ \A x \in Board : SameBoard(x)
<1>1. CASE UNCHANGED vars
  BY <1>1 DEF vars, SameBoard, SameModule, SameRun, SameIsr
<1>2. CASE \E b \in Board : dilate_proc(b)
  BY <1>2 DEF dilate_proc, SameBoard, SameModule, SameRun, SameIsr
<1>3. CASE \E t \in Task : TakeStop(t)
  BY <1>3 DEF TakeStop, SameBoard, SameModule, SameRun, SameIsr, ManagerTypeOK, TypeOK
<1> QED BY <1>1, <1>2, <1>3 DEF Start, valueRetriever, Recv, StopPoll, Wake, ResumePoll

-----------------------------------------------------------------------------
(***************************************************************************)
(* A handler, on a board on which it keeps the invariants.                 *)
(***************************************************************************)
HandlerOf(b) == TakeInterrupt(b) \/ IsrStep(b)

\* What a handler sees of its list, and which processes it may signal.
LEMMA Elsewhere == ASSUME ManagerTypeOK, NEW b \in Board, ListsInv(b), HandlerOf(b)
                   PROVE  /\ UNCHANGED <<pin, wire>>
                          /\ \A x \in Board \ {b} : SameBoard(x)
                          /\ \A x \in Board : SameModule(x)
<1>0. TypeOK
  BY DEF ManagerTypeOK
<1>1. CASE TakeInterrupt(b)
  BY <1>0, <1>1 DEF TakeInterrupt, Interrupt, SameBoard, SameModule, SameRun, SameIsr, TypeOK
<1>2. CASE Stamp(b) \/ Credit(b) \/ CreditDone(b) \/ Leave(b)
  <2>1. UNCHANGED <<run, pin, wire, irq>>
    BY <1>2 DEF Stamp, Credit, CreditDone, Leave
  <2>2. \A x \in Board \ {b} : isr'[x] = isr[x]
    <3>1. CASE Credit(b)
      <4>1. PICK i \in Slot : isr' = [isr EXCEPT ![b].todo = @ \ {i}]
        BY <3>1 DEF Credit
      <4> QED BY <1>0, <4>1 DEF TypeOK
    <3>2. CASE Stamp(b) \/ CreditDone(b) \/ Leave(b)
      BY <1>0, <3>2 DEF Stamp, CreditDone, Leave, TypeOK
    <3> QED BY <1>2, <3>1, <3>2
  <2>3. \A x \in Board : SameModule(x)
    <3>1. CASE Stamp(b)
      BY <1>0, <3>1 DEF Stamp, SameModule, TypeOK
    <3>2. CASE Credit(b) \/ CreditDone(b) \/ Leave(b)
      BY <3>2 DEF Credit, CreditDone, Leave, SameModule
    <3> QED BY <1>2, <3>1, <3>2
  <2> QED BY <2>1, <2>2, <2>3 DEF SameBoard, SameRun, SameIsr
<1>3. CASE SignalStop(b) \/ SignalContinue(b)
  <2>1. PICK i, s :
          LET t == isr[b].pids[i] IN
          /\ i \in Slot /\ First(i, isr[b].todo)
          /\ run' = [run EXCEPT ![t] = s] \/ run' = run
          /\ isr' = [isr EXCEPT ![b].todo = @ \ {i}]
          /\ UNCHANGED <<module, irq, pin, wire>>
    BY <1>3 DEF SignalStop, SignalContinue
  <2>2. home[isr[b].pids[i]] = b
    BY <2>1 DEF First, ListsInv, HandlerInv
  <2> QED BY <1>0, <2>1, <2>2 DEF SameBoard, SameModule, SameRun, SameIsr, TypeOK
<1> QED BY <1>1, <1>2, <1>3 DEF HandlerOf, IsrStep

\* An interrupt is taken: the handler gets the list.
LEMMA Taken == ASSUME ManagerTypeOK, NEW b \in Board, ListsInv(b),
                      NEW edge \in {"rise", "fall"}, Interrupt(b, edge)
               PROVE  /\ edge \in irq[b] /\ At(b, "idle") /\ irq'[b] = irq[b] \ {edge}
                      /\ isr'[b].pc = IF edge = "rise" THEN "stop" ELSE "credit"
                      /\ isr'[b].todo = Slots(isr[b].pids)'
                      /\ Members(b) \subseteq Todo(b)'
                      /\ ListsInv(b)' /\ Stopped(b)' = Stopped(b)
<1>0. TypeOK
  BY DEF ManagerTypeOK
<1>1. PICK current, duration :
        isr' = [isr EXCEPT ![b] =
          [pc |-> IF edge = "rise" THEN "stop" ELSE "credit",
           current |-> current, pids |-> AllPids(b), todo |-> Slots(AllPids(b)),
           duration |-> duration]]
  BY DEF Interrupt
<1>2. /\ edge \in irq[b] /\ At(b, "idle") /\ irq'[b] = irq[b] \ {edge}
      /\ UNCHANGED <<run, module>>
  BY <1>0 DEF Interrupt, TypeOK
<1>3. /\ isr'[b].pc = IF edge = "rise" THEN "stop" ELSE "credit"
      /\ isr'[b].pids = AllPids(b) /\ isr'[b].todo = Slots(AllPids(b))
  BY <1>0, <1>1 DEF TypeOK
<1>4. \A t \in Members(b) : \E i \in Slots(AllPids(b)) : AllPids(b)[i] = t
  BY GpioAssumption DEF Members, Member, AllPids, Slots, Listed
<1>5. \A i \in Slots(AllPids(b)) : AllPids(b)[i] \in Members(b)
  <2> SUFFICES ASSUME NEW i \in Slot, AllPids(b)[i] # NoPid
               PROVE  AllPids(b)[i] \in Members(b)
    BY DEF Slots
  <2>1. /\ i \in Listed(b) /\ AllPids(b)[i] = module[b].all_pid_nrs[i]
        /\ Alive(AllPids(b)[i])
    BY DEF AllPids
  <2>2. home[AllPids(b)[i]] = b
    BY <2>1 DEF ListsInv, TableInv
  <2>3. AllPids(b)[i] \in Task
    BY <1>0, <2>1 DEF TypeOK, PidOrNone
  <2> QED BY <2>1, <2>2, <2>3 DEF Members, Member
<1>6. Members(b)' = Members(b) /\ Stopped(b)' = Stopped(b)
  BY <1>2, SameMembers DEF SameModule, SameRun
<1>7. Slots(isr[b].pids)' = Slots(AllPids(b))
  BY <1>3 DEF Slots
<1>8. HandlerInv(b)'
  <2>1. ~At(b, "idle")'
    BY <1>3 DEF At
  <2>2. \A t \in Members(b) : t \in Task /\ home[t] = b /\ Member(t)'
    BY <1>6 DEF Members
  <2> QED BY <1>3, <1>5, <1>7, <2>1, <2>2 DEF HandlerInv
<1>9. ListsInv(b)'
  BY <1>2, <1>6, <1>8 DEF ListsInv, TableInv
<1>10. Members(b) \subseteq Todo(b)'
  BY <1>3, <1>4 DEF Todo, PidsAt
<1> QED BY <1>2, <1>3, <1>6, <1>7, <1>9, <1>10

\* A handler goes on without a signal.
LEMMA GoesOn == ASSUME ManagerTypeOK, NEW b \in Board, ListsInv(b),
                       Stamp(b) \/ Credit(b) \/ CreditDone(b) \/ Leave(b)
                PROVE  /\ ListsInv(b)' /\ Stopped(b)' = Stopped(b) /\ irq'[b] = irq[b]
                       /\ Stamp(b) => /\ At(b, "stop") /\ isr[b].todo = {}
                                      /\ At(b, "end")'
                       /\ Credit(b) => /\ At(b, "credit") /\ At(b, "credit")'
                                       /\ isr'[b].pids = isr[b].pids
                       /\ CreditDone(b) => /\ At(b, "credit") /\ At(b, "cont")'
                                           /\ isr'[b].pids = isr[b].pids
                                           /\ isr'[b].todo = Slots(isr[b].pids)
                       /\ Leave(b) => /\ At(b, "end") \/ (At(b, "cont") /\ isr[b].todo = {})
                                      /\ At(b, "idle")'
<1>0. TypeOK
  BY DEF ManagerTypeOK
<1>1. Stamp(b) => /\ At(b, "stop") /\ isr[b].todo = {} /\ At(b, "end")'
                  /\ isr'[b].pids = isr[b].pids /\ isr'[b].todo = isr[b].todo
  BY <1>0 DEF Stamp, At, TypeOK
<1>2. Credit(b) => /\ At(b, "credit") /\ At(b, "credit")'
                   /\ isr'[b].pids = isr[b].pids /\ isr'[b].todo \subseteq isr[b].todo
  <2> SUFFICES ASSUME Credit(b)
               PROVE  /\ At(b, "credit") /\ At(b, "credit")'
                      /\ isr'[b].pids = isr[b].pids /\ isr'[b].todo \subseteq isr[b].todo
    OBVIOUS
  <2>1. PICK i \in Slot : At(b, "credit") /\ isr' = [isr EXCEPT ![b].todo = @ \ {i}]
    BY DEF Credit
  <2> QED BY <1>0, <2>1 DEF At, TypeOK
<1>3. CreditDone(b) => /\ At(b, "credit") /\ At(b, "cont")'
                       /\ isr'[b].pids = isr[b].pids /\ isr'[b].todo = Slots(isr[b].pids)
  BY <1>0 DEF CreditDone, At, TypeOK
<1>4. Leave(b) => /\ At(b, "end") \/ (At(b, "cont") /\ isr[b].todo = {})
                  /\ At(b, "idle")' /\ isr'[b] = NoIsr
  BY <1>0 DEF Leave, At, TypeOK, NoIsr
<1>5. SameModule(b) /\ UNCHANGED run /\ irq'[b] = irq[b]
  <2>1. CASE Stamp(b)
    BY <1>0, <2>1 DEF Stamp, SameModule, TypeOK
  <2>2. CASE Credit(b) \/ CreditDone(b) \/ Leave(b)
    BY <2>2 DEF Credit, CreditDone, Leave, SameModule
  <2> QED BY <2>1, <2>2
<1>6. Members(b)' = Members(b) /\ Stopped(b)' = Stopped(b)
  BY <1>5, SameMembers DEF SameRun
<1>7. HandlerInv(b)'
  <2>1. \A t \in Task : home[t] = b => (Member(t)' <=> Member(t)) /\ (Alive(t)' <=> Alive(t))
    BY <1>5 DEF SameModule, Member, Alive, Listed
  <2>2. CASE Leave(b)
    BY <1>4, <2>2 DEF HandlerInv, NoIsr, NoPids, Slots
  <2>3. CASE ~At(b, "idle")' /\ isr'[b].pids = isr[b].pids
             /\ isr'[b].todo \subseteq Slots(isr[b].pids)
    <3>1. Slots(isr[b].pids)' = Slots(isr[b].pids)
      BY <2>3 DEF Slots
    <3> QED BY <2>1, <2>3, <3>1 DEF ListsInv, HandlerInv
  <2>4. isr[b].todo \subseteq Slots(isr[b].pids)
    BY DEF ListsInv, HandlerInv
  <2> QED BY <1>1, <1>2, <1>3, <2>2, <2>3, <2>4 DEF At
<1>8. ListsInv(b)'
  BY <1>5, <1>6, <1>7 DEF ListsInv, TableInv, SameModule
<1> QED BY <1>1, <1>2, <1>3, <1>4, <1>5, <1>6, <1>8

\* A handler signals the process t of one slot.
LEMMA Signals == ASSUME ManagerTypeOK, NEW b \in Board, ListsInv(b),
                        SignalStop(b) \/ SignalContinue(b)
                 PROVE  /\ ListsInv(b)' /\ irq'[b] = irq[b]
                        /\ isr'[b].pc = isr[b].pc
                        /\ SignalStop(b) =>
                             /\ At(b, "stop")
                             /\ Stopped(b) \union (Todo(b) \intersect Members(b))
                                  \subseteq Stopped(b)' \union Todo(b)'
                        /\ SignalContinue(b) =>
                             /\ At(b, "cont")
                             /\ Stopped(b) \subseteq Todo(b) => Stopped(b)' \subseteq Todo(b)'
<1>0. TypeOK
  BY DEF ManagerTypeOK
<1>1. PICK i \in Slot :
        LET t == isr[b].pids[i] IN
        /\ First(i, isr[b].todo)
        /\ isr' = [isr EXCEPT ![b].todo = @ \ {i}]
        /\ UNCHANGED <<module, irq>>
        /\ \/ /\ SignalStop(b) /\ At(b, "stop")
              /\ run' = [run EXCEPT ![t] = IF @ # "running" THEN @
                                           ELSE IF SMP THEN "stopping" ELSE "stopped"]
           \/ /\ SignalContinue(b) /\ At(b, "cont")
              /\ run' = IF Alive(t) THEN [run EXCEPT ![t] = "running"] ELSE run
  BY DEF SignalStop, SignalContinue
<1> DEFINE t == isr[b].pids[i]
<1>2. t \in Task /\ home[t] = b /\ (Alive(t) => Member(t)) /\ i \in isr[b].todo
  BY <1>1 DEF First, ListsInv, HandlerInv
<1>3. /\ isr'[b].pc = isr[b].pc /\ isr'[b].pids = isr[b].pids
      /\ isr'[b].todo = isr[b].todo \ {i} /\ UNCHANGED <<module, irq>>
  BY <1>0, <1>1 DEF TypeOK
<1>4. /\ \A u \in Task \ {t} : run'[u] = run[u]
      /\ run'[t] = "dead" <=> run[t] = "dead"
  BY <1>0, <1>1, <1>2 DEF TypeOK, Alive
<1>5. At(b, "stop") /\ Alive(t) => run'[t] \in {"stopping", "stopped"}
  BY <1>0, <1>1, <1>2 DEF TypeOK, Alive, At
<1>6. At(b, "cont") => run'[t] \in {"running", "dead"}
  BY <1>0, <1>1, <1>2 DEF TypeOK, Alive, At
<1>7. Todo(b) \subseteq Todo(b)' \union {t}
  BY <1>3 DEF Todo, PidsAt
<1> HIDE DEF t
<1>8. \A u \in Task : (Alive(u)' <=> Alive(u)) /\ (Member(u)' <=> Member(u))
  BY <1>3, <1>4 DEF Member, Alive, Listed
<1>9. Members(b)' = Members(b)
  BY <1>8 DEF Members
<1>10. Stopped(b)' \subseteq Stopped(b) \union ({t} \intersect Members(b))
  BY <1>2, <1>4, <1>8 DEF Stopped, Members, Alive
<1>11. HandlerInv(b)'
  <2>1. Slots(isr[b].pids)' = Slots(isr[b].pids)
    BY <1>3 DEF Slots
  <2>2. ~At(b, "idle")'
    BY <1>1, <1>3 DEF At
  <2> QED BY <1>3, <1>8, <2>1, <2>2 DEF HandlerInv, ListsInv
<1>12. ListsInv(b)'
  BY <1>3, <1>9, <1>10, <1>11 DEF ListsInv, TableInv
<1>13. CASE At(b, "stop")
  <2>1. t \in Members(b) => t \in Stopped(b)'
    BY <1>2, <1>5, <1>13 DEF Members, Member, Stopped
  <2>2. Stopped(b) \subseteq Stopped(b)'
    <3>1. t \in Stopped(b) => t \in Members(b)
      BY DEF ListsInv
    <3> QED BY <1>4, <2>1, <3>1 DEF Stopped
  <2>3. ~SignalContinue(b)
    BY <1>13 DEF SignalContinue, At
  <2> QED BY <1>3, <1>7, <1>12, <1>13, <2>1, <2>2, <2>3
<1>14. CASE At(b, "cont")
  <2>1. Stopped(b)' \subseteq Stopped(b) \ {t}
    BY <1>4, <1>6, <1>14 DEF Stopped
  <2>2. ~SignalStop(b)
    BY <1>14 DEF SignalStop, At
  <2> QED BY <1>3, <1>7, <1>12, <1>14, <2>1, <2>2
<1> QED BY <1>1, <1>13, <1>14

LEMMA LowHandler == ASSUME ManagerTypeOK, NEW b \in Board, ListsInv(b), LowInv(b), HandlerOf(b)
                    PROVE  ListsInv(b)' /\ LowInv(b)'
<1>0. SeeLow' = SeeLow
  BY Elsewhere DEF SeeLow, High
<1>1. CASE b \notin SeeLow
  BY <1>0, <1>1, Taken, GoesOn, Signals DEF HandlerOf, TakeInterrupt, IsrStep, LowInv
<1>2. CASE b \in SeeLow
  <2>1. ASSUME NEW edge \in {"rise", "fall"}, Interrupt(b, edge)
        PROVE  ListsInv(b)' /\ LowInv(b)'
    <3>1. edge = "fall" /\ irq[b] = {"fall"}
      BY <1>2, <2>1, Taken DEF LowInv, In, At
    <3>2. In(b, {}, "credit")'
      BY <2>1, <3>1, Taken DEF In, At
    <3>3. Stopped(b)' \subseteq PidsAt(b, Slots(isr[b].pids))'
      <4>1. Todo(b)' = PidsAt(b, Slots(isr[b].pids))'
        BY <2>1, Taken DEF Todo, PidsAt
      <4> QED BY <2>1, <4>1, Taken DEF ListsInv
    <3> QED BY <2>1, <3>2, <3>3, Taken DEF LowInv
  <2>2. CASE Stamp(b)
    BY <1>2, <2>2, GoesOn DEF LowInv, In, At
  <2>3. CASE Credit(b)
    <3>1. In(b, {}, "credit") /\ Stopped(b) \subseteq PidsAt(b, Slots(isr[b].pids))
      BY <1>2, <2>3, GoesOn DEF LowInv, In, At
    <3>2. PidsAt(b, Slots(isr[b].pids))' = PidsAt(b, Slots(isr[b].pids))
      BY <2>3, GoesOn DEF PidsAt, Slots
    <3>3. In(b, {}, "credit")'
      BY <2>3, <3>1, GoesOn DEF In
    <3> QED BY <2>3, <3>1, <3>2, <3>3, GoesOn DEF LowInv
  <2>4. CASE CreditDone(b)
    <3>1. In(b, {}, "credit") /\ Stopped(b) \subseteq PidsAt(b, Slots(isr[b].pids))
      BY <1>2, <2>4, GoesOn DEF LowInv, In, At
    <3>2. Todo(b)' = PidsAt(b, Slots(isr[b].pids))
      BY <2>4, GoesOn DEF PidsAt, Todo
    <3>3. In(b, {}, "cont")'
      BY <2>4, <3>1, GoesOn DEF In
    <3> QED BY <2>4, <3>1, <3>2, <3>3, GoesOn DEF LowInv
  <2>5. CASE Leave(b)
    <3>1. In(b, {}, "cont") /\ Stopped(b) \subseteq Todo(b) /\ isr[b].todo = {}
      BY <1>2, <2>5, GoesOn DEF LowInv, In, At
    <3>2. Stopped(b)' = {}
      BY <2>5, <3>1, GoesOn DEF Todo, PidsAt
    <3>3. In(b, {}, "idle")'
      BY <2>5, <3>1, GoesOn DEF In
    <3> QED BY <2>5, <3>2, <3>3, GoesOn DEF LowInv
  <2>6. CASE SignalStop(b)
    BY <1>2, <2>6, Signals DEF LowInv, In, At
  <2>7. CASE SignalContinue(b)
    <3>1. In(b, {}, "cont") /\ Stopped(b) \subseteq Todo(b)
      BY <1>2, <2>7, Signals DEF LowInv, In, At
    <3>2. In(b, {}, "cont")' /\ Stopped(b)' \subseteq Todo(b)'
      BY <2>7, <3>1, Signals DEF In, At
    <3> QED BY <2>7, <3>2, Signals DEF LowInv
  <2> QED BY <2>1, <2>2, <2>3, <2>4, <2>5, <2>6, <2>7 DEF HandlerOf, TakeInterrupt, IsrStep
<1> QED BY <1>1, <1>2

-----------------------------------------------------------------------------
(***************************************************************************)
(* The wire.  A write to mode is done when all boards are quiet; letting   *)
(* go of the wire makes nobody see it fall.                                *)
(***************************************************************************)
\* Who sees an edge and who does not.
LEMMA Edges == ASSUME ManagerTypeOK, NEW b \in Board, NEW level, Drive(b, level),
                      NEW x \in Board, module[x].loaded
               PROVE  irq'[x] = IF x \in SeeLow \ SeeLow' THEN irq[x] \union {"rise"}
                                ELSE IF x \in SeeLow' \ SeeLow THEN irq[x] \union {"fall"}
                                ELSE irq[x]
BY DEF Drive

\* Driving the wire high, and letting go of it, lets nobody see it fall.
LEMMA Rises == ASSUME ManagerTypeOK, NEW b \in Board, NEW level \in {"in", "high"},
                      Drive(b, level), level = "in" => pin[b] # "high"
               PROVE  /\ SeeLow' \subseteq SeeLow
                      /\ High(pin)' <=> level = "high" \/ High(pin)
                      /\ wire'.clashed <=> High(pin)' /\ wire.clashed
<1>1. /\ pin' = [pin EXCEPT ![b] = level]
      /\ \E S \in Levels(FALSE) :
           wire' = [low |-> S, clashed |-> High(pin') /\ (wire.clashed \/ level = "low")]
  <2>1. ~(level = "low" \/ (level = "in" /\ pin[b] = "high"))
    OBVIOUS
  <2> QED BY <2>1 DEF Drive, SetPin
<1>2. PICK S \in Levels(FALSE) :
        wire' = [low |-> S, clashed |-> High(pin') /\ (wire.clashed \/ level = "low")]
  BY <1>1
<1>3. High(pin)' <=> level = "high" \/ High(pin)
  BY <1>1 DEF High, ManagerTypeOK, TypeOK
<1>4. S \subseteq SeeLow /\ wire'.low = S
  BY <1>2 DEF Levels
<1>5. SeeLow' \subseteq SeeLow
  <2>1. CASE High(pin)'
    BY <1>4, <2>1 DEF SeeLow
  <2>2. CASE ~High(pin)'
    <3>1. ~High(pin)
      BY <1>3, <2>2
    <3> QED BY <2>2, <3>1 DEF SeeLow
  <2> QED BY <2>1, <2>2
<1>6. wire'.clashed <=> High(pin)' /\ wire.clashed
  BY <1>2
<1> QED BY <1>3, <1>5, <1>6

\* A pin is set on a board by a step that leaves lists, handlers and processes alone.
SetsPin(level) ==
  \E b \in Board :
    /\ Drive(b, level) /\ UNCHANGED <<run, isr>> /\ \A x \in Board : SameModule(x)
    /\ level \in {"high", "low"} => Quiescent
    /\ level = "in" => pin[b] # "high"

LEMMA LowDrive == ASSUME ReleaseInv, NEW level \in {"in", "high", "low"}, SetsPin(level),
                         NEW x \in Board
                  PROVE  ListsInv(x)' /\ LowInv(x)'
<1>1. PICK b \in Board :
        /\ Drive(b, level) /\ UNCHANGED <<run, isr>> /\ SameModule(x)
        /\ level \in {"high", "low"} => Quiescent
        /\ level = "in" => pin[b] # "high"
  BY DEF SetsPin
<1>2. /\ irq'[x] = IF x \in SeeLow \ SeeLow' THEN irq[x] \union {"rise"}
                   ELSE IF x \in SeeLow' \ SeeLow THEN irq[x] \union {"fall"}
                   ELSE irq[x]
      /\ ManagerTypeOK /\ LowInv(x)
  BY <1>1, Edges DEF ReleaseInv, ListsInv
<1>3. ListsInv(x)' /\ Members(x)' = Members(x) /\ Stopped(x)' = Stopped(x)
  BY <1>1, SameLists DEF ReleaseInv, SameRun
<1>4. CASE x \in SeeLow /\ x \in SeeLow'
  BY <1>1, <1>2, <1>3, <1>4 DEF LowInv, In, At, Todo, PidsAt, Slots
<1>5. CASE x \notin SeeLow /\ x \in SeeLow'
  <2>1. level = "low"
    BY <1>1, <1>2, <1>5, Rises
  <2>2. Quiet(x)
    BY <1>1, <2>1 DEF Quiescent
  <2>3. In(x, {"fall"}, "idle")'
    BY <1>1, <1>2, <1>5, <2>2 DEF Quiet, In, At
  <2> QED BY <1>3, <2>3 DEF LowInv
<1>6. CASE x \notin SeeLow'
  BY <1>3, <1>6 DEF LowInv
<1> QED BY <1>4, <1>5, <1>6

\* A write to mode leaves everything but the pin, the edges and the mode alone.
LEMMA ModeLists == ASSUME TypeOK, NEW b \in Board, NEW word, mode_store(b, word)
                   PROVE  /\ UNCHANGED <<run, isr, store>>
                          /\ \A x \in Board : SameModule(x)
<1>1. PICK mode : module' = [module EXCEPT ![b].mode = mode]
  BY DEF mode_store
<1>2. \A x \in Board : SameModule(x)
  BY <1>1 DEF SameModule, TypeOK
<1> QED BY <1>2 DEF mode_store

\* The managers' steps at the file mode.
LEMMA Modes == ASSUME Prompt, ManagerTypeOK, NEW b \in Board,
                      Freeze(b) \/ Unfreeze(b) \/ Unfrozen(b)
               PROVE  /\ Freeze(b) => SetsPin("high")
                      /\ Unfreeze(b) => SetsPin("low")
                      /\ Unfrozen(b) => SetsPin("in")
<1>1. UNCHANGED <<run, isr>> /\ \A x \in Board : SameModule(x)
  <2>1. CASE Freeze(b) \/ Unfreeze(b)
    BY <2>1, ModeLists DEF Freeze, Unfreeze, ManagerTypeOK
  <2>2. CASE Unfrozen(b)
    BY <2>2 DEF Unfrozen, LetGo, SameModule
  <2> QED BY <2>1, <2>2
<1>2. Freeze(b) => Drive(b, "high") /\ Quiescent
  BY DEF Freeze, Served, mode_store
<1>3. Unfreeze(b) => Drive(b, "low") /\ Quiescent
  BY DEF Unfreeze, Served, mode_store
<1>4. Unfrozen(b) => Drive(b, "in") /\ pin[b] = "low"
  BY DEF Unfrozen, LetGo
<1> QED BY <1>1, <1>2, <1>3, <1>4 DEF SetsPin

-----------------------------------------------------------------------------
(***************************************************************************)
(* The first invariant, and what follows from it.                          *)
(***************************************************************************)
LEMMA ReleaseInit == ManagerInit => ReleaseInv
<1> SUFFICES ASSUME ManagerInit PROVE ReleaseInv
  OBVIOUS
<1>1. ManagerTypeOK
  BY ManagerTypeInit
<1>2. ASSUME NEW b \in Board PROVE ListsInv(b) /\ LowInv(b)
  <2>1. /\ module[b] = [Fresh EXCEPT !.loaded = TRUE]
        /\ isr[b] = NoIsr /\ irq[b] = {}
    BY DEF ManagerInit
  <2>2. module[b].loaded /\ module[b].all_pid_nrs = NoPids
    BY <2>1 DEF Fresh
  <2>3. Stopped(b) = {}
    BY DEF ManagerInit, Stopped
  <2>4. ListsInv(b)
    BY <2>1, <2>2, <2>3 DEF ListsInv, TableInv, HandlerInv, NoIsr, NoPids, Slots
  <2>5. LowInv(b)
    BY <2>1, <2>3 DEF LowInv, In, At, NoIsr
  <2> QED BY <2>4, <2>5
<1> QED BY <1>1, <1>2 DEF ReleaseInv

\* What main() writes to pid_01.
LEMMA Enrolled == ASSUME ManagerTypeOK, NEW b \in Board, writeProcToFile(b)
                  PROVE  /\ UNCHANGED <<pin, wire, irq, isr, run, work, manager>>
                         /\ main[b] = "started" /\ main' = [main EXCEPT ![b] = "enrolled"]
                         /\ store' = [store EXCEPT ![b] = {1}]
                         /\ \A x \in Board \ {b} : module'[x] = module[x]
                         /\ module'[b].loaded = module[b].loaded
                         /\ module'[b].all_pid_nrs =
                              [module[b].all_pid_nrs EXCEPT ![1] = p2(b)]
<1>1. p2(b) # NoPid
  BY OneEachBoard, GpioAssumption
<1>2. TypeOK /\ module[b] \in ModuleType
  BY Parts DEF ManagerTypeOK
<1>3. module' = [module EXCEPT ![b].pid_IDX[1] = p2(b), ![b].all_pid_nrs[1] = p2(b)]
  BY <1>1 DEF writeProcToFile, pid_store
<1>4. /\ \A x \in Board \ {b} : module'[x] = module[x]
      /\ module'[b].loaded = module[b].loaded
      /\ module'[b].all_pid_nrs = [module[b].all_pid_nrs EXCEPT ![1] = p2(b)]
  BY <1>2, <1>3 DEF TypeOK, ModuleType
<1> QED BY <1>1, <1>4 DEF writeProcToFile, pid_store

LEMMA ReleaseEnrol == ASSUME ReleaseInv, NEW b \in Board, writeProcToFile(b), NEW x \in Board
                      PROVE  ListsInv(x)' /\ LowInv(x)'
<1>0. ManagerTypeOK /\ ListsInv(x) /\ LowInv(x)
  BY DEF ReleaseInv
<1>1. /\ UNCHANGED <<pin, wire, irq, isr, run>>
      /\ \A y \in Board \ {b} : module'[y] = module[y]
      /\ module'[b].loaded = module[b].loaded
      /\ module'[b].all_pid_nrs = [module[b].all_pid_nrs EXCEPT ![1] = p2(b)]
  BY <1>0, Enrolled
<1>2. CASE x # b
  BY <1>0, <1>1, <1>2, SameLow DEF SameBoard, SameModule, SameRun, SameIsr
<1>3. CASE x = b
  <2>1. module[b].all_pid_nrs \in [Slot -> PidOrNone] /\ 1 \in Slot
    BY <1>0, FirstSlot DEF ManagerTypeOK, TypeOK
  <2>2. module'[b].all_pid_nrs[1] = p2(b) /\ p2(b) \in Task /\ p2(b) # NoPid
    BY <1>1, <2>1, OneEachBoard, GpioAssumption
  <2>3. Alive(p2(b)) => Member(p2(b))'
    <3>1. 1 \in Listed(b)'
      <4>1. \A j \in 1..1 : j = 1
        OBVIOUS
      <4> QED BY <2>1, <2>2, <4>1 DEF Listed
    <3> QED BY <1>1, <2>2, <3>1, OneEachBoard DEF Member, Alive
  <2>4. \A t \in Task : home[t] = b /\ Member(t) => Member(t)'
    BY <2>3, OneEachBoard DEF Member
  <2>5. TableInv(b)'
    <3>1. \A i \in Slot : module'[b].all_pid_nrs[i] = p2(b)
                          \/ module'[b].all_pid_nrs[i] = module[b].all_pid_nrs[i]
      BY <1>1, <2>1
    <3> QED BY <1>0, <1>3, <3>1, OneEachBoard DEF ListsInv, TableInv
  <2>6. HandlerInv(b)'
    BY <1>0, <1>1, <1>3, <2>4 DEF ListsInv, HandlerInv, At, Slots, Alive
  <2>7. Stopped(b)' = Stopped(b) /\ Stopped(b) \subseteq Members(b)'
    BY <1>0, <1>1, <1>3, <2>4 DEF Stopped, Members, ListsInv
  <2>8. SeeLow' = SeeLow
    BY <1>1 DEF SeeLow, High
  <2>9. LowInv(b)'
    BY <1>0, <1>1, <1>3, <2>7, <2>8 DEF LowInv, In, At, Todo, PidsAt, Slots
  <2> QED BY <1>0, <1>1, <1>3, <2>5, <2>6, <2>7, <2>9 DEF ListsInv
<1> QED BY <1>2, <1>3

\* The steps, as the boards see them.
LEMMA Steps == ASSUME Prompt, ManagerTypeOK, [ManagerNext]_allVars
               PROVE  \/ UNCHANGED <<pin, wire, module>> /\ \A x \in Board : SameBoard(x)
                      \/ \E b \in Board : HandlerOf(b)
                      \/ \E b \in Board : writeProcToFile(b)
                      \/ \E b \in Board : \/ Freeze(b) /\ SetsPin("high")
                                          \/ Unfreeze(b) /\ SetsPin("low")
                                          \/ Unfrozen(b) /\ SetsPin("in")
<1>1. CASE UNCHANGED allVars
  BY <1>1, Idle DEF allVars
<1>2. CASE Kernel
  BY <1>2, Idle DEF Kernel, HandlerOf
<1>3. ASSUME NEW b \in Board, Freeze(b) \/ Unfreeze(b) \/ Unfrozen(b)
      PROVE  \/ Freeze(b) /\ SetsPin("high")
             \/ Unfreeze(b) /\ SetsPin("low")
             \/ Unfrozen(b) /\ SetsPin("in")
  BY <1>3, Modes
<1>4. ASSUME NEW b \in Board, \/ Start(b) \/ valueRetriever(b) \/ Recv(b) \/ StopPoll(b)
                              \/ Wake(b) \/ ResumePoll(b)
      PROVE  UNCHANGED <<pin, wire, module>> /\ \A x \in Board : SameBoard(x)
  BY <1>4, Idle
<1> QED BY <1>1, <1>2, <1>3, <1>4 DEF ManagerNext, startConnectionManager

LEMMA ReleaseStep == ASSUME Prompt PROVE ReleaseInv /\ [ManagerNext]_allVars => ReleaseInv'
<1> SUFFICES ASSUME ReleaseInv, [ManagerNext]_allVars, NEW x \in Board
             PROVE  ListsInv(x)' /\ LowInv(x)'
  BY ManagerTypeStep DEF ReleaseInv
<1>0. ManagerTypeOK /\ ListsInv(x) /\ LowInv(x) /\ \A b \in Board : ListsInv(b) /\ LowInv(b)
  BY DEF ReleaseInv
<1>1. CASE UNCHANGED <<pin, wire, module>> /\ \A y \in Board : SameBoard(y)
  BY <1>0, <1>1, SameLow
<1>2. ASSUME NEW b \in Board, HandlerOf(b) PROVE ListsInv(x)' /\ LowInv(x)'
  <2>1. CASE x = b
    BY <1>0, <1>2, <2>1, LowHandler
  <2>2. CASE x # b
    <3>1. UNCHANGED <<pin, wire>> /\ SameBoard(x)
      BY <1>0, <1>2, <2>2, Elsewhere
    <3> QED BY <1>0, <3>1, SameLow
  <2> QED BY <2>1, <2>2
<1>3. ASSUME NEW b \in Board, writeProcToFile(b) PROVE ListsInv(x)' /\ LowInv(x)'
  BY <1>3, ReleaseEnrol
<1>4. ASSUME NEW level \in {"in", "high", "low"}, SetsPin(level)
      PROVE  ListsInv(x)' /\ LowInv(x)'
  BY <1>4, LowDrive
<1> QED BY <1>0, <1>1, <1>2, <1>3, <1>4, Steps

LEMMA ReleaseAlways == ASSUME Prompt PROVE ManagerSpec => []ReleaseInv
<1>1. ReleaseInv /\ [ManagerNext]_allVars => ReleaseInv'
  BY ReleaseStep
<1> QED BY <1>1, ReleaseInit, PTL DEF ManagerSpec

\* However the pauses overlap and whatever the boards see of a wire that is driven
\* both ways, a board that has let its process go lets it go for good: once no manager
\* drives the wire high and all edges are served, nobody is stopped
\* (vtgpio.c:438-441, vtmanager.py:165-187).
THEOREM NobodyIsLeftStopped == ASSUME Prompt PROVE ManagerSpec => []NobodyLeftStopped
<1>1. ReleaseInv => NobodyLeftStopped
  <2> SUFFICES ASSUME ReleaseInv, Quiescent, ~High(pin) PROVE Still = {}
    BY DEF NobodyLeftStopped
  <2>1. \A b \in Board : Stopped(b) = {}
    BY DEF ReleaseInv, LowInv, SeeLow, Quiescent, Quiet, In, At
  <2>2. \A t \in Task : home[t] \in Board
    BY GpioAssumption
  <2> QED BY <2>1, <2>2 DEF Still, Stopped
<1> QED BY <1>1, ReleaseAlways, PTL

-----------------------------------------------------------------------------
(***************************************************************************)
(* The second invariant: boards that are started together.                 *)
(***************************************************************************)
\* The process of a board that is enrolled is a member of its list.
LEMMA OneMember == ASSUME NEW b \in Board, OneList(b), main[b] = "enrolled", Reach
                   PROVE  p2(b) \in Members(b)
<1>1. module[b].all_pid_nrs = [NoPids EXCEPT ![1] = p2(b)] /\ 1 \in Slot
  BY FirstSlot DEF OneList
<1>2. module[b].all_pid_nrs[1] = p2(b) /\ p2(b) # NoPid
  BY <1>1, OneEachBoard, GpioAssumption DEF NoPids
<1>3. 1 \in Listed(b)
  <2>1. \A j \in 1..1 : j = 1
    OBVIOUS
  <2> QED BY <1>1, <1>2, <2>1 DEF Listed
<1>4. Alive(p2(b))
  BY OneEachBoard DEF Reach, Alive
<1> QED BY <1>2, <1>3, <1>4, OneEachBoard DEF Members, Member

\* Who does not wait for a request knows that everybody is enrolled.
LEMMA AtWork == ASSUME PauseInv,
                       \E b \in Board : \/ manager[b] # "recv" \/ work[b] > 0
                                        \/ pin[b] # "in"
                PROVE  AllReady
BY DEF PauseInv, BeforeInv

LEMMA PauseInit == ManagerInit => PauseInv
<1> SUFFICES ASSUME ManagerInit PROVE PauseInv
  OBVIOUS
<1>1. ReleaseInv
  BY ReleaseInit
<1>2. Reach /\ BeforeInv
  BY DEF ManagerInit, Reach, BeforeInv
<1>3. ASSUME NEW b \in Board PROVE OneList(b)
  <2>1. module[b].all_pid_nrs = NoPids /\ main[b] = "start" /\ store[b] = {}
    BY DEF ManagerInit, Fresh
  <2> QED BY <2>1 DEF OneList
<1>4. ~High(pin)
  BY DEF ManagerInit, High
<1>5. LevelInv
  BY DEF ManagerInit, LevelInv, Undisturbed
<1> QED BY <1>1, <1>2, <1>3, <1>4, <1>5 DEF PauseInv, HeldInv

LEMMA ReachStep == ASSUME ManagerTypeOK, Reach, [ManagerNext]_allVars PROVE Reach'
<1>1. ASSUME NEW b \in Board, SignalStop(b) \/ SignalContinue(b) PROVE Reach'
  <2>1. CASE SignalStop(b)
    <3>1. PICK i \in Slot :
            run' = [run EXCEPT ![isr[b].pids[i]] =
                      IF @ # "running" THEN @ ELSE IF SMP THEN "stopping" ELSE "stopped"]
      BY <2>1 DEF SignalStop
    <3> QED BY <3>1 DEF Reach
  <2>2. CASE SignalContinue(b)
    <3>1. PICK i \in Slot :
            \/ run' = [run EXCEPT ![isr[b].pids[i]] = "running"]
            \/ run' = run
      BY <2>2 DEF SignalContinue
    <3> QED BY <3>1 DEF Reach
  <2> QED BY <1>1, <2>1, <2>2
<1>2. ASSUME NEW t \in Task, TakeStop(t) PROVE Reach'
  BY <1>2 DEF TakeStop, Reach
<1>3. CASE UNCHANGED run
  BY <1>3 DEF Reach
<1>4. ASSUME NEW b \in Board, \/ dilate_proc(b) \/ TakeInterrupt(b) \/ Stamp(b)
                              \/ Credit(b) \/ CreditDone(b) \/ Leave(b)
                              \/ writeProcToFile(b) \/ Freeze(b) \/ Unfreeze(b)
                              \/ Unfrozen(b)
      PROVE  UNCHANGED run
  BY <1>4 DEF dilate_proc, TakeInterrupt, Interrupt, Stamp, Credit, CreditDone, Leave,
     writeProcToFile, pid_store, Freeze, Unfreeze, Unfrozen, mode_store, LetGo
<1>5. ASSUME NEW b \in Board, \/ Start(b) \/ valueRetriever(b) \/ Recv(b) \/ StopPoll(b)
                              \/ Wake(b) \/ ResumePoll(b)
      PROVE  UNCHANGED run
  BY <1>5 DEF Start, valueRetriever, Recv, StopPoll, Wake, ResumePoll, vars
<1>6. UNCHANGED allVars => UNCHANGED run
  BY DEF allVars, vars
<1> QED BY <1>1, <1>2, <1>3, <1>4, <1>5, <1>6 DEF ManagerNext, Kernel, IsrStep,
       startConnectionManager

\* Enrolling touches one board, and nothing else touches a list.
LEMMA ListStep == ASSUME ManagerTypeOK, \A b \in Board : OneList(b), [ManagerNext]_allVars,
                         NEW x \in Board
                  PROVE  OneList(x)'
<1>0. OneList(x) /\ TypeOK
  BY DEF ManagerTypeOK
<1>1. ASSUME NEW b \in Board, writeProcToFile(b) PROVE OneList(x)'
  <2>1. /\ main[b] = "started" /\ main' = [main EXCEPT ![b] = "enrolled"]
        /\ store' = [store EXCEPT ![b] = {1}]
        /\ \A y \in Board \ {b} : module'[y] = module[y]
        /\ module'[b].all_pid_nrs = [module[b].all_pid_nrs EXCEPT ![1] = p2(b)]
    BY <1>1, Enrolled
  <2>2. CASE x = b
    BY <1>0, <2>1, <2>2 DEF OneList, ManagerTypeOK
  <2>3. CASE x # b
    BY <1>0, <2>1, <2>3 DEF OneList, ManagerTypeOK, TypeOK
  <2> QED BY <2>2, <2>3
<1>2. ASSUME SameModule(x), store'[x] \subseteq store[x],
             main'[x] = "enrolled" <=> main[x] = "enrolled"
      PROVE  OneList(x)'
  BY <1>0, <1>2 DEF OneList, SameModule
<1>3. ASSUME NEW b \in Board, Freeze(b) \/ Unfreeze(b)
      PROVE  SameModule(x) /\ UNCHANGED <<store, main>>
  BY <1>0, <1>3, ModeLists DEF Freeze, Unfreeze
<1>4. ASSUME NEW b \in Board, Stamp(b)
      PROVE  SameModule(x) /\ UNCHANGED store
  BY <1>0, <1>4 DEF Stamp, SameModule, TypeOK
<1>5. ASSUME NEW b \in Board, dilate_proc(b)
      PROVE  SameModule(x) /\ store'[x] \subseteq store[x]
  BY <1>0, <1>5 DEF dilate_proc, SameModule, TypeOK
<1>6. ASSUME NEW b \in Board, \/ TakeInterrupt(b) \/ SignalStop(b) \/ Credit(b)
                              \/ CreditDone(b) \/ SignalContinue(b) \/ Leave(b)
      PROVE  UNCHANGED <<module, store>>
  BY <1>6 DEF TakeInterrupt, Interrupt, SignalStop, Credit, CreditDone, SignalContinue, Leave
<1>7. ASSUME NEW t \in Task, TakeStop(t) PROVE UNCHANGED <<module, store>>
  BY <1>7 DEF TakeStop
<1>8. ASSUME Kernel PROVE OneList(x)'
  <2>1. UNCHANGED main
    BY <1>8 DEF Kernel, managers
  <2> QED BY <1>2, <1>4, <1>5, <1>6, <1>7, <1>8, <2>1 DEF Kernel, IsrStep, SameModule
<1>9. ASSUME NEW b \in Board, Start(b)
      PROVE  UNCHANGED <<module, store>> /\ (main'[x] = "enrolled" <=> main[x] = "enrolled")
  BY <1>9 DEF Start, vars, ManagerTypeOK
<1>10. ASSUME NEW b \in Board, \/ valueRetriever(b) \/ Recv(b) \/ StopPoll(b) \/ Wake(b)
                               \/ ResumePoll(b) \/ Unfrozen(b)
       PROVE  UNCHANGED <<module, store, main>>
  BY <1>10 DEF valueRetriever, Recv, StopPoll, Wake, ResumePoll, Unfrozen, LetGo, vars
<1>11. UNCHANGED allVars => UNCHANGED <<module, store, main>>
  BY DEF allVars, vars, managers
<1> QED BY <1>1, <1>2, <1>3, <1>8, <1>9, <1>10, <1>11 DEF ManagerNext,
       startConnectionManager, SameModule

\* Once everybody is ready, everybody stays so.
LEMMA ReadyStays == ASSUME ManagerTypeOK, [ManagerNext]_allVars, AllReady
                    PROVE  AllReady'
<1>1. ASSUME NEW b \in Board, Start(b) \/ writeProcToFile(b) PROVE FALSE
  BY <1>1 DEF Start, writeProcToFile, AllReady, Ready
<1>2. CASE Kernel
  <2>1. ASSUME NEW b \in Board, dilate_proc(b) PROVE FALSE
    BY <1>2, <2>1 DEF dilate_proc, First, AllReady, Ready
  <2>2. ASSUME NEW b \in Board, TakeInterrupt(b) \/ IsrStep(b) PROVE UNCHANGED store
    BY <2>2 DEF TakeInterrupt, Interrupt, IsrStep, SignalStop, Stamp, Credit, CreditDone,
       SignalContinue, Leave
  <2>3. ASSUME NEW t \in Task, TakeStop(t) PROVE UNCHANGED store
    BY <2>3 DEF TakeStop
  <2>4. UNCHANGED <<main, store>>
    BY <1>2, <2>1, <2>2, <2>3 DEF Kernel, managers
  <2> QED BY <2>4 DEF AllReady, Ready
<1>3. ASSUME NEW b \in Board, valueRetriever(b) \/ startConnectionManager(b)
      PROVE  UNCHANGED <<main, store>>
  BY <1>3 DEF valueRetriever, startConnectionManager, Recv, StopPoll, Freeze, Wake,
     ResumePoll, Unfreeze, Unfrozen, mode_store, LetGo, vars
<1>4. UNCHANGED allVars => UNCHANGED <<main, store>>
  BY DEF allVars, managers, vars
<1> QED BY <1>1, <1>2, <1>3, <1>4 DEF ManagerNext, AllReady, Ready

LEMMA KernelWire == ASSUME Kernel PROVE UNCHANGED <<pin, wire>>
BY DEF Kernel, TakeInterrupt, Interrupt, IsrStep, SignalStop, Stamp, Credit, CreditDone,
   SignalContinue, Leave, dilate_proc, TakeStop

LEMMA BeforeStep == ASSUME Together, PauseInv, [ManagerNext]_allVars
                    PROVE  BeforeInv'
<1>0. ManagerTypeOK /\ BeforeInv
  BY DEF PauseInv, ReleaseInv
<1>1. CASE AllReady
  BY <1>0, <1>1, ReadyStays DEF BeforeInv
<1>2. CASE ~AllReady
  <2>1. \A b \in Board : work[b] = 0 /\ manager[b] = "recv" /\ pin[b] = "in"
    BY <1>2 DEF PauseInv, BeforeInv
  <2>2. ASSUME NEW b \in Board, valueRetriever(b) \/ startConnectionManager(b) PROVE FALSE
    BY <1>2, <2>1, <2>2 DEF valueRetriever, AllReady, startConnectionManager, Recv, StopPoll,
       Freeze, Wake, ResumePoll, Unfreeze, Unfrozen, Goes
  <2>3. ASSUME NEW b \in Board, Start(b) \/ writeProcToFile(b)
        PROVE  UNCHANGED <<work, manager, pin>>
    BY <1>0, <2>3, Enrolled DEF Start, vars
  <2>5. UNCHANGED allVars => UNCHANGED <<work, manager, pin>>
    BY DEF allVars, managers, vars
  <2>6. UNCHANGED <<work, manager, pin>>
    <3>1. Kernel => UNCHANGED <<work, manager, pin>>
      BY KernelWire DEF Kernel, managers
    <3> QED BY <2>2, <2>3, <2>5, <3>1 DEF ManagerNext
  <2> QED BY <2>1, <2>6 DEF BeforeInv
<1> QED BY <1>1, <1>2

LEMMA HeldHandler == ASSUME PauseInv, NEW b \in Board, HandlerOf(b)
                     PROVE  HeldInv(b)'
<1>0. /\ ManagerTypeOK /\ ListsInv(b) /\ HeldInv(b)
      /\ SeeLow' = SeeLow /\ UNCHANGED wire /\ (High(pin)' <=> High(pin))
  BY Elsewhere DEF PauseInv, ReleaseInv, SeeLow, High
<1>1. CASE ~(High(pin) /\ ~wire.clashed)
  BY <1>0, <1>1 DEF HeldInv
<1>2. CASE High(pin) /\ ~wire.clashed
  <2>1. p2(b) \in Members(b)
    <3>1. AllReady
      BY <1>2, AtWork DEF High
    <3> QED BY <3>1, OneMember DEF PauseInv, AllReady, Ready
  <2>2. ~Quiet(b)
    BY DEF HandlerOf, TakeInterrupt, Interrupt, IsrStep, SignalStop, Stamp, Credit,
       CreditDone, SignalContinue, Leave, Quiet, At
  <2>3. b \notin SeeLow /\ Holds(b)
    BY <1>0, <1>2, <2>2 DEF HeldInv
  <2>4. Holds(b)'
    <3>1. ASSUME NEW edge \in {"rise", "fall"}, Interrupt(b, edge) PROVE Holds(b)'
      <4>1. edge = "rise" /\ irq[b] = {"rise"}
        BY <1>0, <2>3, <3>1, Taken DEF Holds, In, At
      <4>2. In(b, {}, "stop")' /\ p2(b) \in Todo(b)'
        BY <1>0, <2>1, <3>1, <4>1, Taken DEF In, At
      <4> QED BY <4>2 DEF Holds
    <3>2. CASE Stamp(b)
      <4>1. p2(b) \in Stopped(b) /\ irq[b] = {}
        BY <1>0, <2>3, <3>2, GoesOn DEF Holds, In, At, Todo, PidsAt
      <4> QED BY <1>0, <3>2, <4>1, GoesOn DEF Holds, In
    <3>3. CASE Credit(b) \/ CreditDone(b) \/ SignalContinue(b)
      BY <1>0, <2>3, <3>3, GoesOn, Signals DEF Holds, In, At
    <3>4. CASE Leave(b)
      <4>1. p2(b) \in Stopped(b) /\ irq[b] = {}
        BY <1>0, <2>3, <3>4, GoesOn DEF Holds, In, At
      <4> QED BY <1>0, <3>4, <4>1, GoesOn DEF Holds, In
    <3>5. CASE SignalStop(b)
      <4>1. In(b, {}, "stop") /\ p2(b) \in Stopped(b) \union Todo(b)
        BY <1>0, <2>3, <3>5, Signals DEF Holds, In, At
      <4>2. In(b, {}, "stop")' /\ p2(b) \in Stopped(b)' \union Todo(b)'
        BY <1>0, <2>1, <3>5, <4>1, Signals DEF In, At
      <4> QED BY <4>2 DEF Holds
    <3> QED BY <3>1, <3>2, <3>3, <3>4, <3>5 DEF HandlerOf, TakeInterrupt, IsrStep
  <2> QED BY <1>0, <2>3, <2>4 DEF HeldInv
<1> QED BY <1>1, <1>2

LEMMA HeldDrive == ASSUME PauseInv, NEW level \in {"in", "high", "low"}, SetsPin(level),
                          NEW x \in Board
                   PROVE  HeldInv(x)'
<1>1. PICK b \in Board :
        /\ Drive(b, level) /\ UNCHANGED <<run, isr>> /\ SameModule(x)
        /\ level \in {"high", "low"} => Quiescent
        /\ level = "in" => pin[b] # "high"
  BY DEF SetsPin
<1>2. /\ irq'[x] = IF x \in SeeLow \ SeeLow' THEN irq[x] \union {"rise"}
                   ELSE IF x \in SeeLow' \ SeeLow THEN irq[x] \union {"fall"}
                   ELSE irq[x]
      /\ ManagerTypeOK /\ HeldInv(x)
  BY <1>1, Edges DEF PauseInv, ReleaseInv, ListsInv
<1>3. CASE level = "low"
  <2>1. High(pin)' => wire'.clashed
    <3>1. Drive(b, "low")
      BY <1>1, <1>3
    <3>2. PICK S : wire' = [low |-> S, clashed |-> High(pin') /\ (wire.clashed \/ TRUE)]
      BY <3>1 DEF Drive, SetPin
    <3> QED BY <3>2 DEF High
  <2> QED BY <2>1 DEF HeldInv
<1>4. CASE level \in {"in", "high"}
  <2>1. /\ SeeLow' \subseteq SeeLow
        /\ High(pin)' <=> level = "high" \/ High(pin)
        /\ wire'.clashed <=> High(pin)' /\ wire.clashed
    BY <1>1, <1>2, <1>4, Rises
  <2> SUFFICES ASSUME High(pin)', ~wire'.clashed
               PROVE  IF x \in SeeLow' THEN Quiet(x)' ELSE Holds(x)'
    BY DEF HeldInv
  <2>2. ~wire.clashed
    BY <2>1
  <2>3. x \in SeeLow => Quiet(x)
    <3>1. CASE High(pin)
      BY <1>2, <2>2, <3>1 DEF HeldInv
    <3>2. CASE ~High(pin)
      BY <1>1, <2>1, <3>2 DEF Quiescent
    <3> QED BY <3>1, <3>2
  <2>4. CASE x \in SeeLow'
    BY <1>1, <1>2, <2>1, <2>3, <2>4 DEF Quiet, At
  <2>5. CASE x \in SeeLow \ SeeLow'
    <3>1. In(x, {"rise"}, "idle")'
      BY <1>1, <1>2, <2>3, <2>5 DEF Quiet, In, At
    <3> QED BY <2>5, <3>1 DEF Holds
  <2>6. CASE x \notin SeeLow
    <3>1. High(pin) /\ x \notin SeeLow'
      BY <2>1, <2>6 DEF SeeLow
    <3>2. Holds(x) /\ irq'[x] = irq[x] /\ isr'[x] = isr[x]
      BY <1>1, <1>2, <2>2, <2>6, <3>1 DEF HeldInv
    <3>3. Stopped(x)' = Stopped(x)
      BY <1>1 DEF Stopped
    <3> QED BY <3>1, <3>2, <3>3 DEF Holds, In, At, Todo, PidsAt
  <2> QED BY <2>4, <2>5, <2>6
<1> QED BY <1>3, <1>4

LEMMA HeldStep == ASSUME Prompt, PauseInv, [ManagerNext]_allVars, NEW x \in Board
                  PROVE  HeldInv(x)'
<1>0. ManagerTypeOK /\ HeldInv(x) /\ \A b \in Board : ListsInv(b)
  BY DEF PauseInv, ReleaseInv
<1>1. CASE UNCHANGED <<pin, wire, module>> /\ \A y \in Board : SameBoard(y)
  BY <1>0, <1>1, SameHeld
<1>2. ASSUME NEW b \in Board, HandlerOf(b) PROVE HeldInv(x)'
  <2>1. CASE x = b
    BY <1>2, <2>1, HeldHandler
  <2>2. CASE x # b
    <3>1. UNCHANGED <<pin, wire>> /\ SameBoard(x)
      BY <1>0, <1>2, <2>2, Elsewhere
    <3> QED BY <1>0, <3>1, SameHeld
  <2> QED BY <2>1, <2>2
<1>3. ASSUME NEW b \in Board, writeProcToFile(b) PROVE HeldInv(x)'
  <2>1. ~AllReady
    BY <1>3 DEF writeProcToFile, AllReady, Ready
  <2>2. \A y \in Board : pin[y] = "in"
    BY <2>1 DEF PauseInv, BeforeInv
  <2>3. ~High(pin)'
    BY <1>0, <1>3, <2>2, Enrolled DEF High
  <2> QED BY <2>3 DEF HeldInv
<1>4. ASSUME NEW level \in {"in", "high", "low"}, SetsPin(level) PROVE HeldInv(x)'
  BY <1>4, HeldDrive
<1> QED BY <1>0, <1>1, <1>2, <1>3, <1>4, Steps

LEMMA LevelStep == ASSUME Prompt, PauseInv, [ManagerNext]_allVars PROVE LevelInv'
<1>0. ManagerTypeOK /\ LevelInv /\ \A b \in Board : ListsInv(b)
  BY DEF PauseInv, ReleaseInv
<1>1. UNCHANGED <<pin, wire>> => LevelInv'
  BY <1>0 DEF LevelInv, High, Low
<1>2. ASSUME NEW b \in Board, HandlerOf(b) PROVE LevelInv'
  BY <1>0, <1>1, <1>2, Elsewhere
<1>3. ASSUME NEW b \in Board, writeProcToFile(b) PROVE LevelInv'
  BY <1>0, <1>1, <1>3, Enrolled
<1>4. ASSUME NEW level, SetsPin(level) PROVE LevelInv'
  <2>1. \E lowers : \E S \in Levels(lowers) : wire'.low = S
    BY <1>4 DEF SetsPin, Drive, SetPin
  <2> QED BY <2>1 DEF Levels, LevelInv
<1> QED BY <1>0, <1>1, <1>2, <1>3, <1>4, Steps

LEMMA PauseStep == ASSUME Together, Prompt
                   PROVE  PauseInv /\ [ManagerNext]_allVars => PauseInv'
<1> SUFFICES ASSUME PauseInv, [ManagerNext]_allVars PROVE PauseInv'
  OBVIOUS
<1>1. ReleaseInv' /\ ManagerTypeOK
  BY ReleaseStep DEF PauseInv, ReleaseInv
<1>2. Reach'
  BY <1>1, ReachStep DEF PauseInv
<1>3. \A x \in Board : OneList(x)'
  BY <1>1, ListStep DEF PauseInv
<1> QED BY <1>1, <1>2, <1>3, BeforeStep, HeldStep, LevelStep DEF PauseInv

\* Managers pause as they like, while others have paused or are about to, and until
\* one of them drives the wire low against another, a pause stops the processes of
\* all boards and holds them (vtmanager.py:165-187, vtgpio.c:421-441).
THEOREM HeldWithoutClash ==
  ASSUME Together, Prompt PROVE ManagerSpec => []HeldUntilClash
<1>1. PauseInv => HeldUntilClash
  <2> SUFFICES ASSUME PauseInv, High(pin), ~wire.clashed, Settled PROVE AllStopped
    BY DEF HeldUntilClash
  <2>1. SeeLow = {}
    BY DEF SeeLow, Settled, Low, PauseInv, LevelInv
  <2>2. \A b \in Board : p2(b) \in Stopped(b)
    BY <2>1 DEF PauseInv, HeldInv, Holds, Settled, Quiet, In, At
  <2>3. \A t \in Task : home[t] \in Board
    BY GpioAssumption
  <2>4. \A t \in Task : t = p2(home[t])
    BY <2>3, OneEachBoard
  <2> QED BY <2>2, <2>3, <2>4, OneEachBoard DEF AllStopped, Still, Stopped
<1>2. PauseInv /\ [ManagerNext]_allVars => PauseInv'
  BY PauseStep
<1> QED BY <1>1, <1>2, PauseInit, PTL DEF ManagerSpec
=============================================================================
