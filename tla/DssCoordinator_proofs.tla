------------------------ MODULE DssCoordinator_proofs -----------------------
(***************************************************************************)
(* The coordinator for any hosts, any number of events under way and any   *)
(* interleaving of its threads.                                            *)
(***************************************************************************)
EXTENDS DssCoordinator, FiniteSetTheorems, TLAPS

-----------------------------------------------------------------------------
(***************************************************************************)
(* Types.                                                                  *)
(***************************************************************************)
LEMMA EventIdFact == EventId \subseteq Nat /\ 0 \notin EventId /\ IsFiniteSet(EventId)
BY FS_Interval, DssAssumption DEF EventId

LEMMA EventFact ==
  ASSUME TypeOK, NEW e \in EventId
  PROVE  event[e].time \in Nat /\ (event[e] # NoEvent => event[e].host \in Host)
<1>1. event[e] \in [host: Host, time: Nat] \/ event[e] = NoEvent
  BY DEF TypeOK
<1> QED BY <1>1 DEF NoEvent

ThreadStates == {"idle", "post", "count", "store", "test", "resume", "raised"}
Threads == [pc: ThreadStates, reg: Int, todo: SUBSET Host]

\* The states that a thread comes to.
ThreadIn(pc)  == [Idle EXCEPT !.pc = pc]
Counting(reg) == [Idle EXCEPT !.pc = "store", !.reg = reg]
Resuming      == [Idle EXCEPT !.pc = "resume", !.todo = Host]

LEMMA ThreadAt ==
  /\ \A pc \in ThreadStates : ThreadIn(pc) \in Threads /\ ThreadIn(pc).pc = pc
  /\ \A reg \in Int : /\ Counting(reg) \in Threads
                      /\ Counting(reg).pc = "store" /\ Counting(reg).reg = reg
  /\ Resuming \in Threads /\ Resuming.pc = "resume" /\ Resuming.todo = Host
  /\ Idle \in Threads /\ Idle.pc = "idle"
<1>1. ASSUME NEW pc \in ThreadStates
      PROVE  ThreadIn(pc) \in Threads /\ ThreadIn(pc).pc = pc
  BY DEF Idle, Threads, ThreadStates, ThreadIn
<1>2. ASSUME NEW reg \in Int
      PROVE  /\ Counting(reg) \in Threads
             /\ Counting(reg).pc = "store" /\ Counting(reg).reg = reg
  BY DEF Idle, Threads, ThreadStates, Counting
<1>3. Resuming \in Threads /\ Resuming.pc = "resume" /\ Resuming.todo = Host
  <2>1. ASSUME NEW r \in Threads, NEW todo \in SUBSET Host
        PROVE  LET q == [r EXCEPT !.pc = "resume", !.todo = todo] IN
               q \in Threads /\ q.pc = "resume" /\ q.todo = todo
    BY DEF Threads, ThreadStates
  <2>2. Idle \in Threads /\ Host \in SUBSET Host
    BY DEF Idle, Threads, ThreadStates
  <2> QED BY <2>1, <2>2 DEF Resuming
<1>4. Idle \in Threads /\ Idle.pc = "idle"
  BY DEF Idle, Threads, ThreadStates
<1> QED BY <1>1, <1>2, <1>3, <1>4

LEMMA ThreadStateNames ==
  {"idle", "post", "count", "store", "test", "resume", "raised"} \subseteq ThreadStates
BY DEF ThreadStates

ThreadType == thread \in [EventId -> Threads]

LEMMA ThreadsFact == TypeOK => ThreadType
BY DEF TypeOK, ThreadType, Threads, ThreadStates

LEMMA EndType ==
  ASSUME TypeOK, NEW e \in EventId, End(e)
  PROVE  /\ event' \in [EventId -> [host: Host, time: Nat] \union {NoEvent}]
         /\ ThreadType'
<1>1. event' \in [EventId -> [host: Host, time: Nat] \union {NoEvent}]
  BY DEF TypeOK, End
<1>2. ThreadType'
  BY ThreadAt, ThreadsFact DEF End, ThreadType
<1> QED BY <1>1, <1>2

LEMMA TypeStep ==
  ASSUME TypeOK, listener.pc # "idle" => listener.id # 0, [Next]_vars
  PROVE  TypeOK'
<1> USE EventIdFact
<1>1. CASE Tick
  BY <1>1 DEF Tick, TypeOK, times
<1>2. ASSUME NEW h \in Host, send_sync_event(h) PROVE TypeOK'
  <2>1. PICK e \in EventId :
          /\ event' = [event EXCEPT ![e] = [host |-> h, time |-> clock[h]]]
          /\ pipe' = Append(pipe, e)
    BY <1>2 DEF send_sync_event
  <2>2. event' \in [EventId -> [host: Host, time: Nat] \union {NoEvent}]
    BY <2>1 DEF TypeOK
  <2>3. pipe' \in Seq(EventId)
    BY <2>1 DEF TypeOK
  <2>4. waits' \subseteq Asking /\ replies' \subseteq waits'
    BY <1>2 DEF send_sync_event, TypeOK
  <2> QED BY <1>2, <2>2, <2>3, <2>4 DEF send_sync_event, TypeOK, times
<1>3. ASSUME NEW h \in Host, listen(h) PROVE TypeOK'
  BY <1>3 DEF listen, TypeOK, times
<1>4. CASE ReadLine
  <2>1. Head(pipe) \in EventId /\ Tail(pipe) \in Seq(EventId)
    BY <1>4 DEF ReadLine, TypeOK
  <2> QED BY <1>4, <2>1 DEF ReadLine, TypeOK, times, hosts
<1>5. ASSUME NEW h \in Host, freeze_work(h) PROVE TypeOK'
  <2>1. listener' = [pc |-> IF listener.todo = {h} THEN "count" ELSE listener.pc,
                     reg |-> listener.reg, todo |-> listener.todo \ {h},
                     id |-> listener.id]
    BY <1>5 DEF freeze_work, TypeOK
  <2>2. listener' \in [pc: {"idle", "pause", "count", "store", "push"}, reg: Int,
                       todo: SUBSET Host, id: EventId \union {0}]
    <3>1. listener.todo \ {h} \in SUBSET Host
      BY DEF TypeOK
    <3> QED BY <2>1, <3>1 DEF TypeOK
  <2>3. frozen' \subseteq Host
    BY <1>5 DEF freeze_work, TypeOK
  <2> QED BY <1>5, <2>2, <2>3 DEF freeze_work, TypeOK, times, hosts
<1>6. CASE CountUp
  <2>1. listener' = [pc |-> "store", reg |-> num_block + 1, todo |-> listener.todo,
                     id |-> listener.id]
    BY <1>6 DEF CountUp, TypeOK
  <2>2. num_block + 1 \in Int
    BY DEF TypeOK
  <2> QED BY <1>6, <2>1, <2>2 DEF CountUp, TypeOK, times, hosts
<1>7. CASE StoreUp
  <2>1. listener' \in [pc: {"idle", "pause", "count", "store", "push"}, reg: Int,
                       todo: SUBSET Host, id: EventId \union {0}]
    BY <1>7 DEF StoreUp, TypeOK
  <2>2. num_block' \in Int
    BY <1>7 DEF StoreUp, TypeOK
  <2> QED BY <1>7, <2>1, <2>2 DEF StoreUp, TypeOK, times, hosts
<1>8. CASE Push
  <2>1. eventQueue' \subseteq EventId
    BY <1>8 DEF Push, TypeOK
  <2>2. listener' \in [pc: {"idle", "pause", "count", "store", "push"}, reg: Int,
                       todo: SUBSET Host, id: EventId \union {0}]
    BY <1>8 DEF Push, Reading
  <2> QED BY <1>8, <2>1, <2>2 DEF Push, TypeOK, times, hosts
<1>9. CASE Pop
  <2>1. PICK e \in eventQueue :
          /\ eventQueue' = eventQueue \ {e} /\ syncer' = e
          /\ previous_time' = adjust_time(event[e].time)
          /\ beginning_of_time' =
               IF beginning_of_time < 0 THEN event[e].time ELSE beginning_of_time
    BY <1>9 DEF Pop
  <2>2. e \in EventId /\ event[e].time \in Nat
    BY EventFact DEF TypeOK
  <2>3. previous_time' \in Int /\ beginning_of_time' \in Int
    BY <2>1, <2>2 DEF adjust_time, TypeOK, Tiny, Unit
  <2> QED BY <1>9, <2>1, <2>2, <2>3 DEF Pop, TypeOK, hosts
<1>10. CASE do_com
  <2>1. syncer \in EventId
    BY <1>10 DEF do_com, TypeOK
  <2>2. thread' = [thread EXCEPT ![syncer] = ThreadIn("post")]
    BY <1>10 DEF do_com, Goto, ThreadIn
  <2>3. ThreadType'
    BY <2>1, <2>2, ThreadsFact, ThreadAt, ThreadStateNames DEF ThreadType
  <2> QED BY <1>10, <2>3 DEF do_com, TypeOK, ThreadType, Threads, ThreadStates, hosts, times
<1>11. ASSUME NEW e \in EventId, Handler(e) PROVE TypeOK'
  <2>1. replies' \subseteq waits'
    BY <1>11 DEF Handler, Answers, Lacks, Raises, TypeOK
  <2>2. ASSUME NEW pc \in {"count", "raised"}, Goto(e, pc) PROVE ThreadType'
    <3>1. thread' = [thread EXCEPT ![e] = ThreadIn(pc)]
      BY <2>2 DEF Goto, ThreadIn
    <3> QED BY <3>1, ThreadsFact, ThreadAt, ThreadStateNames DEF ThreadType
  <2>3. CASE UNCHANGED event /\ \E pc \in {"count", "raised"} : Goto(e, pc)
    BY <1>11, <2>1, <2>2, <2>3
       DEF Handler, TypeOK, ThreadType, Threads, ThreadStates, times
  <2>4. CASE End(e)
    BY <1>11, <2>1, <2>4, EndType
       DEF Handler, TypeOK, ThreadType, Threads, ThreadStates, times
  <2> QED BY <1>11, <2>3, <2>4 DEF Handler, Raises
<1>12. ASSUME NEW e \in EventId, CountDown(e) PROVE TypeOK'
  <2>1. thread' = [thread EXCEPT ![e] =
                     Counting(num_block - 1)]
    BY <1>12 DEF CountDown, Counting
  <2>2. num_block - 1 \in Int
    BY DEF TypeOK
  <2>3. ThreadType'
    BY <2>1, <2>2, ThreadsFact, ThreadAt DEF ThreadType
  <2> QED BY <1>12, <2>3 DEF CountDown, TypeOK, ThreadType, Threads, ThreadStates, times, hosts
<1>13. ASSUME NEW e \in EventId, StoreDown(e) PROVE TypeOK'
  <2>0. num_block' \in Int
    BY <1>13 DEF StoreDown, TypeOK
  <2>1. thread' = [thread EXCEPT ![e] = ThreadIn("test")]
    BY <1>13 DEF StoreDown, Goto, ThreadIn
  <2>2. ThreadType'
    BY <2>1, ThreadsFact, ThreadAt, ThreadStateNames DEF ThreadType
  <2> QED BY <1>13, <2>0, <2>2 DEF StoreDown, TypeOK, ThreadType, Threads, ThreadStates, times, hosts
<1>14. ASSUME NEW e \in EventId, TestCount(e) PROVE TypeOK'
  <2>1. CASE num_block = 0
    <3>1. thread' = [thread EXCEPT ![e] = Resuming]
      BY <1>14, <2>1 DEF TestCount, Resuming
    <3>2. ThreadType'
      BY <3>1, ThreadsFact, ThreadAt DEF ThreadType
    <3> QED BY <1>14, <2>1, <3>2 DEF TestCount, TypeOK, ThreadType, Threads, ThreadStates, times, hosts
  <2>2. CASE num_block # 0
    <3>1. End(e)
      BY <1>14, <2>2 DEF TestCount
    <3> QED BY <1>14, <3>1, EndType DEF TestCount, TypeOK, ThreadType, Threads, ThreadStates, times, hosts
  <2> QED BY <2>1, <2>2
<1>15. ASSUME NEW e \in EventId, NEW h \in Host, unfreeze_work(e, h) PROVE TypeOK'
  <2>1. CASE thread[e].todo = {h}
    <3>1. End(e)
      BY <1>15, <2>1 DEF unfreeze_work
    <3> QED BY <1>15, <3>1, EndType DEF unfreeze_work, TypeOK, ThreadType, Threads, ThreadStates, times, hosts
  <2>2. CASE thread[e].todo # {h}
    <3>1. /\ thread' = [thread EXCEPT ![e].todo = @ \ {h}]
          /\ event' = event
      BY <1>15, <2>2 DEF unfreeze_work
    <3>2. ThreadType'
      BY <3>1, ThreadsFact DEF ThreadType, Threads
    <3> QED BY <1>15, <3>1, <3>2 DEF unfreeze_work, TypeOK, ThreadType, Threads, ThreadStates, times, hosts
  <2> QED BY <2>1, <2>2
<1>16. CASE UNCHANGED vars
  BY <1>16 DEF vars, hosts, times, TypeOK
<1> QED
  BY <1>1, <1>2, <1>3, <1>4, <1>5, <1>6, <1>7, <1>8, <1>9, <1>10, <1>11, <1>12,
     <1>13, <1>14, <1>15, <1>16
     DEF Next, pipe_listen, sync, Spin, postProcess

-----------------------------------------------------------------------------
(***************************************************************************)
(* An event under way is in one place: in the pipe, with the listener, in  *)
(* the queue, with the power simulator or with a thread of its own.        *)
(***************************************************************************)
Piped(e) == \E i \in 1..Len(pipe) : pipe[i] = e

Placed(e) ==
  /\ Piped(e) => /\ listener.id # e /\ e \notin eventQueue /\ syncer # e
                 /\ At(e, "idle") /\ event[e] # NoEvent
  /\ listener.id = e =>
       /\ e \notin eventQueue /\ syncer # e /\ At(e, "idle") /\ event[e] # NoEvent
       /\ listener.pc \in {"pause", "count", "store"} => Blocks(e)
  /\ e \in eventQueue => syncer # e /\ At(e, "idle") /\ event[e] # NoEvent
  /\ syncer = e => At(e, "idle") /\ event[e] # NoEvent
  /\ ~At(e, "idle") => event[e] # NoEvent
  /\ thread[e].pc \in {"count", "store", "test", "resume", "raised"} => Blocks(e)

PlaceInv ==
  /\ listener.pc = "idle" <=> listener.id = 0
  /\ \A i, j \in 1..Len(pipe) : pipe[i] = pipe[j] => i = j
  /\ \A e \in EventId : Placed(e)

\* A step that leaves the event and its place alone.
LEMMA PlacedSame ==
  ASSUME NEW e \in EventId, Placed(e),
         Piped(e)' <=> Piped(e),
         listener'.id = e <=> listener.id = e,
         listener.id = e => listener'.pc = listener.pc,
         e \in eventQueue' <=> e \in eventQueue,
         syncer' = e <=> syncer = e,
         thread'[e].pc = thread[e].pc,
         event'[e] = event[e]
  PROVE  Placed(e)'
<1>1. /\ Blocks(e)' <=> Blocks(e)
      /\ At(e, "idle")' <=> At(e, "idle")
      /\ (event[e] # NoEvent)' <=> event[e] # NoEvent
  BY DEF Blocks, At
<1> QED BY <1>1 DEF Placed

\* The pipe gains an event that was not in it, at its end,
LEMMA PipeGains ==
  ASSUME TypeOK, PlaceInv, NEW e \in EventId, ~Piped(e), pipe' = Append(pipe, e)
  PROVE  /\ \A i, j \in 1..Len(pipe') : pipe'[i] = pipe'[j] => i = j
         /\ \A x \in EventId : Piped(x)' <=> (Piped(x) \/ x = e)
<1>1. pipe \in Seq(EventId)
  BY DEF TypeOK
<1>2. /\ Len(pipe') = Len(pipe) + 1 /\ Len(pipe) \in Nat
      /\ \A i \in 1..Len(pipe) : pipe'[i] = pipe[i]
      /\ pipe'[Len(pipe) + 1] = e
  BY <1>1
<1>3. \A i, j \in 1..Len(pipe) : pipe[i] = pipe[j] => i = j
  BY DEF PlaceInv
<1>4. \A i \in 1..Len(pipe) : pipe[i] # e
  BY DEF Piped
<1>5. \A i \in 1..Len(pipe') : i \in 1..Len(pipe) \/ i = Len(pipe) + 1
  BY <1>2
<1>6. \A i, j \in 1..Len(pipe') : pipe'[i] = pipe'[j] => i = j
  BY <1>2, <1>3, <1>4, <1>5
<1>7. ASSUME NEW x \in EventId PROVE Piped(x)' <=> (Piped(x) \/ x = e)
  <2>1. Piped(x)' => Piped(x) \/ x = e
    BY <1>2, <1>5 DEF Piped
  <2>2. Piped(x) => Piped(x)'
    BY <1>2 DEF Piped
  <2>3. x = e => Piped(x)'
    BY <1>2 DEF Piped
  <2> QED BY <2>1, <2>2, <2>3
<1> QED BY <1>6, <1>7

\* and loses the one at its head.
LEMMA PipeLoses ==
  ASSUME TypeOK, PlaceInv, pipe # <<>>, pipe' = Tail(pipe)
  PROVE  /\ \A i, j \in 1..Len(pipe') : pipe'[i] = pipe'[j] => i = j
         /\ Head(pipe) \in EventId /\ Piped(Head(pipe))
         /\ \A x \in EventId : Piped(x)' <=> (Piped(x) /\ x # Head(pipe))
<1>1. pipe \in Seq(EventId)
  BY DEF TypeOK
<1>2. /\ Len(pipe') = Len(pipe) - 1 /\ Len(pipe) \in Nat /\ Len(pipe) >= 1
      /\ \A i \in 1..(Len(pipe) - 1) : pipe'[i] = pipe[i + 1]
      /\ Head(pipe) = pipe[1] /\ Head(pipe) \in EventId
  BY <1>1
<1>3. \A i, j \in 1..Len(pipe) : pipe[i] = pipe[j] => i = j
  BY DEF PlaceInv
<1>4. \A i \in 1..Len(pipe') : pipe'[i] = pipe[i + 1] /\ i + 1 \in 1..Len(pipe) /\ i + 1 # 1
  BY <1>2
<1>5. \A i, j \in 1..Len(pipe') : pipe'[i] = pipe'[j] => i = j
  <2> SUFFICES ASSUME NEW i \in 1..Len(pipe'), NEW j \in 1..Len(pipe'), pipe'[i] = pipe'[j]
               PROVE  i = j
    OBVIOUS
  <2>1. i + 1 = j + 1
    BY <1>3, <1>4
  <2> QED BY <1>2, <2>1
<1>6. ASSUME NEW x \in EventId PROVE Piped(x)' <=> (Piped(x) /\ x # Head(pipe))
  <2>1. ASSUME Piped(x)' PROVE Piped(x) /\ x # Head(pipe)
    <3>1. PICK i \in 1..Len(pipe') : pipe'[i] = x
      BY <2>1 DEF Piped
    <3>2. pipe[i + 1] = x /\ i + 1 \in 1..Len(pipe) /\ i + 1 # 1 /\ 1 \in 1..Len(pipe)
      BY <1>2, <1>4, <3>1
    <3>3. x # pipe[1]
      BY <1>3, <3>2
    <3> QED BY <1>2, <3>2, <3>3 DEF Piped
  <2>2. ASSUME Piped(x), x # Head(pipe) PROVE Piped(x)'
    <3>1. PICK i \in 1..Len(pipe) : pipe[i] = x
      BY <2>2 DEF Piped
    <3>2. i # 1
      BY <1>2, <2>2, <3>1
    <3>3. i - 1 \in 1..Len(pipe') /\ (i - 1) + 1 = i
      BY <1>2, <3>2
    <3>4. pipe'[i - 1] = x
      BY <1>4, <3>1, <3>3
    <3> QED BY <3>3, <3>4 DEF Piped
  <2> QED BY <2>1, <2>2
<1>7. Piped(Head(pipe))
  BY <1>2 DEF Piped
<1> QED BY <1>2, <1>5, <1>6, <1>7

\* What a step of a thread does to it and to nobody else.
LEMMA ThreadMoves ==
  ASSUME TypeOK, NEW e \in EventId
  PROVE  /\ Handler(e) => /\ Blocks(e) => /\ thread'[e].pc \in {"count", "raised"}
                                           /\ event' = event
                          /\ ~Blocks(e) => thread'[e].pc = "idle" /\ event'[e] = NoEvent
         /\ CountDown(e) => /\ thread'[e].pc = "store" /\ thread'[e].reg = num_block - 1
                            /\ event' = event
         /\ StoreDown(e) => thread'[e].pc = "test" /\ event' = event
         /\ TestCount(e) => IF num_block = 0
                              THEN thread'[e].pc = "resume" /\ event' = event
                              ELSE thread'[e].pc = "idle" /\ event'[e] = NoEvent
         /\ \A h \in Host : unfreeze_work(e, h) =>
              \/ thread'[e].pc = "resume" /\ event' = event
              \/ thread'[e].pc = "idle" /\ event'[e] = NoEvent
         /\ (Handler(e) \/ CountDown(e) \/ StoreDown(e) \/ TestCount(e)
               \/ \E h \in Host : unfreeze_work(e, h))
              => /\ ~At(e, "idle")
                 /\ \A x \in EventId \ {e} : thread'[x] = thread[x] /\ event'[x] = event[x]
<1>1. /\ thread \in [EventId -> Threads] /\ num_block - 1 \in Int
      /\ event \in [EventId -> [host: Host, time: Nat] \union {NoEvent}]
  BY ThreadsFact DEF TypeOK, ThreadType
<1>2. End(e) => /\ thread'[e].pc = "idle" /\ event'[e] = NoEvent
                /\ \A x \in EventId \ {e} : thread'[x] = thread[x] /\ event'[x] = event[x]
  BY <1>1, ThreadAt DEF End
<1>3. ASSUME NEW pc \in ThreadStates, Goto(e, pc)
      PROVE  /\ thread'[e].pc = pc
             /\ \A x \in EventId \ {e} : thread'[x] = thread[x]
  <2>1. thread' = [thread EXCEPT ![e] = ThreadIn(pc)]
    BY <1>3 DEF Goto, ThreadIn
  <2> QED BY <1>1, <2>1, ThreadAt
<1>4. CASE Handler(e)
  BY <1>2, <1>3, <1>4, ThreadStateNames
     DEF Handler, Raises, At, CountDown, StoreDown, TestCount, unfreeze_work
<1>5. CASE CountDown(e)
  <2>1. thread' = [thread EXCEPT ![e] = Counting(num_block - 1)]
    BY <1>5 DEF CountDown, Counting
  <2>2. /\ thread'[e].pc = "store" /\ thread'[e].reg = num_block - 1
        /\ \A x \in EventId \ {e} : thread'[x] = thread[x]
    BY <1>1, <2>1, ThreadAt
  <2> QED BY <1>5, <2>2 DEF Handler, At, CountDown, StoreDown, TestCount, unfreeze_work
<1>6. CASE StoreDown(e)
  BY <1>3, <1>6, ThreadStateNames
     DEF Handler, At, CountDown, StoreDown, TestCount, unfreeze_work
<1>7. CASE TestCount(e)
  <2>1. CASE num_block = 0
    <3>1. thread' = [thread EXCEPT ![e] = Resuming] /\ event' = event
      BY <1>7, <2>1 DEF TestCount, Resuming
    <3>2. thread'[e].pc = "resume" /\ \A x \in EventId \ {e} : thread'[x] = thread[x]
      BY <1>1, <3>1, ThreadAt
    <3> QED BY <1>7, <2>1, <3>1, <3>2 DEF Handler, At, CountDown, StoreDown, TestCount, unfreeze_work
  <2>2. CASE num_block # 0
    BY <1>2, <1>7, <2>2 DEF Handler, At, CountDown, StoreDown, TestCount, unfreeze_work
  <2> QED BY <2>1, <2>2
<1>8. ASSUME NEW h \in Host, unfreeze_work(e, h)
      PROVE  /\ \/ thread'[e].pc = "resume" /\ event' = event
                \/ thread'[e].pc = "idle" /\ event'[e] = NoEvent
             /\ At(e, "resume")
             /\ \A x \in EventId \ {e} : thread'[x] = thread[x] /\ event'[x] = event[x]
  <2>1. CASE thread[e].todo = {h}
    BY <1>2, <1>8, <2>1 DEF unfreeze_work
  <2>2. CASE thread[e].todo # {h}
    <3>1. thread' = [thread EXCEPT ![e].todo = @ \ {h}] /\ event' = event
          /\ At(e, "resume")
      BY <1>8, <2>2 DEF unfreeze_work
    <3>2. thread'[e].pc = thread[e].pc
      BY <1>1, <3>1 DEF Threads
    <3> QED BY <1>1, <3>1, <3>2 DEF At
  <2> QED BY <2>1, <2>2
<1>9. ASSUME NEW h \in Host, unfreeze_work(e, h)
      PROVE ~Handler(e) /\ ~CountDown(e) /\ ~StoreDown(e) /\ ~TestCount(e)
  BY <1>9 DEF Handler, At, CountDown, StoreDown, TestCount, unfreeze_work
<1>10. CASE \E h \in Host : unfreeze_work(e, h)
  BY <1>8, <1>9, <1>10 DEF At
<1> QED BY <1>4, <1>5, <1>6, <1>7, <1>10

\* What a step of the listener does to it.
LEMMA ListenerMoves ==
  ASSUME TypeOK
  PROVE  /\ \A h \in Host : freeze_work(h) =>
              /\ listener.pc = "pause" /\ listener'.id = listener.id
              /\ \/ listener.todo = {h} /\ listener'.pc = "count"
                 \/ listener.todo # {h} /\ listener'.pc = "pause"
              /\ listener'.todo = listener.todo \ {h}
         /\ CountUp => /\ listener.pc = "count" /\ listener'.pc = "store"
                       /\ listener'.id = listener.id /\ listener'.reg = num_block + 1
         /\ StoreUp => /\ listener.pc = "store" /\ listener'.pc = "push"
                       /\ listener'.id = listener.id
         /\ Push => listener.pc = "push" /\ listener'.pc = "idle" /\ listener'.id = 0
<1>1. ASSUME NEW h \in Host, freeze_work(h)
      PROVE  /\ listener.pc = "pause" /\ listener'.id = listener.id
             /\ \/ listener.todo = {h} /\ listener'.pc = "count"
                \/ listener.todo # {h} /\ listener'.pc = "pause"
             /\ listener'.todo = listener.todo \ {h}
  <2>1. /\ listener' = [listener EXCEPT !.todo = listener.todo \ {h},
                           !.pc = IF listener.todo = {h} THEN "count" ELSE listener.pc]
        /\ listener.pc = "pause"
    BY <1>1 DEF freeze_work
  <2> QED BY <2>1 DEF TypeOK
<1>2. ASSUME CountUp
      PROVE  /\ listener.pc = "count" /\ listener'.pc = "store"
             /\ listener'.id = listener.id /\ listener'.reg = num_block + 1
  BY <1>2 DEF TypeOK, CountUp
<1>3. ASSUME StoreUp
      PROVE  /\ listener.pc = "store" /\ listener'.pc = "push"
             /\ listener'.id = listener.id
  BY <1>3 DEF TypeOK, StoreUp
<1>4. ASSUME Push
      PROVE  listener.pc = "push" /\ listener'.pc = "idle" /\ listener'.id = 0
  BY <1>4 DEF Push, Reading
<1> QED BY <1>1, <1>2, <1>3, <1>4

LEMMA PlaceStep ==
  ASSUME TypeOK, PlaceInv, [Next]_vars
  PROVE  PlaceInv'
<1> USE EventIdFact
<1>1. /\ \A x \in EventId : Placed(x)
      /\ listener.pc = "idle" <=> listener.id = 0
      /\ \A i, j \in 1..Len(pipe) : pipe[i] = pipe[j] => i = j
      /\ eventQueue \subseteq EventId /\ syncer \in EventId \union {0}
      /\ thread \in [EventId -> Threads]
      /\ listener.id \in EventId \union {0}
  BY ThreadsFact DEF PlaceInv, TypeOK, ThreadType
<1>2. ASSUME UNCHANGED <<pipe, listener, eventQueue, syncer, thread, event>> PROVE PlaceInv'
  <2>1. \A x \in EventId : Placed(x)'
    BY <1>1, <1>2, PlacedSame DEF Piped
  <2> QED BY <1>1, <1>2, <2>1 DEF PlaceInv
<1>3. ASSUME NEW h \in Host, send_sync_event(h) PROVE PlaceInv'
  <2>1. PICK e \in EventId :
          /\ event[e] = NoEvent
          /\ event' = [event EXCEPT ![e] = [host |-> h, time |-> clock[h]]]
          /\ pipe' = Append(pipe, e)
    BY <1>3 DEF send_sync_event
  <2>2. UNCHANGED <<listener, eventQueue, syncer, thread>>
    BY <1>3 DEF send_sync_event
  <2>3. /\ ~Piped(e) /\ listener.id # e /\ e \notin eventQueue /\ syncer # e
        /\ At(e, "idle")
    BY <1>1, <2>1 DEF Placed
  <2>4. event'[e] # NoEvent
    <3>1. event'[e] = [host |-> h, time |-> clock[h]]
      BY <2>1 DEF TypeOK
    <3>2. h # "none"
      BY DssAssumption
    <3>3. event'[e].host = h /\ NoEvent.host = "none"
      BY <3>1 DEF NoEvent
    <3> QED BY <3>2, <3>3
  <2>5. /\ \A i, j \in 1..Len(pipe') : pipe'[i] = pipe'[j] => i = j
        /\ \A x \in EventId : Piped(x)' <=> (Piped(x) \/ x = e)
    BY <2>1, <2>3, PipeGains
  <2>6. Placed(e)'
    BY <2>2, <2>3, <2>4 DEF Placed, At
  <2>7. ASSUME NEW x \in EventId, x # e PROVE Placed(x)'
    <3>1. event'[x] = event[x] /\ (Piped(x)' <=> Piped(x))
      BY <2>1, <2>5, <2>7 DEF TypeOK
    <3> QED BY <1>1, <2>2, <3>1, PlacedSame
  <2> QED BY <1>1, <2>2, <2>5, <2>6, <2>7 DEF PlaceInv
<1>4. CASE ReadLine
  <2>0. PICK e \in EventId : e = Head(pipe)
    BY <1>4, PipeLoses DEF ReadLine
  <2>1. /\ \A i, j \in 1..Len(pipe') : pipe'[i] = pipe'[j] => i = j
        /\ Piped(e)
        /\ \A x \in EventId : Piped(x)' <=> (Piped(x) /\ x # e)
    BY <1>4, <2>0, PipeLoses DEF ReadLine
  <2>2. /\ UNCHANGED <<eventQueue, syncer, thread, event>>
        /\ listener'.id = e /\ listener.id = 0 /\ listener'.pc # "idle"
        /\ listener'.pc # "push" => Blocks(e)
    BY <1>1, <1>4, <2>0 DEF ReadLine
  <2>3. Placed(e)'
    BY <1>1, <2>1, <2>2 DEF Placed, At, Blocks
  <2>4. ASSUME NEW x \in EventId, x # e PROVE Placed(x)'
    BY <1>1, <2>1, <2>2, <2>4, PlacedSame
  <2>5. listener'.id # 0
    BY <2>1, <2>2
  <2> QED BY <2>1, <2>2, <2>3, <2>4, <2>5 DEF PlaceInv
<1>5. CASE (\E h \in Host : freeze_work(h)) \/ CountUp \/ StoreUp
  <2>1. /\ UNCHANGED <<pipe, eventQueue, syncer, thread, event>>
        /\ listener'.id = listener.id
        /\ listener.pc \in {"pause", "count", "store"} /\ listener'.pc # "idle"
    BY <1>5, ListenerMoves DEF freeze_work, CountUp, StoreUp
  <2>2. \A x \in EventId : Placed(x)'
    BY <1>1, <2>1 DEF Placed, Piped, At, Blocks
  <2>3. listener.id # 0
    BY <1>1, <2>1
  <2> QED BY <1>1, <2>1, <2>2, <2>3 DEF PlaceInv
<1>6. CASE Push
  <2>1. /\ UNCHANGED <<pipe, syncer, thread, event>>
        /\ eventQueue' = eventQueue \union {listener.id}
        /\ listener.pc = "push" /\ listener'.pc = "idle" /\ listener'.id = 0
    BY <1>6, ListenerMoves DEF Push
  <2>2. PICK e \in EventId : e = listener.id
    BY <1>1, <2>1
  <2>3. Placed(e)'
    BY <1>1, <2>1, <2>2 DEF Placed, Piped, At, Blocks
  <2>4. ASSUME NEW x \in EventId, x # e PROVE Placed(x)'
    <3>1. Piped(x)' <=> Piped(x)
      BY <2>1 DEF Piped
    <3>2. listener'.id # x /\ listener.id # x
      BY <2>1, <2>2, <2>4
    <3>3. x \in eventQueue' <=> x \in eventQueue
      BY <2>1, <2>2, <2>4
    <3> QED BY <1>1, <2>1, <3>1, <3>2, <3>3, PlacedSame
  <2> QED BY <1>1, <2>1, <2>3, <2>4 DEF PlaceInv
<1>7. CASE Pop
  <2>1. PICK e \in eventQueue : eventQueue' = eventQueue \ {e} /\ syncer' = e
    BY <1>7 DEF Pop
  <2>2. UNCHANGED <<pipe, listener, thread, event>> /\ syncer = 0 /\ e \in EventId
    BY <1>1, <1>7 DEF Pop
  <2>3. Placed(e)'
    BY <1>1, <2>1, <2>2 DEF Placed, Piped, At, Blocks
  <2>4. ASSUME NEW x \in EventId, x # e PROVE Placed(x)'
    <3>1. Piped(x)' <=> Piped(x)
      BY <2>2 DEF Piped
    <3>2. (x \in eventQueue' <=> x \in eventQueue) /\ syncer' # x /\ syncer # x
      BY <2>1, <2>2, <2>4
    <3> QED BY <1>1, <2>2, <3>1, <3>2, PlacedSame
  <2> QED BY <1>1, <2>2, <2>3, <2>4 DEF PlaceInv
<1>8. CASE do_com
  <2>0. PICK e \in EventId : e = syncer
    BY <1>1, <1>8 DEF do_com
  <2>1. /\ UNCHANGED <<pipe, listener, eventQueue, event>> /\ syncer' = 0
        /\ thread' = [thread EXCEPT ![e] = ThreadIn("post")]
    BY <1>1, <1>8, <2>0 DEF do_com, Goto, ThreadIn
  <2>2. thread'[e].pc = "post"
    BY <1>1, <2>1, ThreadAt, ThreadStateNames
  <2>3. Placed(e)'
    BY <1>1, <2>0, <2>1, <2>2 DEF Placed, Piped, At, Blocks
  <2>4. ASSUME NEW x \in EventId, x # e PROVE Placed(x)'
    <3>1. Piped(x)' <=> Piped(x)
      BY <2>1 DEF Piped
    <3>2. thread'[x] = thread[x] /\ syncer' # x /\ syncer # x
      BY <1>1, <2>0, <2>1, <2>4
    <3> QED BY <1>1, <2>1, <2>4, <3>1, <3>2, PlacedSame
  <2> QED BY <1>1, <2>1, <2>3, <2>4 DEF PlaceInv
<1>9. ASSUME NEW e \in EventId, postProcess(e) PROVE PlaceInv'
  <2>1. UNCHANGED <<pipe, listener, eventQueue, syncer>>
    BY <1>9 DEF postProcess, Handler, CountDown, StoreDown, TestCount, unfreeze_work
  <2>2. ~At(e, "idle") /\ \A x \in EventId \ {e} : thread'[x] = thread[x] /\ event'[x] = event[x]
    BY <1>9, ThreadMoves DEF postProcess
  <2>3. ~Piped(e) /\ listener.id # e /\ e \notin eventQueue /\ syncer # e /\ event[e] # NoEvent
    BY <1>1, <2>2 DEF Placed
  <2>4. \/ /\ thread'[e].pc \in {"count", "store", "test", "resume", "raised"}
           /\ event' = event /\ Blocks(e)
        \/ thread'[e].pc = "idle" /\ event'[e] = NoEvent
    BY <1>1, <1>9, ThreadMoves
       DEF postProcess, Placed, At, CountDown, StoreDown, TestCount, unfreeze_work
  <2>5. Placed(e)'
    <3>1. ~Piped(e)'
      BY <2>1, <2>3 DEF Piped
    <3>2. thread'[e].pc # "idle" => event'[e] # NoEvent
      BY <2>3, <2>4
    <3>3. thread'[e].pc # "idle" => Blocks(e)'
      BY <2>4 DEF Blocks
    <3> QED BY <2>1, <2>3, <3>1, <3>2, <3>3 DEF Placed, At
  <2>6. ASSUME NEW x \in EventId, x # e PROVE Placed(x)'
    <3>1. Piped(x)' <=> Piped(x)
      BY <2>1 DEF Piped
    <3> QED BY <1>1, <2>1, <2>2, <2>6, <3>1, PlacedSame
  <2> QED BY <1>1, <2>1, <2>5, <2>6 DEF PlaceInv
<1>10. CASE Tick \/ Spin \/ UNCHANGED vars \/ \E h \in Host : listen(h)
  BY <1>2, <1>10 DEF Tick, Spin, vars, listen
<1> QED
  BY <1>3, <1>4, <1>5, <1>6, <1>7, <1>8, <1>9, <1>10
     DEF Next, pipe_listen, sync

-----------------------------------------------------------------------------
(***************************************************************************)
(* Counting.  Only the two stores change num_block, each with the one      *)
(* event that it opens or closes, and no two threads are at a store.       *)
(***************************************************************************)
IsOpen(e) ==
  /\ Blocks(e)
  /\ \/ e \in eventQueue \/ e = syncer
     \/ thread[e].pc \in {"post", "count", "store", "raised"}
     \/ e = listener.id /\ listener.pc = "push"

LEMMA OpenFact ==
  Open = {e \in EventId : IsOpen(e)} /\ Open \subseteq EventId /\ IsFiniteSet(Open)
<1>1. Open = {e \in EventId : IsOpen(e)}
  BY DEF Open, IsOpen
<1>2. Open \subseteq EventId
  BY DEF Open
<1> QED BY <1>1, <1>2, EventIdFact, FS_Subset

LEMMA NoEventIsOpen ==
  ASSUME NEW e \in EventId, event[e] = NoEvent
  PROVE  ~Blocks(e)
BY DssAssumption DEF Blocks, NoEvent

\* A step of which only StoreUp and StoreDown open and close an event.
OpenMoves ==
  \/ Open' = Open /\ num_block' = num_block
  \/ \E e \in EventId : /\ StoreUp /\ e \notin Open /\ Open' = Open \union {e}
  \/ \E e \in EventId : /\ StoreDown(e) /\ e \in Open /\ Open' = Open \ {e}

LEMMA OpenStep ==
  ASSUME TypeOK, PlaceInv, [Next]_vars
  PROVE  OpenMoves
<1> USE EventIdFact
<1>1. /\ \A x \in EventId : Placed(x)
      /\ listener.pc = "idle" <=> listener.id = 0
      /\ eventQueue \subseteq EventId /\ syncer \in EventId \union {0}
      /\ thread \in [EventId -> Threads]
      /\ listener.id \in EventId \union {0}
      /\ Open = {e \in EventId : IsOpen(e)} /\ Open' = {e \in EventId : IsOpen(e)'}
  BY ThreadsFact, OpenFact DEF PlaceInv, TypeOK, ThreadType, Open, IsOpen, EventId
<1>2. ASSUME num_block' = num_block, \A x \in EventId : IsOpen(x)' <=> IsOpen(x)
      PROVE  OpenMoves
  BY <1>1, <1>2 DEF OpenMoves
<1>3. CASE UNCHANGED <<listener, eventQueue, syncer, thread, event, num_block>>
  <2>1. \A x \in EventId : IsOpen(x)' <=> IsOpen(x)
    BY <1>3 DEF IsOpen, Blocks
  <2> QED BY <1>2, <1>3, <2>1
<1>4. ASSUME NEW h \in Host, send_sync_event(h) PROVE OpenMoves
  <2>1. PICK e \in EventId :
          /\ event[e] = NoEvent
          /\ event' = [event EXCEPT ![e] = [host |-> h, time |-> clock[h]]]
    BY <1>4 DEF send_sync_event
  <2>2. UNCHANGED <<listener, eventQueue, syncer, thread, num_block>>
    BY <1>4 DEF send_sync_event
  <2>3. /\ listener.id # e /\ e \notin eventQueue /\ syncer # e /\ thread[e].pc = "idle"
    BY <1>1, <2>1 DEF Placed, At
  <2>4. ~IsOpen(e) /\ ~IsOpen(e)'
    BY <2>2, <2>3 DEF IsOpen
  <2>5. ASSUME NEW x \in EventId, x # e PROVE IsOpen(x)' <=> IsOpen(x)
    <3>1. event'[x] = event[x]
      BY <2>1, <2>5 DEF TypeOK
    <3> QED BY <2>2, <3>1 DEF IsOpen, Blocks
  <2> QED BY <1>2, <2>2, <2>4, <2>5
<1>5. CASE ReadLine
  <2>1. /\ UNCHANGED <<eventQueue, syncer, thread, event, num_block>>
        /\ listener.pc = "idle" /\ (listener'.pc = "push" => ~Blocks(listener'.id))
    BY <1>5 DEF ReadLine
  <2>2. \A x \in EventId : IsOpen(x)' <=> IsOpen(x)
    BY <2>1 DEF IsOpen, Blocks
  <2> QED BY <1>2, <2>1, <2>2
<1>6. CASE (\E h \in Host : freeze_work(h)) \/ CountUp
  <2>1. /\ UNCHANGED <<eventQueue, syncer, thread, event, num_block>>
        /\ listener.pc # "push" /\ listener'.pc # "push"
    BY <1>6, ListenerMoves DEF freeze_work, CountUp
  <2>2. \A x \in EventId : IsOpen(x)' <=> IsOpen(x)
    BY <2>1 DEF IsOpen, Blocks
  <2> QED BY <1>2, <2>1, <2>2
<1>7. CASE StoreUp
  <2>1. /\ UNCHANGED <<eventQueue, syncer, thread, event>>
        /\ listener.pc = "store" /\ listener'.pc = "push" /\ listener'.id = listener.id
    BY <1>7, ListenerMoves DEF StoreUp
  <2>2. PICK e \in EventId : e = listener.id
    BY <1>1, <2>1
  <2>3. /\ Blocks(e) /\ e \notin eventQueue /\ e # syncer /\ thread[e].pc = "idle"
    BY <1>1, <2>1, <2>2 DEF Placed, At
  <2>4. ~IsOpen(e) /\ IsOpen(e)'
    BY <2>1, <2>2, <2>3 DEF IsOpen, Blocks
  <2>5. \A x \in EventId \ {e} : IsOpen(x)' <=> IsOpen(x)
    BY <2>1, <2>2 DEF IsOpen, Blocks
  <2>6. e \notin Open /\ Open' = Open \union {e}
    BY <1>1, <2>4, <2>5
  <2> QED BY <1>7, <2>6 DEF OpenMoves
<1>8. CASE Push
  <2>1. /\ UNCHANGED <<syncer, thread, event, num_block>>
        /\ eventQueue' = eventQueue \union {listener.id}
        /\ listener.pc = "push" /\ listener'.pc = "idle"
    BY <1>8, ListenerMoves DEF Push
  <2>2. \A x \in EventId : IsOpen(x)' <=> IsOpen(x)
    BY <2>1 DEF IsOpen, Blocks
  <2> QED BY <1>2, <2>1, <2>2
<1>9. CASE Pop
  <2>1. PICK e \in eventQueue : eventQueue' = eventQueue \ {e} /\ syncer' = e
    BY <1>9 DEF Pop
  <2>2. UNCHANGED <<listener, thread, event, num_block>> /\ syncer = 0
    BY <1>9 DEF Pop
  <2>3. \A x \in EventId : IsOpen(x)' <=> IsOpen(x)
    BY <2>1, <2>2 DEF IsOpen, Blocks
  <2> QED BY <1>2, <2>2, <2>3
<1>10. CASE do_com
  <2>0. PICK e \in EventId : e = syncer
    BY <1>1, <1>10 DEF do_com
  <2>1. /\ UNCHANGED <<listener, eventQueue, event, num_block>> /\ syncer' = 0
        /\ thread' = [thread EXCEPT ![e] = ThreadIn("post")]
    BY <1>1, <1>10, <2>0 DEF do_com, Goto, ThreadIn
  <2>2. thread'[e].pc = "post"
    BY <1>1, <2>1, ThreadAt, ThreadStateNames
  <2>3. IsOpen(e)' <=> IsOpen(e)
    BY <2>0, <2>1, <2>2 DEF IsOpen, Blocks
  <2>4. ASSUME NEW x \in EventId, x # e PROVE IsOpen(x)' <=> IsOpen(x)
    <3>1. thread'[x] = thread[x] /\ syncer' # x /\ syncer # x
      BY <1>1, <2>0, <2>1, <2>4
    <3> QED BY <2>1, <3>1 DEF IsOpen, Blocks
  <2> QED BY <1>2, <2>1, <2>3, <2>4
<1>11. ASSUME NEW e \in EventId, postProcess(e) PROVE OpenMoves
  <2>1. UNCHANGED <<pipe, listener, eventQueue, syncer>>
    BY <1>11 DEF postProcess, Handler, CountDown, StoreDown, TestCount, unfreeze_work
  <2>2. /\ ~At(e, "idle")
        /\ \A x \in EventId \ {e} : thread'[x] = thread[x] /\ event'[x] = event[x]
    BY <1>11, ThreadMoves DEF postProcess
  <2>3. /\ listener.id # e /\ e \notin eventQueue /\ syncer # e
        /\ thread[e].pc \in {"count", "store", "test", "resume", "raised"} => Blocks(e)
    BY <1>1, <2>2 DEF Placed
  <2>4. \A x \in EventId \ {e} : IsOpen(x)' <=> IsOpen(x)
    BY <2>1, <2>2 DEF IsOpen, Blocks
  <2>5. CASE StoreDown(e)
    <3>1. thread'[e].pc = "test" /\ thread[e].pc = "store"
      BY <2>5, ThreadMoves DEF StoreDown, At
    <3>2. IsOpen(e) /\ ~IsOpen(e)'
      BY <2>1, <2>3, <3>1 DEF IsOpen
    <3>3. e \in Open /\ Open' = Open \ {e}
      BY <1>1, <2>4, <3>2
    <3> QED BY <2>5, <3>3 DEF OpenMoves
  <2>6. CASE Handler(e)
    <3>1. thread[e].pc = "post" /\ num_block' = num_block
      BY <2>6 DEF Handler, At
    <3>2. CASE Blocks(e)
      <4>1. thread'[e].pc \in {"count", "raised"} /\ event' = event
        BY <2>6, <3>2, ThreadMoves
      <4>2. IsOpen(e)' <=> IsOpen(e)
        BY <3>1, <3>2, <4>1 DEF IsOpen, Blocks
      <4> QED BY <1>2, <2>4, <3>1, <4>2
    <3>3. CASE ~Blocks(e)
      <4>1. thread'[e].pc = "idle" /\ event'[e] = NoEvent
        BY <2>6, <3>3, ThreadMoves
      <4>2. ~IsOpen(e) /\ ~IsOpen(e)'
        BY <2>1, <2>3, <3>3, <4>1 DEF IsOpen
      <4> QED BY <1>2, <2>4, <3>1, <4>2
    <3> QED BY <3>2, <3>3
  <2>7. CASE CountDown(e)
    <3>1. /\ thread[e].pc = "count" /\ num_block' = num_block
          /\ thread'[e].pc = "store" /\ event' = event
      BY <2>7, ThreadMoves DEF CountDown, At
    <3>2. IsOpen(e)' <=> IsOpen(e)
      BY <3>1 DEF IsOpen, Blocks, CountDown
    <3> QED BY <1>2, <2>4, <3>1, <3>2
  <2>8. CASE TestCount(e) \/ \E h \in Host : unfreeze_work(e, h)
    <3>1. /\ thread[e].pc \in {"test", "resume"} /\ num_block' = num_block
          /\ thread'[e].pc \in {"resume", "idle"}
      BY <2>8, ThreadMoves DEF TestCount, unfreeze_work, At
    <3>2. ~IsOpen(e) /\ ~IsOpen(e)'
      BY <2>1, <2>3, <3>1 DEF IsOpen
    <3> QED BY <1>2, <2>4, <3>1, <3>2
  <2> QED BY <1>11, <2>5, <2>6, <2>7, <2>8 DEF postProcess
<1>12. CASE Tick \/ Spin \/ UNCHANGED vars \/ \E h \in Host : listen(h)
  BY <1>3, <1>12 DEF Tick, Spin, vars, listen
<1> QED
  BY <1>4, <1>5, <1>6, <1>7, <1>8, <1>9, <1>10, <1>11, <1>12
     DEF Next, pipe_listen, sync

DssInv == TypeOK /\ PlaceInv

LEMMA DssInit == Init => DssInv
<1> SUFFICES ASSUME Init PROVE DssInv
  OBVIOUS
<1> USE EventIdFact
<1>1. thread \in [EventId -> Threads] /\ \A e \in EventId : thread[e].pc = "idle"
  BY ThreadAt DEF Init
<1>2. TypeOK
  <2>1. pipe \in Seq(EventId)
    BY DEF Init
  <2>2. listener \in [pc: {"idle", "pause", "count", "store", "push"}, reg: Int,
                      todo: SUBSET Host, id: EventId \union {0}]
    BY DEF Init, Reading
  <2> QED BY <1>1, <2>1, <2>2 DEF Init, TypeOK, Never, Threads, ThreadStates
<1>3. listener.pc = "idle" /\ listener.id = 0 /\ pipe = <<>> /\ Len(pipe) = 0
  BY DEF Init, Reading
<1>4. PlaceInv
  <2>1. \A e \in EventId : ~Piped(e)
    BY <1>3 DEF Piped
  <2>2. \A e \in EventId : Placed(e)
    BY <1>1, <1>3, <2>1 DEF Placed, At, Init
  <2> QED BY <1>3, <2>2 DEF PlaceInv
<1> QED BY <1>2, <1>4 DEF DssInv

LEMMA DssStep == DssInv /\ [Next]_vars => DssInv'
BY TypeStep, PlaceStep DEF DssInv, PlaceInv

LEMMA DssInvariant == Spec => []DssInv
<1>1. Init => DssInv
  BY DssInit
<1> QED BY <1>1, DssStep, PTL DEF Spec

\* Every variable of the coordinator keeps its type, wherever its threads switch and
\* whatever handlers are missing or fail.
THEOREM TypeCorrect == Spec => []TypeOK
<1>1. DssInv => TypeOK
  BY DEF DssInv
<1> QED BY <1>1, DssInvariant, PTL

LEMMA CountStep ==
  ASSUME DssInv, [Next]_vars
  PROVE  \/ num_block' - Cardinality(Open') = num_block - Cardinality(Open)
         \/ StaleStore
<1>1. /\ IsFiniteSet(Open) /\ Cardinality(Open) \in Nat /\ num_block \in Int
      /\ thread \in [EventId -> Threads]
  BY OpenFact, FS_CardinalityType, ThreadsFact DEF DssInv, TypeOK, ThreadType
<1>2. CASE Open' = Open /\ num_block' = num_block
  BY <1>2
<1>3. ASSUME NEW e \in EventId, StoreUp, e \notin Open, Open' = Open \union {e}, ~StaleStore
      PROVE  num_block' - Cardinality(Open') = num_block - Cardinality(Open)
  <2>1. num_block' = num_block + 1
    BY <1>3 DEF StoreUp, StaleStore
  <2>2. Cardinality(Open') = Cardinality(Open) + 1
    BY <1>1, <1>3, FS_AddElement
  <2> QED BY <1>1, <2>1, <2>2
<1>4. ASSUME NEW e \in EventId, StoreDown(e), e \in Open, Open' = Open \ {e}, ~StaleStore
      PROVE  num_block' - Cardinality(Open') = num_block - Cardinality(Open)
  <2>1. num_block' = num_block - 1
    BY <1>4 DEF StoreDown, StaleStore
  <2>2. Cardinality(Open') = Cardinality(Open) - 1
    BY <1>1, <1>4, FS_RemoveElement
  <2> QED BY <1>1, <2>1, <2>2
<1>5. OpenMoves
  BY OpenStep DEF DssInv
<1> QED BY <1>2, <1>3, <1>4, <1>5 DEF OpenMoves

\* num_block parts from the number of open blocking events only in a store of a value
\* that was loaded before another thread's store, for any hosts, any number of events,
\* wherever threads switch and whichever handlers are missing or raise an error.
THEOREM CountOnlyLosesUpdates == Spec => OnlyLostUpdates
<1>1. DssInv /\ [Next]_vars =>
        \/ num_block' - Cardinality(Open') = num_block - Cardinality(Open)
        \/ StaleStore
  BY CountStep
<1> QED BY <1>1, DssInvariant, PTL DEF Spec, OnlyLostUpdates

-----------------------------------------------------------------------------
(***************************************************************************)
(* The times that the simulator is asked about.                            *)
(***************************************************************************)
Elapsed(e) == Unit * (event[e].time - beginning_of_time)

TimeInv ==
  /\ beginning_of_time < 0 => previous_time = Never /\ syncer = 0
  /\ syncer # 0 => previous_time >= Elapsed(syncer)

LEMMA TimeStep ==
  ASSUME DssInv, TimeInv, [Next]_vars
  PROVE  /\ TimeInv'
         /\ previous_time' >= previous_time
<1> USE EventIdFact
<1>1. /\ previous_time \in Int /\ beginning_of_time \in Int
      /\ syncer \in EventId \union {0}
      /\ TypeOK /\ \A e \in EventId : Placed(e)
  BY DEF DssInv, TypeOK, PlaceInv
<1>2. CASE Pop
  <2>1. PICK e \in eventQueue :
          /\ syncer' = e
          /\ previous_time' = adjust_time(event[e].time)
          /\ beginning_of_time' =
               IF beginning_of_time < 0 THEN event[e].time ELSE beginning_of_time
    BY <1>2 DEF Pop
  <2>2. event' = event /\ e \in EventId /\ event[e].time \in Nat
    BY <1>1, <1>2, EventFact DEF Pop, TypeOK
  <2>3. PICK t \in Nat : t = event[e].time
    BY <2>2
  <2>4. PICK x \in Int : x = Unit * (t - beginning_of_time)
    BY <1>1, <2>3 DEF Unit
  <2>5. event'[syncer'].time = t
    BY <2>1, <2>2, <2>3
  <2>6. CASE beginning_of_time < 0
    <3>1. previous_time' = 1 /\ beginning_of_time' = t /\ previous_time = -10
      BY <2>1, <2>3, <2>6 DEF adjust_time, Tiny, TimeInv, Never
    <3>2. Unit * (t - t) = 0
      BY DEF Unit
    <3> QED BY <2>5, <3>1, <3>2 DEF TimeInv, Elapsed
  <2>7. CASE ~(beginning_of_time < 0)
    <3>1. /\ beginning_of_time' = beginning_of_time
          /\ previous_time' = IF x < previous_time THEN previous_time ELSE x
      BY <2>1, <2>3, <2>4, <2>7 DEF adjust_time
    <3>2. previous_time' >= x /\ previous_time' >= previous_time
      BY <1>1, <3>1
    <3> QED BY <2>4, <2>5, <2>7, <3>1, <3>2 DEF TimeInv, Elapsed
  <2> QED BY <2>6, <2>7
<1>3. CASE do_com
  BY <1>1, <1>3 DEF do_com, times, TimeInv
<1>4. ASSUME UNCHANGED <<syncer, times>>, syncer # 0 => event'[syncer] = event[syncer]
      PROVE  TimeInv' /\ previous_time' >= previous_time
  BY <1>1, <1>4 DEF times, TimeInv, Elapsed
<1>5. ASSUME NEW h \in Host, send_sync_event(h)
      PROVE  UNCHANGED <<syncer, times>> /\ (syncer # 0 => event'[syncer] = event[syncer])
  <2>1. PICK e \in EventId :
          /\ event[e] = NoEvent
          /\ event' = [event EXCEPT ![e] = [host |-> h, time |-> clock[h]]]
    BY <1>5 DEF send_sync_event
  <2>2. syncer # e
    BY <1>1, <2>1 DEF Placed
  <2> QED BY <1>1, <1>5, <2>1, <2>2 DEF send_sync_event, TypeOK
<1>6. ASSUME NEW e \in EventId, postProcess(e)
      PROVE  UNCHANGED <<syncer, times>> /\ (syncer # 0 => event'[syncer] = event[syncer])
  <2>1. UNCHANGED <<syncer, times>>
    BY <1>6 DEF postProcess, Handler, CountDown, StoreDown, TestCount, unfreeze_work
  <2>2. /\ ~At(e, "idle")
        /\ \A x \in EventId \ {e} : event'[x] = event[x]
    BY <1>1, <1>6, ThreadMoves DEF postProcess
  <2>3. syncer # e
    BY <1>1, <2>2 DEF Placed
  <2> QED BY <1>1, <2>1, <2>2, <2>3
<1>7. CASE pipe_listen
  BY <1>4, <1>7 DEF pipe_listen, ReadLine, freeze_work, CountUp, StoreUp, Push
<1>8. CASE Tick \/ Spin \/ UNCHANGED vars \/ \E h \in Host : listen(h)
  BY <1>4, <1>8 DEF Tick, Spin, vars, listen
<1> QED
  BY <1>2, <1>3, <1>4, <1>5, <1>6, <1>7, <1>8 DEF Next, sync

\* The times that sync() passes to the power simulator do not go back, and none is
\* before the event that it is about, however the listener and the threads interleave.
THEOREM AskedInOrder == Spec => NeverAsksThePast
<1>1. Init => TimeInv
  BY DEF Init, TimeInv
<1>2. DssInv /\ TimeInv /\ [Next]_vars => TimeInv' /\ previous_time' >= previous_time
  BY TimeStep
<1>3. TimeInv' =>
        (syncer' # 0 =>
           previous_time' >= Unit * (event'[syncer'].time - beginning_of_time'))
  BY DEF TimeInv, Elapsed
<1>4. DssInv /\ TimeInv /\ [Next]_vars =>
        /\ previous_time' >= previous_time
        /\ syncer' # 0 =>
             previous_time' >= Unit * (event'[syncer'].time - beginning_of_time')
  BY <1>2, <1>3
<1> QED BY <1>1, <1>2, <1>4, DssInvariant, PTL DEF Spec, NeverAsksThePast
=============================================================================
