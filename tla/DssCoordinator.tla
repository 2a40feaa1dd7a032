--------------------------- MODULE DssCoordinator ---------------------------
(***************************************************************************)
(* The coordinator of DSSnet and its hosts.  A host writes an event into   *)
(* the coordination pipe; the listener thread pauses the emulated network  *)
(* if the event blocks, and queues it; the sync thread asks the power      *)
(* simulator about the earliest event in the queue; a thread of its own    *)
(* answers the host and, after the last blocking event, resumes the        *)
(* network.  pause() and resume() write the freeze file of one process     *)
(* after the other; what such a write does is in KernelVT.                 *)
(***************************************************************************)
EXTENDS Integers, Sequences, FiniteSets

CONSTANTS
  Host,       \* the processes of the emulated network
  Blocking,   \* hosts whose events block ('b')
  Asking,     \* hosts that wait for the reply
  NoHandler,  \* hosts that name a post-processing DSSnet_handler.py may lack,
  Raising,    \* and one that may end in another error than AttributeError
  MaxEvents,  \* bound on the events under way
  MaxTime,    \* bound on the clocks
  Prompt,     \* TRUE: the listener is faster than the power simulator, and no host
              \* sends between the count-down to 0 and the end of the resume
  Switching   \* TRUE: threads may switch in the middle of num_block += 1

ASSUME DssAssumption ==
  /\ Blocking \subseteq Host /\ Asking \subseteq Host
  /\ NoHandler \subseteq Host /\ Raising \subseteq Host
  /\ "none" \notin Host
  /\ MaxEvents \in Nat \ {0} /\ MaxTime \in Nat
  /\ Prompt \in BOOLEAN /\ Switching \in BOOLEAN

VARIABLES
  clock,              \* the virtual clock of each host
  waits,              \* hosts that wait for a reply,
  replies,            \* and those that one lies in the pipe of
  frozen,             \* hosts that are frozen
  event,              \* the events under way: who sent them and when
  pipe,               \* the coordination pipe
  listener,           \* the thread pipe_listen
  num_block,
  eventQueue,
  syncer,             \* the thread sync
  previous_time, beginning_of_time,
  thread              \* the threads postProcess, by event

hosts == <<clock, waits, replies>>
times == <<previous_time, beginning_of_time>>
vars  == <<hosts, frozen, event, pipe, listener, num_block, eventQueue, syncer,
           times, thread>>

EventId == 1..MaxEvents
NoEvent == [host |-> "none", time |-> 0]
Never   == -10                \* the arbitrary negative value
Tiny    == 1                  \* 0.00001, much less than
Unit    == 10                 \* the time between two readings of a clock

\* reg is the value of num_block that a thread computes with, todo the processes
\* whose freeze file it has yet to write.
Idle == [pc |-> "idle", reg |-> 0, todo |-> {}]
Reading == [pc |-> "idle", reg |-> 0, todo |-> {}, id |-> 0]

TypeOK ==
  /\ clock \in [Host -> Nat] /\ waits \subseteq Asking /\ replies \subseteq waits
  /\ frozen \subseteq Host
  /\ event \in [EventId -> [host: Host, time: Nat] \union {NoEvent}]
  /\ pipe \in Seq(EventId) /\ eventQueue \subseteq EventId
  /\ listener \in [pc: {"idle", "pause", "count", "store", "push"}, reg: Int,
                   todo: SUBSET Host, id: EventId \union {0}]
  /\ num_block \in Int
  /\ syncer \in EventId \union {0}
  /\ previous_time \in Int /\ beginning_of_time \in Int
  /\ thread \in [EventId ->
       [pc: {"idle", "post", "count", "store", "test", "resume", "raised"},
        reg: Int, todo: SUBSET Host]]

Blocks(e) == event[e].host \in Blocking
At(e, pc) == thread[e].pc = pc
\* No thread is between the load and the store of num_block.
NoneCounts ==
  Switching \/ (listener.pc # "store" /\ \A e \in EventId : ~At(e, "store"))
Goto(e, pc) == thread' = [thread EXCEPT ![e] = [Idle EXCEPT !.pc = pc]]

-----------------------------------------------------------------------------
Init ==
  /\ clock = [h \in Host |-> 0] /\ waits = {} /\ replies = {} /\ frozen = {}
  /\ event = [e \in EventId |-> NoEvent] /\ pipe = <<>>
  /\ listener = Reading
  /\ num_block = 0 /\ eventQueue = {} /\ syncer = 0
  /\ previous_time = Never /\ beginning_of_time = Never
  /\ thread = [e \in EventId |-> Idle]

\* Virtual time passes for the hosts that are not frozen.
Tick ==
  /\ \A h \in Host : clock[h] < MaxTime
  /\ frozen # Host
  /\ clock' = [h \in Host |-> IF h \in frozen THEN clock[h] ELSE clock[h] + 1]
  /\ UNCHANGED <<waits, replies, frozen, event, pipe, listener, num_block, eventQueue,
                 syncer, times, thread>>

\* get_val(), openDSS(): an event with the time of the host's clock.
send_sync_event(h) ==
  /\ h \notin frozen /\ h \notin waits
  /\ Prompt => \A e \in EventId : thread[e].pc \notin {"test", "resume"}
  /\ \E e \in EventId :
       /\ event[e] = NoEvent /\ \A d \in 1..(e - 1) : event[d] # NoEvent
       /\ event' = [event EXCEPT ![e] = [host |-> h, time |-> clock[h]]]
       /\ pipe' = Append(pipe, e)
  /\ waits' = IF h \in Asking THEN waits \union {h} ELSE waits
  /\ UNCHANGED <<clock, replies, frozen, listener, num_block, eventQueue, syncer, times,
                 thread>>

\* pipe.listen(): the host reads the reply.
listen(h) ==
  /\ h \in replies /\ h \notin frozen
  /\ waits' = waits \ {h} /\ replies' = replies \ {h}
  /\ UNCHANGED <<clock, frozen, event, pipe, listener, num_block, eventQueue, syncer,
                 times, thread>>

-----------------------------------------------------------------------------
(***************************************************************************)
(* pipe_listen()                                                           *)
(***************************************************************************)
\* Faulty variant: only the event that pauses the network is counted.
ReadLine_indented ==
  /\ listener.pc = "idle" /\ pipe # <<>>
  /\ pipe' = Tail(pipe)
  /\ listener' = [Reading EXCEPT !.id = Head(pipe), !.todo = Host,
                  !.pc = IF Blocks(Head(pipe)) /\ num_block < 1 THEN "pause" ELSE "push"]
  /\ UNCHANGED <<hosts, frozen, event, num_block, eventQueue, syncer, times, thread>>

\* A line is read; only the first blocking event pauses the network.
ReadLine ==
  /\ listener.pc = "idle" /\ pipe # <<>>
  /\ pipe' = Tail(pipe)
  /\ listener' = [id   |-> Head(pipe),
                  reg  |-> 0,
                  todo |-> Host,
                  pc   |-> IF ~Blocks(Head(pipe)) THEN "push"
                           ELSE IF num_block < 1 THEN "pause" ELSE "count"]
  /\ UNCHANGED <<hosts, frozen, event, num_block, eventQueue, syncer, times, thread>>

\* pause(): freeze_all_procs has one thread for each process, and joins them all.
freeze_work(h) ==
  /\ listener.pc = "pause" /\ h \in listener.todo
  /\ frozen' = frozen \union {h}
  /\ listener' = [listener EXCEPT !.todo = @ \ {h},
                                  !.pc = IF listener.todo = {h} THEN "count" ELSE @]
  /\ UNCHANGED <<hosts, event, pipe, num_block, eventQueue, syncer, times, thread>>

\* num_block += 1 is a load, an addition and a store.
CountUp ==
  /\ listener.pc = "count" /\ NoneCounts
  /\ listener' = [listener EXCEPT !.pc = "store", !.reg = num_block + 1]
  /\ UNCHANGED <<hosts, frozen, event, pipe, num_block, eventQueue, syncer, times, thread>>

StoreUp ==
  /\ listener.pc = "store"
  /\ num_block' = listener.reg
  /\ listener' = [listener EXCEPT !.pc = "push"]
  /\ UNCHANGED <<hosts, frozen, event, pipe, eventQueue, syncer, times, thread>>

\* heapq.heappush
Push ==
  /\ listener.pc = "push"
  /\ eventQueue' = eventQueue \union {listener.id}
  /\ listener' = Reading
  /\ UNCHANGED <<hosts, frozen, event, pipe, num_block, syncer, times, thread>>

pipe_listen ==
  ReadLine \/ (\E h \in Host : freeze_work(h)) \/ CountUp \/ StoreUp \/ Push

-----------------------------------------------------------------------------
(***************************************************************************)
(* sync()                                                                  *)
(***************************************************************************)
\* Faulty variant: the time of the event as it is.
adjust_time_raw(time) ==
  IF beginning_of_time < 0 THEN Tiny ELSE Unit * (time - beginning_of_time)

\* Times count from the first event, and do not go back.
adjust_time(time) ==
  IF beginning_of_time < 0 THEN Tiny
  ELSE IF Unit * (time - beginning_of_time) < previous_time THEN previous_time
  ELSE Unit * (time - beginning_of_time)

\* Faulty variant: an event from the past is dropped.
Pop_drops ==
  /\ syncer = 0
  /\ \E e \in eventQueue :
       /\ \A d \in eventQueue : event[e].time <= event[d].time
       /\ eventQueue' = eventQueue \ {e}
       /\ syncer' = IF previous_time > Unit * (event[e].time - beginning_of_time)
                      /\ beginning_of_time >= 0 THEN 0 ELSE e
       /\ previous_time' = adjust_time(event[e].time)
       /\ beginning_of_time' =
            IF beginning_of_time < 0 THEN event[e].time ELSE beginning_of_time
  /\ UNCHANGED <<hosts, frozen, event, pipe, listener, num_block, thread>>

\* heapq.heappop, by the time of the event, and adjust_time
Pop ==
  /\ syncer = 0
  /\ \E e \in eventQueue :
       /\ \A d \in eventQueue : event[e].time <= event[d].time
       /\ eventQueue' = eventQueue \ {e}
       /\ syncer' = e
       /\ previous_time' = adjust_time(event[e].time)
       /\ beginning_of_time' =
            IF beginning_of_time < 0 THEN event[e].time ELSE beginning_of_time
  /\ UNCHANGED <<hosts, frozen, event, pipe, listener, num_block, thread>>

\* The reply of the power simulator; thread.start_new_thread(postProcess, ...)
do_com ==
  /\ syncer # 0
  /\ Prompt => pipe = <<>> /\ listener.pc = "idle"
  /\ Goto(syncer, "post")
  /\ syncer' = 0
  /\ UNCHANGED <<hosts, frozen, event, pipe, listener, num_block, eventQueue, times>>

\* The queue is empty: look again.
Spin == syncer = 0 /\ eventQueue = {} /\ UNCHANGED vars

sync == Pop \/ do_com \/ Spin

-----------------------------------------------------------------------------
(***************************************************************************)
(* postProcess()                                                           *)
(***************************************************************************)
\* The thread of e ends.
End(e) ==
  /\ thread' = [thread EXCEPT ![e] = Idle]
  /\ event' = [event EXCEPT ![e] = NoEvent]

\* postprocess(newEvent, reply, ...) sends the reply to the host that waits for it; a
\* handler that is missing is an AttributeError, which is caught;
Answers(e) == replies' = replies \union ({event[e].host} \intersect waits)
Lacks(e)   == event[e].host \in NoHandler /\ UNCHANGED replies

\* any other error (a NameError, say) ends the thread there and then.  A blocking event
\* is then never counted down: the state "raised" keeps it on the books.
Raises(e) ==
  /\ event[e].host \in Raising
  /\ IF Blocks(e) THEN Goto(e, "raised") /\ UNCHANGED event ELSE End(e)
  /\ UNCHANGED replies

\* Faulty variants: whoever sent the event gets a reply; and a thread ends when its
\* handler is missing.
Handler_echo(e) ==
  /\ At(e, "post")
  /\ \/ /\ replies' = replies \union {event[e].host}
        /\ IF Blocks(e) THEN Goto(e, "count") /\ UNCHANGED event ELSE End(e)
     \/ Raises(e)
  /\ UNCHANGED <<clock, waits, frozen, pipe, listener, num_block, eventQueue, syncer,
                 times>>
Handler_quits(e) ==
  /\ At(e, "post")
  /\ \/ /\ Answers(e)
        /\ IF Blocks(e) THEN Goto(e, "count") /\ UNCHANGED event ELSE End(e)
     \/ Lacks(e) /\ End(e)
     \/ Raises(e)
  /\ UNCHANGED <<clock, waits, frozen, pipe, listener, num_block, eventQueue, syncer,
                 times>>

\* try: postprocess = getattr(...) ... except AttributeError; only then the count.
Handler(e) ==
  /\ At(e, "post")
  /\ \/ /\ Answers(e) \/ Lacks(e)
        /\ IF Blocks(e) THEN Goto(e, "count") /\ UNCHANGED event ELSE End(e)
     \/ Raises(e)
  /\ UNCHANGED <<clock, waits, frozen, pipe, listener, num_block, eventQueue, syncer,
                 times>>

\* num_block -= 1
CountDown(e) ==
  /\ At(e, "count") /\ NoneCounts
  /\ thread' = [thread EXCEPT ![e] = [Idle EXCEPT !.pc = "store", !.reg = num_block - 1]]
  /\ UNCHANGED <<hosts, frozen, event, pipe, listener, num_block, eventQueue, syncer,
                 times>>

StoreDown(e) ==
  /\ At(e, "store")
  /\ num_block' = thread[e].reg
  /\ Goto(e, "test")
  /\ UNCHANGED <<hosts, frozen, event, pipe, listener, eventQueue, syncer, times>>

\* Faulty variant: every thread resumes the network.
TestCount_hasty(e) ==
  /\ At(e, "test")
  /\ thread' = [thread EXCEPT ![e] = [Idle EXCEPT !.pc = "resume", !.todo = Host]]
  /\ UNCHANGED <<hosts, frozen, event, pipe, listener, num_block, eventQueue, syncer,
                 times>>

\* if num_block == 0
TestCount(e) ==
  /\ At(e, "test")
  /\ IF num_block = 0
       THEN /\ thread' = [thread EXCEPT ![e] =
                 [Idle EXCEPT !.pc = "resume", !.todo = Host]]
            /\ UNCHANGED event
       ELSE End(e)
  /\ UNCHANGED <<hosts, frozen, pipe, listener, num_block, eventQueue, syncer, times>>

\* resume(): freeze_all_procs -u
unfreeze_work(e, h) ==
  /\ At(e, "resume") /\ h \in thread[e].todo
  /\ frozen' = frozen \ {h}
  /\ IF thread[e].todo = {h} THEN End(e)
     ELSE /\ thread' = [thread EXCEPT ![e].todo = @ \ {h}]
          /\ UNCHANGED event
  /\ UNCHANGED <<hosts, pipe, listener, num_block, eventQueue, syncer, times>>

postProcess(e) ==
  \/ Handler(e) \/ CountDown(e) \/ StoreDown(e) \/ TestCount(e)
  \/ \E h \in Host : unfreeze_work(e, h)

-----------------------------------------------------------------------------
Next ==
  \/ Tick
  \/ \E h \in Host : send_sync_event(h) \/ listen(h)
  \/ pipe_listen
  \/ sync
  \/ \E e \in EventId : postProcess(e)

Spec == Init /\ [][Next]_vars

\* The threads of the coordinator are scheduled and the power simulator replies;
\* no host has to send, or to read.
Fairness ==
  /\ WF_vars(pipe_listen) /\ WF_vars(sync)
  /\ \A e \in EventId : WF_vars(postProcess(e))

FairSpec == Spec /\ Fairness

-----------------------------------------------------------------------------
(***************************************************************************)
(* Properties.                                                             *)
(***************************************************************************)

\* The blocking events that have been counted and not been answered yet.
Open ==
  {e \in EventId : Blocks(e) /\
     \/ e \in eventQueue \/ e = syncer
     \/ thread[e].pc \in {"post", "count", "store", "raised"}
     \/ e = listener.id /\ listener.pc = "push"}

\* num_block is the number of open blocking events: no thread loses count.
CountsOpen == num_block = Cardinality(Open)

\* The store, by a thread, of a count that it has loaded before another thread's store.
StaleStore ==
  \/ StoreUp /\ listener.reg # num_block + 1
  \/ \E e \in EventId : StoreDown(e) /\ thread[e].reg # num_block - 1

\* Wherever threads switch, and whatever handlers fail, num_block drifts from the number
\* of open blocking events in one way only, by a lost update: each event that is opened
\* is counted up once, and none is counted down but when its answer is complete.
OnlyLostUpdates ==
  [][\/ num_block' - Cardinality(Open') = num_block - Cardinality(Open)
     \/ StaleStore]_vars

\* The network stands still, whole, as long as a blocking event is open.
HeldWhileBlocked == Open # {} => frozen = Host

\* The power simulator is never asked about the past: neither that of its last
\* question nor that of the host that asks.
NeverAsksThePast ==
  [][/\ previous_time' >= previous_time
     /\ syncer' # 0 =>
          previous_time' >= Unit * (event'[syncer'].time - beginning_of_time')]_vars

\* A pause ends when the events that caused it have been answered; only a handler that
\* has ended its thread by an error can prevent it.
NetworkResumes ==
  frozen # {} ~> frozen = {} \/ \E e \in EventId : At(e, "raised")

\* Every pause ends: the count gets back to 0 whatever the handlers do.
PauseEnds == frozen # {} ~> frozen = {}

\* Every host that waits for a reply gets one if it has a handler and that does not
\* raise an error, whatever becomes of the threads that answer the others.
AnswerComes ==
  \A h \in Asking \ (NoHandler \union Raising) : h \in waits ~> h \in replies
=============================================================================
