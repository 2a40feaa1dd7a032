------------------------------ MODULE VtManager ------------------------------
(***************************************************************************)
(* vtmanager.py on every board of a testbed, over the kernel module VtGpio *)
(* of each.  On a board main() forks two processes: valueRetriever, the    *)
(* one that virtual time stops, asks for a pause when a value is late, and *)
(* startConnectionManager writes freeze and, some seconds later, unfreeze. *)
(* No board knows of the pauses of another but by polling the state of its *)
(* own process.                                                            *)
(***************************************************************************)
EXTENDS VtGpio

CONSTANTS
  MaxWork,   \* bound on the requests waiting in a socket
  Together,  \* TRUE: the boards are started at the same time (option -t)
  Prompt     \* TRUE: an interrupt is served sooner than a shell is started

ASSUME ManagerAssumption ==
  /\ \A b \in Board : \E t \in Task : home[t] = b
  /\ \A t, u \in Task : home[t] = home[u] => t = u
  /\ MAX_NUM_PIDS # 0
  /\ MaxWork \in Nat \ {0}
  /\ Together \in BOOLEAN /\ Prompt \in BOOLEAN

VARIABLES
  main,     \* where main() is on each board
  work,     \* the number of STOPs in the socket of the manager
  manager   \* what startConnectionManager is about to do

managers == <<main, work, manager>>
allVars  == <<vars, managers>>

\* p2.pid
p2(b) == CHOOSE t \in Task : home[t] = b

ManagerStates ==
  {"recv", "stop", "freeze", "sleep", "resume", "unfreeze", "let_go"}

ManagerTypeOK ==
  /\ TypeOK
  /\ main \in [Board -> {"start", "started", "enrolled"}]
  /\ work \in [Board -> 0..MaxWork]
  /\ manager \in [Board -> ManagerStates]

\* The kernel modules are loaded before.
ManagerInit ==
  /\ wall = 1
  /\ vt = [t \in Task |-> NoVirtualTime]
  /\ run = [t \in Task |-> "running"]
  /\ module = [b \in Board |-> [Fresh EXCEPT !.loaded = TRUE]]
  /\ pin = [b \in Board |-> "in"]
  /\ wire = Undisturbed
  /\ irq = [b \in Board |-> {}]
  /\ isr = [b \in Board |-> NoIsr]
  /\ store = [b \in Board |-> {}]
  /\ obs = [t \in Task |-> Unobserved]
  /\ main = [b \in Board |-> "start"]
  /\ work = [b \in Board |-> 0]
  /\ manager = [b \in Board |-> "recv"]

-----------------------------------------------------------------------------
\* p1.start(), p2.start()
Start(b) ==
  /\ main[b] = "start" /\ CpuFree(b)
  /\ main' = [main EXCEPT ![b] = "started"]
  /\ UNCHANGED <<vars, work, manager>>

\* The parent enrols p2; the module dilates it in dilate_proc.
writeProcToFile(b) ==
  /\ main[b] = "started"
  /\ pid_store(b, 1, p2(b))
  /\ main' = [main EXCEPT ![b] = "enrolled"]
  /\ UNCHANGED <<work, manager>>

\* A value is late: STOP to the manager of the board.  valueRetriever sleeps before
\* it looks for its first value, so that it is enrolled, and so is everyone who was
\* started at the same time.
Ready(b) == main[b] = "enrolled" /\ store[b] = {}
valueRetriever(b) ==
  /\ Ready(b) /\ Runs(p2(b)) /\ work[b] < MaxWork
  /\ Together => \A x \in Board : Ready(x)
  /\ work' = [work EXCEPT ![b] = @ + 1]
  /\ UNCHANGED <<vars, main, manager>>

-----------------------------------------------------------------------------
Goes(b, pc, next) ==
  /\ manager[b] = pc /\ CpuFree(b)
  /\ manager' = [manager EXCEPT ![b] = next]

\* psutil.Process(key).status() == 'stopped'
isAlive(b) == run[p2(b)] # "stopped"

\* Faulty variant: the manager does not wait for a request.
Recv_eager(b) ==
  /\ Goes(b, "recv", "stop")
  /\ work' = [work EXCEPT ![b] = @ - 1]
  /\ UNCHANGED <<vars, main>>

\* socket.recv_json()
Recv(b) ==
  /\ Goes(b, "recv", "stop") /\ work[b] > 0
  /\ work' = [work EXCEPT ![b] = @ - 1]
  /\ UNCHANGED <<vars, main>>

\* processHandler('STOP'): while not isAlive, sleep and look again.
StopPoll(b) ==
  /\ Goes(b, "stop", IF isAlive(b) THEN "freeze" ELSE "stop")
  /\ UNCHANGED <<vars, main, work>>

\* By the time a shell has been started, every interrupt has been served.
Quiescent == \A b \in Board : Quiet(b)
Served    == Prompt => Quiescent

\* echo freeze > /sys/vt/VT7/mode
Freeze(b) ==
  /\ Goes(b, "freeze", "sleep") /\ Served
  /\ mode_store(b, "freeze")
  /\ UNCHANGED <<main, work>>

\* The end of time.sleep(random.randint(5, 10)).
Wake(b) ==
  /\ Goes(b, "sleep", "resume")
  /\ UNCHANGED <<vars, main, work>>

\* Faulty variant: the manager waits for the wrong state.
ResumePoll_swapped(b) ==
  /\ Goes(b, "resume", IF isAlive(b) THEN "unfreeze" ELSE "resume")
  /\ UNCHANGED <<vars, main, work>>

\* processHandler('RESUME'): while isAlive, sleep and look again.
ResumePoll(b) ==
  /\ Goes(b, "resume", IF isAlive(b) THEN "resume" ELSE "unfreeze")
  /\ UNCHANGED <<vars, main, work>>

\* echo unfreeze > /sys/vt/VT7/mode
Unfreeze(b) ==
  /\ Goes(b, "unfreeze", "let_go") /\ Served
  /\ mode_store(b, "unfreeze")
  /\ UNCHANGED <<main, work>>

\* The module lets go of the wire and the shell exits.
Unfrozen(b) ==
  /\ Goes(b, "let_go", "recv")
  /\ LetGo(b)
  /\ UNCHANGED <<main, work>>

startConnectionManager(b) ==
  \/ Recv(b) \/ StopPoll(b) \/ Freeze(b) \/ Wake(b)
  \/ ResumePoll(b) \/ Unfreeze(b) \/ Unfrozen(b)

-----------------------------------------------------------------------------
\* The steps of the kernel and its module.
Kernel ==
  /\ \/ \E b \in Board : dilate_proc(b) \/ TakeInterrupt(b) \/ IsrStep(b)
     \/ \E t \in Task : TakeStop(t)
  /\ UNCHANGED managers

ManagerNext ==
  \/ Kernel
  \/ \E b \in Board :
       Start(b) \/ writeProcToFile(b) \/ valueRetriever(b) \/ startConnectionManager(b)

ManagerSpec == ManagerInit /\ [][ManagerNext]_allVars

\* The kernel's fairness.  main and the manager run on when their CPU is free, and a
\* manager that looks every second sees in the end what has come to stay; nothing
\* makes it see what passes.  Nobody has to ask for a pause.
ManagerFairness ==
  /\ \A b \in Board :
       /\ WF_allVars(TakeInterrupt(b) /\ UNCHANGED managers)
       /\ WF_allVars(IsrStep(b) /\ UNCHANGED managers)
       /\ WF_allVars(dilate_proc(b) /\ UNCHANGED managers)
       /\ WF_allVars(Start(b)) /\ WF_allVars(writeProcToFile(b))
       /\ WF_allVars(startConnectionManager(b))
  /\ \A t \in Task : WF_allVars(TakeStop(t) /\ UNCHANGED managers)

FairManagerSpec == ManagerSpec /\ ManagerFairness

-----------------------------------------------------------------------------
(***************************************************************************)
(* Properties.                                                             *)
(***************************************************************************)

\* While a manager waits for the value and nothing is left to be done about the
\* wire, every process of the testbed is stopped.
AllStopped      == Still = {p2(b) : b \in Board}
HeldWhilePaused ==
  \A b \in Board : manager[b] = "sleep" /\ Settled => AllStopped

\* Managers begin their pauses as they like, while others have paused the boards or
\* are about to; everybody is stopped until the first that resumes finds the wire
\* driven by another one.
HeldUntilClash ==
  High(pin) /\ ~wire.clashed /\ Settled => AllStopped

\* When no manager holds the wire any longer and all interrupts are served, nobody
\* has been left stopped, whatever the clashes before have made of each board.
NobodyLeftStopped == Quiescent /\ ~High(pin) => Still = {}

\* A pause ends if no manager resumes while another one drives the wire: the one that
\* has paused finds its process stopped, and resumes.
PausesEndOrClash == High(pin) ~> ~High(pin) \/ wire.clashed

\* Every pause ends, although boards pause independently of each other.
PausesEnd == High(pin) ~> ~High(pin)
=============================================================================
