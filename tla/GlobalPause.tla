---------------------------- MODULE GlobalPause ----------------------------
(***************************************************************************)
(* What the boards promise together: one switch for all the processes in   *)
(* the emulation.  When it is thrown they stop one by one; it is down when *)
(* all of them have stopped; when it is thrown back they continue one by   *)
(* one, and who takes part only changes while it is up.                    *)
(***************************************************************************)
CONSTANT Task

VARIABLES
  member,   \* the processes that take part
  still,    \* those that are stopped
  phase     \* "running", "pausing", "paused" or "resuming"

vars == <<member, still, phase>>

Init == member = {} /\ still = {} /\ phase = "running"

\* While the switch is up anybody may join or leave.
Enrol ==
  /\ phase = "running"
  /\ member' \in SUBSET Task
  /\ UNCHANGED <<still, phase>>

\* A process that exits is not waited for.
Exit(t) ==
  /\ member' = member \ {t}
  /\ still' = still \ {t}
  /\ UNCHANGED phase

Pause == phase = "running" /\ phase' = "pausing" /\ UNCHANGED <<member, still>>

Stop(t) ==
  /\ phase = "pausing" /\ t \in member
  /\ still' = still \union {t}
  /\ UNCHANGED <<member, phase>>

Paused ==
  /\ phase = "pausing" /\ still = member
  /\ phase' = "paused"
  /\ UNCHANGED <<member, still>>

Resume == phase = "paused" /\ phase' = "resuming" /\ UNCHANGED <<member, still>>

Continue(t) ==
  /\ phase = "resuming"
  /\ still' = still \ {t}
  /\ UNCHANGED <<member, phase>>

Running ==
  /\ phase = "resuming" /\ still = {}
  /\ phase' = "running"
  /\ UNCHANGED <<member, still>>

Next ==
  \/ Enrol \/ Pause \/ Paused \/ Resume \/ Running
  \/ \E t \in Task : Exit(t) \/ Stop(t) \/ Continue(t)

Spec == Init /\ [][Next]_vars
=============================================================================
