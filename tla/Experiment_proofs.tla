-------------------------- MODULE Experiment_proofs --------------------------
(***************************************************************************)
(* Only the board whose turn it is drives the wire: for any number of      *)
(* boards, any order of turns and any durations, also when nothing is on   *)
(* time.  It rests on the signals alone, not on the sleeps.  That it finds *)
(* every board ready for the next change of the wire rests on the sleeps.  *)
(***************************************************************************)
EXTENDS Experiment, TLAPS

Busy(f) == script[f] \in Pausing \/ 12 \in signal[f]

TypeInv ==
  /\ script \in [Board -> FollowerStates \union LeaderStates]
  /\ signal \in [Board -> SUBSET {6, 10, 12}]
  /\ timer \in [Board -> Int]
  /\ should_wait \in {0, 1} /\ LOPP \in 0..Turns /\ at \in Nat
  /\ pin \subseteq Board

\* The states of a script, and a list that is walked has a board left to speak to.
ScriptInv ==
  /\ script[Leader] \in LeaderStates
  /\ \A f \in Follower : script[f] \in FollowerStates
  /\ script[Leader] \in {"tell", "kill"} => at \in DOMAIN IPs

\* A pause goes on, or is asked for, only in the turn of that board, with the leader
\* waiting for an answer that has not come.
TurnInv ==
  /\ \A b \in pin : script[b] = "frozen"
  /\ script[Leader] = "frozen" => LOPP > 0 /\ pause_order[LOPP] = Leader
  /\ \A f \in Follower : Busy(f) =>
       /\ LOPP > 0 /\ pause_order[LOPP] = f
       /\ script[Leader] = "wait" /\ should_wait = 1 /\ 10 \notin signal[Leader]
  /\ \A f \in Follower : script[f] \in Pausing => 12 \notin signal[f]

\* What each signal and each step of a turn says about the leader.
LeaderInv ==
  /\ 10 \in signal[Leader] => script[Leader] = "wait"
  /\ script[Leader] = "call" =>
       LOPP > 0 /\ pause_order[LOPP] \in Follower /\ should_wait = 1
  /\ \A f \in Follower : 6 \in signal[f] =>
       script[Leader] \in {"kill", "skew", "overhead", "done"}

IInv == TypeInv /\ ScriptInv /\ TurnInv /\ LeaderInv

\* The boards of the list are the followers, and the leader is none.
LEMMA Boards ==
  /\ \A k \in DOMAIN IPs : IPs[k] \in Follower
  /\ Leader \notin Follower /\ Leader \in Board /\ Follower \subseteq Board
  /\ Len(IPs) \in Nat /\ DOMAIN IPs = 1..Len(IPs)
  /\ IPs # <<>> => 1 \in DOMAIN IPs
  /\ Turns \in Nat /\ \A k \in 1..Turns : pause_order[k] \in Board
  /\ Second \in Nat /\ Moment \in Nat
<1>1. IPs \in Seq(Follower)
  BY ExperimentAssumption
<1>2. /\ Len(IPs) \in Nat /\ DOMAIN IPs = 1..Len(IPs)
      /\ IPs # <<>> => 1 \in DOMAIN IPs
  BY <1>1
<1>3. Turns \in Nat /\ \A k \in 1..Turns : pause_order[k] \in Board
  BY ExperimentAssumption DEF Turns
<1>4. QED
  BY <1>2, <1>3, ExperimentAssumption DEF Board, Follower

LEMMA InitInv == Init => IInv
<1>1. SUFFICES ASSUME Init PROVE IInv
  OBVIOUS
<1>2. TypeInv
  BY <1>1, Boards DEF Init, TypeInv, FollowerStates
<1>3. ScriptInv
  BY <1>1, Boards DEF Init, ScriptInv, FollowerStates, LeaderStates
<1>4. TurnInv
  BY <1>1, Boards DEF Init, TurnInv, Busy, Pausing
<1>5. LeaderInv
  BY <1>1, Boards DEF Init, LeaderInv
<1>6. QED
  BY <1>2, <1>3, <1>4, <1>5 DEF IInv

\* A step that leaves scripts, signals, turn and wire alone keeps the invariant.
LEMMA Elsewhere ==
  ASSUME IInv, UNCHANGED <<script, signal, should_wait, LOPP, at, pin>>,
         timer' \in [Board -> Int]
  PROVE  IInv'
BY DEF IInv, TypeInv, ScriptInv, TurnInv, LeaderInv, Busy

\* A command that a follower gives keeps the leader's side.
LEMMA FollowerStep ==
  ASSUME IInv, NEW f \in Follower, local_sh(f)
  PROVE  IInv'
<1> USE Boards DEF IInv, To, Done, Send
<1>1. CASE setup(f)
  <2>1. TypeInv' /\ ScriptInv'
    BY <1>1 DEF setup, TypeInv, ScriptInv, FollowerStates, wire
  <2>2. TurnInv' /\ LeaderInv'
    BY <1>1 DEF setup, TypeInv, TurnInv, LeaderInv, Busy, Pausing, Goes, wire
  <2>3. QED
    BY <2>1, <2>2
<1>2. CASE SleepOn(f)
  <2>1. TypeInv' /\ ScriptInv'
    BY <1>2 DEF SleepOn, TypeInv, ScriptInv, FollowerStates, wire
  <2>2. TurnInv' /\ LeaderInv'
    BY <1>2 DEF SleepOn, TypeInv, TurnInv, LeaderInv, Busy, Pausing, Goes, wire
  <2>3. QED
    BY <2>1, <2>2
<1>3. CASE getFPT(f)
  <2>1. TypeInv' /\ ScriptInv'
    BY <1>3 DEF getFPT, TypeInv, ScriptInv, wire
  <2>2. TurnInv' /\ LeaderInv'
    BY <1>3 DEF getFPT, TypeInv, TurnInv, LeaderInv, Busy, wire
  <2>3. QED
    BY <2>1, <2>2
<1>4. CASE make_pause(f)
  <2>1. TypeInv' /\ ScriptInv'
    BY <1>4 DEF make_pause, TypeInv, ScriptInv, FollowerStates, Pausing, wire
  <2>2. 12 \in signal[f] /\ f \notin pin
    BY <1>4 DEF make_pause, Trap, Trapped, TypeInv, TurnInv
  <2>3. TurnInv' /\ LeaderInv'
    BY <1>4, <2>2 DEF make_pause, TypeInv, TurnInv, LeaderInv, Busy, Pausing, wire
  <2>4. QED
    BY <2>1, <2>3
<1>5. CASE Freeze(f)
  <2>1. TypeInv' /\ ScriptInv'
    BY <1>5 DEF Freeze, Drive, TypeInv, ScriptInv, FollowerStates, Pausing
  <2>2. TurnInv' /\ LeaderInv'
    BY <1>5 DEF Freeze, Drive, TypeInv, TurnInv, LeaderInv, Busy, Pausing, Goes
  <2>3. QED
    BY <2>1, <2>2
<1>6. CASE Unfreeze(f)
  <2>1. TypeInv' /\ ScriptInv'
    BY <1>6 DEF Unfreeze, Drive, TypeInv, ScriptInv, FollowerStates, Pausing
  <2>2. TurnInv' /\ LeaderInv'
    BY <1>6 DEF Unfreeze, Drive, TypeInv, TurnInv, LeaderInv, Busy, Pausing, Goes
  <2>3. QED
    BY <2>1, <2>2
<1>7. CASE Answer(f)
  <2>1. TypeInv' /\ ScriptInv'
    BY <1>7 DEF Answer, TypeInv, ScriptInv, FollowerStates, Pausing, wire
  <2>2. TurnInv' /\ LeaderInv'
    BY <1>7 DEF Answer, TypeInv, TurnInv, LeaderInv, Busy, Pausing, Goes, wire
  <2>3. QED
    BY <2>1, <2>2
<1>8. CASE Answered(f)
  <2>1. TypeInv' /\ ScriptInv'
    BY <1>8 DEF Answered, TypeInv, ScriptInv, FollowerStates, wire
  <2>2. Busy(f) /\ 12 \notin signal[f] /\ f \notin pin
    BY <1>8 DEF Answered, Goes, Busy, Pausing, TurnInv
  <2>3. \A g \in Follower : Busy(g) => g = f
    BY <2>2 DEF TurnInv
  <2>4. \A g \in Follower : ~Busy(g)'
    BY <1>8, <2>2, <2>3 DEF Answered, TypeInv, Busy, Pausing
  <2>5. TurnInv' /\ LeaderInv'
    BY <1>8, <2>2, <2>4 DEF Answered, TypeInv, TurnInv, LeaderInv, Busy, wire
  <2>6. QED
    BY <2>1, <2>5
<1>9. CASE cleanup(f)
  <2>1. TypeInv' /\ ScriptInv'
    BY <1>9 DEF cleanup, TypeInv, ScriptInv, FollowerStates, wire
  <2>2. ~Busy(f) /\ f \notin pin
    BY <1>9 DEF cleanup, Trap, Trapped, TypeInv, TurnInv, LeaderInv, Busy, Pausing
  <2>3. TurnInv' /\ LeaderInv'
    BY <1>9, <2>2 DEF cleanup, TypeInv, TurnInv, LeaderInv, Busy, Pausing, wire
  <2>4. QED
    BY <2>1, <2>3
<1>10. QED
  BY <1>1, <1>2, <1>3, <1>4, <1>5, <1>6, <1>7, <1>8, <1>9 DEF local_sh

\* One board more has been sent a signal other than that of a pause, and the leader
\* goes on with its list.
Sends(f, n, pc, k, ticks) ==
  /\ script[Leader] \in {"tell", "kill"}
  /\ signal' = [signal EXCEPT ![f] = @ \union {n}]
  /\ script' = [script EXCEPT ![Leader] = pc]
  /\ timer' = [timer EXCEPT ![Leader] = ticks]
  /\ at' = k /\ UNCHANGED <<should_wait, LOPP, pin>>
  /\ pc \in {"tell", "kill"} => k \in DOMAIN IPs
  /\ script[Leader] = "kill" \/ n = 6 => pc \in {"kill", "skew"}

LEMMA Sent ==
  ASSUME IInv, NEW f \in Follower, NEW n \in {6, 10},
         NEW pc \in {"tell", "turn", "kill", "skew"}, NEW k \in Nat, NEW ticks \in Nat,
         Sends(f, n, pc, k, ticks)
  PROVE  IInv'
<1> USE Boards DEF IInv, Sends
<1>1. f \in Board /\ f # Leader /\ pc \in LeaderStates
  BY DEF LeaderStates
<1>2. /\ script' \in [Board -> FollowerStates \union LeaderStates]
      /\ timer' \in [Board -> Int]
      /\ script'[Leader] = pc /\ \A b \in Follower : script'[b] = script[b]
  BY <1>1 DEF TypeInv
<1>3. /\ signal' \in [Board -> SUBSET {6, 10, 12}]
      /\ signal'[Leader] = signal[Leader]
      /\ \A b \in Follower :
           (12 \in signal'[b] <=> 12 \in signal[b])
           /\ (6 \in signal'[b] => 6 \in signal[b] \/ n = 6)
  BY <1>1 DEF TypeInv
<1>4. \A b \in Follower : ~Busy(b)
  BY DEF TurnInv
<1>5. \A b \in Follower : ~Busy(b)'
  BY <1>2, <1>3, <1>4 DEF Busy
<1>6. TypeInv'
  BY <1>2, <1>3 DEF TypeInv
<1>7. ScriptInv'
  BY <1>1, <1>2 DEF ScriptInv
<1>8. Leader \notin pin /\ \A b \in Follower : b \notin pin
  BY <1>4 DEF TurnInv, Busy, Pausing
<1>9. TurnInv'
  <2>1. pin = {}
    BY <1>8 DEF TypeInv, Board
  <2>2. script'[Leader] # "frozen" /\ \A b \in Follower : script'[b] \notin Pausing
    BY <1>2, <1>5 DEF Busy
  <2>3. QED
    BY <1>5, <2>1, <2>2 DEF TurnInv
<1>10. LeaderInv'
  <2>1. 10 \notin signal[Leader]
    BY DEF LeaderInv
  <2>2. \A b \in Follower : 6 \in signal'[b] => pc \in {"kill", "skew"}
    BY <1>3 DEF LeaderInv
  <2>3. QED
    BY <1>2, <1>3, <2>1, <2>2 DEF LeaderInv
<1>11. QED
  BY <1>6, <1>7, <1>9, <1>10

\* A command that the leader gives keeps the pauses in turn.
LEMMA LeaderStep ==
  ASSUME IInv, leader_sh
  PROVE  IInv'
<1> USE Boards DEF IInv, To, Done, Send, Each, For
<1>0. \A f \in Follower : Busy(f) => script[Leader] = "wait"
  BY DEF TurnInv
<1>1. CASE begin
  <2>1. TypeInv'
    BY <1>1 DEF begin, TypeInv, LeaderStates, Goes, wire
  <2>2. ScriptInv'
    BY <1>1 DEF begin, TypeInv, ScriptInv, LeaderStates, Goes, wire
  <2>3. TurnInv'
    BY <1>1, <1>0 DEF begin, TypeInv, ScriptInv, TurnInv, LeaderInv, Busy, Pausing, Goes, Trapped, wire
  <2>4. LeaderInv'
    BY <1>1, <1>0 DEF begin, TypeInv, ScriptInv, LeaderInv, TurnInv, Busy, Pausing, Goes, Trapped, wire
  <2>5. QED
    BY <2>1, <2>2, <2>3, <2>4
<1>2. CASE Tell
  <2>0. IPs[at] \in Follower /\ at \in 1..Len(IPs) /\ After \in Nat
    BY <1>2 DEF Tell, ScriptInv, Goes, After
  <2>1. /\ signal' = [signal EXCEPT ![IPs[at]] = @ \union {10}]
        /\ script[Leader] = "tell" /\ UNCHANGED <<should_wait, LOPP, pin>>
    BY <1>2 DEF Tell, Goes, wire
  <2>2. CASE at < Len(IPs)
    <3>1. at' = at + 1 /\ To(Leader, "tell", Moment) /\ at + 1 \in DOMAIN IPs
      BY <1>2, <2>0, <2>2 DEF Tell
    <3>2. Sends(IPs[at], 10, "tell", at + 1, Moment)
      BY <2>0, <2>1, <3>1 DEF Sends
    <3> HIDE DEF IInv
    <3>3. QED
      BY ONLY IInv, Boards, <2>0, <3>2, Sent
  <2>3. CASE ~(at < Len(IPs))
    <3>1. at' = 1 /\ To(Leader, "turn", After)
      BY <1>2, <2>3 DEF Tell
    <3>2. Sends(IPs[at], 10, "turn", 1, After)
      BY <2>0, <2>1, <3>1 DEF Sends
    <3> HIDE DEF IInv
    <3>3. QED
      BY ONLY IInv, Boards, <2>0, <3>2, Sent
  <2>4. QED
    BY <2>2, <2>3
<1>3. CASE OwnTurn
  <2>1. TypeInv'
    BY <1>3 DEF OwnTurn, NextTurn, Drive, TypeInv, LeaderStates, Goes, wire
  <2>2. ScriptInv'
    BY <1>3 DEF OwnTurn, NextTurn, Drive, TypeInv, ScriptInv, LeaderStates, Goes, wire
  <2>3. TurnInv'
    BY <1>3, <1>0 DEF OwnTurn, NextTurn, Drive, TypeInv, ScriptInv, TurnInv, LeaderInv, Busy, Pausing, Goes, wire
  <2>4. LeaderInv'
    BY <1>3, <1>0 DEF OwnTurn, NextTurn, Drive, TypeInv, ScriptInv, LeaderInv, TurnInv, Busy, Pausing, Goes, wire
  <2>5. QED
    BY <2>1, <2>2, <2>3, <2>4
<1>4. CASE EndOwnTurn
  <2>1. TypeInv'
    BY <1>4 DEF EndOwnTurn, Drive, TypeInv, LeaderStates, Goes, wire
  <2>2. ScriptInv'
    BY <1>4 DEF EndOwnTurn, Drive, TypeInv, ScriptInv, LeaderStates, Goes, wire
  <2>3. TurnInv'
    BY <1>4, <1>0 DEF EndOwnTurn, Drive, TypeInv, ScriptInv, TurnInv, LeaderInv, Busy, Pausing, Goes, Trapped, wire
  <2>4. LeaderInv'
    BY <1>4, <1>0 DEF EndOwnTurn, Drive, TypeInv, ScriptInv, LeaderInv, TurnInv, Busy, Pausing, Goes, Trapped, wire
  <2>5. QED
    BY <2>1, <2>2, <2>3, <2>4
<1>5. CASE GiveTurn
  <2>1. TypeInv'
    BY <1>5 DEF GiveTurn, NextTurn, TypeInv, LeaderStates, Goes, wire
  <2>2. ScriptInv'
    BY <1>5 DEF GiveTurn, NextTurn, TypeInv, ScriptInv, LeaderStates, Goes, wire
  <2>3. TurnInv'
    BY <1>5, <1>0 DEF GiveTurn, NextTurn, TypeInv, ScriptInv, TurnInv, LeaderInv, Busy, Pausing, Goes, wire
  <2>a. pause_order[LOPP + 1] \in Follower /\ LOPP' = LOPP + 1
    BY <1>5 DEF GiveTurn, NextTurn, TypeInv, Board
  <2>4. LeaderInv'
    BY <1>5, <2>a, <1>0 DEF GiveTurn, NextTurn, TypeInv, LeaderInv, Goes, wire
  <2>5. QED
    BY <2>1, <2>2, <2>3, <2>4
<1>6. CASE Call
  <2> DEFINE f == pause_order[LOPP]
  <2>0. f \in Follower /\ should_wait = 1 /\ LOPP > 0 /\ ~Busy(f)
    BY <1>6, <1>0 DEF Call, LeaderInv, Goes
  <2>a. /\ signal' = [signal EXCEPT ![f] = @ \union {12}]
        /\ To(Leader, "wait", 0) /\ UNCHANGED <<should_wait, LOPP, at, pin>>
        /\ script[Leader] = "call" /\ 10 \notin signal[Leader]
    BY <1>6 DEF Call, Goes, Trapped, Pausing, wire
  <2> HIDE DEF f
  <2>1. TypeInv'
    BY <2>0, <2>a DEF TypeInv, LeaderStates
  <2>2. ScriptInv'
    BY <2>a DEF TypeInv, ScriptInv, LeaderStates
  <2>3. TurnInv'
    BY <2>0, <2>a, <1>0 DEF f, TypeInv, TurnInv, Busy
  <2>4. LeaderInv'
    BY <2>0, <2>a DEF TypeInv, LeaderInv
  <2>5. QED
    BY <2>1, <2>2, <2>3, <2>4
<1>7. CASE response
  <2>1. TypeInv'
    BY <1>7 DEF response, TypeInv, LeaderStates, Goes, wire
  <2>2. ScriptInv'
    BY <1>7 DEF response, TypeInv, ScriptInv, LeaderStates, Goes, wire
  <2>3. TurnInv'
    BY <1>7, <1>0 DEF response, TypeInv, ScriptInv, TurnInv, LeaderInv, Busy, Pausing, Trap, Trapped, wire
  <2>4. LeaderInv'
    BY <1>7, <1>0 DEF response, TypeInv, ScriptInv, LeaderInv, TurnInv, Busy, Pausing, Trap, Trapped, wire
  <2>5. QED
    BY <2>1, <2>2, <2>3, <2>4
<1>8. CASE PauseOver
  <2>1. TypeInv'
    BY <1>8 DEF PauseOver, TypeInv, LeaderStates, Goes, wire
  <2>2. ScriptInv'
    BY <1>8 DEF PauseOver, TypeInv, ScriptInv, LeaderStates, Goes, wire
  <2>3. TurnInv'
    BY <1>8, <1>0 DEF PauseOver, TypeInv, ScriptInv, TurnInv, LeaderInv, Busy, Pausing, Goes, Trapped, wire
  <2>4. LeaderInv'
    BY <1>8, <1>0 DEF PauseOver, TypeInv, ScriptInv, LeaderInv, TurnInv, Busy, Pausing, Goes, Trapped, wire
  <2>5. QED
    BY <2>1, <2>2, <2>3, <2>4
<1>9. CASE collect_logs
  <2>1. TypeInv'
    BY <1>9 DEF collect_logs, TypeInv, LeaderStates, Goes, wire
  <2>2. ScriptInv'
    BY <1>9 DEF collect_logs, TypeInv, ScriptInv, LeaderStates, Goes, wire
  <2>3. TurnInv'
    BY <1>9, <1>0 DEF collect_logs, TypeInv, ScriptInv, TurnInv, LeaderInv, Busy, Pausing, Goes, Trapped, wire
  <2>4. LeaderInv'
    BY <1>9, <1>0 DEF collect_logs, TypeInv, ScriptInv, LeaderInv, TurnInv, Busy, Pausing, Goes, Trapped, wire
  <2>5. QED
    BY <2>1, <2>2, <2>3, <2>4
<1>10. CASE Kill
  <2>0. IPs[at] \in Follower /\ at \in 1..Len(IPs) /\ 2 * Second \in Nat
    BY <1>10 DEF Kill, ScriptInv, Goes, After
  <2>1. /\ signal' = [signal EXCEPT ![IPs[at]] = @ \union {6}]
        /\ script[Leader] = "kill" /\ UNCHANGED <<should_wait, LOPP, pin>>
    BY <1>10 DEF Kill, Goes, wire
  <2>2. CASE at < Len(IPs)
    <3>1. at' = at + 1 /\ To(Leader, "kill", Moment) /\ at + 1 \in DOMAIN IPs
      BY <1>10, <2>0, <2>2 DEF Kill
    <3>2. Sends(IPs[at], 6, "kill", at + 1, Moment)
      BY <2>0, <2>1, <3>1 DEF Sends
    <3> HIDE DEF IInv
    <3>3. QED
      BY ONLY IInv, Boards, <2>0, <3>2, Sent
  <2>3. CASE ~(at < Len(IPs))
    <3>1. at' = 1 /\ To(Leader, "skew", 2 * Second)
      BY <1>10, <2>3 DEF Kill
    <3>2. Sends(IPs[at], 6, "skew", 1, 2 * Second)
      BY <2>0, <2>1, <3>1 DEF Sends
    <3> HIDE DEF IInv
    <3>3. QED
      BY ONLY IInv, Boards, <2>0, <3>2, Sent
  <2>4. QED
    BY <2>2, <2>3
<1>11. CASE FetchSkew
  <2>a. /\ \/ at' = at + 1 /\ To(Leader, "skew", Moment)
           \/ at' = 1 /\ To(Leader, "overhead", 0)
        /\ UNCHANGED <<signal, should_wait, LOPP, pin>>
    BY <1>11 DEF FetchSkew, wire
  <2>1. TypeInv'
    BY <2>a DEF TypeInv, LeaderStates
  <2>2. ScriptInv'
    BY <1>11 DEF FetchSkew, TypeInv, ScriptInv, LeaderStates, Goes, wire
  <2>3. TurnInv'
    BY <1>11, <1>0 DEF FetchSkew, TypeInv, ScriptInv, TurnInv, LeaderInv, Busy, Pausing, Goes, wire
  <2>4. LeaderInv'
    BY <1>11, <1>0 DEF FetchSkew, TypeInv, ScriptInv, LeaderInv, TurnInv, Busy, Pausing, Goes, wire
  <2>5. QED
    BY <2>1, <2>2, <2>3, <2>4
<1>12. CASE FetchOverhead
  <2>1. TypeInv'
    BY <1>12 DEF FetchOverhead, TypeInv, LeaderStates, Goes, wire
  <2>2. ScriptInv'
    BY <1>12 DEF FetchOverhead, TypeInv, ScriptInv, LeaderStates, Goes, wire
  <2>3. TurnInv'
    BY <1>12, <1>0 DEF FetchOverhead, TypeInv, ScriptInv, TurnInv, LeaderInv, Busy, Pausing, Goes, wire
  <2>4. LeaderInv'
    BY <1>12, <1>0 DEF FetchOverhead, TypeInv, ScriptInv, LeaderInv, TurnInv, Busy, Pausing, Goes, wire
  <2>5. QED
    BY <2>1, <2>2, <2>3, <2>4
<1>13. QED
  BY <1>1, <1>2, <1>3, <1>4, <1>5, <1>6, <1>7, <1>8, <1>9, <1>10, <1>11, <1>12 DEF leader_sh

LEMMA StepInv == IInv /\ [Next]_vars => IInv'
<1>1. SUFFICES ASSUME IInv, [Next]_vars PROVE IInv'
  OBVIOUS
<1>2. CASE Tick
  BY <1>1, <1>2, Elsewhere, Boards DEF Tick, IInv, TypeInv, logs
<1>3. CASE leader_sh
  BY <1>1, <1>3, LeaderStep
<1>4. ASSUME NEW f \in Follower, local_sh(f) PROVE IInv'
  BY <1>1, <1>4, FollowerStep
<1>5. ASSUME NEW b \in Board, NEW edge \in {"rise", "fall"}, Serve(b, edge)
      PROVE  IInv'
  BY <1>1, <1>5, Elsewhere DEF Serve, IInv, TypeInv, logs
<1>6. CASE UNCHANGED vars
  BY <1>1, <1>6, Elsewhere DEF vars, wire, IInv, TypeInv
<1>7. QED
  BY <1>1, <1>2, <1>3, <1>4, <1>5, <1>6 DEF Next, ServeInterrupt

\* The invariant of the turns holds in every run.
THEOREM TurnsInvariant == Spec => []IInv
BY InitInv, StepInv, PTL DEF Spec

\* Freezes of two boards never overlap: only the board whose turn it is drives the
\* wire (leader.sh:597-617, local.sh:29-38).
THEOREM FreezesInTurn == Spec => []OnlyInTurn
<1>1. IInv => OnlyInTurn
  <2>1. SUFFICES ASSUME IInv, NEW b \in pin PROVE LOPP > 0 /\ b = pause_order[LOPP]
    BY DEF OnlyInTurn
  <2>2. script[b] = "frozen" /\ b \in Board
    BY <2>1 DEF IInv, TypeInv, TurnInv
  <2>3. CASE b = Leader
    BY <2>1, <2>2, <2>3 DEF IInv, TurnInv
  <2>4. CASE b \in Follower
    BY <2>1, <2>2, <2>4 DEF IInv, TurnInv, Busy, Pausing
  <2>5. QED
    BY <2>2, <2>3, <2>4 DEF Board
<1>2. QED
  BY <1>1, TurnsInvariant, PTL

-----------------------------------------------------------------------------
(***************************************************************************)
(* The time between two changes of the wire.  A freeze lasts a second, and *)
(* the leader waits one before it gives the next turn; in less than that   *)
(* every board has served its interrupt.                                   *)
(***************************************************************************)
NoEdge == \A x \in Board : latch[x] = {}

\* A board that has yet to serve one edge never meets another.
Edges == {{}, {"rise"}, {"fall"}}

\* When the timer of b has run out, a second has passed since the last edge.
Ripe(b) == \A x \in Board : latch[x] # {} => age[x] + timer[b] >= Second

CalmInv ==
  /\ latch \in [Board -> Edges] /\ age \in [Board -> Nat]
  /\ \A x \in Board : age[x] <= Latency /\ (latch[x] = {} => age[x] = 0)
  /\ LOPP = 0 => NoEdge
  /\ script[Leader] = "setup" => LOPP = 0
  /\ \A b \in Board : script[b] = "frozen" => b \in pin /\ Ripe(b)
  /\ script[Leader] = "turn" => Ripe(Leader)
  /\ script[Leader] = "call" => NoEdge
  /\ \A f \in Follower : script[f] = "lead" \/ 12 \in signal[f] => NoEdge

LEMMA RipeIsCalm ==
  ASSUME CalmInv, Latency < Second, NEW b \in Board, timer[b] = 0, Ripe(b)
  PROVE  NoEdge
<1>1. Latency \in Nat /\ Second \in Nat
  BY ExperimentAssumption
<1>2. ASSUME NEW x \in Board, latch[x] # {} PROVE FALSE
  <2>1. age[x] + 0 >= Second /\ age[x] <= Latency /\ age[x] \in Nat
    BY <1>2 DEF CalmInv, Ripe
  <2> QED BY <1>1, <2>1
<1> QED BY <1>2 DEF NoEdge

\* A step that does not touch the wire and its edges, and that comes to a turn with
\* a second on the timer or with no edge left to serve.
LEMMA OffTheWire ==
  ASSUME IInv, CalmInv, UNCHANGED <<latch, age, pin>>, LOPP' # 0 \/ LOPP = 0,
         \A b \in Board : script'[b] = "frozen" => script[b] = "frozen" /\ timer'[b] = timer[b],
         script'[Leader] = "turn" =>
           \/ script[Leader] = "turn" /\ timer'[Leader] = timer[Leader]
           \/ timer'[Leader] \in Nat /\ timer'[Leader] >= Second
           \/ NoEdge,
         script'[Leader] = "call" => script[Leader] = "call" \/ NoEdge,
         script'[Leader] = "setup" => script[Leader] = "setup" /\ LOPP' = LOPP,
         \A f \in Follower : script'[f] = "lead" \/ 12 \in signal'[f] =>
           script[f] = "lead" \/ 12 \in signal[f] \/ script[Leader] = "call"
  PROVE  CalmInv'
<1>1. NoEdge' <=> NoEdge
  BY DEF NoEdge
<1>2. \A b \in Board : timer'[b] = timer[b] => (Ripe(b)' <=> Ripe(b))
  BY DEF Ripe
<1>3. NoEdge => \A b \in Board : Ripe(b)'
  BY DEF NoEdge, Ripe
<1>4. timer'[Leader] \in Nat /\ timer'[Leader] >= Second => Ripe(Leader)'
  <2>1. \A x \in Board : age'[x] \in Nat
    BY DEF CalmInv
  <2>2. Second \in Nat
    BY ExperimentAssumption
  <2> QED BY <2>1, <2>2 DEF Ripe
<1>5. script'[Leader] = "turn" => Ripe(Leader)'
  BY <1>2, <1>3, <1>4, Boards DEF CalmInv
<1> QED BY <1>1, <1>2, <1>3, <1>5, Boards DEF CalmInv

\* Only the board whose script is at a freeze drives the wire.
LEMMA WireIdle ==
  ASSUME IInv, \A b \in Board : script[b] # "frozen"
  PROVE  pin = {}
BY DEF IInv, TypeInv, TurnInv

LEMMA OneFrozen ==
  ASSUME IInv, NEW b \in Board, script[b] = "frozen"
  PROVE  /\ pin \subseteq {b}
         /\ \A x \in Board : script[x] = "frozen" => x = b
<1>1. \A f \in Follower : script[f] = "frozen" =>
        f = pause_order[LOPP] /\ script[Leader] = "wait"
  BY DEF IInv, TurnInv, Busy, Pausing
<1>2. \A x \in Board : script[x] = "frozen" => x = b
  BY <1>1, Boards DEF Board
<1> QED BY <1>2 DEF IInv, TypeInv, TurnInv

\* A change of the wire that finds every edge served: a freeze of the board b while
\* nobody drives it, or the end of that freeze.
Freezes(b) ==
  /\ \A x \in Board : script[x] # "frozen"
  /\ Drive(pin \union {b}) /\ To(b, "frozen", Second)
Thaws(b, pc, ticks) ==
  /\ script[b] = "frozen" /\ pc \in {"thawed", "wait"}
  /\ Drive(pin \ {b}) /\ To(b, pc, ticks)

LEMMA OnTheWire ==
  ASSUME IInv, IInv', CalmInv, NoEdge, LOPP' > 0, NEW b \in Board,
         \/ Freezes(b)
         \/ \E pc \in {"thawed", "wait"}, ticks \in Nat : Thaws(b, pc, ticks),
         b # Leader => script'[b] \in Pausing \ {"lead"},
         b = Leader => script'[b] = "frozen" \/ script[b] = "frozen",
         b = Leader => UNCHANGED signal
  PROVE  CalmInv' /\ \E x \in Board : {pin, pin'} = {{}, {x}}
<1> USE Boards
<1>1. /\ LOPP' # 0
      /\ latch' \in [Board -> Edges]
      /\ age' \in [Board -> Nat] /\ \A x \in Board : age'[x] = 0
      /\ script \in [Board -> FollowerStates \union LeaderStates]
      /\ timer \in [Board -> Int]
  <2>1. age' = age /\ \A x \in Board : age[x] = 0
    BY DEF CalmInv, NoEdge, Freezes, Thaws, Drive
  <2>3. latch' \in [Board -> Edges]
    <3>1. ASSUME NEW drivers, Drive(drivers) PROVE latch' \in [Board -> Edges]
      <4>1. latch' = [x \in Board |->
              IF pin = {} /\ drivers # {} THEN latch[x] \union {"rise"}
              ELSE IF pin # {} /\ drivers = {} THEN latch[x] \union {"fall"}
              ELSE latch[x]]
        BY <3>1 DEF Drive
      <4>2. \A x \in Board : latch'[x] \in Edges
        BY <4>1 DEF NoEdge, Edges
      <4> QED BY <4>1, <4>2
    <3> QED BY <3>1 DEF Freezes, Thaws
  <2> QED BY <2>1, <2>3 DEF CalmInv, IInv, TypeInv
<1>2. Latency >= 0 /\ Second \in Nat /\ Latency \in Nat
  BY ExperimentAssumption
<1>3. /\ \A x \in Board : script'[x] = "frozen" => x \in pin' /\ Ripe(x)'
      /\ \E x \in Board : {pin, pin'} = {{}, {x}}
  <2>1. CASE Freezes(b)
    <3>1. pin = {} /\ pin' = {b}
      BY <2>1, WireIdle DEF Freezes, Drive
    <3>2. /\ \A x \in Board : script'[x] = "frozen" => x = b
          /\ timer'[b] = Second
      BY <1>1, <2>1 DEF Freezes, To
    <3>3. Ripe(b)'
      BY <1>1, <1>2, <3>2 DEF Ripe
    <3> QED BY <3>1, <3>2, <3>3
  <2>2. ASSUME NEW pc \in {"thawed", "wait"}, NEW ticks \in Nat, Thaws(b, pc, ticks)
        PROVE  /\ \A x \in Board : script'[x] # "frozen"
               /\ pin' = {} /\ pin = {b}
    <3>1. pin = {b} /\ \A x \in Board : script[x] = "frozen" => x = b
      BY <2>2, OneFrozen DEF Thaws, CalmInv
    <3>2. script'[b] = pc /\ \A x \in Board \ {b} : script'[x] = script[x]
      BY <1>1, <2>2 DEF Thaws, To
    <3> QED BY <2>2, <3>1, <3>2 DEF Thaws, Drive
  <2> QED BY <2>1, <2>2
<1>4. script'[Leader] \notin {"turn", "call", "setup"}
  <2>1. CASE b = Leader
    <3>1. script'[b] \in {"frozen", "thawed", "wait"}
      BY <1>1 DEF Freezes, Thaws, To
    <3> QED BY <2>1, <3>1
  <2>2. CASE b # Leader
    <3>1. b \in Follower /\ Busy(b)'
      BY <2>2 DEF Board, Busy
    <3>2. script'[Leader] = "wait"
      BY <3>1 DEF IInv, TurnInv
    <3> QED BY <3>2
  <2> QED BY <2>1, <2>2
<1>5. ASSUME NEW f \in Follower, script'[f] = "lead" \/ 12 \in signal'[f] PROVE FALSE
  <2>1. Busy(f)'
    BY <1>5 DEF Busy, Pausing
  <2>2. pause_order[LOPP'] = f /\ script'[Leader] = "wait"
    BY <2>1 DEF IInv, TurnInv
  <2>3. CASE b # Leader
    <3>1. b \in Follower /\ Busy(b)'
      BY <2>3 DEF Board, Busy
    <3>2. b = f
      BY <2>2, <3>1 DEF IInv, TurnInv
    <3> QED BY <1>5, <2>3, <3>2 DEF IInv, TurnInv
  <2>4. CASE b = Leader
    <3>1. script[Leader] = "frozen"
      BY <2>2, <2>4
    <3>2. script'[f] = script[f] /\ signal'[f] = signal[f]
      BY <1>1, <2>4 DEF Freezes, Thaws, To
    <3>3. Busy(f)
      BY <2>1, <3>2 DEF Busy
    <3> QED BY <3>1, <3>3 DEF IInv, TurnInv
  <2> QED BY <2>3, <2>4
<1>6. \A x \in Board : age'[x] <= Latency
  BY <1>1, <1>2
<1> QED BY <1>1, <1>3, <1>4, <1>5, <1>6 DEF CalmInv

\* What KeepsTurns says of a step.
Turnwise ==
  pin' # pin =>
    /\ NoEdge
    /\ \E b \in Board : {pin, pin'} = {{}, {b}}

LEMMA FollowerCalm ==
  ASSUME IInv, IInv', CalmInv, Latency < Second, NEW f \in Follower, local_sh(f)
  PROVE  CalmInv' /\ Turnwise
<1> USE Boards DEF To
<1>1. /\ script \in [Board -> FollowerStates \union LeaderStates]
      /\ signal \in [Board -> SUBSET {6, 10, 12}] /\ timer \in [Board -> Int]
      /\ f \in Board /\ f # Leader
  BY DEF IInv, TypeInv
<1>2. CASE setup(f) \/ SleepOn(f) \/ Answer(f)
  <2>1. /\ UNCHANGED <<latch, age, pin, LOPP, signal>>
        /\ \A b \in Board : b # f => script'[b] = script[b] /\ timer'[b] = timer[b]
        /\ script'[f] \in {"loop", "reply"}
    BY <1>1, <1>2 DEF setup, SleepOn, Answer, wire
  <2> QED BY <1>1, <2>1, OffTheWire DEF Turnwise
<1>3. CASE Answered(f)
  <2>1. /\ UNCHANGED <<latch, age, pin, LOPP>>
        /\ \A b \in Board : b # f => script'[b] = script[b] /\ timer'[b] = timer[b]
        /\ script'[f] = "loop"
        /\ \A x \in Follower : 12 \in signal'[x] => 12 \in signal[x]
    BY <1>1, <1>3 DEF Answered, Send, wire
  <2> QED BY <1>1, <2>1, OffTheWire DEF Turnwise
<1>4. CASE getFPT(f)
  <2>1. /\ UNCHANGED <<latch, age, pin, LOPP, script, timer>>
        /\ \A x \in Follower : 12 \in signal'[x] => 12 \in signal[x]
    BY <1>1, <1>4 DEF getFPT, Done, wire
  <2> QED BY <1>1, <2>1, OffTheWire DEF Turnwise
<1>5. CASE cleanup(f)
  <2>1. /\ UNCHANGED <<latch, age, pin, LOPP>>
        /\ \A b \in Board : b # f => script'[b] = script[b] /\ timer'[b] = timer[b]
        /\ script'[f] = "exited"
        /\ \A x \in Follower : 12 \in signal'[x] => 12 \in signal[x]
    BY <1>1, <1>5 DEF cleanup, Done, wire
  <2> QED BY <1>1, <2>1, OffTheWire DEF Turnwise
<1>6. CASE make_pause(f)
  <2>1. /\ UNCHANGED <<latch, age, pin, LOPP>>
        /\ \A b \in Board : b # f => script'[b] = script[b] /\ timer'[b] = timer[b]
        /\ script'[f] = "lead" /\ 12 \in signal[f]
        /\ \A x \in Follower : 12 \in signal'[x] => 12 \in signal[x]
    BY <1>1, <1>6 DEF make_pause, Done, Trap, Trapped, wire
  <2> QED BY <1>1, <2>1, OffTheWire DEF Turnwise
<1>7. CASE Freeze(f)
  <2>1. script[f] = "lead" /\ Busy(f)
    BY <1>7 DEF Freeze, Goes, Busy, Pausing
  <2>2. NoEdge
    BY <2>1 DEF CalmInv
  <2>3. /\ \A x \in Board : script[x] # "frozen"
        /\ LOPP > 0 /\ LOPP' = LOPP
    <3>1. LOPP > 0 /\ script[Leader] = "wait" /\ pause_order[LOPP] = f
      BY <2>1 DEF IInv, TurnInv
    <3>2. \A x \in Follower : Busy(x) => x = f
      BY <3>1 DEF IInv, TurnInv
    <3>3. \A x \in Follower : script[x] = "frozen" => Busy(x)
      BY DEF Busy, Pausing
    <3> QED BY <1>7, <2>1, <3>1, <3>2, <3>3 DEF Board, Freeze
  <2>4. Freezes(f) /\ script'[f] = "frozen"
    BY <1>1, <1>7, <2>3 DEF Freeze, Freezes
  <2> QED BY <1>1, <2>2, <2>3, <2>4, OnTheWire DEF Turnwise, Pausing
<1>8. CASE Unfreeze(f)
  <2>1. script[f] = "frozen" /\ timer[f] = 0 /\ Busy(f)
    BY <1>8 DEF Unfreeze, Goes, Prompt, Busy, Pausing
  <2>2. NoEdge
    BY <1>1, <2>1, RipeIsCalm DEF CalmInv
  <2>3. LOPP > 0 /\ LOPP' = LOPP
    BY <1>8, <2>1 DEF IInv, TurnInv, Unfreeze
  <2>4. Thaws(f, "thawed", Moment) /\ script'[f] = "thawed" /\ Moment \in Nat
    BY <1>1, <1>8, <2>1 DEF Unfreeze, Thaws
  <2> QED BY <1>1, <2>2, <2>3, <2>4, OnTheWire DEF Turnwise, Pausing
<1> QED BY <1>2, <1>3, <1>4, <1>5, <1>6, <1>7, <1>8 DEF local_sh

LEMMA LeaderCalm ==
  ASSUME IInv, IInv', CalmInv, Latency < Second, leader_sh
  PROVE  CalmInv' /\ Turnwise
<1> USE Boards DEF To
<1>1. /\ script \in [Board -> FollowerStates \union LeaderStates]
      /\ signal \in [Board -> SUBSET {6, 10, 12}] /\ timer \in [Board -> Int]
      /\ LOPP \in Nat
      /\ \A f \in Follower : f \in Board /\ f # Leader
  BY DEF IInv, TypeInv
<1>2. ASSUME UNCHANGED <<latch, age, pin>>, LOPP' = LOPP \/ LOPP' > 0,
             \A b \in Follower : script'[b] = script[b] /\ timer'[b] = timer[b],
             \A b \in Follower : 12 \in signal'[b] => 12 \in signal[b],
             script'[Leader] \notin {"frozen", "call", "setup"},
             script'[Leader] = "turn" =>
               \/ timer'[Leader] \in Nat /\ timer'[Leader] >= Second
               \/ NoEdge
      PROVE  CalmInv' /\ Turnwise
  <2>1. \A b \in Board : b = Leader \/ b \in Follower
    BY DEF Board
  <2>2. LOPP' # 0 \/ LOPP = 0
    BY <1>1, <1>2
  <2>3. \A b \in Board : script'[b] = "frozen" => script[b] = "frozen" /\ timer'[b] = timer[b]
    BY <1>2, <2>1
  <2> QED BY <1>2, <2>2, <2>3, OffTheWire DEF Turnwise
<1>3. ASSUME NEW pc \in LeaderStates, NEW ticks \in Nat,
             To(Leader, pc, ticks), UNCHANGED <<latch, age, pin>>,
             LOPP' = LOPP \/ LOPP' > 0,
             \A b \in Follower : 12 \in signal'[b] => 12 \in signal[b],
             pc \notin {"frozen", "call", "setup"}, pc = "turn" => ticks >= Second \/ NoEdge
      PROVE  CalmInv' /\ Turnwise
  <2>1. /\ \A b \in Follower : script'[b] = script[b] /\ timer'[b] = timer[b]
        /\ script'[Leader] = pc /\ timer'[Leader] = ticks
    BY <1>1, <1>3
  <2> QED BY <1>2, <1>3, <2>1
<1>4. CASE begin
  <2>1. /\ UNCHANGED <<latch, age, pin, LOPP, signal>>
        /\ To(Leader, "tell", Moment) \/ To(Leader, "turn", 0)
    BY <1>4 DEF begin, For, wire
  <2>2. NoEdge
    BY <1>4 DEF begin, Goes, CalmInv
  <2> QED BY <1>3, <2>1, <2>2 DEF LeaderStates
<1>5. ASSUME NEW f, UNCHANGED <<latch, age, pin, LOPP>>, NEW n \in {6, 10}, Send(f, n),
             NEW pc \in {"tell", "turn", "kill", "skew"}, NEW ticks \in Nat,
             To(Leader, pc, ticks), pc = "turn" => ticks >= Second \/ NoEdge
      PROVE  CalmInv' /\ Turnwise
  <2>1. \A b \in Follower : 12 \in signal'[b] => 12 \in signal[b]
    BY <1>1, <1>5 DEF Send
  <2> QED BY <1>3, <1>5, <2>1 DEF LeaderStates
<1>6. CASE Tell
  <2>1. UNCHANGED <<latch, age, pin, LOPP>> /\ Send(IPs[at], 10)
    BY <1>6 DEF Tell, wire
  <2>2. To(Leader, "tell", Moment) \/ To(Leader, "turn", After)
    BY <1>6 DEF Tell, Each
  <2>3. After \in Nat /\ (After >= Second \/ NoEdge)
    BY DEF After, CalmInv
  <2> QED BY <1>5, <2>1, <2>2, <2>3
<1>7. CASE Kill
  <2>1. UNCHANGED <<latch, age, pin, LOPP>> /\ Send(IPs[at], 6)
    BY <1>7 DEF Kill, wire
  <2>2. To(Leader, "kill", Moment) \/ To(Leader, "skew", 2 * Second)
    BY <1>7 DEF Kill, Each
  <2> QED BY <1>5, <2>1, <2>2
<1>8. ASSUME NextTurn(TRUE) \/ NextTurn(FALSE)
      PROVE  NoEdge /\ LOPP' > 0 /\ script[Leader] = "turn" /\ timer[Leader] = 0
  <2>1. script[Leader] = "turn" /\ timer[Leader] = 0 /\ LOPP' = LOPP + 1
    BY <1>8 DEF NextTurn, Goes, Prompt
  <2>2. Ripe(Leader)
    BY <2>1 DEF CalmInv
  <2> QED BY <1>1, <2>1, <2>2, RipeIsCalm
<1>9. CASE OwnTurn
  <2>1. NoEdge /\ LOPP' > 0 /\ script[Leader] = "turn"
    BY <1>8, <1>9 DEF OwnTurn
  <2>2. \A x \in Board : script[x] # "frozen"
    BY <2>1 DEF IInv, TurnInv, Busy, Pausing, Board
  <2>3. Freezes(Leader) /\ script'[Leader] = "frozen" /\ UNCHANGED signal
    BY <1>1, <1>9, <2>2 DEF OwnTurn, Freezes
  <2> QED BY <2>1, <2>3, OnTheWire DEF Turnwise
<1>10. CASE EndOwnTurn
  <2>1. script[Leader] = "frozen" /\ timer[Leader] = 0
    BY <1>10 DEF EndOwnTurn, Goes, Prompt
  <2>2. NoEdge /\ LOPP' > 0
    <3>1. NoEdge
      BY <2>1, RipeIsCalm DEF CalmInv
    <3> QED BY <1>10, <2>1, <3>1 DEF EndOwnTurn, IInv, TurnInv
  <2>3. Thaws(Leader, "wait", 0) /\ UNCHANGED signal
    BY <1>10, <2>1 DEF EndOwnTurn, Thaws
  <2>4. \E pc \in {"thawed", "wait"}, ticks \in Nat : Thaws(Leader, pc, ticks)
    BY <2>3
  <2>5. CalmInv' /\ \E x \in Board : {pin, pin'} = {{}, {x}}
    BY <2>1, <2>2, <2>3, <2>4, OnTheWire
  <2> QED BY <2>2, <2>5 DEF Turnwise
<1>11. CASE GiveTurn
  <2>1. NoEdge /\ LOPP' > 0
    BY <1>8, <1>11 DEF GiveTurn
  <2>2. /\ UNCHANGED <<latch, age, pin, signal>>
        /\ \A b \in Board : b # Leader => script'[b] = script[b] /\ timer'[b] = timer[b]
        /\ script'[Leader] = "call"
    BY <1>1, <1>11 DEF GiveTurn, wire
  <2> QED BY <1>1, <2>1, <2>2, OffTheWire DEF Turnwise
<1>12. CASE Call
  <2>1. NoEdge /\ script[Leader] = "call"
    BY <1>12 DEF Call, Goes, CalmInv
  <2>2. /\ UNCHANGED <<latch, age, pin, LOPP>>
        /\ \A b \in Board : b # Leader => script'[b] = script[b] /\ timer'[b] = timer[b]
        /\ script'[Leader] = "wait"
    BY <1>1, <1>12 DEF Call, wire
  <2>3. \A b \in Board : script'[b] = "frozen" => script[b] = "frozen" /\ timer'[b] = timer[b]
    BY <2>2
  <2>4. LOPP' # 0 \/ LOPP = 0
    BY <2>2
  <2>5. CalmInv'
    BY <2>1, <2>2, <2>3, <2>4, OffTheWire
  <2> QED BY <2>2, <2>5 DEF Turnwise
<1>13. CASE response
  <2>1. /\ UNCHANGED <<latch, age, pin, LOPP, script, timer>>
        /\ \A b \in Follower : 12 \in signal'[b] => 12 \in signal[b]
    BY <1>1, <1>13 DEF response, Done, wire
  <2>2. /\ script'[Leader] = script[Leader] /\ timer'[Leader] = timer[Leader]
        /\ \A b \in Board : script'[b] = script[b] /\ timer'[b] = timer[b]
        /\ LOPP' # 0 \/ LOPP = 0
    BY <2>1
  <2>3. CalmInv'
    BY <2>1, <2>2, OffTheWire
  <2> QED BY <2>1, <2>3 DEF Turnwise
<1>14. CASE PauseOver
  <2>1. UNCHANGED <<latch, age, pin, LOPP, signal>>
    BY <1>14 DEF PauseOver, wire
  <2>2. To(Leader, "tell", Moment) \/ To(Leader, "turn", Second)
    BY <1>14 DEF PauseOver, For
  <2>3. Second >= Second /\ \A b \in Follower : 12 \in signal'[b] => 12 \in signal[b]
    BY <2>1
  <2>4. {"tell", "turn"} \subseteq LeaderStates
    BY DEF LeaderStates
  <2>5. CASE To(Leader, "tell", Moment)
    BY <1>3, <2>1, <2>3, <2>4, <2>5
  <2>6. CASE To(Leader, "turn", Second)
    BY <1>3, <2>1, <2>3, <2>4, <2>6
  <2> QED BY <2>2, <2>5, <2>6
<1>15. CASE collect_logs
  <2>1. UNCHANGED <<latch, age, pin, LOPP, signal>>
    BY <1>15 DEF collect_logs, wire
  <2>2. To(Leader, "kill", Moment) \/ To(Leader, "skew", 2 * Second)
    BY <1>15 DEF collect_logs, For
  <2> QED BY <1>3, <2>1, <2>2 DEF LeaderStates
<1>16. CASE FetchSkew \/ FetchOverhead
  <2>1. UNCHANGED <<latch, age, pin, LOPP, signal>>
    BY <1>16 DEF FetchSkew, FetchOverhead, wire
  <2>2. \E pc \in {"skew", "overhead", "done"}, ticks \in {0, Moment} :
          To(Leader, pc, ticks)
    BY <1>16 DEF FetchSkew, FetchOverhead, Each
  <2>3. PICK pc \in {"skew", "overhead", "done"}, ticks \in {0, Moment} :
          To(Leader, pc, ticks)
    BY <2>2
  <2>4. /\ pc \in LeaderStates /\ ticks \in Nat
        /\ pc \notin {"frozen", "call", "setup", "turn"}
    BY DEF LeaderStates
  <2>5. /\ LOPP' = LOPP /\ UNCHANGED <<latch, age, pin>>
        /\ \A b \in Follower : 12 \in signal'[b] => 12 \in signal[b]
    BY <2>1
  <2> QED BY <1>3, <2>3, <2>4, <2>5
<1> QED BY <1>4, <1>6, <1>7, <1>9, <1>10, <1>11, <1>12, <1>13, <1>14, <1>15, <1>16
        DEF leader_sh

LEMMA CalmStep ==
  ASSUME IInv, IInv', CalmInv, Latency < Second, [Next]_vars
  PROVE  CalmInv' /\ Turnwise
<1> USE Boards
<1>0. Latency \in Nat /\ Second \in Nat
  BY ExperimentAssumption
<1>1. CASE Tick
  <2>1. /\ \A b \in Board : latch[b] # {} => age[b] < Latency
        /\ \A b \in Board : timer'[b] = IF timer[b] = 0 THEN 0 ELSE timer[b] - 1
        /\ age' = [b \in Board |-> IF latch[b] = {} THEN 0 ELSE age[b] + 1]
        /\ UNCHANGED <<script, signal, LOPP, pin, latch>>
    BY <1>0, <1>1 DEF Tick, Overdue, CalmInv
  <2>2. /\ age' \in [Board -> Nat]
        /\ \A x \in Board : age'[x] <= Latency /\ (latch[x] = {} => age'[x] = 0)
    BY <1>0, <2>1 DEF CalmInv
  <2>3. ASSUME NEW b \in Board, Ripe(b) PROVE Ripe(b)'
    <3>1. timer[b] \in Int /\ \A x \in Board : age[x] \in Nat
      BY DEF CalmInv, IInv, TypeInv
    <3>2. ASSUME NEW x \in Board, latch'[x] # {} PROVE age'[x] + timer'[b] >= Second
      <4>1. age[x] + timer[b] >= Second /\ age'[x] = age[x] + 1
        BY <2>1, <2>3, <3>2 DEF Ripe
      <4>2. \/ timer'[b] = timer[b] - 1
            \/ timer[b] = 0 /\ timer'[b] = 0
        BY <2>1
      <4> QED BY <1>0, <3>1, <4>1, <4>2
    <3> QED BY <3>2 DEF Ripe
  <2>4. NoEdge' <=> NoEdge
    BY <2>1 DEF NoEdge
  <2> QED BY <2>1, <2>2, <2>3, <2>4 DEF CalmInv, Turnwise
<1>2. ASSUME NEW b \in Board, NEW edge \in {"rise", "fall"}, Serve(b, edge)
      PROVE  CalmInv' /\ Turnwise
  <2>1. /\ latch' = [latch EXCEPT ![b] = @ \ {edge}]
        /\ age' = [age EXCEPT ![b] = 0] /\ latch[b] # {}
        /\ UNCHANGED <<script, timer, signal, LOPP, pin>>
    BY <1>2 DEF Serve
  <2>2. latch[b] = {edge}
    BY <1>2 DEF Serve, CalmInv, Edges
  <2>3. /\ latch'[b] = {} /\ age'[b] = 0
        /\ \A x \in Board \ {b} : latch'[x] = latch[x] /\ age'[x] = age[x]
    BY <2>1, <2>2 DEF CalmInv
  <2>4. latch' \in [Board -> Edges] /\ age' \in [Board -> Nat]
    BY <2>1, <2>2 DEF CalmInv, Edges
  <2>5. \A x \in Board : Ripe(x) => Ripe(x)'
    BY <2>1, <2>3 DEF Ripe
  <2>6. NoEdge => NoEdge'
    BY <2>3 DEF NoEdge
  <2>7. \A x \in Board : age'[x] <= Latency /\ (latch'[x] = {} => age'[x] = 0)
    BY <1>0, <2>3 DEF CalmInv
  <2> QED BY <2>1, <2>4, <2>5, <2>6, <2>7 DEF CalmInv, Turnwise
<1>3. CASE leader_sh
  BY <1>3, LeaderCalm
<1>4. ASSUME NEW f \in Follower, local_sh(f) PROVE CalmInv' /\ Turnwise
  BY <1>4, FollowerCalm
<1>5. CASE UNCHANGED vars
  BY <1>5, OffTheWire DEF vars, wire, Turnwise
<1> QED BY <1>1, <1>2, <1>3, <1>4, <1>5 DEF Next, ServeInterrupt

LEMMA CalmInit == Init => CalmInv
<1> SUFFICES ASSUME Init PROVE CalmInv
  OBVIOUS
<1>1. NoEdge
  BY DEF Init, NoEdge
<1>2. latch \in [Board -> Edges] /\ age \in [Board -> Nat]
  BY DEF Init, Edges
<1>3. Latency \in Nat
  BY ExperimentAssumption
<1>4. \A b \in Board : script[b] = "setup" /\ age[b] = 0 /\ signal[b] = {}
  BY DEF Init
<1> QED BY <1>1, <1>2, <1>3, <1>4, Boards DEF Init, CalmInv

\* Whatever the boards and the durations, if an interrupt is served in less than a
\* second, the scripts keep to the turns that vtgpio relies on: the wire changes
\* between idle and one board that drives it, and never before every board has
\* served its last change (leader.sh:597-617, local.sh:29-38).
THEOREM TurnsAreKept ==
  ASSUME Latency < Second
  PROVE  Spec => KeepsTurns
<1>2. IInv /\ CalmInv /\ [Next]_vars => IInv' /\ CalmInv' /\ Turnwise
  BY StepInv, CalmStep
<1>3. Turnwise => [pin' # pin =>
                     /\ \A b \in Board : latch[b] = {}
                     /\ \E b \in Board : {pin, pin'} = {{}, {b}}]_vars
  BY DEF Turnwise, NoEdge
<1> QED BY <1>2, <1>3, InitInv, CalmInit, PTL DEF Spec, KeepsTurns

-----------------------------------------------------------------------------
(***************************************************************************)
(* Types.                                                                  *)
(***************************************************************************)
LEMMA ListType ==
  /\ Len(IPs) \in Nat /\ DOMAIN IPs = 1..Len(IPs)
  /\ \A k \in DOMAIN IPs : IPs[k] \in Follower
  /\ \A k \in Nat : k >= 1 /\ k < Len(IPs) => k + 1 \in 1..(Len(IPs) + 1)
  /\ 1 \in 1..(Len(IPs) + 1)
BY Boards

LEMMA GoOnType ==
  ASSUME TypeOK, NEW pc, NEW after, NEW ticks,
         Each(pc, after, ticks) \/ For(pc, after, ticks)
  PROVE  at' \in 1..(Len(IPs) + 1) /\ (To(Leader, pc, Moment) \/ To(Leader, after, ticks))
BY ListType DEF TypeOK, Each, For

LEMMA ToType ==
  ASSUME TypeOK, NEW b, NEW pc \in FollowerStates \union LeaderStates, NEW ticks \in Nat,
         To(b, pc, ticks)
  PROVE  /\ script' \in [Board -> FollowerStates \union LeaderStates]
         /\ timer' \in [Board -> Nat]
BY DEF TypeOK, To

LEMMA SignalType ==
  ASSUME TypeOK, NEW b, NEW n \in {6, 10, 12}, Send(b, n) \/ Done(b, n)
  PROVE  signal' \in [Board -> SUBSET {6, 10, 12}]
<1>1. signal \in [Board -> SUBSET {6, 10, 12}]
  BY DEF TypeOK
<1>2. CASE Send(b, n)
  BY <1>1, <1>2 DEF Send
<1>3. CASE Done(b, n)
  BY <1>1, <1>3 DEF Done
<1> QED BY <1>2, <1>3

LEMMA LineType == ASSUME TypeOK, NEW b \in Board, Line(b)
                  PROVE  log' \in [Board -> Seq(Nat)]
<1>1. log \in [Board -> Seq(Nat)] /\ credited[b] \in Nat
  BY DEF TypeOK
<1>2. Append(log[b], credited[b]) \in Seq(Nat)
  BY <1>1
<1> QED BY <1>1, <1>2 DEF Line

LEMMA DriveType == ASSUME TypeOK, NEW b \in Board, Drive(pin \union {b}) \/ Drive(pin \ {b})
                   PROVE  /\ pin' \subseteq Board
                          /\ latch' \in [Board -> SUBSET {"rise", "fall"}]
                          /\ UNCHANGED <<age, still, credited>>
<1>1. ASSUME NEW drivers \in SUBSET Board, Drive(drivers)
      PROVE  /\ pin' \subseteq Board
             /\ latch' \in [Board -> SUBSET {"rise", "fall"}]
             /\ UNCHANGED <<age, still, credited>>
  <2>1. \A x \in Board : latch[x] \union {"rise"} \in SUBSET {"rise", "fall"}
                        /\ latch[x] \union {"fall"} \in SUBSET {"rise", "fall"}
    BY DEF TypeOK
  <2> QED BY <1>1, <2>1 DEF Drive, TypeOK
<1>2. pin \union {b} \in SUBSET Board /\ pin \ {b} \in SUBSET Board
  BY DEF TypeOK
<1> QED BY <1>1, <1>2

LEMMA FollowerType == ASSUME TypeOK, NEW f \in Follower, local_sh(f)
                      PROVE  TypeOK'
<1> USE Boards
<1>1. CASE setup(f) \/ SleepOn(f) \/ Answer(f)
  <2>1. UNCHANGED <<signal, should_wait, LOPP, at, wire, logs>>
    BY <1>1 DEF setup, SleepOn, Answer
  <2>2. \E pc \in {"loop", "reply"}, ticks \in Nat : To(f, pc, ticks)
    BY <1>1 DEF setup, SleepOn, Answer
  <2>3. {"loop", "reply"} \subseteq FollowerStates
    BY DEF FollowerStates, Pausing
  <2> QED BY <2>1, <2>2, <2>3, ToType DEF TypeOK, wire, logs
<1>2. CASE getFPT(f)
  BY <1>2, LineType, SignalType DEF getFPT, TypeOK, wire
<1>3. CASE make_pause(f)
  <2>1. "lead" \in FollowerStates /\ 2 * Second \in Nat
    BY DEF FollowerStates, Pausing
  <2> QED BY <1>3, <2>1, ToType, SignalType DEF make_pause, TypeOK, wire, logs
<1>4. CASE Freeze(f)
  <2>1. "frozen" \in FollowerStates
    BY DEF FollowerStates, Pausing
  <2> QED BY <1>4, <2>1, ToType, DriveType DEF Freeze, TypeOK, logs
<1>5. CASE Unfreeze(f)
  <2>1. "thawed" \in FollowerStates
    BY DEF FollowerStates, Pausing
  <2> QED BY <1>5, <2>1, ToType, DriveType DEF Unfreeze, TypeOK, logs
<1>6. CASE Answered(f)
  <2>1. "loop" \in FollowerStates
    BY DEF FollowerStates
  <2> QED BY <1>6, <2>1, ToType, SignalType DEF Answered, TypeOK, wire, logs
<1>7. CASE cleanup(f)
  <2>1. "exited" \in FollowerStates
    BY DEF FollowerStates
  <2> QED BY <1>7, <2>1, ToType, SignalType DEF cleanup, TypeOK, wire
<1> QED BY <1>1, <1>2, <1>3, <1>4, <1>5, <1>6, <1>7 DEF local_sh

LEMMA LeaderType == ASSUME TypeOK, leader_sh
                    PROVE  TypeOK'
<1> USE Boards
<1>1. LeaderStates \subseteq FollowerStates \union LeaderStates /\ After \in Nat
  BY DEF After
<1>2. CASE begin
  <2>1. at' \in 1..(Len(IPs) + 1) /\ (To(Leader, "tell", Moment) \/ To(Leader, "turn", 0))
    BY <1>2, GoOnType DEF begin
  <2>2. {"tell", "turn"} \subseteq LeaderStates
    BY DEF LeaderStates
  <2> QED BY <1>1, <1>2, <2>1, <2>2, ToType, LineType DEF begin, TypeOK, wire
<1>3. CASE Tell
  <2>1. at' \in 1..(Len(IPs) + 1) /\ (To(Leader, "tell", Moment) \/ To(Leader, "turn", After))
    BY <1>3, GoOnType DEF Tell
  <2>2. {"tell", "turn"} \subseteq LeaderStates
    BY DEF LeaderStates
  <2> QED BY <1>1, <1>3, <2>1, <2>2, ToType, SignalType DEF Tell, TypeOK, wire, logs
<1>4. CASE OwnTurn \/ EndOwnTurn
  <2>1. /\ LOPP' \in 0..Turns
        /\ Drive(pin \union {Leader}) \/ Drive(pin \ {Leader})
        /\ To(Leader, "frozen", Second) \/ To(Leader, "wait", 0)
        /\ UNCHANGED <<signal, should_wait, at, logs>>
    BY <1>4 DEF OwnTurn, EndOwnTurn, NextTurn, TypeOK
  <2>2. {"frozen", "wait"} \subseteq LeaderStates
    BY DEF LeaderStates
  <2> QED BY <1>1, <2>1, <2>2, ToType, DriveType DEF TypeOK, logs
<1>5. CASE GiveTurn
  <2>1. LOPP' \in 0..Turns
    BY <1>5 DEF GiveTurn, NextTurn, TypeOK
  <2>2. "call" \in LeaderStates
    BY DEF LeaderStates
  <2> QED BY <1>1, <1>5, <2>1, <2>2, ToType DEF GiveTurn, TypeOK, wire, logs
<1>6. CASE Call
  <2>1. "wait" \in LeaderStates
    BY DEF LeaderStates
  <2> QED BY <1>1, <1>6, <2>1, ToType, SignalType DEF Call, TypeOK, wire, logs
<1>7. CASE response
  BY <1>7, SignalType DEF response, TypeOK, wire, logs
<1>8. CASE PauseOver
  <2>1. at' \in 1..(Len(IPs) + 1) /\ (To(Leader, "tell", Moment) \/ To(Leader, "turn", Second))
    BY <1>8, GoOnType DEF PauseOver
  <2>2. {"tell", "turn"} \subseteq LeaderStates
    BY DEF LeaderStates
  <2> QED BY <1>1, <1>8, <2>1, <2>2, ToType, LineType DEF PauseOver, TypeOK, wire
<1>9. CASE collect_logs \/ Kill
  <2>1. /\ at' \in 1..(Len(IPs) + 1)
        /\ To(Leader, "kill", Moment) \/ To(Leader, "skew", 2 * Second)
    BY <1>9, GoOnType DEF collect_logs, Kill
  <2>2. {"kill", "skew"} \subseteq LeaderStates /\ 2 * Second \in Nat
    BY DEF LeaderStates
  <2>3. signal' \in [Board -> SUBSET {6, 10, 12}]
    BY <1>9, SignalType DEF collect_logs, Kill, TypeOK
  <2>4. UNCHANGED <<should_wait, LOPP, wire, logs>>
    BY <1>9 DEF collect_logs, Kill
  <2> QED BY <1>1, <2>1, <2>2, <2>3, <2>4, ToType DEF TypeOK, wire, logs
<1>10. CASE FetchSkew \/ FetchOverhead
  <2>1. /\ at' \in 1..(Len(IPs) + 1)
        /\ \/ To(Leader, "skew", Moment) \/ To(Leader, "overhead", 0)
           \/ To(Leader, "overhead", Moment) \/ To(Leader, "done", 0)
    BY <1>10, GoOnType DEF FetchSkew, FetchOverhead
  <2>2. {"skew", "overhead", "done"} \subseteq LeaderStates
    BY DEF LeaderStates
  <2>3. skew' \in [Follower -> Seq(Nat)]
    <3>1. \A f \in Follower : log[f] \in Seq(Nat)
      BY DEF TypeOK
    <3>2. skew' = skew \/ skew' = [skew EXCEPT ![IPs[at]] = log[IPs[at]]]
      BY <1>10 DEF FetchSkew, FetchOverhead
    <3> QED BY <3>1, <3>2 DEF TypeOK
  <2>4. overhead' \subseteq Follower
    BY <1>10 DEF FetchSkew, FetchOverhead, TypeOK
  <2>5. UNCHANGED <<signal, should_wait, LOPP, wire, log, saved>>
    BY <1>10 DEF FetchSkew, FetchOverhead
  <2> QED BY <1>1, <2>1, <2>2, <2>3, <2>4, <2>5, ToType DEF TypeOK, wire
<1> QED BY <1>2, <1>3, <1>4, <1>5, <1>6, <1>7, <1>8, <1>9, <1>10 DEF leader_sh

LEMMA TypeStep == TypeOK /\ [Next]_vars => TypeOK'
<1> SUFFICES ASSUME TypeOK, [Next]_vars PROVE TypeOK'
  OBVIOUS
<1>1. CASE Tick
  BY <1>1 DEF Tick, TypeOK, logs
<1>2. ASSUME NEW b \in Board, NEW edge \in {"rise", "fall"}, Serve(b, edge)
      PROVE  TypeOK'
  BY <1>2 DEF Serve, TypeOK, logs
<1>3. CASE UNCHANGED vars
  BY <1>3 DEF vars, wire, logs, TypeOK
<1> QED BY <1>1, <1>2, <1>3, LeaderType, FollowerType DEF Next, ServeInterrupt

LEMMA TypeInit == Init => TypeOK
<1> SUFFICES ASSUME Init PROVE TypeOK
  OBVIOUS
<1>1. "setup" \in FollowerStates /\ <<>> \in Seq(Nat)
  BY DEF FollowerStates
<1> QED BY <1>1, ListType, Boards DEF Init, TypeOK

\* Every variable of the scripts keeps its type: a timer never runs below zero, the
\* leader never speaks to a board behind its list, and a log only ever counts freezes.
THEOREM ScriptsTypeCorrect == Spec => []TypeOK
BY TypeInit, TypeStep, PTL DEF Spec

-----------------------------------------------------------------------------
(***************************************************************************)
(* The lines of the logs.  A follower looks for signals when its sleep of  *)
(* a second ends, not when it is told to write; nothing confirms that it   *)
(* has.  What is left to write is told by the signals and the timers.      *)
(***************************************************************************)
\* A board is asked to pause, or does so and has not ended it yet.
AskedOf(f) == 12 \in signal[f] \/ script[f] \in {"lead", "frozen"}
Asked == \E f \in Follower : AskedOf(f)

\* The freezes that have ended, and the rounds of lines that have begun.
Ended  == IF script[Leader] \in {"call", "frozen"} \/ Asked THEN LOPP - 1 ELSE LOPP
Rounds == IF script[Leader] = "setup" THEN 0
          ELSE IF script[Leader] \in {"call", "frozen", "wait"} THEN LOPP ELSE LOPP + 1

Told(k) == script[Leader] = "tell" => k < at
Closing == {"kill", "skew", "overhead", "done"}

\* Each board counts a freeze when it serves the edge that ends it.
CreditInv ==
  \A b \in Board : credited[b] = IF "fall" \in latch[b] THEN Ended - 1 ELSE Ended

\* Each round adds a line to the log of the leader, and one to that of a follower it
\* has told, now or when the follower runs its trap.
LinesInv ==
  /\ Len(log[Leader]) = Rounds
  /\ \A k \in DOMAIN IPs :
       /\ 10 \in signal[IPs[k]] => Told(k)
       /\ Len(log[IPs[k]]) =
            IF 10 \in signal[IPs[k]] \/ ~Told(k) THEN Rounds - 1 ELSE Rounds

\* A follower is in its loop when it is told to write; it looks within a second.
LoopInv ==
  /\ \A f \in Follower :
       /\ script[f] = "loop" => timer[f] <= Second
       /\ 10 \in signal[f] \/ 6 \in signal[f] => script[f] = "loop"
       /\ script[f] = "setup" => script[Leader] = "setup"
       /\ script[f] = "exited" => script[Leader] \in Closing
  /\ script[Leader] \in Closing => LOPP = Turns
  /\ script[Leader] \in {"skew", "overhead"} => IPs = <<>> \/ at \in DOMAIN IPs

\* A line that is not written yet is written before the next freeze ends, and before
\* the board is told to stop.
TimeInv ==
  \A f \in Follower : 10 \in signal[f] =>
    /\ script[Leader] \notin {"setup", "skew", "overhead", "done"}
    /\ script[Leader] = "turn" /\ LOPP > 0 => timer[f] <= timer[Leader]
    /\ script[Leader] \in {"frozen", "kill"} => timer[f] < timer[Leader]
    /\ script[Leader] = "wait" => Asked
    /\ \A g \in Follower : /\ script[g] # "frozen"
                           /\ script[g] = "lead" => timer[f] < timer[g]

\* How far the k-th board is stopped, and its logs collected.
Collected(k) ==
  LET f == IPs[k] IN
  /\ script[Leader] \in Closing /\ (script[Leader] = "kill" => k < at)
       => 6 \in signal[f] \/ f \in saved
  /\ 6 \in signal[f] =>
       /\ script[Leader] \in {"kill", "skew"} /\ 10 \notin signal[f]
       /\ script[Leader] = "skew" => timer[f] < timer[Leader]
  /\ script[Leader] = "kill" /\ k >= at => 6 \notin signal[f] /\ script[f] # "exited"
  /\ script[Leader] \in {"skew", "overhead", "done"} /\ (script[Leader] = "skew" => k < at)
       => Len(skew[f]) = Turns + 1
  /\ script[Leader] \in {"overhead", "done"} /\ (script[Leader] = "overhead" => k < at)
       => f \in overhead
CollectInv == \A k \in DOMAIN IPs : Collected(k)

EvenInv == CreditInv /\ LinesInv /\ LoopInv /\ TimeInv /\ CollectInv /\ LogsAligned
SafeInv == TypeOK /\ IInv /\ CalmInv /\ EvenInv

\* An interrupt is served in less than a second, and an ssh takes some time.
Punctual == Latency < Second /\ Moment > 0
\* Where there are other boards the first turn is one of theirs: the first lines are
\* asked for without a sleep after them, and a freeze by the leader could end before.
FirstIsAnother == IPs # <<>> => Turns > 0 /\ pause_order[1] # Leader

-----------------------------------------------------------------------------
LEMMA Types ==
  ASSUME SafeInv
  PROVE  /\ script \in [Board -> FollowerStates \union LeaderStates]
         /\ timer \in [Board -> Nat] /\ signal \in [Board -> SUBSET {6, 10, 12}]
         /\ credited \in [Board -> Nat] /\ log \in [Board -> Seq(Nat)]
         /\ latch \in [Board -> SUBSET {"rise", "fall"}]
         /\ skew \in [Follower -> Seq(Nat)]
         /\ LOPP \in 0..Turns /\ at \in 1..(Len(IPs) + 1) /\ should_wait \in {0, 1}
BY DEF SafeInv, TypeOK

LEMMA Numbers ==
  /\ Second \in Nat /\ Moment \in Nat /\ Latency \in Nat /\ Turns \in Nat
  /\ Len(IPs) \in Nat /\ DOMAIN IPs = 1..Len(IPs)
  /\ \A j, k \in DOMAIN IPs : IPs[j] = IPs[k] => j = k
  /\ \A k \in DOMAIN IPs : IPs[k] \in Follower /\ IPs[k] \in Board /\ IPs[k] # Leader
  /\ \A f \in Follower : f \in Board /\ f # Leader /\ \E k \in DOMAIN IPs : f = IPs[k]
  /\ Leader \in Board /\ \A b \in Board : b = Leader \/ b \in Follower
BY Boards, ExperimentAssumption DEF Board, Follower

\* Only one board is asked for a pause, in its turn, while the leader waits.
LEMMA OneAsked ==
  ASSUME IInv, NEW f \in Follower, AskedOf(f)
  PROVE  /\ script[Leader] = "wait" /\ LOPP > 0 /\ should_wait = 1
         /\ \A g \in Follower : AskedOf(g) => g = f
<1>1. \A g \in Follower : AskedOf(g) => Busy(g)
  BY DEF AskedOf, Busy, Pausing
<1> QED BY <1>1 DEF IInv, TurnInv

LEMMA EndedSame ==
  ASSUME \A g \in Follower : AskedOf(g)' <=> AskedOf(g), LOPP' = LOPP,
         script'[Leader] \in {"call", "frozen"} <=> script[Leader] \in {"call", "frozen"}
  PROVE  Ended' = Ended /\ (Asked' <=> Asked)
BY DEF Ended, Asked

\* What a step of a follower leaves as it is.
LEMMA FollowerKeeps ==
  ASSUME TypeOK, NEW f \in Follower, local_sh(f)
  PROVE  /\ \A b \in Board \ {f} : script'[b] = script[b] /\ timer'[b] = timer[b]
                                   /\ log'[b] = log[b]
         /\ \A g \in Follower \ {f} : signal'[g] = signal[g]
         /\ UNCHANGED <<should_wait, LOPP, at, skew, overhead>>
         /\ saved \subseteq saved'
         /\ 12 \in signal'[f] => 12 \in signal[f]
         /\ 10 \in signal'[f] => 10 \in signal[f]
         /\ 6 \in signal'[f] => 6 \in signal[f]
         /\ ~getFPT(f) => log' = log /\ (~cleanup(f) => signal'[f] \ {12} = signal[f] \ {12})
<1> USE Boards DEF To, Line, Send, Done
<1>1. /\ script \in [Board -> FollowerStates \union LeaderStates]
      /\ timer \in [Board -> Nat] /\ signal \in [Board -> SUBSET {6, 10, 12}]
      /\ log \in [Board -> Seq(Nat)] /\ f \in Board /\ f # Leader
  BY DEF TypeOK
<1>2. CASE setup(f) \/ SleepOn(f) \/ Answer(f) \/ Answered(f)
  BY <1>1, <1>2 DEF setup, SleepOn, Answer, Answered, logs
<1>3. CASE getFPT(f)
  BY <1>1, <1>3 DEF getFPT
<1>4. CASE make_pause(f)
  BY <1>1, <1>4 DEF make_pause, logs
<1>5. CASE Freeze(f) \/ Unfreeze(f)
  BY <1>1, <1>5 DEF Freeze, Unfreeze, logs
<1>6. CASE cleanup(f)
  BY <1>1, <1>6 DEF cleanup
<1> QED BY <1>2, <1>3, <1>4, <1>5, <1>6 DEF local_sh

\* What it does to its own script.
LEMMA FollowerDoes ==
  ASSUME SafeInv, NEW f \in Follower, local_sh(f)
  PROVE  /\ getFPT(f) => /\ 10 \in signal[f] /\ 10 \notin signal'[f] /\ 6 \notin signal[f]
                         /\ 12 \in signal'[f] <=> 12 \in signal[f]
                         /\ script' = script /\ timer' = timer /\ latch[f] = {}
                         /\ log'[f] = Append(log[f], credited[f])
         /\ ~getFPT(f) => \/ script[f] = "setup" /\ script'[f] = "loop" /\ timer'[f] = Second
                             /\ signal' = signal
                          \/ /\ script[f] = "loop" /\ script'[f] = "loop" /\ signal[f] = {}
                             /\ timer'[f] = Second /\ signal' = signal
                          \/ make_pause(f) \/ Freeze(f) \/ Unfreeze(f)
                          \/ script[f] = "thawed" /\ script'[f] = "reply" /\ signal' = signal
                          \/ /\ script[f] = "reply" /\ script'[f] = "loop"
                             /\ timer'[f] = Second /\ signal'[f] = signal[f]
                          \/ cleanup(f)
         /\ make_pause(f) => /\ script[f] = "loop" /\ script'[f] = "lead" /\ 12 \in signal[f]
                             /\ 12 \notin signal'[f] /\ timer'[f] = 2 * Second
                             /\ 10 \notin signal[f] /\ 6 \notin signal[f]
         /\ Freeze(f) => /\ script[f] = "lead" /\ script'[f] = "frozen" /\ timer[f] = 0
                         /\ signal' = signal
         /\ Unfreeze(f) => /\ script[f] = "frozen" /\ script'[f] = "thawed" /\ timer[f] = 0
                           /\ signal' = signal
         /\ cleanup(f) => /\ 6 \in signal[f] /\ signal'[f] = signal[f] \ {6}
                          /\ script'[f] = "exited" /\ f \in saved'
<1> USE Boards DEF To, Line, Done
<1>1. /\ script \in [Board -> FollowerStates \union LeaderStates]
      /\ timer \in [Board -> Nat] /\ signal \in [Board -> SUBSET {6, 10, 12}]
      /\ log \in [Board -> Seq(Nat)] /\ f \in Board /\ f # Leader
  BY Types
<1>2. ASSUME getFPT(f)
      PROVE  /\ 10 \in signal[f] /\ 10 \notin signal'[f] /\ 6 \notin signal[f]
             /\ 12 \in signal'[f] <=> 12 \in signal[f]
             /\ script' = script /\ timer' = timer /\ latch[f] = {}
             /\ log'[f] = Append(log[f], credited[f])
  <2>1. 10 \in Trapped(f) /\ 6 \notin Trapped(f) /\ latch[f] = {}
    BY <1>2 DEF getFPT, Trap, Prompt
  <2>2. 10 \in signal[f] /\ 6 \notin signal[f]
    BY <2>1 DEF Trapped
  <2> QED BY <1>1, <1>2, <2>1, <2>2 DEF getFPT
<1>3. ASSUME make_pause(f)
      PROVE  /\ script[f] = "loop" /\ script'[f] = "lead" /\ 12 \in signal[f]
             /\ 12 \notin signal'[f] /\ timer'[f] = 2 * Second
             /\ 10 \notin signal[f] /\ 6 \notin signal[f]
  <2>1. 12 \in Trapped(f) /\ 10 \notin Trapped(f) /\ 6 \notin Trapped(f) /\ script[f] = "loop"
    BY <1>3 DEF make_pause, Trap
  <2>2. Trapped(f) = signal[f]
    BY <2>1 DEF Trapped, Pausing
  <2> QED BY <1>1, <1>3, <2>1, <2>2 DEF make_pause
<1>4. ASSUME cleanup(f)
      PROVE  /\ 6 \in signal[f] /\ signal'[f] = signal[f] \ {6}
             /\ script'[f] = "exited" /\ f \in saved'
  BY <1>1, <1>4 DEF cleanup, Trap, Trapped
<1>5. ASSUME Freeze(f)
      PROVE  /\ script[f] = "lead" /\ script'[f] = "frozen" /\ timer[f] = 0
             /\ signal' = signal
  BY <1>1, <1>5 DEF Freeze, Goes, Prompt
<1>6. ASSUME Unfreeze(f)
      PROVE  /\ script[f] = "frozen" /\ script'[f] = "thawed" /\ timer[f] = 0
             /\ signal' = signal
  BY <1>1, <1>6 DEF Unfreeze, Goes, Prompt
<1>7. CASE setup(f) \/ Answer(f)
  BY <1>1, <1>2, <1>3, <1>4, <1>5, <1>6, <1>7 DEF setup, Answer, Goes
<1>8. CASE SleepOn(f)
  <2>1. signal[f] = {}
    BY <1>8 DEF SleepOn, Goes, Trapped, Pausing
  <2> QED BY <1>1, <1>2, <1>3, <1>4, <1>5, <1>6, <1>8, <2>1 DEF SleepOn, Goes
<1>9. CASE Answered(f)
  <2>1. signal'[f] = signal[f]
    BY <1>1, <1>9 DEF Answered, Send
  <2> QED BY <1>1, <1>2, <1>3, <1>4, <1>5, <1>6, <1>9, <2>1 DEF Answered, Goes
<1> QED BY <1>2, <1>3, <1>4, <1>5, <1>6, <1>7, <1>8, <1>9 DEF local_sh

LEMMA FollowerAsked ==
  ASSUME SafeInv, NEW f \in Follower, local_sh(f)
  PROVE  /\ ~Unfreeze(f) => /\ Ended' = Ended /\ (Asked' <=> Asked)
                            /\ \A g \in Follower : AskedOf(g)' <=> AskedOf(g)
         /\ Unfreeze(f) => /\ Asked /\ ~Asked' /\ Ended' = Ended + 1
                           /\ script[Leader] = "wait" /\ script'[Leader] = "wait"
<1> USE Numbers
<1>1. /\ script'[Leader] = script[Leader] /\ LOPP' = LOPP /\ LOPP \in 0..Turns
      /\ \A g \in Follower \ {f} : AskedOf(g)' <=> AskedOf(g)
  <2>1. /\ script'[Leader] = script[Leader] /\ LOPP' = LOPP
        /\ \A g \in Follower \ {f} : script'[g] = script[g] /\ signal'[g] = signal[g]
    BY FollowerKeeps DEF SafeInv
  <2> QED BY <2>1, Types DEF AskedOf
<1>2. ASSUME ~Unfreeze(f) PROVE AskedOf(f)' <=> AskedOf(f)
  <2>1. 6 \in signal[f] => script[f] = "loop"
    BY DEF SafeInv, EvenInv, LoopInv
  <2> QED BY <1>2, <2>1, FollowerDoes DEF AskedOf
<1>3. CASE ~Unfreeze(f)
  BY <1>1, <1>2, <1>3, EndedSame
<1>4. CASE Unfreeze(f)
  <2>1. AskedOf(f) /\ script[f] \in Pausing
    BY <1>4, FollowerDoes DEF AskedOf, Pausing
  <2>2. 12 \notin signal[f]
    BY <2>1 DEF SafeInv, IInv, TurnInv
  <2>3. ~AskedOf(f)'
    BY <1>4, <2>2, FollowerDoes DEF AskedOf
  <2>4. script[Leader] = "wait" /\ \A g \in Follower : AskedOf(g) => g = f
    BY <2>1, OneAsked DEF SafeInv
  <2> QED BY <1>1, <1>4, <2>1, <2>3, <2>4 DEF Asked, Ended
<1> QED BY <1>3, <1>4

LEMMA FollowerCredit ==
  ASSUME SafeInv, Punctual, NEW f \in Follower, local_sh(f)
  PROVE  CreditInv'
<1> USE Numbers
<1>1. CASE Unfreeze(f)
  <2>1. script[f] = "frozen" /\ timer[f] = 0
    BY <1>1, FollowerDoes
  <2>2. pin = {f}
    BY <2>1, OneFrozen DEF SafeInv, CalmInv
  <2>3. NoEdge
    BY <2>1, RipeIsCalm DEF SafeInv, CalmInv, Punctual
  <2>4. \A b \in Board : "fall" \in latch'[b] /\ "fall" \notin latch[b] /\ credited'[b] = credited[b]
    BY <1>1, <2>2, <2>3 DEF Unfreeze, Drive, NoEdge
  <2>5. Ended' = Ended + 1 /\ Ended \in Int
    BY <1>1, FollowerAsked, Types DEF Ended
  <2>6. \A b \in Board : credited[b] = Ended
    BY <2>4 DEF SafeInv, EvenInv, CreditInv
  <2> QED BY <2>4, <2>5, <2>6 DEF CreditInv
<1>2. CASE ~Unfreeze(f)
  <2>1. \A b \in Board : ("fall" \in latch'[b] <=> "fall" \in latch[b]) /\ credited'[b] = credited[b]
    <3>1. CASE Freeze(f)
      BY <3>1 DEF Freeze, Drive
    <3>2. CASE UNCHANGED <<latch, credited>>
      BY <3>2
    <3> QED BY <1>2, <3>1, <3>2 DEF local_sh, setup, SleepOn, getFPT, make_pause, Answer,
               Answered, cleanup, wire
  <2> QED BY <1>2, <2>1, FollowerAsked DEF SafeInv, EvenInv, CreditInv
<1> QED BY <1>1, <1>2

\* A follower writes the line that the round asks for.
LEMMA FollowerLines ==
  ASSUME SafeInv, NEW f \in Follower, local_sh(f)
  PROVE  LinesInv' /\ LogsAligned'
<1> USE Numbers
<1>1. /\ script'[Leader] = script[Leader] /\ log'[Leader] = log[Leader]
      /\ LOPP' = LOPP /\ at' = at
      /\ \A g \in Follower \ {f} : log'[g] = log[g] /\ signal'[g] = signal[g]
  BY FollowerKeeps DEF SafeInv
<1>2. Rounds' = Rounds /\ \A k \in DOMAIN IPs : Told(k)' <=> Told(k)
  BY <1>1 DEF Rounds, Told
<1>3. CASE getFPT(f)
  <2>1. /\ 10 \in signal[f] /\ 10 \notin signal'[f] /\ latch[f] = {}
        /\ log'[f] = Append(log[f], credited[f])
    BY <1>3, FollowerDoes
  <2>2. log[f] \in Seq(Nat) /\ credited[f] \in Nat
    BY Types
  <2>3. /\ Len(log'[f]) = Len(log[f]) + 1
        /\ DOMAIN log'[f] = 1..(Len(log[f]) + 1) /\ DOMAIN log[f] = 1..Len(log[f])
        /\ log'[f][Len(log[f]) + 1] = credited[f]
        /\ \A i \in DOMAIN log[f] : log'[f][i] = log[f][i]
    BY <2>1, <2>2
  <2>4. LinesInv'
    <3>1. Len(log'[Leader]) = Rounds'
      BY <1>1, <1>2 DEF SafeInv, EvenInv, LinesInv
    <3>2. ASSUME NEW k \in DOMAIN IPs
          PROVE  /\ 10 \in signal'[IPs[k]] => Told(k)'
                 /\ Len(log'[IPs[k]]) =
                      IF 10 \in signal'[IPs[k]] \/ ~Told(k)' THEN Rounds' - 1 ELSE Rounds'
      <4>1. /\ 10 \in signal[IPs[k]] => Told(k)
            /\ Len(log[IPs[k]]) =
                 IF 10 \in signal[IPs[k]] \/ ~Told(k) THEN Rounds - 1 ELSE Rounds
        BY DEF SafeInv, EvenInv, LinesInv
      <4>2. CASE IPs[k] # f
        BY <1>1, <1>2, <4>1, <4>2
      <4>3. CASE IPs[k] = f
        <5>1. Len(log[f]) \in Nat /\ Rounds \in Int
          BY <2>2, Types DEF Rounds
        <5>2. Len(log[f]) = Rounds - 1 /\ Told(k)
          BY <2>1, <4>1, <4>3
        <5> QED BY <1>2, <2>1, <2>3, <4>3, <5>1, <5>2
      <4> QED BY <4>2, <4>3
    <3> QED BY <3>1, <3>2 DEF LinesInv
  <2>5. credited[f] = Len(log[f])
    <3>1. PICK k \in DOMAIN IPs : f = IPs[k]
      BY Numbers
    <3>2. Len(log[f]) + 1 = Rounds
      <4>1. /\ 10 \in signal[IPs[k]] => Told(k)
            /\ Len(log[IPs[k]]) =
                 IF 10 \in signal[IPs[k]] \/ ~Told(k) THEN Rounds - 1 ELSE Rounds
        BY DEF SafeInv, EvenInv, LinesInv
      <4>2. Len(log[f]) = Rounds - 1 /\ Rounds \in Int
        BY <2>1, <3>1, <4>1, Types DEF Rounds
      <4> QED BY <4>2
    <3>3. Ended = Rounds - 1
      <4>1. /\ script[Leader] \notin {"setup", "skew", "overhead", "done"}
            /\ script[Leader] = "wait" => Asked
        BY <2>1 DEF SafeInv, EvenInv, TimeInv
      <4>2. Asked => script[Leader] = "wait"
        BY OneAsked DEF SafeInv, Asked
      <4> QED BY <4>1, <4>2, Types DEF Rounds, Ended
    <3>4. credited[f] = Ended
      BY <2>1 DEF SafeInv, EvenInv, CreditInv
    <3> QED BY <2>2, <3>2, <3>3, <3>4
  <2>6. LogsAligned'
    <3>1. \A b \in Board \ {f} : log'[b] = log[b]
      BY <1>1
    <3>2. \A i \in DOMAIN log'[f] : log'[f][i] = i - 1
      <4> SUFFICES ASSUME NEW i \in DOMAIN log'[f] PROVE log'[f][i] = i - 1
        OBVIOUS
      <4>1. CASE i \in DOMAIN log[f]
        BY <2>3, <4>1 DEF SafeInv, EvenInv, LogsAligned
      <4>2. CASE i = Len(log[f]) + 1
        BY <2>2, <2>3, <2>5, <4>2
      <4> QED BY <2>2, <2>3, <4>1, <4>2
    <3> QED BY <3>1, <3>2 DEF SafeInv, EvenInv, LogsAligned
  <2> QED BY <2>4, <2>6
<1>4. CASE ~getFPT(f)
  <2>1. log' = log /\ (10 \in signal'[f] <=> 10 \in signal[f])
    BY <1>4, FollowerKeeps, FollowerDoes DEF SafeInv
  <2> QED BY <1>1, <1>2, <2>1 DEF SafeInv, EvenInv, LinesInv, LogsAligned
<1> QED BY <1>3, <1>4

LEMMA FollowerLoop ==
  ASSUME SafeInv, IInv', NEW f \in Follower, local_sh(f)
  PROVE  LoopInv'
<1> USE Numbers
<1>1. /\ script'[Leader] = script[Leader] /\ UNCHANGED <<LOPP, at>>
      /\ \A g \in Follower \ {f} : script'[g] = script[g] /\ timer'[g] = timer[g]
                                   /\ signal'[g] = signal[g]
      /\ 10 \in signal'[f] => 10 \in signal[f]
      /\ 6 \in signal'[f] => 6 \in signal[f]
  BY FollowerKeeps DEF SafeInv
<1>2. 10 \notin signal[f] \/ 6 \notin signal[f]
  BY DEF SafeInv, EvenInv, CollectInv, Collected
<1>3. /\ script'[f] = "loop" => timer'[f] <= Second
      /\ 10 \in signal'[f] \/ 6 \in signal'[f] => script'[f] = "loop"
      /\ script'[f] = "setup" => script[Leader] = "setup"
      /\ script'[f] = "exited" => script[Leader] \in Closing
  <2>1. /\ script[f] = "loop" => timer[f] <= Second
        /\ 10 \in signal[f] \/ 6 \in signal[f] => script[f] = "loop"
        /\ script[f] = "setup" => script[Leader] = "setup"
        /\ script[f] = "exited" => script[Leader] \in Closing
    BY DEF SafeInv, EvenInv, LoopInv
  <2>2. 6 \in signal[f] => script[Leader] \in Closing
    BY DEF SafeInv, EvenInv, CollectInv, Collected, Closing
  <2> QED BY <1>1, <1>2, <2>1, <2>2, FollowerDoes
<1> QED BY <1>1, <1>3 DEF SafeInv, EvenInv, LoopInv

LEMMA FollowerTime ==
  ASSUME SafeInv, NEW f \in Follower, local_sh(f), Second > 0
  PROVE  TimeInv'
<1> USE Numbers
<1> SUFFICES ASSUME NEW x \in Follower, 10 \in signal'[x]
             PROVE  /\ script'[Leader] \notin {"setup", "skew", "overhead", "done"}
                    /\ script'[Leader] = "turn" /\ LOPP' > 0 => timer'[x] <= timer'[Leader]
                    /\ script'[Leader] \in {"frozen", "kill"} => timer'[x] < timer'[Leader]
                    /\ script'[Leader] = "wait" => Asked'
                    /\ \A g \in Follower : /\ script'[g] # "frozen"
                                           /\ script'[g] = "lead" => timer'[x] < timer'[g]
  BY DEF TimeInv
<1>1. /\ script'[Leader] = script[Leader] /\ timer'[Leader] = timer[Leader] /\ LOPP' = LOPP
      /\ \A g \in Follower \ {f} : script'[g] = script[g] /\ timer'[g] = timer[g]
                                   /\ signal'[g] = signal[g]
      /\ 10 \in signal'[f] => 10 \in signal[f]
  BY FollowerKeeps DEF SafeInv
<1>2. /\ 10 \in signal[x] /\ script[x] = "loop" /\ timer[x] <= Second /\ 6 \notin signal[x]
  BY <1>1 DEF SafeInv, EvenInv, LoopInv, CollectInv, Collected
<1>3. timer'[x] = timer[x]
  BY <1>1, <1>2, FollowerDoes
<1>4. /\ script[Leader] \notin {"setup", "skew", "overhead", "done"}
      /\ script[Leader] = "turn" /\ LOPP > 0 => timer[x] <= timer[Leader]
      /\ script[Leader] \in {"frozen", "kill"} => timer[x] < timer[Leader]
      /\ script[Leader] = "wait" => Asked
      /\ \A g \in Follower : /\ script[g] # "frozen"
                             /\ script[g] = "lead" => timer[x] < timer[g]
  BY <1>2 DEF SafeInv, EvenInv, TimeInv
<1>5. timer[x] \in Nat
  BY Types
<1>6. ~Unfreeze(f) /\ ~Freeze(f)
  BY <1>4, <1>5, FollowerDoes
<1>7. Asked' <=> Asked
  BY <1>6, FollowerAsked
<1>8. /\ script'[f] # "frozen"
      /\ script'[f] = "lead" => timer'[x] < timer'[f]
  BY <1>2, <1>3, <1>4, <1>5, <1>6, FollowerDoes
<1> QED BY <1>1, <1>3, <1>4, <1>7, <1>8

LEMMA FollowerCollect ==
  ASSUME SafeInv, NEW f \in Follower, local_sh(f)
  PROVE  CollectInv'
<1> USE Numbers
<1>1. /\ script'[Leader] = script[Leader] /\ timer'[Leader] = timer[Leader]
      /\ UNCHANGED <<at, skew, overhead>> /\ saved \subseteq saved'
      /\ \A g \in Follower \ {f} : timer'[g] = timer[g] /\ signal'[g] = signal[g]
      /\ 10 \in signal'[f] => 10 \in signal[f]
      /\ 6 \in signal'[f] => 6 \in signal[f]
  BY FollowerKeeps DEF SafeInv
<1>2. 6 \in signal[f] => 10 \notin signal[f] /\ script[f] = "loop"
  BY DEF SafeInv, EvenInv, CollectInv, Collected, LoopInv
<1>3. 6 \in signal'[f] => timer'[f] = timer[f]
  BY <1>1, <1>2, FollowerDoes
<1>4. 6 \in signal[f] /\ 6 \notin signal'[f] => f \in saved'
  BY <1>2, FollowerDoes, FollowerKeeps DEF SafeInv
<1>5. 6 \notin signal[f] /\ script[f] # "exited" => script'[f] # "exited"
  BY FollowerDoes
<1>6. \A g \in Follower \ {f} : script'[g] = script[g]
  BY FollowerKeeps DEF SafeInv
<1> QED BY <1>1, <1>3, <1>4, <1>5, <1>6 DEF SafeInv, EvenInv, CollectInv, Collected

LEMMA FollowerEven ==
  ASSUME SafeInv, IInv', Punctual, NEW f \in Follower, local_sh(f)
  PROVE  EvenInv'
<1>1. Second > 0
  BY Numbers DEF Punctual
<1> QED BY <1>1, FollowerCredit, FollowerLines, FollowerLoop, FollowerTime, FollowerCollect
       DEF EvenInv

-----------------------------------------------------------------------------
\* What a command of the leader leaves as it is.
LEMMA LeaderKeeps ==
  ASSUME TypeOK, leader_sh
  PROVE  /\ \A f \in Follower : script'[f] = script[f] /\ timer'[f] = timer[f]
                                /\ log'[f] = log[f]
         /\ UNCHANGED <<saved, credited>>
         /\ \A f \in Follower :
              /\ 12 \in signal[f] => 12 \in signal'[f]
              /\ ~Call => (12 \in signal'[f] <=> 12 \in signal[f])
              /\ ~Tell => (10 \in signal'[f] <=> 10 \in signal[f])
              /\ ~Kill => (6 \in signal'[f] <=> 6 \in signal[f])
         /\ ~OwnTurn /\ ~EndOwnTurn => latch' = latch
         /\ ~begin /\ ~PauseOver => log' = log
         /\ ~OwnTurn /\ ~GiveTurn => LOPP' = LOPP
         /\ ~FetchSkew => skew' = skew
         /\ ~FetchOverhead => overhead' = overhead
<1> USE Numbers DEF To, Line, Send, Done, For, Each
<1>1. /\ script \in [Board -> FollowerStates \union LeaderStates]
      /\ timer \in [Board -> Nat] /\ signal \in [Board -> SUBSET {6, 10, 12}]
      /\ log \in [Board -> Seq(Nat)]
  BY DEF TypeOK
<1>2. CASE begin \/ PauseOver
  BY <1>1, <1>2 DEF begin, PauseOver, wire
<1>3. CASE Tell \/ Kill
  <2>1. UNCHANGED <<latch, credited, LOPP, logs>>
    BY <1>3 DEF Tell, Kill, wire
  <2>2. \A f \in Follower : script'[f] = script[f] /\ timer'[f] = timer[f]
    BY <1>1, <1>3 DEF Tell, Kill
  <2>3. ASSUME NEW b, NEW n, Send(b, n)
        PROVE  \A f \in Follower, m \in {6, 10, 12} :
                 /\ m \in signal[f] => m \in signal'[f]
                 /\ m # n => (m \in signal'[f] <=> m \in signal[f])
    BY <1>1, <2>3
  <2>4. /\ Tell => Send(IPs[at], 10)
        /\ Kill => Send(IPs[at], 6)
    BY DEF Tell, Kill
  <2> HIDE DEF Send
  <2>5. CASE Tell
    BY <2>1, <2>2, <2>3, <2>4, <2>5 DEF logs
  <2>6. CASE Kill
    BY <2>1, <2>2, <2>3, <2>4, <2>6 DEF logs
  <2> QED BY <1>3, <2>5, <2>6
<1>4. CASE OwnTurn \/ EndOwnTurn
  <2>1. UNCHANGED <<signal, logs, credited>> /\ (EndOwnTurn => LOPP' = LOPP)
    BY <1>4 DEF OwnTurn, EndOwnTurn, Drive
  <2>2. To(Leader, "frozen", Second) \/ To(Leader, "wait", 0)
    BY <1>4 DEF OwnTurn, EndOwnTurn
  <2>3. \A f \in Follower : script'[f] = script[f] /\ timer'[f] = timer[f]
    BY <1>1, <2>2
  <2> QED BY <1>4, <2>1, <2>3 DEF logs
<1>5. CASE GiveTurn \/ collect_logs
  BY <1>1, <1>5 DEF GiveTurn, collect_logs, wire, logs
<1>6. CASE Call \/ response
  BY <1>1, <1>6 DEF Call, response, wire, logs
<1>7. CASE FetchSkew \/ FetchOverhead
  BY <1>1, <1>7 DEF FetchSkew, FetchOverhead, wire
<1> QED BY <1>2, <1>3, <1>4, <1>5, <1>6, <1>7 DEF leader_sh

\* Where its commands take it.  The list of boards is empty, or it goes on with it.
Lists(pc, after) ==
  \/ IPs = <<>> /\ script'[Leader] = after
  \/ script'[Leader] = pc /\ timer'[Leader] = Moment /\ at' = 1 /\ 1 \in DOMAIN IPs
GoesOn(pc, after) ==
  \/ script'[Leader] = pc /\ at < Len(IPs) /\ at' = at + 1
  \/ script'[Leader] = after /\ ~(at < Len(IPs)) /\ at' = 1

LEMMA ListMoves ==
  ASSUME TypeOK, NEW pc, NEW after, NEW ticks
  PROVE  /\ For(pc, after, ticks) => Lists(pc, after) /\ (script'[Leader] = after /\ after # pc => timer'[Leader] = ticks)
         /\ Each(pc, after, ticks) => GoesOn(pc, after) /\ (script'[Leader] = after /\ after # pc => timer'[Leader] = ticks)
<1>1. /\ script \in [Board -> FollowerStates \union LeaderStates]
      /\ timer \in [Board -> Nat]
  BY DEF TypeOK
<1> QED BY <1>1, Numbers, Boards DEF For, Each, To, Lists, GoesOn

LEMMA LeaderDoes ==
  ASSUME SafeInv
  PROVE  /\ begin => /\ script[Leader] = "setup" /\ \A f \in Follower : script[f] = "loop"
                     /\ log'[Leader] = Append(log[Leader], credited[Leader])
                     /\ Lists("tell", "turn")
         /\ Tell => /\ script[Leader] = "tell" /\ at \in DOMAIN IPs
                    /\ signal' = [signal EXCEPT ![IPs[at]] = @ \union {10}]
                    /\ GoesOn("tell", "turn")
                    /\ script'[Leader] = "turn" => timer'[Leader] = After
         /\ OwnTurn => /\ script[Leader] = "turn" /\ timer[Leader] = 0 /\ LOPP' = LOPP + 1
                       /\ script'[Leader] = "frozen" /\ timer'[Leader] = Second
                       /\ pause_order[LOPP + 1] = Leader
         /\ EndOwnTurn => /\ script[Leader] = "frozen" /\ timer[Leader] = 0
                          /\ script'[Leader] = "wait"
         /\ GiveTurn => /\ script[Leader] = "turn" /\ LOPP' = LOPP + 1
                        /\ script'[Leader] = "call"
         /\ Call => /\ script[Leader] = "call" /\ script'[Leader] = "wait"
                    /\ pause_order[LOPP] \in Follower /\ 12 \in signal'[pause_order[LOPP]]
         /\ response => script' = script /\ timer' = timer /\ at' = at
<1> USE Numbers
<1>1. /\ script \in [Board -> FollowerStates \union LeaderStates]
      /\ timer \in [Board -> Nat] /\ signal \in [Board -> SUBSET {6, 10, 12}]
      /\ log \in [Board -> Seq(Nat)]
  BY Types
<1>2. TypeOK /\ ScriptInv /\ LeaderInv
  BY DEF SafeInv, IInv
<1>3. ASSUME begin PROVE /\ script[Leader] = "setup" /\ \A f \in Follower : script[f] = "loop"
                         /\ log'[Leader] = Append(log[Leader], credited[Leader])
                         /\ Lists("tell", "turn")
  BY <1>1, <1>2, <1>3, ListMoves DEF begin, Goes, Line
<1>4. ASSUME Tell PROVE /\ script[Leader] = "tell" /\ at \in DOMAIN IPs
                        /\ signal' = [signal EXCEPT ![IPs[at]] = @ \union {10}]
                        /\ GoesOn("tell", "turn")
                        /\ script'[Leader] = "turn" => timer'[Leader] = After
  BY <1>1, <1>2, <1>4, ListMoves DEF Tell, Goes, Send, ScriptInv
<1>5. ASSUME OwnTurn PROVE
                       /\ script[Leader] = "turn" /\ timer[Leader] = 0 /\ LOPP' = LOPP + 1
                       /\ script'[Leader] = "frozen" /\ timer'[Leader] = Second
                       /\ pause_order[LOPP + 1] = Leader
  BY <1>1, <1>5 DEF OwnTurn, NextTurn, Goes, Prompt, To
<1>6. ASSUME EndOwnTurn PROVE /\ script[Leader] = "frozen" /\ timer[Leader] = 0
                              /\ script'[Leader] = "wait"
  BY <1>1, <1>6 DEF EndOwnTurn, Goes, Prompt, To
<1>7. ASSUME GiveTurn PROVE /\ script[Leader] = "turn" /\ LOPP' = LOPP + 1
                            /\ script'[Leader] = "call"
  BY <1>1, <1>7 DEF GiveTurn, NextTurn, Goes, To
<1>8. ASSUME Call PROVE
         /\ script[Leader] = "call" /\ script'[Leader] = "wait"
         /\ pause_order[LOPP] \in Follower /\ 12 \in signal'[pause_order[LOPP]]
  BY <1>1, <1>2, <1>8 DEF Call, Goes, To, Send, LeaderInv
<1>9. response => script' = script /\ timer' = timer /\ at' = at
  BY DEF response
<1> QED BY <1>3, <1>4, <1>5, <1>6, <1>7, <1>8, <1>9

LEMMA LeaderEnds ==
  ASSUME SafeInv
  PROVE  /\ PauseOver => /\ script[Leader] = "wait" /\ should_wait = 0 /\ latch[Leader] = {}
                         /\ log'[Leader] = Append(log[Leader], credited[Leader])
                         /\ Lists("tell", "turn")
         /\ collect_logs => /\ script[Leader] = "turn" /\ timer[Leader] = 0 /\ LOPP = Turns
                            /\ Lists("kill", "skew")
         /\ Kill => /\ script[Leader] = "kill" /\ timer[Leader] = 0 /\ at \in DOMAIN IPs
                    /\ signal' = [signal EXCEPT ![IPs[at]] = @ \union {6}]
                    /\ GoesOn("kill", "skew")
                    /\ script'[Leader] = "skew" => timer'[Leader] = 2 * Second
         /\ FetchSkew => /\ script[Leader] = "skew" /\ timer[Leader] = 0
                         /\ IPs # <<>> => skew' = [skew EXCEPT ![IPs[at]] = log[IPs[at]]]
                         /\ GoesOn("skew", "overhead")
         /\ FetchOverhead => /\ script[Leader] = "overhead"
                             /\ overhead' = overhead \union
                                  {f \in saved : at \in DOMAIN IPs /\ f = IPs[at]}
                             /\ GoesOn("overhead", "done")
<1> USE Numbers
<1>1. /\ script \in [Board -> FollowerStates \union LeaderStates]
      /\ timer \in [Board -> Nat] /\ signal \in [Board -> SUBSET {6, 10, 12}]
      /\ log \in [Board -> Seq(Nat)]
  BY Types
<1>2. TypeOK /\ ScriptInv
  BY DEF SafeInv, IInv
<1>3. ASSUME PauseOver
      PROVE  /\ script[Leader] = "wait" /\ should_wait = 0 /\ latch[Leader] = {}
             /\ log'[Leader] = Append(log[Leader], credited[Leader])
             /\ Lists("tell", "turn")
  BY <1>1, <1>2, <1>3, ListMoves DEF PauseOver, Goes, Prompt, Line
<1>4. ASSUME collect_logs
      PROVE  /\ script[Leader] = "turn" /\ timer[Leader] = 0 /\ LOPP = Turns
             /\ Lists("kill", "skew")
  BY <1>2, <1>4, ListMoves DEF collect_logs, Goes, Prompt
<1>5. ASSUME Kill
      PROVE  /\ script[Leader] = "kill" /\ timer[Leader] = 0 /\ at \in DOMAIN IPs
             /\ signal' = [signal EXCEPT ![IPs[at]] = @ \union {6}]
             /\ GoesOn("kill", "skew")
             /\ script'[Leader] = "skew" => timer'[Leader] = 2 * Second
  BY <1>2, <1>5, ListMoves DEF Kill, Goes, Prompt, Send, ScriptInv
<1>6. ASSUME FetchSkew
      PROVE  /\ script[Leader] = "skew" /\ timer[Leader] = 0
             /\ IPs # <<>> => skew' = [skew EXCEPT ![IPs[at]] = log[IPs[at]]]
             /\ GoesOn("skew", "overhead")
  BY <1>2, <1>6, ListMoves DEF FetchSkew, Goes, Prompt
<1>7. ASSUME FetchOverhead
      PROVE  /\ script[Leader] = "overhead"
             /\ overhead' = overhead \union
                  {f \in saved : at \in DOMAIN IPs /\ f = IPs[at]}
             /\ GoesOn("overhead", "done")
  BY <1>2, <1>7, ListMoves DEF FetchOverhead, Goes
<1> QED BY <1>3, <1>4, <1>5, <1>6, <1>7

\* No freeze ends and none is asked for, but by the two steps of the leader's own turn
\* that drive the wire and by the call to a board.
LEMMA LeaderAsked ==
  ASSUME SafeInv, IInv', leader_sh
  PROVE  /\ ~Call => (Asked' <=> Asked)
         /\ Asked => script[Leader] = "wait"
         /\ ~EndOwnTurn => Ended' = Ended
         /\ EndOwnTurn => Ended' = Ended + 1
<1> USE Numbers
<1>1. \A f \in Follower : ~Call => (AskedOf(f)' <=> AskedOf(f))
  BY LeaderKeeps DEF AskedOf, SafeInv
<1>2. ~Call => (Asked' <=> Asked)
  BY <1>1 DEF Asked
<1>3. Asked => script[Leader] = "wait"
  BY OneAsked DEF Asked, SafeInv
<1>4. LOPP \in Nat
  BY Types
<1>5. CASE begin \/ Tell \/ PauseOver \/ collect_logs \/ Kill \/ FetchSkew \/ FetchOverhead
  <2>1. /\ ~Call /\ ~EndOwnTurn /\ LOPP' = LOPP
        /\ script'[Leader] \in {"call", "frozen"} <=> script[Leader] \in {"call", "frozen"}
    <3>1. /\ script[Leader] \notin {"call", "frozen", "done"}
          /\ script'[Leader] \notin {"call", "frozen"}
      BY <1>5, LeaderDoes, LeaderEnds DEF Lists, GoesOn
    <3>2. ~Call /\ ~EndOwnTurn /\ ~OwnTurn /\ ~GiveTurn
      BY <3>1, LeaderDoes
    <3> QED BY <3>1, <3>2, LeaderKeeps DEF SafeInv
  <2> QED BY <1>1, <1>2, <1>3, <2>1, EndedSame
<1>6. CASE OwnTurn \/ GiveTurn
  <2>1. /\ script[Leader] = "turn" /\ LOPP' = LOPP + 1
        /\ script'[Leader] \in {"call", "frozen"}
    BY <1>6, LeaderDoes
  <2>2. ~Call /\ ~EndOwnTurn
    BY <2>1, LeaderDoes
  <2>3. Ended = LOPP /\ Ended' = LOPP
    BY <1>3, <1>4, <2>1 DEF Ended
  <2> QED BY <1>2, <1>3, <2>2, <2>3
<1>7. CASE EndOwnTurn
  <2>1. script[Leader] = "frozen" /\ script'[Leader] = "wait"
    BY <1>7, LeaderDoes
  <2>2. ~Call /\ ~OwnTurn /\ ~GiveTurn
    BY <2>1, LeaderDoes
  <2>3. LOPP' = LOPP /\ ~Asked /\ ~Asked'
    BY <1>2, <1>3, <2>1, <2>2, LeaderKeeps DEF SafeInv
  <2>4. Ended = LOPP - 1 /\ Ended' = LOPP
    BY <1>4, <2>1, <2>3 DEF Ended
  <2> QED BY <1>2, <1>3, <1>4, <1>7, <2>2, <2>4
<1>8. CASE Call
  <2>1. script[Leader] = "call" /\ script'[Leader] = "wait"
    BY <1>8, LeaderDoes
  <2>2. ~EndOwnTurn /\ ~OwnTurn /\ ~GiveTurn
    BY <2>1, LeaderDoes
  <2>3. LOPP' = LOPP /\ Asked'
    BY <1>8, <2>2, LeaderKeeps, LeaderDoes DEF SafeInv, Asked, AskedOf
  <2>4. Ended = LOPP - 1 /\ Ended' = LOPP - 1
    BY <2>1, <2>3 DEF Ended
  <2> QED BY <1>3, <1>8, <2>2, <2>4
<1>9. CASE response
  <2>1. script' = script
    BY <1>9, LeaderDoes
  <2>2. ~Call /\ ~EndOwnTurn /\ ~OwnTurn /\ ~GiveTurn
    BY <2>1, LeaderDoes
  <2>3. LOPP' = LOPP
    BY <2>2, LeaderKeeps DEF SafeInv
  <2> QED BY <1>1, <1>2, <1>3, <2>1, <2>2, <2>3, EndedSame
<1> QED BY <1>5, <1>6, <1>7, <1>8, <1>9 DEF leader_sh

LEMMA LeaderCredit ==
  ASSUME SafeInv, IInv', Punctual, leader_sh
  PROVE  CreditInv'
<1> USE Numbers
<1>0. Ended \in Int /\ credited' = credited
  BY Types, LeaderKeeps DEF Ended, SafeInv
<1>1. CASE EndOwnTurn
  <2>1. script[Leader] = "frozen" /\ timer[Leader] = 0
    BY <1>1, LeaderDoes
  <2>2. pin = {Leader}
    BY <2>1, OneFrozen DEF SafeInv, CalmInv
  <2>3. NoEdge
    BY <2>1, RipeIsCalm DEF SafeInv, CalmInv, Punctual
  <2>4. \A b \in Board : "fall" \in latch'[b] /\ "fall" \notin latch[b]
    BY <1>1, <2>2, <2>3 DEF EndOwnTurn, Drive, NoEdge
  <2>5. Ended' = Ended + 1
    BY <1>1, LeaderAsked
  <2>6. \A b \in Board : credited[b] = Ended
    BY <2>4 DEF SafeInv, EvenInv, CreditInv
  <2> QED BY <1>0, <2>4, <2>5, <2>6 DEF CreditInv
<1>2. CASE ~EndOwnTurn
  <2>1. \A b \in Board : "fall" \in latch'[b] <=> "fall" \in latch[b]
    <3>1. CASE OwnTurn
      BY <3>1 DEF OwnTurn, Drive
    <3>2. CASE ~OwnTurn
      BY <1>2, <3>2, LeaderKeeps DEF SafeInv
    <3> QED BY <3>1, <3>2
  <2>2. Ended' = Ended
    BY <1>2, LeaderAsked
  <2> QED BY <1>0, <2>1, <2>2 DEF SafeInv, EvenInv, CreditInv
<1> QED BY <1>1, <1>2

\* The leader writes its own line of a round when the others owe theirs.
LEMMA LeaderLine ==
  ASSUME SafeInv, IInv', leader_sh, begin \/ PauseOver
  PROVE  LinesInv' /\ LogsAligned'
<1> USE Numbers
<1>1. /\ script[Leader] \in {"setup", "wait"} /\ Lists("tell", "turn") /\ LOPP' = LOPP
      /\ log'[Leader] = Append(log[Leader], credited[Leader])
      /\ ~Asked /\ "fall" \notin latch[Leader] /\ Ended = LOPP
      /\ Rounds = IF script[Leader] = "setup" THEN 0 ELSE LOPP
  <2>1. /\ script[Leader] \in {"setup", "wait"} /\ Lists("tell", "turn")
        /\ log'[Leader] = Append(log[Leader], credited[Leader])
        /\ begin => script[Leader] = "setup"
        /\ PauseOver => latch[Leader] = {} /\ should_wait = 0
    BY LeaderDoes, LeaderEnds
  <2>2. ~OwnTurn /\ ~GiveTurn
    BY <2>1, LeaderDoes
  <2>3. ~Asked
    <3>1. should_wait = 0 \/ script[Leader] = "setup"
      BY <2>1
    <3> QED BY <3>1, OneAsked DEF Asked, SafeInv
  <2>4. "fall" \notin latch[Leader]
    BY <2>1 DEF SafeInv, CalmInv, NoEdge
  <2> QED BY <2>1, <2>2, <2>3, <2>4, LeaderKeeps DEF SafeInv, Ended, Rounds
<1>2. credited[Leader] = LOPP /\ LOPP \in Nat /\ (script[Leader] = "setup" => LOPP = 0)
  BY <1>1, Types DEF SafeInv, EvenInv, CreditInv, CalmInv
<1>3. Rounds = LOPP /\ Rounds' = LOPP + 1
  BY <1>1, <1>2 DEF Rounds, Lists
<1>4. \A f \in Follower : 10 \notin signal[f] /\ 10 \notin signal'[f] /\ log'[f] = log[f]
  <2>1. \A f \in Follower : 10 \notin signal[f]
    BY <1>1 DEF SafeInv, EvenInv, TimeInv
  <2>2. ~Tell
    BY <1>1, LeaderDoes
  <2> QED BY <2>1, <2>2, LeaderKeeps DEF SafeInv
<1>5. /\ log[Leader] \in Seq(Nat) /\ credited[Leader] \in Nat /\ Len(log[Leader]) = LOPP
  BY <1>3, Types DEF SafeInv, EvenInv, LinesInv
<1>6. /\ Len(log'[Leader]) = LOPP + 1
      /\ \A i \in DOMAIN log'[Leader] : i \in DOMAIN log[Leader] \/ i = LOPP + 1
      /\ log'[Leader][LOPP + 1] = LOPP
      /\ \A i \in DOMAIN log[Leader] : log'[Leader][i] = log[Leader][i]
  BY <1>1, <1>2, <1>5
<1>7. LinesInv'
  <2>1. ASSUME NEW k \in DOMAIN IPs
        PROVE  Len(log'[IPs[k]]) = Rounds' - 1 /\ ~Told(k)'
    <3>1. Told(k)
      BY <1>1 DEF Told
    <3>2. Len(log[IPs[k]]) = Rounds
      BY <1>4, <3>1 DEF SafeInv, EvenInv, LinesInv
    <3>3. script'[Leader] = "tell" /\ at' = 1
      BY <1>1 DEF Lists
    <3> QED BY <1>2, <1>3, <1>4, <3>2, <3>3 DEF Told
  <2> QED BY <1>3, <1>4, <1>6, <2>1 DEF LinesInv
<1>8. LogsAligned'
  <2>1. \A i \in DOMAIN log'[Leader] : log'[Leader][i] = i - 1
    BY <1>2, <1>6 DEF SafeInv, EvenInv, LogsAligned
  <2> QED BY <1>4, <2>1 DEF SafeInv, EvenInv, LogsAligned
<1> QED BY <1>7, <1>8

LEMMA LeaderLines ==
  ASSUME SafeInv, IInv', leader_sh
  PROVE  LinesInv' /\ LogsAligned'
<1> USE Numbers
<1>1. CASE begin \/ PauseOver
  BY <1>1, LeaderLine
<1>2. CASE ~begin /\ ~PauseOver
  <2>1. log' = log
    BY <1>2, LeaderKeeps DEF SafeInv
  <2>2. Rounds' = Rounds
    <3>1. LOPP \in Nat /\ (~OwnTurn /\ ~GiveTurn => LOPP' = LOPP)
      BY Types, LeaderKeeps DEF SafeInv
    <3> QED BY <1>2, <3>1, LeaderDoes, LeaderEnds DEF leader_sh, Rounds, Lists, GoesOn
  <2>3. ASSUME NEW k \in DOMAIN IPs
        PROVE  /\ 10 \in signal'[IPs[k]] => Told(k)'
               /\ 10 \in signal'[IPs[k]] \/ ~Told(k)' <=> 10 \in signal[IPs[k]] \/ ~Told(k)
    <3>1. 10 \in signal[IPs[k]] => Told(k)
      BY DEF SafeInv, EvenInv, LinesInv
    <3>2. CASE Tell
      <4>1. /\ script[Leader] = "tell" /\ at \in DOMAIN IPs /\ GoesOn("tell", "turn")
            /\ signal' = [signal EXCEPT ![IPs[at]] = @ \union {10}]
        BY <3>2, LeaderDoes
      <4>2. 10 \in signal'[IPs[k]] <=> 10 \in signal[IPs[k]] \/ k = at
        BY <4>1, Types
      <4>3. Told(k)' <=> k <= at
        BY <4>1 DEF GoesOn, Told
      <4>4. Told(k) <=> k < at
        BY <4>1 DEF Told
      <4> QED BY <3>1, <4>1, <4>2, <4>3, <4>4
    <3>3. CASE ~Tell
      <4>1. 10 \in signal'[IPs[k]] <=> 10 \in signal[IPs[k]]
        BY <3>3, LeaderKeeps DEF SafeInv
      <4>2. Told(k)' <=> Told(k)
        BY <1>2, <3>3, LeaderDoes, LeaderEnds DEF leader_sh, Told, Lists, GoesOn
      <4> QED BY <3>1, <4>1, <4>2
    <3> QED BY <3>2, <3>3
  <2> QED BY <2>1, <2>2, <2>3 DEF SafeInv, EvenInv, LinesInv, LogsAligned
<1> QED BY <1>1, <1>2

\* The leader tells a board to write, or to stop, only while its script is in its loop.
LEMMA LeaderLoop ==
  ASSUME SafeInv, IInv', leader_sh
  PROVE  LoopInv'
<1> USE Numbers
<1>1. /\ \A f \in Follower :
           /\ script[f] = "loop" => timer[f] <= Second
           /\ 10 \in signal[f] \/ 6 \in signal[f] => script[f] = "loop"
           /\ script[f] = "setup" => script[Leader] = "setup"
           /\ script[f] = "exited" => script[Leader] \in Closing
      /\ script[Leader] \in Closing => LOPP = Turns
      /\ script[Leader] \in {"skew", "overhead"} => IPs = <<>> \/ at \in DOMAIN IPs
  BY DEF SafeInv, EvenInv, LoopInv
<1>2. \A f \in Follower : script'[f] = script[f] /\ timer'[f] = timer[f]
  BY LeaderKeeps DEF SafeInv
<1>3. ASSUME NEW f \in Follower, script[Leader] \in {"tell", "kill"}
      PROVE  script[f] = "loop" \/ (script[Leader] = "kill" /\ script[f] = "exited")
  <2>1. script[f] \in FollowerStates
    BY DEF SafeInv, IInv, ScriptInv
  <2>2. script[f] \notin Pausing
    BY <1>3 DEF SafeInv, IInv, TurnInv, Busy
  <2>3. script[f] # "setup" /\ (script[f] = "exited" => script[Leader] # "tell")
    BY <1>1, <1>3 DEF Closing
  <2> QED BY <1>3, <2>1, <2>2, <2>3 DEF FollowerStates
<1>4. ASSUME NEW f \in Follower, 10 \in signal'[f] \/ 6 \in signal'[f]
      PROVE  script[f] = "loop"
  <2>1. CASE 10 \in signal[f] \/ 6 \in signal[f]
    BY <1>1, <2>1
  <2>2. CASE 10 \notin signal[f] /\ 6 \notin signal[f]
    <3>1. Tell \/ Kill
      BY <1>4, <2>2, LeaderKeeps DEF SafeInv
    <3>2. CASE Tell
      BY <1>3, <3>2, LeaderDoes
    <3>3. CASE Kill
      <4>1. /\ script[Leader] = "kill" /\ at \in DOMAIN IPs
            /\ signal' = [signal EXCEPT ![IPs[at]] = @ \union {6}]
        BY <3>3, LeaderEnds
      <4>2. f = IPs[at]
        BY <1>4, <2>2, <4>1, Types
      <4>3. script[f] # "exited"
        BY <4>1, <4>2 DEF SafeInv, EvenInv, CollectInv, Collected
      <4> QED BY <1>3, <4>1, <4>3
    <3> QED BY <3>1, <3>2, <3>3
  <2> QED BY <2>1, <2>2
<1>5. /\ script'[Leader] # "setup" => \A f \in Follower : script[f] # "setup"
      /\ script[Leader] \in Closing => script'[Leader] \in Closing
      /\ script'[Leader] \in Closing => LOPP' = Turns
      /\ script'[Leader] \in {"skew", "overhead"} => IPs = <<>> \/ at' \in DOMAIN IPs
  <2>1. CASE begin \/ PauseOver
    <3>1. script[Leader] \in {"setup", "wait"} /\ Lists("tell", "turn")
      BY <2>1, LeaderDoes, LeaderEnds
    <3>2. begin => \A f \in Follower : script[f] = "loop"
      BY LeaderDoes
    <3>3. script'[Leader] # "setup" /\ (PauseOver => script[Leader] # "setup")
      BY <3>1, LeaderEnds DEF Lists
    <3> QED BY <1>1, <2>1, <3>1, <3>2, <3>3 DEF Lists, Closing
  <2>2. CASE Tell \/ OwnTurn \/ EndOwnTurn \/ GiveTurn \/ Call
    <3>1. /\ script[Leader] \in {"tell", "turn", "frozen", "call"}
          /\ script'[Leader] \in {"tell", "turn", "frozen", "call", "wait"}
      BY <2>2, LeaderDoes DEF GoesOn
    <3> QED BY <1>1, <3>1 DEF Closing
  <2>3. CASE response
    <3>1. script' = script /\ at' = at
      BY <2>3, LeaderDoes
    <3>2. LOPP' = LOPP
      BY <2>3 DEF response
    <3> QED BY <1>1, <3>1, <3>2
  <2>4. CASE collect_logs
    <3>1. /\ script[Leader] = "turn" /\ LOPP = Turns /\ Lists("kill", "skew")
      BY <2>4, LeaderEnds
    <3>2. LOPP' = LOPP
      BY <2>4 DEF collect_logs
    <3> QED BY <1>1, <3>1, <3>2 DEF Lists, Closing
  <2>5. CASE Kill \/ FetchSkew \/ FetchOverhead
    <3>1. /\ script[Leader] \in {"kill", "skew", "overhead"}
          /\ script'[Leader] \in {"kill", "skew", "overhead", "done"}
          /\ (at' = at + 1 /\ at < Len(IPs)) \/ at' = 1
      BY <2>5, LeaderEnds DEF GoesOn
    <3>2. LOPP' = LOPP
      BY <2>5 DEF Kill, FetchSkew, FetchOverhead
    <3>3. IPs = <<>> \/ at' \in DOMAIN IPs
      BY <3>1, Types, Boards
    <3> QED BY <1>1, <3>1, <3>2, <3>3 DEF Closing
  <2> QED BY <2>1, <2>2, <2>3, <2>4, <2>5 DEF leader_sh
<1> QED BY <1>1, <1>2, <1>4, <1>5 DEF LoopInv

\* A line that is owed when the leader goes on has its time, or has been written.
LEMMA LeaderTime ==
  ASSUME SafeInv, IInv', Punctual, FirstIsAnother, leader_sh
  PROVE  TimeInv'
<1> USE Numbers
<1> SUFFICES ASSUME NEW x \in Follower, 10 \in signal'[x]
             PROVE  /\ script'[Leader] \notin {"setup", "skew", "overhead", "done"}
                    /\ script'[Leader] = "turn" /\ LOPP' > 0 => timer'[x] <= timer'[Leader]
                    /\ script'[Leader] \in {"frozen", "kill"} => timer'[x] < timer'[Leader]
                    /\ script'[Leader] = "wait" => Asked'
                    /\ \A g \in Follower : /\ script'[g] # "frozen"
                                           /\ script'[g] = "lead" => timer'[x] < timer'[g]
  BY DEF TimeInv
<1>1. /\ \A f \in Follower : script'[f] = script[f] /\ timer'[f] = timer[f]
      /\ ~Tell => 10 \in signal[x]
  BY LeaderKeeps DEF SafeInv
<1>2. 10 \in signal[x] =>
      /\ script[Leader] \notin {"setup", "skew", "overhead", "done"}
      /\ script[Leader] = "turn" /\ LOPP > 0 => timer[x] <= timer[Leader]
      /\ script[Leader] \in {"frozen", "kill"} => timer[x] < timer[Leader]
      /\ script[Leader] = "wait" => Asked
      /\ \A g \in Follower : /\ script[g] # "frozen"
                             /\ script[g] = "lead" => timer[x] < timer[g]
  BY DEF SafeInv, EvenInv, TimeInv
<1>3. timer[x] \in Nat /\ LOPP \in 0..Turns /\ timer[Leader] \in Nat
  BY Types
<1>4. CASE Tell
  <2>1. /\ script[Leader] = "tell" /\ GoesOn("tell", "turn")
        /\ script'[Leader] = "turn" => timer'[Leader] = After
    BY <1>4, LeaderDoes
  <2>2. script[x] = "loop" /\ timer[x] <= Second
    BY <1>1, LeaderLoop DEF LoopInv
  <2>3. \A g \in Follower : script[g] \notin {"lead", "frozen"}
    BY <2>1 DEF SafeInv, IInv, TurnInv, Busy, Pausing
  <2>4. LOPP' = LOPP
    BY <1>4 DEF Tell
  <2> QED BY <1>1, <1>3, <2>1, <2>2, <2>3, <2>4 DEF GoesOn, After
<1>5. CASE OwnTurn
  <2>1. /\ script[Leader] = "turn" /\ timer[Leader] = 0 /\ LOPP' = LOPP + 1
        /\ script'[Leader] = "frozen" /\ timer'[Leader] = Second
        /\ pause_order[LOPP + 1] = Leader
    BY <1>5, LeaderDoes
  <2>2. 10 \in signal[x]
    BY <1>1, <2>1, LeaderDoes
  <2>3. LOPP # 0
    BY <2>1 DEF FirstIsAnother
  <2> QED BY <1>1, <1>2, <1>3, <2>1, <2>2, <2>3 DEF Punctual
<1>6. CASE EndOwnTurn
  <2>1. script[Leader] = "frozen" /\ timer[Leader] = 0
    BY <1>6, LeaderDoes
  <2> QED BY <1>1, <1>2, <1>3, <2>1, LeaderDoes
<1>7. CASE GiveTurn
  <2>1. script[Leader] = "turn" /\ script'[Leader] = "call"
    BY <1>7, LeaderDoes
  <2> QED BY <1>1, <1>2, <2>1, LeaderDoes
<1>8. CASE Call
  <2>1. script[Leader] = "call" /\ script'[Leader] = "wait"
    BY <1>8, LeaderDoes
  <2>2. Asked'
    BY <1>8, LeaderDoes DEF Asked, AskedOf
  <2> QED BY <1>1, <1>2, <2>1, <2>2, LeaderDoes
<1>9. CASE response
  <2>1. script' = script /\ timer' = timer /\ LOPP' = LOPP
    BY <1>9 DEF response
  <2>2. \A f \in Follower : signal'[f] = signal[f]
    BY <1>9, Types DEF response, Done
  <2>3. Asked' <=> Asked
    BY <2>1, <2>2 DEF Asked, AskedOf
  <2> QED BY <1>2, <2>1, <2>2, <2>3
<1>10. CASE begin \/ PauseOver
  <2>1. script[Leader] = "setup" \/ (script[Leader] = "wait" /\ should_wait = 0)
    <3>1. begin => script[Leader] = "setup"
      BY LeaderDoes
    <3>2. PauseOver => script[Leader] = "wait" /\ should_wait = 0
      BY LeaderEnds
    <3> QED BY <1>10, <3>1, <3>2
  <2>2. 10 \in signal[x]
    BY <1>1, <2>1, LeaderDoes
  <2> QED BY <1>2, <2>1, <2>2, OneAsked DEF Asked, SafeInv
<1>11. CASE collect_logs
  <2>1. /\ script[Leader] = "turn" /\ timer[Leader] = 0 /\ LOPP = Turns
        /\ Lists("kill", "skew")
    BY <1>11, LeaderEnds
  <2>2. 10 \in signal[x] /\ LOPP > 0
    BY <1>1, <2>1, LeaderDoes DEF FirstIsAnother
  <2>3. script'[Leader] = "kill" /\ timer'[Leader] = Moment
    BY <2>1 DEF Lists
  <2> QED BY <1>1, <1>2, <1>3, <2>1, <2>2, <2>3 DEF Punctual
<1>12. CASE Kill \/ FetchSkew \/ FetchOverhead
  <2>1. script[Leader] \in {"skew", "overhead"} \/ (script[Leader] = "kill" /\ timer[Leader] = 0)
    <3>1. Kill => script[Leader] = "kill" /\ timer[Leader] = 0
      BY LeaderEnds
    <3>2. /\ FetchSkew => script[Leader] = "skew"
          /\ FetchOverhead => script[Leader] = "overhead"
      BY LeaderEnds
    <3> QED BY <1>12, <3>1, <3>2
  <2>2. 10 \in signal[x]
    BY <1>1, <2>1, LeaderDoes
  <2> QED BY <1>2, <1>3, <2>1, <2>2
<1> QED BY <1>4, <1>5, <1>6, <1>7, <1>8, <1>9, <1>10, <1>11, <1>12 DEF leader_sh

\* The leader stops a board, and fetches from it, when the board has done its part.
LEMMA LeaderCollect ==
  ASSUME SafeInv, IInv', Second > 0, leader_sh
  PROVE  CollectInv'
<1> USE Numbers
<1> SUFFICES ASSUME NEW k \in DOMAIN IPs, NEW f, f = IPs[k] PROVE Collected(k)'
  BY DEF CollectInv
<1>1. /\ f \in Follower /\ script'[f] = script[f] /\ timer'[f] = timer[f]
      /\ UNCHANGED <<saved>> /\ IPs # <<>>
  BY LeaderKeeps DEF SafeInv
<1>2. Collected(k)
  BY DEF SafeInv, EvenInv, CollectInv
<1>3. timer[f] \in Nat /\ timer[Leader] \in Nat /\ at \in 1..(Len(IPs) + 1)
  BY <1>1, Types
<1>4. CASE begin \/ Tell \/ OwnTurn \/ EndOwnTurn \/ GiveTurn \/ Call \/ PauseOver
  <2>1. script[Leader] \in {"setup", "tell", "turn", "frozen", "call", "wait"}
    BY <1>4, LeaderDoes, LeaderEnds
  <2>2. script'[Leader] \in {"tell", "turn", "frozen", "call", "wait"}
    BY <1>4, LeaderDoes, LeaderEnds DEF Lists, GoesOn
  <2>3. ~Kill
    BY <2>1, LeaderEnds
  <2>4. 6 \notin signal'[f]
    BY <1>1, <1>2, <2>1, <2>3, LeaderKeeps DEF SafeInv, Collected
  <2> QED BY <2>2, <2>4 DEF Closing, Collected
<1>5. CASE response
  <2>1. UNCHANGED <<script, timer, at, skew, overhead>> /\ signal'[f] = signal[f]
    BY <1>1, <1>5, Types DEF response, Done, logs
  <2> QED BY <1>1, <1>2, <2>1 DEF Collected
<1>6. CASE collect_logs
  <2>1. script[Leader] = "turn" /\ script'[Leader] = "kill" /\ at' = 1
    BY <1>1, <1>6, LeaderEnds DEF Lists
  <2>2. 6 \notin signal'[f]
    BY <1>1, <1>2, <2>1, LeaderEnds, LeaderKeeps DEF SafeInv, Collected
  <2>3. script[f] # "exited"
    BY <1>1, <2>1 DEF SafeInv, EvenInv, LoopInv, Closing
  <2> QED BY <1>1, <2>1, <2>2, <2>3 DEF Closing, Collected
<1>7. CASE Kill
  <2>1. /\ script[Leader] = "kill" /\ timer[Leader] = 0 /\ at \in DOMAIN IPs
        /\ signal' = [signal EXCEPT ![IPs[at]] = @ \union {6}]
        /\ GoesOn("kill", "skew")
        /\ script'[Leader] = "skew" => timer'[Leader] = 2 * Second
    BY <1>7, LeaderEnds
  <2>2. 6 \in signal'[f] <=> 6 \in signal[f] \/ k = at
    BY <1>1, <2>1, Types
  <2>3. 10 \notin signal'[f]
    BY <1>1, <1>3, <2>1, LeaderDoes, LeaderKeeps DEF SafeInv, EvenInv, TimeInv
  <2>4. 6 \in signal'[f] => timer[f] <= Second
    BY <1>1, LeaderLoop DEF LoopInv
  <2> QED BY <1>1, <1>2, <1>3, <2>1, <2>2, <2>3, <2>4 DEF GoesOn, Closing, Collected
<1>8. CASE FetchSkew
  <2>1. /\ script[Leader] = "skew" /\ timer[Leader] = 0
        /\ skew' = [skew EXCEPT ![IPs[at]] = log[IPs[at]]]
        /\ GoesOn("skew", "overhead")
    BY <1>1, <1>8, LeaderEnds
  <2>2. 6 \notin signal[f] /\ f \in saved
    BY <1>2, <1>3, <2>1 DEF Closing, Collected
  <2>3. 6 \notin signal'[f]
    BY <1>1, <2>1, <2>2, LeaderEnds, LeaderKeeps DEF SafeInv
  <2>4. Len(log[f]) = Turns + 1
    <3>1. 10 \notin signal[f] /\ LOPP = Turns /\ Told(k)
      BY <1>1, <2>1 DEF SafeInv, EvenInv, TimeInv, LoopInv, Closing, Told
    <3> QED BY <2>1, <3>1 DEF SafeInv, EvenInv, LinesInv, Rounds
  <2>5. at \in DOMAIN IPs
    BY <1>1, <2>1 DEF SafeInv, EvenInv, LoopInv
  <2>6. /\ k = at => Len(skew'[f]) = Turns + 1
        /\ k # at => skew'[f] = skew[f]
    BY <1>1, <2>1, <2>4, <2>5, Types
  <2> QED BY <1>1, <1>2, <1>3, <2>1, <2>2, <2>3, <2>5, <2>6 DEF GoesOn, Closing, Collected
<1>9. CASE FetchOverhead
  <2>1. /\ script[Leader] = "overhead"
        /\ overhead' = overhead \union {g \in saved : at \in DOMAIN IPs /\ g = IPs[at]}
        /\ GoesOn("overhead", "done")
    BY <1>9, LeaderEnds
  <2>2. 6 \notin signal[f] /\ f \in saved /\ skew' = skew
    BY <1>2, <1>9, <2>1 DEF Closing, FetchOverhead, Collected
  <2>3. 6 \notin signal'[f]
    BY <1>1, <2>1, <2>2, LeaderEnds, LeaderKeeps DEF SafeInv
  <2> QED BY <1>1, <1>2, <1>3, <2>1, <2>2, <2>3 DEF GoesOn, Closing, Collected
<1> QED BY <1>4, <1>5, <1>6, <1>7, <1>8, <1>9 DEF leader_sh

LEMMA LeaderEven ==
  ASSUME SafeInv, IInv', Punctual, FirstIsAnother, leader_sh
  PROVE  EvenInv'
<1>1. Second > 0
  BY Numbers DEF Punctual
<1> QED BY <1>1, LeaderCredit, LeaderLines, LeaderLoop, LeaderTime, LeaderCollect
       DEF EvenInv

-----------------------------------------------------------------------------
\* Time passes for all the timers alike, and never for a script that has a signal to
\* look at.
LEMMA TickEven ==
  ASSUME SafeInv, Tick
  PROVE  EvenInv'
<1> USE Numbers
<1>1. /\ UNCHANGED <<script, signal, LOPP, at, latch, credited, log, saved, skew, overhead>>
      /\ \A b \in Board : /\ ~Overdue(b)
                          /\ timer'[b] = IF timer[b] = 0 THEN 0 ELSE timer[b] - 1
  BY DEF Tick, logs
<1>2. CreditInv' /\ LinesInv' /\ LogsAligned'
  BY <1>1 DEF SafeInv, EvenInv, CreditInv, LinesInv, LogsAligned, Ended, Asked, AskedOf,
              Rounds, Told
<1>3. \A b \in Board : timer[b] \in Nat /\ timer'[b] \in Nat
                       /\ timer'[b] <= timer[b] /\ timer[b] - 1 <= timer'[b]
  <2> SUFFICES ASSUME NEW b \in Board
               PROVE  timer[b] \in Nat /\ timer'[b] \in Nat
                      /\ timer'[b] <= timer[b] /\ timer[b] - 1 <= timer'[b]
    OBVIOUS
  <2>1. timer[b] \in Nat
    BY Types
  <2>2. timer'[b] = IF timer[b] = 0 THEN 0 ELSE timer[b] - 1
    BY <1>1
  <2> QED BY <2>1, <2>2
<1>4. \A f \in Follower : 10 \in signal[f] \/ 6 \in signal[f] =>
                            timer[f] > 0 /\ timer'[f] = timer[f] - 1
  <2>1. \A f \in Follower : 10 \in signal[f] \/ 6 \in signal[f] => script[f] = "loop"
    BY DEF SafeInv, EvenInv, LoopInv
  <2> QED BY <1>1, <1>3, <2>1 DEF Overdue
<1>5. LoopInv'
  BY <1>1, <1>3 DEF SafeInv, EvenInv, LoopInv
<1>6. TimeInv'
  <2>1. Asked' <=> Asked
    BY <1>1 DEF Asked, AskedOf
  <2> SUFFICES ASSUME NEW x \in Follower, 10 \in signal'[x]
               PROVE  /\ script'[Leader] \notin {"setup", "skew", "overhead", "done"}
                      /\ script'[Leader] = "turn" /\ LOPP' > 0 => timer'[x] <= timer'[Leader]
                      /\ script'[Leader] \in {"frozen", "kill"} => timer'[x] < timer'[Leader]
                      /\ script'[Leader] = "wait" => Asked'
                      /\ \A g \in Follower : /\ script'[g] # "frozen"
                                             /\ script'[g] = "lead" => timer'[x] < timer'[g]
    BY DEF TimeInv
  <2>2. /\ script[Leader] \notin {"setup", "skew", "overhead", "done"}
        /\ script[Leader] = "turn" /\ LOPP > 0 => timer[x] <= timer[Leader]
        /\ script[Leader] \in {"frozen", "kill"} => timer[x] < timer[Leader]
        /\ script[Leader] = "wait" => Asked
        /\ \A g \in Follower : /\ script[g] # "frozen"
                               /\ script[g] = "lead" => timer[x] < timer[g]
    BY <1>1 DEF SafeInv, EvenInv, TimeInv
  <2>3. timer[x] > 0 /\ timer'[x] = timer[x] - 1
    BY <1>1, <1>4
  <2>4. \A b \in Board : /\ timer[x] <= timer[b] => timer'[x] <= timer'[b]
                         /\ timer[x] < timer[b] => timer'[x] < timer'[b]
    BY <1>3, <2>3
  <2> QED BY <1>1, <2>1, <2>2, <2>4
<1>7. CollectInv'
  <2>1. \A f \in Follower : 6 \in signal[f] /\ timer[f] < timer[Leader] =>
                              timer'[f] < timer'[Leader]
    BY <1>3, <1>4
  <2> QED BY <1>1, <2>1 DEF SafeInv, EvenInv, CollectInv, Collected
<1> QED BY <1>2, <1>5, <1>6, <1>7 DEF EvenInv

\* An interrupt counts the freeze whose end it serves, and nothing else.
LEMMA ServeEven ==
  ASSUME SafeInv, NEW b \in Board, NEW edge \in {"rise", "fall"}, Serve(b, edge)
  PROVE  EvenInv'
<1>1. /\ UNCHANGED <<script, timer, signal, LOPP, at, log, saved, skew, overhead>>
      /\ latch' = [latch EXCEPT ![b] = @ \ {edge}] /\ edge \in latch[b]
  BY DEF Serve, logs
<1>2. Ended' = Ended /\ (Asked' <=> Asked)
  BY <1>1 DEF Ended, Asked, AskedOf
<1>3. CreditInv'
  <2>1. /\ latch \in [Board -> SUBSET {"rise", "fall"}] /\ credited \in [Board -> Nat]
        /\ Ended \in Int
    BY Types DEF Ended
  <2>2. CASE edge = "rise"
    <3>1. credited' = credited /\ \A x \in Board : "fall" \in latch'[x] <=> "fall" \in latch[x]
      BY <1>1, <2>1, <2>2 DEF Serve
    <3> QED BY <1>2, <3>1 DEF SafeInv, EvenInv, CreditInv
  <2>3. CASE edge = "fall"
    <3>1. /\ credited' = [credited EXCEPT ![b] = @ + 1]
          /\ "fall" \notin latch'[b] /\ \A x \in Board \ {b} : latch'[x] = latch[x]
      BY <1>1, <2>1, <2>3 DEF Serve
    <3>2. credited[b] = Ended - 1
      BY <1>1, <2>3 DEF SafeInv, EvenInv, CreditInv
    <3>3. credited'[b] = Ended
      BY <2>1, <3>1, <3>2
    <3> QED BY <1>2, <2>1, <3>1, <3>3 DEF SafeInv, EvenInv, CreditInv
  <2> QED BY <2>2, <2>3
<1>4. LinesInv' /\ LogsAligned' /\ LoopInv' /\ TimeInv' /\ CollectInv'
  BY <1>1, <1>2 DEF SafeInv, EvenInv, LinesInv, LogsAligned, LoopInv, TimeInv, CollectInv,
                    Rounds, Told, Collected
<1> QED BY <1>3, <1>4 DEF EvenInv

LEMMA EvenInit == Init => EvenInv
<1> SUFFICES ASSUME Init PROVE EvenInv
  OBVIOUS
<1> USE Numbers
<1>1. /\ \A b \in Board : /\ script[b] = "setup" /\ timer[b] = 0 /\ signal[b] = {}
                          /\ latch[b] = {} /\ credited[b] = 0 /\ log[b] = <<>>
      /\ LOPP = 0 /\ at = 1
  BY DEF Init
<1>2. CreditInv
  <2>1. Ended = 0
    BY <1>1 DEF Ended, Asked, AskedOf
  <2> QED BY <1>1, <2>1 DEF CreditInv
<1>3. LinesInv /\ LogsAligned
  BY <1>1 DEF LinesInv, LogsAligned, Rounds, Told
<1>4. LoopInv /\ TimeInv
  BY <1>1 DEF LoopInv, TimeInv, Closing
<1>5. CollectInv
  BY <1>1 DEF CollectInv, Collected, Closing
<1> QED BY <1>2, <1>3, <1>4, <1>5 DEF EvenInv

LEMMA SafeStep ==
  ASSUME Punctual, FirstIsAnother, SafeInv, [Next]_vars
  PROVE  SafeInv'
<1>1. TypeOK' /\ IInv'
  BY TypeStep, StepInv DEF SafeInv
<1>2. CalmInv'
  BY <1>1, CalmStep DEF SafeInv, Punctual
<1>3. EvenInv'
  <2>1. CASE Tick
    BY <2>1, TickEven
  <2>2. ASSUME NEW b \in Board, NEW edge \in {"rise", "fall"}, Serve(b, edge)
        PROVE  EvenInv'
    BY <2>2, ServeEven
  <2>3. CASE leader_sh
    BY <1>1, <2>3, LeaderEven
  <2>4. ASSUME NEW f \in Follower, local_sh(f) PROVE EvenInv'
    BY <1>1, <2>4, FollowerEven
  <2>5. CASE UNCHANGED vars
    BY <2>5 DEF SafeInv, vars, wire, logs, EvenInv, CreditInv, LinesInv, LogsAligned,
                LoopInv, TimeInv, CollectInv, Collected, Ended, Asked, AskedOf, Rounds, Told
  <2> QED BY <2>1, <2>2, <2>3, <2>4, <2>5 DEF Next, ServeInterrupt
<1> QED BY <1>1, <1>2, <1>3 DEF SafeInv

\* The logs stay even: each step keeps what is owed, told and collected.
THEOREM LogsInvariant ==
  ASSUME Punctual, FirstIsAnother
  PROVE  Spec => []SafeInv
<1>1. Init => SafeInv
  BY TypeInit, InitInv, CalmInit, EvenInit DEF SafeInv
<1>2. SafeInv /\ [Next]_vars => SafeInv'
  BY SafeStep
<1> QED BY <1>1, <1>2, PTL DEF Spec

\* Whatever the boards, the order of the turns and the durations, if an interrupt is
\* served in less than a second, an ssh takes some time and the first turn is not the
\* leader's own: line k of every skew log was written after k - 1 freezes, though no
\* follower confirms that it has written (leader.sh:585-631, local.sh:40-49).
THEOREM LinesBelongTogether ==
  ASSUME Punctual, FirstIsAnother
  PROVE  Spec => []LogsAligned
<1>1. SafeInv => LogsAligned
  BY DEF SafeInv, EvenInv
<1> QED BY <1>1, LogsInvariant, PTL

\* Then what the leader has when it ends is complete: a line of each board for the
\* beginning and one for every turn, and its overhead log (leader.sh:517-560).
THEOREM EverythingCollected ==
  ASSUME Punctual, FirstIsAnother
  PROVE  Spec => []AllCollected
<1>1. ASSUME SafeInv, script[Leader] = "done", NEW f \in Follower
      PROVE  Len(skew[f]) = Turns + 1 /\ f \in overhead
  <2>1. PICK k \in DOMAIN IPs : f = IPs[k]
    BY Numbers
  <2> QED BY <1>1, <2>1 DEF SafeInv, EvenInv, CollectInv, Collected
<1>2. SafeInv => AllCollected
  BY <1>1 DEF AllCollected
<1> QED BY <1>2, LogsInvariant, PTL
=============================================================================
