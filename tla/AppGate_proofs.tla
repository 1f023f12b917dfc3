--------------------------- MODULE AppGate_proofs ---------------------------
(***************************************************************************)
(* Proofs about AppGate, for every number of services and of polls.        *)
(***************************************************************************)
EXTENDS AppGate, TLAPS

\* The provers that are tried, in turn, on a leaf that names none.
USE SMTT(10), ZenonT(20), SMTT(20), ZenonT(40), SMTT(40)

\* A unit that is not active has no process.
UnitHasProcess == \A a \in Apps : unit[a] # "active" => proc[a] = "none"

\* Until Recovery is over no signal was sent, so that every gate is on.
NotReleased ==
  m_pc = "recovery" => \A a \in Apps : force_pagecache[a] /\ ~signal[a] /\ ~synced[a]

\* A service is completed when it has no process, or has been sent the signal;
\* and a process that is forked later is late.
CompletedOpen ==
  \A a \in Apps : completed[a] /\ proc[a] # "none" => signal[a] \/ ~force_pagecache[a] \/ late[a]

\* all_finished: every service that the round has looked at is completed.
RoundComplete ==
  /\ m_pc = "recovery" => index = 1
  /\ m_pc \in {"query", "kill"} /\ all_finished => \A b \in 1 .. index - 1 : completed[b]
  /\ m_pc = "round" /\ all_finished => \A b \in Apps : completed[b]
  /\ m_pc = "normal" /\ ~timeout => \A b \in Apps : completed[b]

AppInv == TypeOK /\ UnitHasProcess /\ NotReleased /\ CompletedOpen /\ RoundComplete
-----------------------------------------------------------------------------
\* Nothing has been released when fsctl starts.
LEMMA InitInv == Init => AppInv
<1>1. SUFFICES ASSUME Init PROVE AppInv
  OBVIOUS
<1>2. TypeOK
  <2>1. 1 \in Apps /\ 0 \in 0 .. MaxPolls - 1
    BY AppGateAssumption DEF Apps
  <2>2. QED
    BY Zenon, ZenonT(60), <1>1, <2>1 DEF Init, TypeOK
<1>3. UnitHasProcess /\ NotReleased
  BY <1>1 DEF Init, UnitHasProcess, NotReleased
<1>4. CompletedOpen /\ RoundComplete
  BY <1>1 DEF Init, CompletedOpen, RoundComplete
<1>5. QED
  BY <1>2, <1>3, <1>4 DEF AppInv

\* systemd and the Apps: a process starts with its gate on and is late if its
\* service is completed; it leaves, or opens its gate when the signal arrives.
LEMMA AppStepInv ==
  ASSUME AppInv, NEW a \in Apps,
         Activate(a) \/ Fork(a) \/ Construct(a) \/ Exit(a) \/ Deliver(a) \/ Sync(a)
  PROVE  AppInv'
<1> USE DEF AppInv
<1>1. UNCHANGED fsctl
  BY DEF Activate, Fork, Construct, Exit, Deliver, Sync, Gone
<1>2. TypeOK'
  BY ZenonT(30), ZenonT(60), <1>1 DEF TypeOK, fsctl, Activate, Fork, Construct, Exit, Deliver, Sync, Gone
<1>3. UnitHasProcess'
  BY <1>1 DEF TypeOK, UnitHasProcess, fsctl, Activate, Fork, Construct, Exit, Deliver, Sync, Gone
<1>4. NotReleased'
  BY <1>1 DEF TypeOK, NotReleased, fsctl, Activate, Fork, Construct, Exit, Deliver, Sync, Gone
<1>5. CompletedOpen'
  BY <1>1 DEF TypeOK, CompletedOpen, UnitHasProcess, fsctl, Activate, Fork, Construct, Exit, Deliver, Sync, Gone
<1>6. RoundComplete'
  BY <1>1 DEF RoundComplete, fsctl
<1>7. QED
  BY <1>2, <1>3, <1>4, <1>5, <1>6

\* NextApp goes to the next service or to the end of the round; either way all
\* services before the new index have been looked at.
LEMMA NextAppInv ==
  ASSUME TypeOK, NextApp, completed' \in [Apps -> BOOLEAN], timeout' = timeout,
         all_finished' => \A b \in 1 .. index : completed'[b]
  PROVE  /\ index' \in Apps /\ m_pc' \in {"query", "round"}
         /\ RoundComplete'
<1>1. index \in 1 .. NApps /\ NApps \in Nat
  BY AppGateAssumption DEF TypeOK, Apps
<1>2. CASE index < NApps
  <2>1. index' = index + 1 /\ m_pc' = "query"
    BY <1>2 DEF NextApp
  <2>2. index' \in Apps /\ index' - 1 = index
    BY <1>1, <1>2, <2>1 DEF Apps
  <2>3. QED
    BY <2>1, <2>2 DEF RoundComplete
<1>3. CASE ~(index < NApps)
  <2>1. index' = index /\ m_pc' = "round"
    BY <1>3 DEF NextApp
  <2>2. index' \in Apps /\ 1 .. index = Apps
    BY <1>1, <1>3, <2>1 DEF Apps
  <2>3. QED
    BY Zenon, ZenonT(60), <2>1, <2>2 DEF RoundComplete
<1>4. QED
  BY <1>2, <1>3

\* A query completes a service only when its unit has no process; a service that
\* is not completed ends all_finished.
LEMMA QueryInv == ASSUME AppInv, Query PROVE AppInv'
<1> USE DEF AppInv
<1>1. UNCHANGED <<apps, polls, timeout>> /\ m_pc = "query"
  BY DEF Query
<1>2. index \in Apps /\ index \in Nat /\ all_finished \in BOOLEAN /\ completed \in [Apps -> BOOLEAN]
  BY AppGateAssumption DEF TypeOK, Apps
<1>3. all_finished => \A b \in 1 .. index : b # index => completed[b]
  <2>1. \A b \in 1 .. index : b # index => b \in 1 .. index - 1
    BY <1>2
  <2>2. QED
    BY <1>1, <2>1 DEF RoundComplete
<1>4. CASE completed[index] /\ NextApp /\ UNCHANGED <<completed, all_finished>>
  <2>1. all_finished' => \A b \in 1 .. index : completed'[b]
    BY <1>3, <1>4
  <2>2. index' \in Apps /\ m_pc' \in {"query", "round"} /\ RoundComplete'
    BY <1>1, <1>2, <1>4, <2>1, NextAppInv
  <2>3. QED
    BY <1>1, <1>4, <2>2 DEF TypeOK, UnitHasProcess, NotReleased, CompletedOpen, apps
<1>5. CASE /\ ~completed[index] /\ unit[index] \in {"inactive", "failed"}
           /\ completed' = [completed EXCEPT ![index] = TRUE]
           /\ NextApp /\ UNCHANGED all_finished
  <2>1. completed' \in [Apps -> BOOLEAN] /\ (all_finished' => \A b \in 1 .. index : completed'[b])
    <3>1. \A b \in 1 .. index : b \in Apps
      BY <1>2, AppGateAssumption DEF Apps
    <3>2. QED
      BY <1>2, <1>3, <1>5, <3>1
  <2>2. index' \in Apps /\ m_pc' \in {"query", "round"} /\ RoundComplete'
    BY <1>1, <1>5, <2>1, NextAppInv
  <2>3. proc[index] = "none"
    BY <1>2, <1>5 DEF UnitHasProcess
  <2>4. CompletedOpen'
    BY <1>1, <1>2, <1>5, <2>3 DEF CompletedOpen, apps
  <2>5. QED
    BY <1>1, <1>5, <2>1, <2>2, <2>4 DEF TypeOK, UnitHasProcess, NotReleased, apps
<1>6. CASE m_pc' = "kill" /\ UNCHANGED <<index, completed, all_finished>>
  BY <1>1, <1>6 DEF TypeOK, UnitHasProcess, NotReleased, CompletedOpen, RoundComplete, apps
<1>7. CASE all_finished' = FALSE /\ NextApp /\ UNCHANGED completed
  <2>1. index' \in Apps /\ m_pc' \in {"query", "round"} /\ RoundComplete'
    BY <1>1, <1>2, <1>7, NextAppInv
  <2>2. QED
    BY Zenon, ZenonT(60), <1>1, <1>7, <2>1 DEF TypeOK, UnitHasProcess, NotReleased, CompletedOpen, apps
<1>8. QED
  BY Zenon, ZenonT(60), <1>4, <1>5, <1>6, <1>7 DEF Query

\* KillUnit: the service is completed and its process has been sent the signal.
LEMMA KillInv == ASSUME AppInv, Kill PROVE AppInv'
<1> USE DEF AppInv
<1>1. /\ UNCHANGED <<unit, proc, force_pagecache, late, synced, all_finished, polls, timeout>>
      /\ m_pc = "kill"
  BY DEF Kill
<1>2. index \in Apps /\ index \in Nat /\ all_finished \in BOOLEAN /\ completed \in [Apps -> BOOLEAN]
  BY AppGateAssumption DEF TypeOK, Apps
<1>3. CASE /\ signal' = [signal EXCEPT ![index] = proc[index] # "none"]
           /\ completed' = [completed EXCEPT ![index] = TRUE]
           /\ NextApp
  <2>1. completed' \in [Apps -> BOOLEAN] /\ (all_finished' => \A b \in 1 .. index : completed'[b])
    <3>1. \A b \in 1 .. index : b \in Apps /\ (b # index => b \in 1 .. index - 1)
      BY <1>2, AppGateAssumption DEF Apps
    <3>2. all_finished => \A b \in 1 .. index - 1 : completed[b]
      BY <1>1 DEF RoundComplete
    <3>3. QED
      BY <1>1, <1>2, <1>3, <3>1, <3>2
  <2>2. index' \in Apps /\ m_pc' \in {"query", "round"} /\ RoundComplete'
    BY <1>1, <1>3, <2>1, NextAppInv
  <2>3. CompletedOpen'
    BY <1>1, <1>2, <1>3 DEF TypeOK, CompletedOpen
  <2>4. QED
    BY <1>1, <1>3, <2>1, <2>2, <2>3 DEF TypeOK, UnitHasProcess, NotReleased
<1>4. CASE m_pc' = "failed" /\ UNCHANGED <<signal, completed, index>>
  BY <1>1, <1>4 DEF TypeOK, UnitHasProcess, NotReleased, CompletedOpen, RoundComplete
<1>5. QED
  BY <1>3, <1>4 DEF Kill

\* A round ends in NORMAL with all services completed, or by the timeout.
LEMMA RoundInv == ASSUME AppInv, Recovered \/ Round PROVE AppInv'
<1> USE DEF AppInv
<1>1. UNCHANGED <<apps, completed>>
  BY DEF Recovered, Round
<1>2. CASE Recovered
  <2>1. \A b \in 1 .. index - 1 : completed[b]
    <3>1. index - 1 = 0
      BY <1>2 DEF Recovered, RoundComplete
    <3>2. QED
      BY <3>1
  <2>2. QED
    BY <1>1, <1>2, <2>1 DEF Recovered, TypeOK, UnitHasProcess, NotReleased, CompletedOpen, RoundComplete, apps
<1>3. CASE Round
  <2>1. 1 \in Apps /\ (polls + 1 # MaxPolls => polls + 1 \in 0 .. MaxPolls - 1)
    BY AppGateAssumption DEF TypeOK, Apps
  <2>2. TypeOK'
    BY Zenon, ZenonT(60), <1>1, <1>3, <2>1 DEF Round, TypeOK, apps
  <2>3. RoundComplete'
    <3>1. \A b \in 1 .. 1 - 1 : FALSE
      OBVIOUS
    <3>2. QED
      BY <1>1, <1>3, <3>1 DEF Round, RoundComplete
  <2>4. QED
    BY <1>1, <1>3, <2>2, <2>3 DEF Round, UnitHasProcess, NotReleased, CompletedOpen, apps
<1>4. QED
  BY <1>2, <1>3

(* The inductive invariant of the release: in every state the services     *)
(* that release_app_services has dealt with are open, or late, and the     *)
(* others have not been signalled before the end of Recovery.              *)
THEOREM ReleaseInvariant == Spec => []AppInv
<1>1. AppInv /\ [Next]_vars => AppInv'
  <2>1. SUFFICES ASSUME AppInv, [Next]_vars PROVE AppInv'
    OBVIOUS
  <2>2. CASE Fsctl
    BY <2>1, <2>2, QueryInv, KillInv, RoundInv DEF Fsctl
  <2>3. CASE \E a \in Apps : Activate(a) \/ Fork(a) \/ Construct(a) \/ Exit(a) \/ Deliver(a) \/ Sync(a)
    BY <2>1, <2>3, AppStepInv
  <2>4. CASE UNCHANGED vars
    BY <2>1, <2>4 DEF AppInv, TypeOK, UnitHasProcess, NotReleased, CompletedOpen, RoundComplete, vars, apps, fsctl
  <2>5. QED
    BY <2>1, <2>2, <2>3, <2>4 DEF Next
<1>2. QED
  BY InitInv, <1>1, PTL DEF Spec

(* No App's sync goes through, past the wrappers of the preload library,   *)
(* while fsctl still repairs the peer.                                     *)
THEOREM GatedDuringRecovery == Spec => []GateHolds
<1>1. AppInv => GateHolds
  BY DEF AppInv, NotReleased, GateHolds
<1>2. QED
  BY <1>1, ReleaseInvariant, PTL

(* When release_app_services ends without a timeout, every App that runs   *)
(* is open or about to be, or was started after its service was done with. *)
THEOREM OpenAtNormal == Spec => []NormalOpen
<1>1. AppInv => NormalOpen
  BY DEF AppInv, CompletedOpen, RoundComplete, NormalOpen
<1>2. QED
  BY <1>1, ReleaseInvariant, PTL

(* release_app_services stays inside its list of services and its bound on *)
(* polls.                                                                  *)
THEOREM TypeCorrect == Spec => []TypeOK
<1>1. AppInv => TypeOK
  BY DEF AppInv
<1>2. QED
  BY <1>1, ReleaseInvariant, PTL
=============================================================================
