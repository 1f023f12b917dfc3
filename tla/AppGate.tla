------------------------------ MODULE AppGate -------------------------------
(***************************************************************************)
(* The release of the App services at the end of Recovery:                 *)
(* release_app_services polls the units over D-Bus and sends SIGUSR2, the  *)
(* preload library's constructor installs the handler that turns the gate  *)
(* off, and its wrappers refuse fsync and its kin while the gate is on.    *)
(* systemd and the App processes are as the units describe them            *)
(* (Type=simple, Restart=no, After=app_param-mount.service).               *)
(***************************************************************************)
EXTENDS Integers

CONSTANTS
  NApps,        \* the services, in the order of app_services
  MaxPolls      \* polls before APP_READY_TIMEOUT_USEC

ASSUME AppGateAssumption == NApps \in Nat \ {0} /\ MaxPolls \in Nat \ {0}

Apps == 1 .. NApps

VARIABLES
  unit,         \* ActiveState
  proc,         \* "none", "loading" (the constructor has not run), "running"
  force_pagecache,
  signal,       \* SIGUSR2 is on its way
  late,         \* the process was forked after fsctl was done with its service
  synced,       \* a sync of the App has gone through
  m_pc,         \* fsctl: "recovery", "query", "kill", "round", "normal", "failed"
  index, completed, all_finished, polls, timeout

apps == <<unit, proc, force_pagecache, signal, late, synced>>
fsctl == <<m_pc, index, completed, all_finished, polls, timeout>>
vars == <<apps, fsctl>>

Init ==
  /\ unit = [a \in Apps |-> "inactive"]
  /\ proc = [a \in Apps |-> "none"]
  /\ force_pagecache = [a \in Apps |-> TRUE]
  /\ signal = [a \in Apps |-> FALSE]
  /\ late = [a \in Apps |-> FALSE] /\ synced = [a \in Apps |-> FALSE]
  /\ m_pc = "recovery" /\ index = 1 /\ completed = [a \in Apps |-> FALSE]
  /\ all_finished = TRUE /\ polls = 0 /\ timeout = FALSE
-----------------------------------------------------------------------------
(* systemd and the Apps.                                                   *)

Activate(a) ==
  /\ unit[a] = "inactive"
  /\ unit' = [unit EXCEPT ![a] = "activating"]
  /\ UNCHANGED <<proc, force_pagecache, signal, late, synced, fsctl>>

\* Active when the process has been forked.
Fork(a) ==
  /\ unit[a] = "activating"
  /\ unit' = [unit EXCEPT ![a] = "active"]
  /\ proc' = [proc EXCEPT ![a] = "loading"]
  /\ force_pagecache' = [force_pagecache EXCEPT ![a] = TRUE]
  /\ signal' = [signal EXCEPT ![a] = FALSE]
  /\ late' = [late EXCEPT ![a] = completed[a]]
  /\ UNCHANGED <<synced, fsctl>>

Gone(a, state) ==
  /\ unit' = [unit EXCEPT ![a] = state]
  /\ proc' = [proc EXCEPT ![a] = "none"]
  /\ signal' = [signal EXCEPT ![a] = FALSE]
  /\ UNCHANGED <<force_pagecache, late, synced, fsctl>>

\* eatmydata_init_once; it exits when a symbol is missing or sigaction fails.
Construct(a) ==
  /\ proc[a] = "loading"
  /\ \/ /\ proc' = [proc EXCEPT ![a] = "running"]
        /\ UNCHANGED <<unit, force_pagecache, signal, late, synced, fsctl>>
     \/ Gone(a, "failed")

Exit(a) == proc[a] = "running" /\ \E state \in {"inactive", "failed"} : Gone(a, state)

\* Without the handler SIGUSR2 ends the process.
Deliver(a) ==
  /\ signal[a]
  /\ IF proc[a] = "loading" THEN Gone(a, "failed")
     ELSE /\ force_pagecache' = [force_pagecache EXCEPT ![a] = FALSE]
          /\ signal' = [signal EXCEPT ![a] = FALSE]
          /\ UNCHANGED <<unit, proc, late, synced, fsctl>>

\* The wrapper does not look at force_pagecache.
SyncUngated(a) ==
  /\ proc[a] = "running"
  /\ synced' = [synced EXCEPT ![a] = TRUE]
  /\ UNCHANGED <<unit, proc, force_pagecache, signal, late, fsctl>>

\* fsync, sync, fdatasync, msync, sync_file_range, syncfs, O_SYNC, RWF_SYNC:
\* they fail while the gate is on.
Sync(a) ==
  /\ proc[a] = "running" /\ ~force_pagecache[a]
  /\ synced' = [synced EXCEPT ![a] = TRUE]
  /\ UNCHANGED <<unit, proc, force_pagecache, signal, late, fsctl>>
-----------------------------------------------------------------------------
(* release_app_services.                                                   *)

\* The bus cannot be opened, or the clock not be read: it fails at once.
Recovered ==
  /\ m_pc = "recovery"
  /\ m_pc' \in {"query", "failed"}
  /\ UNCHANGED <<apps, index, completed, all_finished, polls, timeout>>

NextApp == IF index < NApps THEN index' = index + 1 /\ m_pc' = "query"
                            ELSE index' = index /\ m_pc' = "round"

\* A service that cannot be asked is taken for completed.
QueryForgets ==
  /\ m_pc = "query"
  /\ \/ NextApp /\ UNCHANGED <<completed, all_finished>>
     \/ /\ ~completed[index] /\ unit[index] = "active"
        /\ m_pc' = "kill" /\ UNCHANGED <<index, completed, all_finished>>
  /\ UNCHANGED <<apps, polls, timeout>>

\* get_unit_active_state of the next service that is not completed.  The answer
\* may be an error.
Query ==
  /\ m_pc = "query"
  /\ \/ completed[index] /\ NextApp /\ UNCHANGED <<completed, all_finished>>
     \/ /\ ~completed[index] /\ unit[index] \in {"inactive", "failed"}
        /\ completed' = [completed EXCEPT ![index] = TRUE]
        /\ NextApp /\ UNCHANGED all_finished
     \/ /\ ~completed[index] /\ unit[index] = "active"
        /\ m_pc' = "kill" /\ UNCHANGED <<index, completed, all_finished>>
     \/ /\ ~completed[index]      \* activating, or an error
        /\ all_finished' = FALSE
        /\ NextApp /\ UNCHANGED completed
  /\ UNCHANGED <<apps, polls, timeout>>

\* KillUnit, a second call: it may fail, or find no process to send the signal
\* to, when the unit is gone by then.
Kill ==
  /\ m_pc = "kill"
  /\ \/ /\ signal' = [signal EXCEPT ![index] = proc[index] # "none"]
        /\ completed' = [completed EXCEPT ![index] = TRUE]
        /\ NextApp
     \/ m_pc' = "failed" /\ UNCHANGED <<signal, completed, index>>
  /\ UNCHANGED <<unit, proc, force_pagecache, late, synced, all_finished, polls, timeout>>

\* No deadline.
RoundForever ==
  /\ m_pc = "round"
  /\ IF all_finished THEN m_pc' = "normal" /\ UNCHANGED <<index, all_finished>>
     ELSE m_pc' = "query" /\ index' = 1 /\ all_finished' = TRUE
  /\ UNCHANGED <<apps, completed, polls, timeout>>

\* The end of a round: all finished, the clock cannot be read, the timeout (a
\* warning, and success), or another round.
Round ==
  /\ m_pc = "round"
  /\ IF all_finished
     THEN m_pc' = "normal" /\ UNCHANGED <<index, all_finished, polls, timeout>>
     ELSE \/ m_pc' = "failed" /\ UNCHANGED <<index, all_finished, polls, timeout>>
          \/ /\ polls + 1 = MaxPolls
             /\ m_pc' = "normal" /\ timeout' = TRUE /\ UNCHANGED <<index, all_finished, polls>>
          \/ /\ polls + 1 # MaxPolls
             /\ m_pc' = "query" /\ index' = 1 /\ all_finished' = TRUE /\ polls' = polls + 1
             /\ UNCHANGED timeout
  /\ UNCHANGED <<apps, completed>>

Fsctl == Recovered \/ Query \/ Kill \/ Round

Next ==
  \/ Fsctl
  \/ \E a \in Apps :
       Activate(a) \/ Fork(a) \/ Construct(a) \/ Exit(a) \/ Deliver(a) \/ Sync(a)

\* The fairness is that fsctl goes on: D-Bus calls return and usleep ends.
Spec == Init /\ [][Next]_vars /\ WF_vars(Fsctl)
-----------------------------------------------------------------------------
(* Properties.                                                             *)

(* The variables have their types: release_app_services never looks past   *)
(* the list of Apps and never polls more than MaxPolls rounds.             *)
TypeOK ==
  /\ unit \in [Apps -> {"inactive", "activating", "active", "failed"}]
  /\ proc \in [Apps -> {"none", "loading", "running"}]
  /\ force_pagecache \in [Apps -> BOOLEAN] /\ signal \in [Apps -> BOOLEAN] /\ synced \in [Apps -> BOOLEAN]
  /\ late \in [Apps -> BOOLEAN]
  /\ m_pc \in {"recovery", "query", "kill", "round", "normal", "failed"}
  /\ index \in Apps /\ completed \in [Apps -> BOOLEAN] /\ polls \in 0 .. MaxPolls - 1
  /\ all_finished \in BOOLEAN /\ timeout \in BOOLEAN

\* No sync of an App goes through while fsctl still repairs the peer.
GateHolds == m_pc = "recovery" => \A a \in Apps : ~synced[a]

\* When fsctl goes on to NORMAL, and not because its time was over, every App
\* that runs has its gate off or the signal on its way: the only exception is a
\* process that was started after its service had been found inactive, failed or
\* released.  (Nothing ever opens the gate of such a process.)
NormalOpen ==
  m_pc = "normal" /\ ~timeout =>
    \A a \in Apps : proc[a] # "none" => signal[a] \/ ~force_pagecache[a] \/ late[a]

\* release_app_services ends, whatever the units and D-Bus do.
ReleaseEnds == <>(m_pc \in {"normal", "failed"})
=============================================================================
