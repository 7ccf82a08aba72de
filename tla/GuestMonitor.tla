---------------------------- MODULE GuestMonitor ----------------------------
(***************************************************************************)
(* What the guest is promised by scePthreadMutex* and scePthreadCond*: a   *)
(* monitor whose Wait releases the mutex and joins the waiters in one      *)
(* step, resumes only after it left the waiters, and then holds the mutex  *)
(* again as deeply as before.  Module PthreadCond implements it.           *)
(***************************************************************************)
EXTENDS Naturals

CONSTANTS Threads, Mutexes, Conds, NULL

VARIABLES
  holder,    \* [Mutexes -> Threads or NULL]
  level,     \* [Threads -> [Mutexes -> Nat]]: locks taken, suspended ones too
  waiting,   \* [Conds -> SUBSET Threads]
  parked     \* [Threads -> Mutexes or NULL]: the mutex a Wait will take back

monitorVars == <<holder, level, waiting, parked>>

MonitorInit ==
  /\ holder = [m \in Mutexes |-> NULL]
  /\ level = [t \in Threads |-> [m \in Mutexes |-> 0]]
  /\ waiting = [c \in Conds |-> {}]
  /\ parked = [t \in Threads |-> NULL]

Lock(t, m) ==
  /\ parked[t] = NULL
  /\ \/ holder[m] = NULL /\ level[t][m] = 0
     \/ holder[m] = t
  /\ holder' = [holder EXCEPT ![m] = t]
  /\ level' = [level EXCEPT ![t][m] = @ + 1]
  /\ UNCHANGED <<waiting, parked>>

Unlock(t, m) ==
  /\ parked[t] = NULL
  /\ holder[m] = t
  /\ level' = [level EXCEPT ![t][m] = @ - 1]
  /\ holder' = IF level[t][m] = 1 THEN [holder EXCEPT ![m] = NULL] ELSE holder
  /\ UNCHANGED <<waiting, parked>>

Wait(t, c, m) ==
  /\ parked[t] = NULL
  /\ holder[m] = t
  /\ holder' = [holder EXCEPT ![m] = NULL]
  /\ waiting' = [waiting EXCEPT ![c] = @ \union {t}]
  /\ parked' = [parked EXCEPT ![t] = m]
  /\ UNCHANGED level

\* A signal, one thread of a broadcast, a timeout or a cancellation.
Wake(t, c) ==
  /\ t \in waiting[c]
  /\ waiting' = [waiting EXCEPT ![c] = @ \ {t}]
  /\ UNCHANGED <<holder, level, parked>>

Resume(t) ==
  /\ parked[t] # NULL
  /\ \A c \in Conds : t \notin waiting[c]
  /\ holder[parked[t]] = NULL
  /\ holder' = [holder EXCEPT ![parked[t]] = t]
  /\ parked' = [parked EXCEPT ![t] = NULL]
  /\ UNCHANGED <<level, waiting>>

MonitorNext ==
  \E t \in Threads :
    \/ \E m \in Mutexes : \/ Lock(t, m) \/ Unlock(t, m)
                          \/ \E c \in Conds : Wait(t, c, m)
    \/ \E c \in Conds : Wake(t, c)
    \/ Resume(t)

MonitorSpec == MonitorInit /\ [][MonitorNext]_monitorVars
=============================================================================
