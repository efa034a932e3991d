---------------------------- MODULE SessionLocks ----------------------------
(***************************************************************************)
(* The mutexes of the sessions of one bot (SessionLocks in                 *)
(* crates/bot/src/telegram/mod.rs): a map from session ids to shared       *)
(* mutexes.  Worker turns (worker.rs) and deliveries (cron_delivery.rs)    *)
(* fetch the entry of their session, or insert one, clone the Arc, and     *)
(* wait for it.  An hourly sweep (lib.rs) drops the entries that nobody    *)
(* but the map refers to.                                                  *)
(*                                                                         *)
(* A mutex is an object of its own here, as in the code: after a sweep a   *)
(* session may get another one.  That two users of one session wait for    *)
(* the same object is what has to be shown.                                *)
(***************************************************************************)
CONSTANTS
  Users,      \* worker tasks and the delivery loop
  Sessions,
  Mutexes,    \* the mutex objects that may be allocated
  None

LocksAssumption == None \notin Users \cup Sessions \cup Mutexes

VARIABLES
  entry,      \* the map: per session its mutex or None
  wants,      \* per user the session it is about
  clone,      \* per user the Arc it holds a clone of, or None
  holder      \* per mutex the user with the guard, or None

lockVars == <<entry, wants, clone, holder>>

-----------------------------------------------------------------------------
Init ==
  /\ entry = [s \in Sessions |-> None]
  /\ wants = [u \in Users |-> None]
  /\ clone = [u \in Users |-> None]
  /\ holder = [m \in Mutexes |-> None]

(* Arc::strong_count(arc) > 1.                                             *)
Shared(m) == \E u \in Users : clone[u] = m

(* A mutex nobody refers to stands for a new allocation.                   *)
Unreferenced == {m \in Mutexes : ~Shared(m) /\ \A s \in Sessions : entry[s] # m}

FetchAnew(u, s) ==
  LET m == IF Unreferenced # {} THEN CHOOSE x \in Unreferenced : TRUE ELSE None
  IN  /\ clone[u] = None
      /\ m # None
      /\ entry' = [entry EXCEPT ![s] = m]
      /\ clone' = [clone EXCEPT ![u] = m]
      /\ wants' = [wants EXCEPT ![u] = s]
      /\ UNCHANGED holder

(* entry(id).or_insert_with(..).clone(), under the map's shard lock.       *)
Fetch(u, s) ==
  /\ clone[u] = None
  /\ IF entry[s] = None
     THEN FetchAnew(u, s)
     ELSE /\ clone' = [clone EXCEPT ![u] = entry[s]]
          /\ wants' = [wants EXCEPT ![u] = s]
          /\ UNCHANGED <<entry, holder>>

(* lock_owned().await                                                      *)
Acquire(u) ==
  /\ clone[u] # None
  /\ holder[clone[u]] = None
  /\ holder' = [holder EXCEPT ![clone[u]] = u]
  /\ UNCHANGED <<entry, wants, clone>>

Holds(u) == clone[u] # None /\ holder[clone[u]] = u

(* The guard is dropped, and with it the clone.                            *)
Release(u) ==
  /\ Holds(u)
  /\ holder' = [holder EXCEPT ![clone[u]] = None]
  /\ clone' = [clone EXCEPT ![u] = None]
  /\ wants' = [wants EXCEPT ![u] = None]
  /\ UNCHANGED entry

(* Mutant: every entry is dropped.                                         *)
SweepAll ==
  /\ entry' = [s \in Sessions |-> None]
  /\ UNCHANGED <<wants, clone, holder>>

(* retain(|_, arc| Arc::strong_count(arc) > 1)                             *)
Sweep ==
  /\ entry' = [s \in Sessions |->
                 IF entry[s] # None /\ Shared(entry[s]) THEN entry[s] ELSE None]
  /\ UNCHANGED <<wants, clone, holder>>

(* The bot dies: all of it is in memory.                                   *)
Forget ==
  /\ entry' = [s \in Sessions |-> None]
  /\ wants' = [u \in Users |-> None]
  /\ clone' = [u \in Users |-> None]
  /\ holder' = [m \in Mutexes |-> None]

Next ==
  \/ \E u \in Users, s \in Sessions : Fetch(u, s)
  \/ \E u \in Users : Acquire(u) \/ Release(u)
  \/ Sweep
  \/ Forget

Spec == Init /\ [][Next]_lockVars

-----------------------------------------------------------------------------
TypeOK ==
  /\ entry \in [Sessions -> Mutexes \cup {None}]
  /\ wants \in [Users -> Sessions \cup {None}]
  /\ clone \in [Users -> Mutexes \cup {None}]
  /\ holder \in [Mutexes -> Users \cup {None}]

(* Two users of one session never both have its guard, whatever was swept  *)
(* in between.                                                             *)
MutualExclusion ==
  \A u, v \in Users : Holds(u) /\ Holds(v) /\ wants[u] = wants[v] => u = v
=============================================================================
