--------------------------- MODULE MigrationRunner ---------------------------
(***************************************************************************)
(* Instances of the service that start at the same time bring the schema   *)
(* of the one MySQL database up to date before they serve                  *)
(* (migration_runner.py).  During a rolling upgrade they come with         *)
(* different sets of numbered scripts.                                     *)
(*                                                                         *)
(* The lock is a MySQL user lock (GET_LOCK): it belongs to the connection  *)
(* and goes with it.  A script runs on a connection of its own, whose      *)
(* statements commit one by one, and is recorded afterwards: a process     *)
(* that stops in between leaves a script that ran and is not recorded.     *)
(***************************************************************************)
EXTENDS Naturals

CONSTANTS
    Instances,
    Scripts,      \* the versions of all scripts
    Known,        \* per instance: the scripts of its migrations directory
    None,         \* nobody
    MaxFaults     \* bound: scripts that fail and processes that stop

ASSUME MigrationAssumption ==
    /\ None \notin Instances \cup Scripts
    /\ Scripts \subseteq Nat
    /\ Known \in [Instances -> SUBSET Scripts]
    /\ MaxFaults \in Nat

VARIABLES
    lock,        \* the connection that holds the lock, by its instance
    recorded,    \* schema_migrations
    completed,   \* history: the scripts that ran to their end
    begun,       \* history, per script: how often it was begun ...
    broken,      \* ... and how often it failed or was not recorded
    inst,        \* per instance
    faults       \* the counter for the bound

vars == <<lock, recorded, completed, begun, broken, inst, faults>>

TypeOK ==
    /\ lock \in Instances \cup {None}
    /\ recorded \in SUBSET Scripts /\ completed \in SUBSET Scripts
    /\ begun \in [Scripts -> Nat] /\ broken \in [Scripts -> Nat]
    /\ inst \in [Instances -> [pc : {"down", "wait", "load", "next", "run", "ran", "up"},
                               pending : SUBSET Scripts, at : Scripts \cup {None}]]
    /\ faults \in Nat

Down == [pc |-> "down", pending |-> {}, at |-> None]

Init ==
    /\ lock = None
    /\ recorded = {} /\ completed = {}
    /\ begun = [k \in Scripts |-> 0] /\ broken = [k \in Scripts |-> 0]
    /\ inst = [i \in Instances |-> Down]
    /\ faults = 0

-----------------------------------------------------------------------------

Goto(i, pc) == inst' = [inst EXCEPT ![i].pc = pc]

log == <<completed, begun, broken, faults>>

\* discover_migration_scripts, _ensure_schema_migrations_table
Start(i) ==
    /\ inst[i].pc = "down"
    /\ Goto(i, "wait")
    /\ UNCHANGED <<lock, recorded, log>>

\* Mutant: the result of GET_LOCK is not looked at.
AcquireAnyway(i) ==
    /\ inst[i].pc = "wait"
    /\ lock' = IF lock = None THEN i ELSE lock
    /\ Goto(i, "load")
    /\ UNCHANGED <<recorded, log>>

\* _try_acquire_migration_lock: GET_LOCK answers 1, ...
Acquire(i) ==
    /\ inst[i].pc = "wait" /\ lock = None
    /\ lock' = i
    /\ Goto(i, "load")
    /\ UNCHANGED <<recorded, log>>

\* ... or 0 after the timeout: MigrationError, and the process ends.
TimesOut(i) ==
    /\ inst[i].pc = "wait" /\ lock # None
    /\ inst' = [inst EXCEPT ![i] = Down]
    /\ UNCHANGED <<lock, recorded, log>>

\* Mutant: only scripts newer than the newest that is recorded are pending.
PendingNewer(i) == {k \in Known[i] : \A j \in recorded : j < k}

\* _load_applied_versions
Pending(i) == Known[i] \ recorded

LoadApplied(i) ==
    /\ inst[i].pc = "load"
    /\ inst' = [inst EXCEPT ![i].pc = "next", ![i].pending = Pending(i)]
    /\ UNCHANGED <<lock, recorded, log>>

\* Mutant: the scripts are not sorted.
IsFirstAny(k, pending) == k \in pending

\* The scripts are sorted by their version strings; 001 to 999 sort like their numbers.
IsFirst(k, pending) == k \in pending /\ \A j \in pending : k <= j

\* _execute_sql_script
Begin(i, k) ==
    /\ inst[i].pc = "next" /\ IsFirst(k, inst[i].pending)
    /\ begun' = [begun EXCEPT ![k] = @ + 1]
    /\ inst' = [inst EXCEPT ![i].pc = "run", ![i].at = k]
    /\ UNCHANGED <<lock, recorded, completed, broken, faults>>

Completes(i) ==
    /\ inst[i].pc = "run"
    /\ completed' = completed \cup {inst[i].at}
    /\ Goto(i, "ran")
    /\ UNCHANGED <<lock, recorded, begun, broken, faults>>

\* Mutant: the version the schema has reached is recorded, off by one.
RecordNext(i) ==
    /\ inst[i].pc = "ran"
    /\ recorded' = recorded \cup {inst[i].at + 1}
    /\ inst' = [inst EXCEPT ![i].pc = "next", ![i].pending = @ \ {inst[i].at}]
    /\ UNCHANGED <<lock, log>>

\* _record_applied_migration and the commit; the version is the primary key.
Record(i) ==
    /\ inst[i].pc = "ran" /\ inst[i].at \notin recorded
    /\ recorded' = recorded \cup {inst[i].at}
    /\ inst' = [inst EXCEPT ![i].pc = "next", ![i].pending = @ \ {inst[i].at}]
    /\ UNCHANGED <<lock, log>>

\* Mutant: the lock outlives the process, as a row of a table would.
UnlockedNever(i) == lock

\* The lock after instance i released it or lost its connection.
Unlocked(i) == IF lock = i THEN None ELSE lock

Finish(i) ==
    /\ inst[i].pc = "next" /\ inst[i].pending = {}
    /\ inst' = [inst EXCEPT ![i] = [Down EXCEPT !.pc = "up"]]
    /\ lock' = None
    /\ UNCHANGED <<recorded, log>>

\* The script fails, or its INSERT, or the process stops in between: rollback,
\* MigrationError, the finally.  The statements that were executed stay.
Fails(i) ==
    /\ faults < MaxFaults /\ faults' = faults + 1
    /\ inst[i].pc \in {"run", "ran"}
    /\ broken' = [broken EXCEPT ![inst[i].at] = @ + 1]
    /\ inst' = [inst EXCEPT ![i] = Down]
    /\ lock' = Unlocked(i)
    /\ UNCHANGED <<recorded, completed, begun>>

\* The process stops at any other point.
Stops(i) ==
    /\ faults < MaxFaults /\ faults' = faults + 1
    /\ inst[i].pc \in {"wait", "load", "next", "up"}
    /\ inst' = [inst EXCEPT ![i] = Down]
    /\ lock' = Unlocked(i)
    /\ UNCHANGED <<recorded, completed, begun, broken>>

Migrate(i) ==
    \/ Start(i) \/ Acquire(i) \/ LoadApplied(i) \/ Completes(i) \/ Record(i) \/ Finish(i)
    \/ \E k \in Scripts : Begin(i, k)

Next ==
    \E i \in Instances : Migrate(i) \/ TimesOut(i) \/ Fails(i) \/ Stops(i)

Spec == Init /\ [][Next]_vars

\* Scripts end, and an instance that ended with an error is started again.
LiveSpec == Spec /\ \A i \in Instances : WF_vars(Migrate(i))

-----------------------------------------------------------------------------
(* Properties *)

\* No script is run a second time unless its first run failed or was not recorded: two
\* instances that start together do not both run it.
RunsOnce == \A k \in Scripts : begun[k] <= 1 + broken[k]

\* A script is begun on top of all older ones its release comes with, whichever instance
\* ran those, and what is recorded did run.
OnTopOfOlder ==
    /\ recorded \subseteq completed
    /\ \A i \in Instances : inst[i].pc \in {"run", "ran"} =>
          \A j \in Known[i] : j < inst[i].at => j \in recorded

\* An instance that serves finds the schema it was written for.
ServesMigrated == \A i \in Instances : inst[i].pc = "up" => Known[i] \subseteq recorded

\* Every instance comes up in the end: no process that stopped keeps the others out.
EveryInstanceServes == \A i \in Instances : <>[](inst[i].pc = "up")
=============================================================================
