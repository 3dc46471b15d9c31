--------------------------- MODULE MigrationProofs ---------------------------
(***************************************************************************)
(* Proofs about MigrationRunner, for any number of instances, any releases *)
(* and any number of failures.                                             *)
(***************************************************************************)
EXTENDS MigrationRunner, TLAPS

Row == [pc : {"down", "wait", "load", "next", "run", "ran", "up"},
        pending : SUBSET Scripts, at : Scripts \cup {None}]

\* An instance that migrates holds the lock, ...
HoldsLock == \A i \in Instances : inst[i].pc \in {"load", "next", "run", "ran"} => lock = i

\* ... so what it takes for pending is, until it is done, ...
PendingIsCurrent ==
    \A i \in Instances : inst[i].pc \in {"next", "run", "ran"} => inst[i].pending = Known[i] \ recorded

\* ... and it runs the first of that.
RunsFirst ==
    \A i \in Instances : inst[i].pc \in {"run", "ran"} =>
        inst[i].at \in Scripts /\ IsFirst(inst[i].at, inst[i].pending)

RecordsWhatRan ==
    /\ recorded \subseteq completed
    /\ \A i \in Instances : inst[i].pc = "ran" => inst[i].at \in completed

Running(k) == \E i \in Instances : inst[i].pc \in {"run", "ran"} /\ inst[i].at = k

\* The runs of a script: those that broke, and one that is recorded or under way.
RunsAccounted ==
    \A k \in Scripts :
        /\ begun[k] <= 1 + broken[k]
        /\ k \notin recorded /\ ~Running(k) => begun[k] <= broken[k]

MigrationInv ==
    /\ TypeOK /\ HoldsLock /\ PendingIsCurrent /\ RunsFirst
    /\ RecordsWhatRan /\ RunsAccounted /\ ServesMigrated

-----------------------------------------------------------------------------

LEMMA DownTyped == Down \in Row /\ Down.pc = "down"
BY DEF Down, Row

LEMMA InitInv == Init => MigrationInv
<1> SUFFICES ASSUME Init PROVE MigrationInv
  OBVIOUS
<1>1. \A i \in Instances : inst[i].pc = "down"
  BY DownTyped DEF Init
<1>2. TypeOK
  BY DownTyped DEF Init, TypeOK, Row
<1>3. RunsAccounted
  BY DEF Init, RunsAccounted
<1> QED
  BY <1>1, <1>2, <1>3
     DEF MigrationInv, HoldsLock, PendingIsCurrent, RunsFirst, RecordsWhatRan, ServesMigrated, Init

\* A step in which instance i moves to row r and nothing is begun, completed or recorded.
LEMMA Moves ==
    ASSUME MigrationInv, NEW i \in Instances, NEW r \in Row, inst' = [inst EXCEPT ![i] = r],
           UNCHANGED <<recorded, completed, begun>>,
           broken' \in [Scripts -> Nat], \A k \in Scripts : broken[k] <= broken'[k],
           inst[i].pc \in {"run", "ran"} => broken'[inst[i].at] = broken[inst[i].at] + 1,
           faults' \in Nat, lock' \in Instances \cup {None},
           \A j \in Instances \ {i} : lock = j => lock' = j,
           r.pc \notin {"run", "ran"}, r.pc \in {"load", "next"} => lock' = i,
           r.pc = "next" => r.pending = Known[i] \ recorded,
           r.pc = "up" => Known[i] \subseteq recorded
    PROVE  MigrationInv'
<1>0. TypeOK /\ MigrationAssumption
  BY MigrationAssumption DEF MigrationInv
<1>1. inst'[i] = r /\ \A j \in Instances \ {i} : inst'[j] = inst[j]
  BY <1>0 DEF TypeOK
<1>2. TypeOK'
  BY <1>0 DEF TypeOK, Row
<1>3. HoldsLock'
  BY <1>1 DEF MigrationInv, HoldsLock
<1>4. PendingIsCurrent'
  BY <1>1 DEF MigrationInv, PendingIsCurrent
<1>5. RunsFirst'
  BY <1>1 DEF MigrationInv, RunsFirst
<1>6. RecordsWhatRan'
  BY <1>1 DEF MigrationInv, RecordsWhatRan
<1>7. ServesMigrated'
  BY <1>1 DEF MigrationInv, ServesMigrated
<1>8. RunsAccounted'
  <2> SUFFICES ASSUME NEW k \in Scripts
               PROVE  /\ begun'[k] <= 1 + broken'[k]
                      /\ k \notin recorded' /\ ~Running(k)' => begun'[k] <= broken'[k]
    BY DEF RunsAccounted
  <2>1. begun[k] \in Nat /\ broken[k] \in Nat /\ broken'[k] \in Nat /\ broken[k] <= broken'[k] /\ begun' = begun
    BY <1>0 DEF TypeOK
  <2>2. begun[k] <= 1 + broken[k] /\ (k \notin recorded /\ ~Running(k) => begun[k] <= broken[k])
    BY DEF MigrationInv, RunsAccounted
  <2>3. CASE Running(k) /\ ~Running(k)'
    <3>1. inst[i].pc \in {"run", "ran"} /\ inst[i].at = k
      BY <1>1, <2>3 DEF Running
    <3> QED
      BY <2>1, <2>2, <3>1
  <2>4. CASE ~(Running(k) /\ ~Running(k)')
    BY <2>1, <2>2, <2>4
  <2> QED
    BY <2>3, <2>4
<1> QED
  BY <1>2, <1>3, <1>4, <1>5, <1>6, <1>7, <1>8 DEF MigrationInv

\* Start, Acquire, TimesOut, LoadApplied, Finish and Stops.
LEMMA QuietSteps ==
    ASSUME MigrationInv, NEW i \in Instances,
           Start(i) \/ Acquire(i) \/ TimesOut(i) \/ LoadApplied(i) \/ Finish(i) \/ Stops(i)
    PROVE  MigrationInv'
<1>0. /\ inst[i] \in Row /\ lock \in Instances \cup {None} /\ faults \in Nat /\ broken \in [Scripts -> Nat]
      /\ Known[i] \subseteq Scripts /\ None \notin Instances /\ inst \in [Instances -> Row]
  BY MigrationAssumption DEF MigrationInv, TypeOK, Row
<1>1. ASSUME NEW pc \in {"wait", "load"}, Goto(i, pc)
      PROVE  \E r \in Row : inst' = [inst EXCEPT ![i] = r] /\ r.pc = pc
  <2> DEFINE r == [inst[i] EXCEPT !.pc = pc]
  <2>1. r \in Row /\ r.pc = pc
    BY <1>0 DEF Row
  <2>2. inst' = [inst EXCEPT ![i] = r]
    BY <1>0, <1>1 DEF Goto
  <2> QED
    BY <2>1, <2>2
<1>2. \A k \in Scripts : broken[k] <= broken[k]
  BY <1>0
<1>f. /\ UNCHANGED <<recorded, completed, begun>> /\ inst[i].pc \notin {"run", "ran"}
      /\ broken' \in [Scripts -> Nat] /\ \A k \in Scripts : broken[k] <= broken'[k]
      /\ faults' \in Nat
  BY <1>0, <1>2 DEF Start, Acquire, TimesOut, LoadApplied, Finish, Stops, log
<1>3. CASE Start(i)
  <2>1. PICK r \in Row : inst' = [inst EXCEPT ![i] = r] /\ r.pc = "wait"
    BY <1>1, <1>3 DEF Start
  <2> QED
    BY <1>0, <1>f, <1>3, <2>1, Moves DEF Start
<1>4. CASE Acquire(i)
  <2>1. PICK r \in Row : inst' = [inst EXCEPT ![i] = r] /\ r.pc = "load"
    BY <1>1, <1>4 DEF Acquire
  <2> QED
    BY <1>0, <1>f, <1>4, <2>1, Moves DEF Acquire
<1>5. CASE TimesOut(i)
  BY <1>0, <1>f, <1>5, DownTyped, Moves DEF TimesOut
<1>6. CASE LoadApplied(i)
  <2> DEFINE p == Known[i] \ recorded
             r == [inst[i] EXCEPT !.pc = "next", !.pending = p]
  <2>1. p \in SUBSET Scripts
    BY <1>0
  <2>2. inst' = [inst EXCEPT ![i] = r]
    BY <1>0, <1>6 DEF LoadApplied, Pending
  <2> HIDE DEF p
  <2>3. r \in Row /\ r.pc = "next" /\ r.pending = p
    BY <1>0, <2>1 DEF Row
  <2>4. lock = i /\ inst[i].pc = "load"
    BY <1>6 DEF LoadApplied, MigrationInv, HoldsLock
  <2> HIDE DEF r
  <2> QED
    BY <1>0, <1>f, <1>6, <2>2, <2>3, <2>4, Moves DEF LoadApplied, p
<1>7. CASE Finish(i)
  <2> DEFINE r == [Down EXCEPT !.pc = "up"]
  <2>1. r \in Row /\ r.pc = "up"
    BY DownTyped DEF Row
  <2>2. Known[i] \subseteq recorded /\ lock = i
    BY <1>7 DEF Finish, MigrationInv, PendingIsCurrent, HoldsLock
  <2>3. inst' = [inst EXCEPT ![i] = r]
    BY <1>7 DEF Finish
  <2> HIDE DEF r
  <2> QED
    BY <1>0, <1>f, <1>7, <2>1, <2>2, <2>3, Moves DEF Finish
<1>8. CASE Stops(i)
  <2>1. lock' \in Instances \cup {None} /\ \A j \in Instances \ {i} : lock = j => lock' = j
    BY <1>0, <1>8 DEF Stops, Unlocked
  <2>2. inst' = [inst EXCEPT ![i] = Down]
    BY <1>8 DEF Stops
  <2> QED
    BY <1>f, <2>1, <2>2, DownTyped, Moves
<1> QED
  BY <1>3, <1>4, <1>5, <1>6, <1>7, <1>8

LEMMA FailsStep ==
    ASSUME MigrationInv, NEW i \in Instances, Fails(i) PROVE MigrationInv'
<1>0. /\ inst[i].at \in Scripts /\ broken \in [Scripts -> Nat] /\ faults \in Nat
      /\ lock \in Instances \cup {None} /\ None \notin Instances
  BY MigrationAssumption DEF Fails, MigrationInv, RunsFirst, TypeOK
<1>1. /\ broken' \in [Scripts -> Nat] /\ \A k \in Scripts : broken[k] <= broken'[k]
      /\ broken'[inst[i].at] = broken[inst[i].at] + 1
  BY <1>0 DEF Fails
<1>2. lock' \in Instances \cup {None} /\ \A j \in Instances \ {i} : lock = j => lock' = j
  BY <1>0 DEF Fails, Unlocked
<1>3. inst' = [inst EXCEPT ![i] = Down] /\ UNCHANGED <<recorded, completed, begun>> /\ faults' \in Nat
  BY <1>0 DEF Fails
<1> QED
  BY <1>1, <1>2, <1>3, DownTyped, Moves

\* Nobody else migrates while instance i does.
LEMMA Alone ==
    ASSUME MigrationInv, NEW i \in Instances, inst[i].pc \in {"load", "next", "run", "ran"},
           NEW j \in Instances, j # i
    PROVE  inst[j].pc \in {"down", "wait", "up"}
BY DEF MigrationInv, HoldsLock, TypeOK

LEMMA BeginStep ==
    ASSUME MigrationInv, NEW i \in Instances, NEW k \in Scripts, Begin(i, k) PROVE MigrationInv'
<1>0. inst[i].pc = "next" /\ IsFirst(k, inst[i].pending) /\ k \notin recorded /\ lock = i
  BY DEF Begin, MigrationInv, PendingIsCurrent, HoldsLock, IsFirst
<1>1. /\ inst'[i].pc = "run" /\ inst'[i].at = k /\ inst'[i].pending = inst[i].pending
      /\ \A j \in Instances \ {i} : inst'[j] = inst[j]
  BY DEF Begin, MigrationInv, TypeOK
<1>2. \A j \in Instances \ {i} : inst[j].pc \in {"down", "wait", "up"}
  BY <1>0, Alone
<1>3. TypeOK'
  <2>1. [inst[i] EXCEPT !.pc = "run", !.at = k] \in Row
    BY DEF MigrationInv, TypeOK, Row
  <2>2. inst' = [inst EXCEPT ![i] = [inst[i] EXCEPT !.pc = "run", !.at = k]]
    BY DEF Begin, MigrationInv, TypeOK
  <2>3. inst' \in [Instances -> Row]
    BY <2>1, <2>2 DEF MigrationInv, TypeOK, Row
  <2>4. begun' \in [Scripts -> Nat]
    BY DEF Begin, MigrationInv, TypeOK
  <2> QED
    BY <2>3, <2>4 DEF Begin, MigrationInv, TypeOK, Row
<1>4. HoldsLock' /\ PendingIsCurrent' /\ RunsFirst' /\ RecordsWhatRan' /\ ServesMigrated'
  BY <1>0, <1>1, <1>2 DEF Begin, MigrationInv, HoldsLock, PendingIsCurrent, RunsFirst, RecordsWhatRan, ServesMigrated
<1>5. RunsAccounted'
  <2> SUFFICES ASSUME NEW l \in Scripts
               PROVE  /\ begun'[l] <= 1 + broken'[l]
                      /\ l \notin recorded' /\ ~Running(l)' => begun'[l] <= broken'[l]
    BY DEF RunsAccounted
  <2>1. begun[l] \in Nat /\ broken[l] \in Nat /\ broken' = broken /\ recorded' = recorded
    BY DEF Begin, MigrationInv, TypeOK
  <2>2. ~Running(l)
    BY <1>0, <1>2 DEF Running
  <2>3. begun[l] <= 1 + broken[l] /\ (l \notin recorded => begun[l] <= broken[l])
    BY <2>2 DEF MigrationInv, RunsAccounted
  <2>4. begun'[l] = IF l = k THEN begun[l] + 1 ELSE begun[l]
    BY DEF Begin, MigrationInv, TypeOK
  <2>5. l = k => Running(l)'
    BY <1>1 DEF Running
  <2> QED
    BY <1>0, <2>1, <2>3, <2>4, <2>5
<1> QED
  BY <1>3, <1>4, <1>5 DEF MigrationInv

LEMMA CompletesStep ==
    ASSUME MigrationInv, NEW i \in Instances, Completes(i) PROVE MigrationInv'
<1>0. inst[i].pc = "run" /\ lock = i /\ inst[i].at \in Scripts
  BY DEF Completes, MigrationInv, HoldsLock, RunsFirst
<1>1. /\ inst'[i].pc = "ran" /\ inst'[i].at = inst[i].at /\ inst'[i].pending = inst[i].pending
      /\ \A j \in Instances \ {i} : inst'[j] = inst[j]
  BY DEF Completes, Goto, MigrationInv, TypeOK
<1>2. TypeOK'
  BY <1>0 DEF Completes, Goto, MigrationInv, TypeOK
<1>3. HoldsLock' /\ PendingIsCurrent' /\ RunsFirst' /\ RecordsWhatRan' /\ ServesMigrated'
  BY <1>0, <1>1 DEF Completes, MigrationInv, HoldsLock, PendingIsCurrent, RunsFirst, RecordsWhatRan, ServesMigrated
<1>4. \A k \in Scripts : Running(k) => Running(k)'
  BY <1>0, <1>1 DEF Running
<1>5. RunsAccounted'
  BY <1>4 DEF Completes, MigrationInv, RunsAccounted
<1> QED
  BY <1>2, <1>3, <1>5 DEF MigrationInv

LEMMA RecordStep ==
    ASSUME MigrationInv, NEW i \in Instances, Record(i) PROVE MigrationInv'
<1>0. /\ inst[i].pc = "ran" /\ lock = i /\ inst[i].at \in Scripts /\ inst[i].at \in completed
      /\ inst[i].pending = Known[i] \ recorded
  BY DEF Record, MigrationInv, HoldsLock, RunsFirst, RecordsWhatRan, PendingIsCurrent
<1>1. /\ inst'[i].pc = "next" /\ inst'[i].pending = inst[i].pending \ {inst[i].at}
      /\ \A j \in Instances \ {i} : inst'[j] = inst[j]
  BY DEF Record, MigrationInv, TypeOK
<1>2. \A j \in Instances \ {i} : inst[j].pc \in {"down", "wait", "up"}
  BY <1>0, Alone
<1>3. TypeOK'
  <2>1. inst[i].pending \ {inst[i].at} \in SUBSET Scripts
    BY DEF MigrationInv, TypeOK
  <2>2. [inst[i] EXCEPT !.pc = "next", !.pending = @ \ {inst[i].at}] \in Row
    BY <2>1 DEF MigrationInv, TypeOK, Row
  <2>3. inst' = [inst EXCEPT ![i] = [inst[i] EXCEPT !.pc = "next", !.pending = @ \ {inst[i].at}]]
    BY DEF Record, MigrationInv, TypeOK
  <2> QED
    BY <1>0, <2>2, <2>3 DEF Record, MigrationInv, TypeOK, log, Row
<1>4. HoldsLock' /\ PendingIsCurrent' /\ RunsFirst' /\ RecordsWhatRan' /\ ServesMigrated'
  BY <1>0, <1>1, <1>2
     DEF Record, MigrationInv, HoldsLock, PendingIsCurrent, RunsFirst, RecordsWhatRan, ServesMigrated, log
<1>5. \A k \in Scripts : Running(k) => k = inst[i].at
  BY <1>2 DEF Running
<1>6. RunsAccounted'
  BY <1>5 DEF Record, MigrationInv, RunsAccounted, log
<1> QED
  BY <1>3, <1>4, <1>6 DEF MigrationInv

LEMMA NextInv == MigrationInv /\ [Next]_vars => MigrationInv'
<1> SUFFICES ASSUME MigrationInv, [Next]_vars PROVE MigrationInv'
  OBVIOUS
<1>1. CASE UNCHANGED vars
  BY <1>1 DEF vars, MigrationInv, TypeOK, HoldsLock, PendingIsCurrent, RunsFirst, RecordsWhatRan,
              RunsAccounted, Running, ServesMigrated
<1>2. CASE Next
  BY <1>2, QuietSteps, FailsStep, BeginStep, CompletesStep, RecordStep DEF Next, Migrate
<1> QED
  BY <1>1, <1>2

LEMMA AlwaysMigrationInv == Spec => []MigrationInv
BY InitInv, NextInv, PTL DEF Spec

\* Every reachable state of the migration is well typed.
THEOREM MigrationTypes == Spec => []TypeOK
<1>1. MigrationInv => TypeOK
  BY DEF MigrationInv
<1> QED
  BY <1>1, AlwaysMigrationInv, PTL

\* A script runs a second time only after a run that failed or was not recorded.
THEOREM NoScriptTwice == Spec => []RunsOnce
<1>1. MigrationInv => RunsOnce
  BY DEF MigrationInv, RunsAccounted, RunsOnce
<1> QED
  BY <1>1, AlwaysMigrationInv, PTL

\* A script runs on top of every older script of its release, and only what ran is recorded.
THEOREM InOrder == Spec => []OnTopOfOlder
<1>1. MigrationInv => OnTopOfOlder
  <2> SUFFICES ASSUME MigrationInv, NEW i \in Instances, inst[i].pc \in {"run", "ran"},
                      NEW j \in Known[i], j < inst[i].at
               PROVE  j \in recorded
    BY DEF MigrationInv, RecordsWhatRan, OnTopOfOlder
  <2>1. inst[i].pending = Known[i] \ recorded /\ \A l \in inst[i].pending : inst[i].at <= l
    BY DEF MigrationInv, PendingIsCurrent, RunsFirst, IsFirst
  <2>2. j \in Nat /\ inst[i].at \in Nat
    BY MigrationAssumption DEF MigrationInv, RunsFirst
  <2> QED
    BY <2>1, <2>2
<1> QED
  BY <1>1, AlwaysMigrationInv, PTL

\* An instance that serves has the schema its release was written for.
THEOREM UpMeansMigrated == Spec => []ServesMigrated
<1>1. MigrationInv => ServesMigrated
  BY DEF MigrationInv
<1> QED
  BY <1>1, AlwaysMigrationInv, PTL
=============================================================================
