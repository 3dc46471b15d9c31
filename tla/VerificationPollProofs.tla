----------------------- MODULE VerificationPollProofs -----------------------
(***************************************************************************)
(* The slots of verification polls are accounted for, and no code is       *)
(* returned without an authorization, for any number of polls.             *)
(***************************************************************************)
EXTENDS VerificationPoll, FiniteSetTheorems, TLAPS

\* A step in which no poll enters or leaves and the capacity stays as it is.
Stay == /\ UNCHANGED <<free, perClient, perLease, lease>>
        /\ InSlot' = InSlot

\* Every step admits, refuses or ends a poll, or leaves the slots alone.
LEMMA StepCases ==
    ASSUME TypeOK, [Next]_vars
    PROVE  \/ Stay
           \/ \E p \in Polls, l \in Leases, t \in Timeouts : Admit(p, l, t)
           \/ \E p \in Polls, l \in Leases : Refuse(p, l)
           \/ \E p \in InSlot, a \in Results : Leave(p, a)
<1>1. ASSUME NEW p \in Polls, NEW step \in Steps, Goto(p, step), step # "idle", pc[p] # "idle"
      PROVE  Stay
  BY <1>1 DEF Goto, Stay, InSlot, slots, TypeOK
<1>2. ASSUME NEW p \in Polls, Run(p) PROVE Stay \/ \E a \in Results : p \in InSlot /\ Leave(p, a)
  <2>1. ASSUME NextChannel(p), pc[p] # "idle" PROVE Stay
    BY <2>1, <1>1 DEF NextChannel, Steps
  <2>2. CASE UnsupportedFilter(p)
    BY <2>2 DEF UnsupportedFilter, InSlot, Results
  <2>3. CASE Checkpoint(p)
    BY <2>3, <1>1 DEF Checkpoint, InSlot, Results, Steps
  <2>4. CASE \E success \in BOOLEAN : ScanEmpty(p, success)
    BY <2>4, <2>1 DEF ScanEmpty, Scanning
  <2>5. CASE ScanRaises(p)
    BY <2>5 DEF ScanRaises, Scanning, InSlot, Results
  <2>6. CASE ScanExhausts(p)
    BY <2>6 DEF ScanExhausts, Scanning, InSlot, Results
  <2>7. CASE ScanMatches(p)
    BY <2>7, <1>1 DEF ScanMatches, Scanning, Steps
  <2>8. CASE ScanRejected(p)
    BY <2>8, <1>1 DEF ScanRejected, Steps
  <2>9. CASE ForceRefresh(p)
    BY <2>9, <1>1, <2>1 DEF ForceRefresh, Steps
  <2>10. CASE FinalCheckpoint(p)
    BY <2>10, <1>1 DEF FinalCheckpoint, InSlot, Results, Steps
  <2>11. CASE Deliver(p)
    BY <2>11 DEF Deliver, InSlot, Results
  <2>12. CASE Finish(p)
    BY <2>12 DEF Finish, InSlot, Results
  <2>13. CASE Sleep(p)
    BY <2>13, <1>1 DEF Sleep, Steps
  <2> QED
    BY <1>2, <2>2, <2>3, <2>4, <2>5, <2>6, <2>7, <2>8, <2>9, <2>10, <2>11, <2>12, <2>13 DEF Run
<1>3. ASSUME NEW p \in Polls, Wake(p) PROVE Stay
  BY <1>3, <1>1 DEF Wake, Steps
<1>4. ASSUME NEW p \in Polls, Interrupt(p) PROVE \E a \in Results : p \in InSlot /\ Leave(p, a)
  BY <1>4 DEF Interrupt, InSlot, Results
<1>5. ASSUME NEW p \in Polls, Elapse(p) PROVE Stay
  BY <1>5 DEF Elapse, Stay, InSlot, slots
<1>6. ASSUME NEW l \in Leases, Revoke(l) \/ Restore(l) PROVE Stay
  BY <1>6 DEF Revoke, Restore, Stay, InSlot, slots, round
<1>7. ASSUME UNCHANGED vars PROVE Stay
  BY <1>7 DEF vars, slots, round, Stay, InSlot
<1> QED
  BY <1>2, <1>3, <1>4, <1>5, <1>6, <1>7 DEF Next, InSlot

-----------------------------------------------------------------------------
(* The slots *)

LEMMA FiniteSlots ==
    ASSUME NEW S \in SUBSET Polls
    PROVE  IsFiniteSet(S) /\ Cardinality(S) \in Nat
BY PollAssumption, FS_Subset, FS_CardinalityType

\* A poll that enters a set, or leaves it, changes its size by one.
LEMMA Enters ==
    ASSUME NEW S \in SUBSET Polls, NEW p \in Polls, p \notin S
    PROVE  Cardinality(S \cup {p}) = Cardinality(S) + 1
BY FiniteSlots, FS_AddElement

LEMMA Leaves ==
    ASSUME NEW S \in SUBSET Polls, NEW p \in S
    PROVE  Cardinality(S \ {p}) = Cardinality(S) - 1 /\ Cardinality(S) >= 1
<1>1. Cardinality(S \ {p}) = Cardinality(S) - 1
  BY FiniteSlots, FS_RemoveElement
<1>2. Cardinality(S \ {p}) \in Nat /\ Cardinality(S) \in Nat
  <2>1. S \ {p} \in SUBSET Polls
    OBVIOUS
  <2> QED
    BY <2>1, FiniteSlots
<1> QED
  BY <1>1, <1>2

LEMMA AdmitSets ==
    ASSUME TypeOK, NEW p \in Polls, NEW l \in Leases, NEW t \in Timeouts, Admit(p, l, t)
    PROVE  /\ p \notin InSlot /\ InSlot' = InSlot \cup {p}
           /\ \A c \in Clients : OfClient(c)' = IF c = Owner[l] THEN OfClient(c) \cup {p} ELSE OfClient(c)
           /\ \A k \in Leases : OfLease(k)' = IF k = l THEN OfLease(k) \cup {p} ELSE OfLease(k)
<1>1. p \notin InSlot /\ InSlot' = InSlot \cup {p}
  BY DEF Admit, InSlot, TypeOK
<1>2. \A q \in InSlot : lease'[q] = lease[q]
  BY <1>1 DEF Admit, TypeOK, InSlot
<1>3. lease'[p] = l
  BY DEF Admit, TypeOK
<1>4. ASSUME NEW c \in Clients
      PROVE  OfClient(c)' = IF c = Owner[l] THEN OfClient(c) \cup {p} ELSE OfClient(c)
  BY <1>1, <1>2, <1>3 DEF OfClient
<1>5. ASSUME NEW k \in Leases
      PROVE  OfLease(k)' = IF k = l THEN OfLease(k) \cup {p} ELSE OfLease(k)
  BY <1>1, <1>2, <1>3 DEF OfLease
<1> QED
  BY <1>1, <1>4, <1>5

LEMMA LeaveSets ==
    ASSUME TypeOK, NEW p \in InSlot, NEW a \in Results, Leave(p, a)
    PROVE  /\ InSlot' = InSlot \ {p}
           /\ \A c \in Clients : OfClient(c)' = OfClient(c) \ {p}
           /\ \A k \in Leases : OfLease(k)' = OfLease(k) \ {p}
<1>1. InSlot' = InSlot \ {p}
  BY DEF Leave, InSlot, TypeOK
<1>2. lease' = lease
  BY DEF Leave
<1> QED
  BY <1>1, <1>2 DEF OfClient, OfLease

\* One step keeps the semaphore in step with the polls in progress.
LEMMA SlotsStep ==
    ASSUME TypeOK, SlotsAccounted, [Next]_vars
    PROVE  SlotsAccounted' /\ free' \in 0..MaxPolls
<1> USE DEF SlotsAccounted
<1>0. InSlot \in SUBSET Polls /\ Cardinality(InSlot) \in Nat /\ MaxPolls \in Nat /\ free \in Nat
  <2>1. InSlot \in SUBSET Polls
    BY DEF InSlot
  <2> QED
    BY <2>1, FiniteSlots, PollAssumption DEF TypeOK
<1>1. CASE Stay
  BY <1>0, <1>1 DEF Stay
<1>2. ASSUME NEW p \in Polls, NEW l \in Leases, NEW t \in Timeouts, Admit(p, l, t)
      PROVE  SlotsAccounted' /\ free' \in 0..MaxPolls
  <2>1. Cardinality(InSlot') = Cardinality(InSlot) + 1
    BY <1>0, <1>2, AdmitSets, Enters
  <2>2. free' = free - 1 /\ free > 0
    BY <1>2 DEF Admit
  <2> QED
    BY <1>0, <2>1, <2>2
<1>3. ASSUME NEW p \in Polls, NEW l \in Leases, Refuse(p, l)
      PROVE  SlotsAccounted' /\ free' \in 0..MaxPolls
  <2>1. free' = free /\ InSlot' = InSlot
    BY <1>3 DEF Refuse, InSlot
  <2> QED
    BY <1>0, <2>1
<1>4. ASSUME NEW p \in InSlot, NEW a \in Results, Leave(p, a)
      PROVE  SlotsAccounted' /\ free' \in 0..MaxPolls
  <2>1. Cardinality(InSlot') = Cardinality(InSlot) - 1 /\ Cardinality(InSlot) >= 1
    BY <1>0, <1>4, LeaveSets, Leaves
  <2>2. free' = free + 1
    BY <1>4 DEF Leave, GiveBack
  <2> QED
    BY <1>0, <2>1, <2>2
<1> QED
  BY <1>1, <1>2, <1>3, <1>4, StepCases

LEMMA MinusType == \A n \in Nat : Minus(n) \in Nat
BY DEF Minus

LEMMA LeaveType ==
    ASSUME TypeOK, NEW p \in Polls, NEW a \in Results, Leave(p, a)
    PROVE  /\ granted' \in [Leases -> BOOLEAN] /\ perClient' \in [Clients -> Nat]
           /\ perLease' \in [Leases -> Nat] /\ pc' \in [Polls -> Steps]
           /\ lease' \in [Polls -> Leases] /\ left' \in [Polls -> Nat]
           /\ chan' \in [Polls -> 0..2] /\ result' \in [Polls -> Results]
<1>1. lease[p] \in Leases /\ Owner[lease[p]] \in Clients
  BY PollAssumption DEF TypeOK
<1>2. perClient' \in [Clients -> Nat] /\ perLease' \in [Leases -> Nat]
  BY <1>1, MinusType DEF Leave, GiveBack, TypeOK
<1> QED
  BY <1>2 DEF Leave, TypeOK, Steps

\* A scan has a channel to scan.
ChannelsLeft == \A p \in Polls : pc[p] \in {"scan", "refresh", "rescan"} => chan[p] # 0

PollInv == TypeOK /\ SlotsAccounted /\ ChannelsLeft

\* One step keeps every variable in its type.
LEMMA TypeStep ==
    ASSUME PollInv, [Next]_vars
    PROVE  TypeOK' /\ ChannelsLeft'
<1> USE DEF PollInv
<1>0. free' \in 0..MaxPolls
  BY SlotsStep
<1>1. ASSUME NEW p \in Polls, NEW a \in Results, Leave(p, a),
             read' \in [Polls -> BOOLEAN], lapsed' \in [Polls -> BOOLEAN]
      PROVE  TypeOK' /\ ChannelsLeft'
  <2>1. TypeOK'
    BY <1>0, <1>1, LeaveType DEF TypeOK
  <2>2. ChannelsLeft'
    BY <1>1 DEF Leave, TypeOK, ChannelsLeft
  <2> QED
    BY <2>1, <2>2
<1>2. ASSUME NEW p \in Polls, NEW success \in BOOLEAN, Scanned(p, success)
      PROVE  read' \in [Polls -> BOOLEAN] /\ lapsed' \in [Polls -> BOOLEAN]
  BY <1>2 DEF Scanned, TypeOK
<1>3. ASSUME UNCHANGED <<read, lapsed>>
      PROVE  read' \in [Polls -> BOOLEAN] /\ lapsed' \in [Polls -> BOOLEAN]
  BY <1>3 DEF TypeOK
<1>4. ASSUME NEW p \in Polls, NEW step \in Steps, Goto(p, step),
             read' \in [Polls -> BOOLEAN], lapsed' \in [Polls -> BOOLEAN],
             left' \in [Polls -> Nat], chan' \in [Polls -> 0..2],
             \A q \in Polls \ {p} : chan'[q] = chan[q],
             step \in {"scan", "refresh", "rescan"} => chan'[p] # 0
      PROVE  TypeOK' /\ ChannelsLeft'
  <2>1. TypeOK'
    BY <1>0, <1>4 DEF Goto, slots, TypeOK
  <2>2. ChannelsLeft'
    BY <1>4 DEF Goto, TypeOK, ChannelsLeft
  <2> QED
    BY <2>1, <2>2
<1>5. ASSUME NEW p \in Polls, NextChannel(p), pc[p] \in {"scan", "refresh", "rescan"},
             read' \in [Polls -> BOOLEAN], lapsed' \in [Polls -> BOOLEAN]
      PROVE  TypeOK' /\ ChannelsLeft'
  <2>1. chan[p] \in {1, 2}
    BY <1>5 DEF TypeOK, ChannelsLeft
  <2>2. left' \in [Polls -> Nat] /\ chan' \in [Polls -> 0..2]
    BY <1>5, <2>1 DEF NextChannel, TypeOK
  <2>3. chan[p] > 1 => chan'[p] # 0
    BY <1>5, <2>1 DEF NextChannel, TypeOK
  <2>4. \A q \in Polls \ {p} : chan'[q] = chan[q]
    BY <1>5 DEF NextChannel, TypeOK
  <2>5. CASE chan[p] > 1
    <3>1. Goto(p, "scan")
      BY <1>5, <2>5 DEF NextChannel
    <3> QED
      BY <3>1, <1>4, <1>5, <2>2, <2>3, <2>4, <2>5 DEF Steps
  <2>6. CASE ~(chan[p] > 1)
    <3>1. Goto(p, "scanned")
      BY <1>5, <2>6 DEF NextChannel
    <3> QED
      BY <3>1, <1>4, <1>5, <2>2, <2>4 DEF Steps
  <2> QED
    BY <2>5, <2>6
<1>6. ASSUME NEW p \in Polls, NEW step \in Steps, Goto(p, step), UNCHANGED <<left, chan>>,
             read' \in [Polls -> BOOLEAN], lapsed' \in [Polls -> BOOLEAN],
             step \in {"refresh", "rescan"} => chan[p] # 0, step # "scan"
      PROVE  TypeOK' /\ ChannelsLeft'
  BY <1>6, <1>4 DEF TypeOK
<1>7. ASSUME NEW p \in Polls, Run(p) PROVE TypeOK' /\ ChannelsLeft'
  <2>1. CASE UnsupportedFilter(p)
    BY <2>1, <1>1, <1>3 DEF UnsupportedFilter, Results
  <2>2. CASE Checkpoint(p)
    <3>1. Channels[lease[p]] \in 1..2
      BY PollAssumption DEF TypeOK
    <3>2. CASE granted[lease[p]]
      <4>1. Goto(p, "scan") /\ chan' = [chan EXCEPT ![p] = Channels[lease[p]]] /\ UNCHANGED left
        BY <2>2, <3>2 DEF Checkpoint
      <4>2. chan' \in [Polls -> 0..2] /\ chan'[p] # 0 /\ \A q \in Polls \ {p} : chan'[q] = chan[q]
        BY <4>1, <3>1 DEF TypeOK
      <4>3. left' \in [Polls -> Nat]
        BY <4>1 DEF TypeOK
      <4>4. UNCHANGED <<read, lapsed>>
        BY <2>2 DEF Checkpoint
      <4> QED
        BY <4>1, <4>2, <4>3, <4>4, <1>4, <1>3 DEF Steps
    <3>3. CASE ~granted[lease[p]]
      BY <2>2, <3>3, <1>1, <1>3 DEF Checkpoint, Results
    <3> QED
      BY <3>2, <3>3
  <2>3. CASE \E success \in BOOLEAN : ScanEmpty(p, success)
    BY <2>3, <1>2, <1>5 DEF ScanEmpty, Scanning
  <2>4. CASE ScanRaises(p)
    BY <2>4, <1>1, <1>2 DEF ScanRaises, Results
  <2>5. CASE ScanExhausts(p)
    BY <2>5, <1>1, <1>2 DEF ScanExhausts, Results
  <2>6. CASE ScanMatches(p)
    BY <2>6, <1>6, <1>2 DEF ScanMatches, Steps
  <2>7. CASE ScanRejected(p)
    BY <2>7, <1>6, <1>2 DEF ScanRejected, Steps, ChannelsLeft
  <2>8. CASE ForceRefresh(p)
    BY <2>8, <1>6, <1>3, <1>5 DEF ForceRefresh, Steps, ChannelsLeft
  <2>9. CASE FinalCheckpoint(p)
    BY <2>9, <1>6, <1>3, <1>1 DEF FinalCheckpoint, Steps, Results
  <2>10. CASE Deliver(p)
    BY <2>10, <1>3, <1>1 DEF Deliver, Results
  <2>11. CASE Finish(p)
    BY <2>11, <1>3, <1>1 DEF Finish, Results
  <2>12. CASE Sleep(p)
    <3>1. left' \in [Polls -> Nat] /\ chan' \in [Polls -> 0..2] /\ chan' = chan
      BY <2>12 DEF Sleep, TypeOK
    <3> QED
      BY <2>12, <3>1, <1>4, <1>3 DEF Sleep, Steps
  <2> QED
    BY <1>7, <2>1, <2>2, <2>3, <2>4, <2>5, <2>6, <2>7, <2>8, <2>9, <2>10, <2>11, <2>12 DEF Run
<1>8. ASSUME NEW p \in Polls, Wake(p) PROVE TypeOK' /\ ChannelsLeft'
  BY <1>8, <1>6, <1>3 DEF Wake, Steps
<1>9. ASSUME NEW p \in Polls, Interrupt(p) PROVE TypeOK' /\ ChannelsLeft'
  BY <1>9, <1>1, <1>3 DEF Interrupt, Results
<1>10. ASSUME NEW p \in Polls, Elapse(p) PROVE TypeOK' /\ ChannelsLeft'
  BY <1>10 DEF Elapse, TypeOK, ChannelsLeft, slots
<1>11. ASSUME NEW l \in Leases, Revoke(l) \/ Restore(l) PROVE TypeOK' /\ ChannelsLeft'
  <2>1. granted' \in [Leases -> BOOLEAN] /\ lapsed' \in [Polls -> BOOLEAN]
    BY <1>11 DEF Revoke, Restore, round, TypeOK
  <2> QED
    BY <1>11, <2>1 DEF Revoke, Restore, slots, round, TypeOK, ChannelsLeft
<1>12. ASSUME NEW p \in Polls, NEW l \in Leases, Refuse(p, l) PROVE TypeOK' /\ ChannelsLeft'
  <2>1. Owner[l] \in Clients
    BY PollAssumption
  <2>2. perClient' \in [Clients -> Nat] /\ perLease' \in [Leases -> Nat]
    BY <1>12, <2>1, MinusType DEF Refuse, TypeOK
  <2> QED
    BY <1>12, <2>2 DEF Refuse, round, TypeOK, ChannelsLeft
<1>13. ASSUME NEW p \in Polls, NEW l \in Leases, NEW t \in Timeouts, Admit(p, l, t)
       PROVE  TypeOK' /\ ChannelsLeft'
  <2>1. Owner[l] \in Clients /\ t \in Nat
    BY PollAssumption
  <2>2. perClient' \in [Clients -> Nat] /\ perLease' \in [Leases -> Nat]
    BY <1>13, <2>1 DEF Admit, TypeOK
  <2>3. TypeOK'
    BY <1>0, <1>13, <2>1, <2>2 DEF Admit, TypeOK, Steps, Results
  <2>4. ChannelsLeft'
    BY <1>13 DEF Admit, TypeOK, ChannelsLeft
  <2> QED
    BY <2>3, <2>4
<1>14. ASSUME UNCHANGED vars PROVE TypeOK' /\ ChannelsLeft'
  BY <1>14 DEF vars, slots, round, TypeOK, ChannelsLeft
<1> QED
  BY <1>7, <1>8, <1>9, <1>10, <1>11, <1>12, <1>13, <1>14 DEF Next

LEMMA PollInvariant == Spec => []PollInv
<1>1. Init => PollInv
  <2>1. ASSUME Init PROVE TypeOK /\ ChannelsLeft
    BY <2>1, PollAssumption DEF Init, TypeOK, ChannelsLeft, Steps, Results
  <2>2. ASSUME Init PROVE SlotsAccounted
    <3>1. InSlot = {}
      BY <2>2 DEF Init, InSlot
    <3> QED
      BY <2>2, <3>1, FS_EmptySet, PollAssumption DEF Init, SlotsAccounted
  <2> QED
    BY <2>1, <2>2 DEF PollInv
<1>2. PollInv /\ [Next]_vars => PollInv'
  BY TypeStep, SlotsStep DEF PollInv
<1> QED
  BY <1>1, <1>2, PTL DEF Spec

\* However polls end, the semaphore accounts for every poll in progress: no slot
\* is lost and none is returned twice (acquire_verification_poll_slot).
THEOREM SlotsNeverLost == Spec => []SlotsAccounted
<1>1. PollInv => SlotsAccounted
  BY DEF PollInv
<1> QED
  BY <1>1, PollInvariant, PTL

-----------------------------------------------------------------------------
(* The counters *)

LEMMA CountsStep ==
    ASSUME PollInv, CountsNeverLeak, [Next]_vars
    PROVE  CountsNeverLeak'
<1> USE DEF PollInv
<1>0. \A c \in Clients : OfClient(c) \in SUBSET Polls /\ Cardinality(OfClient(c)) \in Nat
  <2>1. \A c \in Clients : OfClient(c) \in SUBSET Polls
    BY DEF OfClient, InSlot
  <2> QED
    BY <2>1, FiniteSlots
<1>1. \A l \in Leases : OfLease(l) \in SUBSET Polls /\ Cardinality(OfLease(l)) \in Nat
  <2>1. \A l \in Leases : OfLease(l) \in SUBSET Polls
    BY DEF OfLease, InSlot
  <2> QED
    BY <2>1, FiniteSlots
<1>2. \A c \in Clients : perClient[c] \in Nat /\ perClient[c] <= Cardinality(OfClient(c))
  BY DEF TypeOK, CountsNeverLeak
<1>3. \A l \in Leases : perLease[l] \in Nat /\ perLease[l] <= Cardinality(OfLease(l))
  BY DEF TypeOK, CountsNeverLeak
<1>4. CASE Stay
  <2>1. \A c \in Clients : OfClient(c)' = OfClient(c) /\ perClient'[c] = perClient[c]
    BY <1>4 DEF Stay, OfClient
  <2>2. \A l \in Leases : OfLease(l)' = OfLease(l) /\ perLease'[l] = perLease[l]
    BY <1>4 DEF Stay, OfLease
  <2> QED
    BY <1>2, <1>3, <2>1, <2>2 DEF CountsNeverLeak
<1>5. ASSUME NEW p \in Polls, NEW l \in Leases, NEW t \in Timeouts, Admit(p, l, t)
      PROVE  CountsNeverLeak'
  <2>0. Owner[l] \in Clients /\ p \notin InSlot
    BY <1>5, PollAssumption, AdmitSets
  <2>1. ASSUME NEW c \in Clients PROVE perClient'[c] <= Cardinality(OfClient(c)')
    <3>1. CASE c = Owner[l]
      <4>1. perClient'[c] = perClient[c] + 1
        BY <1>5, <2>0, <3>1 DEF Admit, TypeOK
      <4>2. p \notin OfClient(c)
        BY <2>0 DEF OfClient
      <4>3. Cardinality(OfClient(c)') = Cardinality(OfClient(c)) + 1
        BY <1>0, <1>5, <3>1, <4>2, AdmitSets, Enters
      <4> QED
        BY <1>0, <1>2, <4>1, <4>3
    <3>2. CASE c # Owner[l]
      <4>1. perClient'[c] = perClient[c] /\ OfClient(c)' = OfClient(c)
        BY <1>5, <3>2, AdmitSets DEF Admit, TypeOK
      <4> QED
        BY <1>2, <4>1
    <3> QED
      BY <3>1, <3>2
  <2>2. ASSUME NEW k \in Leases PROVE perLease'[k] <= Cardinality(OfLease(k)')
    <3>1. CASE k = l
      <4>1. perLease'[k] = perLease[k] + 1
        BY <1>5, <3>1 DEF Admit, TypeOK
      <4>2. p \notin OfLease(k)
        BY <2>0 DEF OfLease
      <4>3. Cardinality(OfLease(k)') = Cardinality(OfLease(k)) + 1
        BY <1>1, <1>5, <3>1, <4>2, AdmitSets, Enters
      <4> QED
        BY <1>1, <1>3, <4>1, <4>3
    <3>2. CASE k # l
      <4>1. perLease'[k] = perLease[k] /\ OfLease(k)' = OfLease(k)
        BY <1>5, <3>2, AdmitSets DEF Admit, TypeOK
      <4> QED
        BY <1>3, <4>1
    <3> QED
      BY <3>1, <3>2
  <2> QED
    BY <2>1, <2>2 DEF CountsNeverLeak
<1>6. ASSUME NEW p \in Polls, NEW l \in Leases, Refuse(p, l)
      PROVE  CountsNeverLeak'
  <2>1. (\A c \in Clients : OfClient(c)' = OfClient(c)) /\ (\A k \in Leases : OfLease(k)' = OfLease(k))
    BY <1>6 DEF Refuse, round, OfClient, OfLease, InSlot
  <2>2. \A c \in Clients : perClient'[c] <= Cardinality(OfClient(c))
    BY <1>0, <1>2, <1>6 DEF Refuse, TypeOK, Minus
  <2>3. \A k \in Leases : perLease'[k] <= Cardinality(OfLease(k))
    BY <1>1, <1>3, <1>6 DEF Refuse, TypeOK, Minus
  <2> QED
    BY <2>1, <2>2, <2>3 DEF CountsNeverLeak
<1>7. ASSUME NEW p \in InSlot, NEW a \in Results, Leave(p, a)
      PROVE  CountsNeverLeak'
  <2>0. p \in Polls /\ lease[p] \in Leases /\ Owner[lease[p]] \in Clients
    BY PollAssumption DEF InSlot, TypeOK
  <2>1. ASSUME NEW c \in Clients PROVE perClient'[c] <= Cardinality(OfClient(c)')
    <3>1. CASE c = Owner[lease[p]]
      <4>1. perClient'[c] = Minus(perClient[c])
        BY <1>7, <2>0, <3>1 DEF Leave, GiveBack, TypeOK
      <4>2. p \in OfClient(c)
        BY <3>1 DEF OfClient
      <4>3. OfClient(c)' = OfClient(c) \ {p}
        BY <1>7, LeaveSets
      <4>4. Cardinality(OfClient(c)') = Cardinality(OfClient(c)) - 1 /\ Cardinality(OfClient(c)) >= 1
        BY <1>0, <4>2, <4>3, Leaves
      <4> QED
        BY <1>0, <1>2, <4>1, <4>4 DEF Minus
    <3>2. CASE c # Owner[lease[p]]
      <4>1. perClient'[c] = perClient[c]
        BY <1>7, <3>2 DEF Leave, GiveBack, TypeOK
      <4>2. OfClient(c)' = OfClient(c)
        BY <1>7, <3>2, LeaveSets DEF OfClient
      <4> QED
        BY <1>2, <4>1, <4>2
    <3> QED
      BY <3>1, <3>2
  <2>2. ASSUME NEW k \in Leases PROVE perLease'[k] <= Cardinality(OfLease(k)')
    <3>1. CASE k = lease[p]
      <4>1. perLease'[k] = Minus(perLease[k])
        BY <1>7, <2>0, <3>1 DEF Leave, GiveBack, TypeOK
      <4>2. p \in OfLease(k)
        BY <3>1 DEF OfLease
      <4>3. OfLease(k)' = OfLease(k) \ {p}
        BY <1>7, LeaveSets
      <4>4. Cardinality(OfLease(k)') = Cardinality(OfLease(k)) - 1 /\ Cardinality(OfLease(k)) >= 1
        BY <1>1, <4>2, <4>3, Leaves
      <4> QED
        BY <1>1, <1>3, <4>1, <4>4 DEF Minus
    <3>2. CASE k # lease[p]
      <4>1. perLease'[k] = perLease[k]
        BY <1>7, <3>2 DEF Leave, GiveBack, TypeOK
      <4>2. OfLease(k)' = OfLease(k)
        BY <1>7, <3>2, LeaveSets DEF OfLease
      <4> QED
        BY <1>3, <4>1, <4>2
    <3> QED
      BY <3>1, <3>2
  <2> QED
    BY <2>1, <2>2 DEF CountsNeverLeak
<1> QED
  BY <1>4, <1>5, <1>6, <1>7, StepCases

\* A client or a lease never loses polling capacity for good: its counter is
\* never above the number of its polls in progress.
THEOREM CapacityComesBack == Spec => []CountsNeverLeak
<1>1. Init => CountsNeverLeak
  <2> SUFFICES ASSUME Init PROVE CountsNeverLeak
    OBVIOUS
  <2>1. (\A c \in Clients : OfClient(c) = {}) /\ (\A l \in Leases : OfLease(l) = {})
    BY DEF Init, OfClient, OfLease, InSlot
  <2>2. Cardinality({}) = 0
    BY FS_EmptySet
  <2>3. \A c \in Clients : perClient[c] <= Cardinality(OfClient(c))
    BY <2>1, <2>2 DEF Init
  <2>4. \A l \in Leases : perLease[l] <= Cardinality(OfLease(l))
    BY <2>1, <2>2 DEF Init
  <2> QED
    BY <2>3, <2>4 DEF CountsNeverLeak
<1>2. PollInv /\ CountsNeverLeak /\ [Next]_vars => CountsNeverLeak'
  BY CountsStep
<1> QED
  BY <1>1, <1>2, PollInvariant, PTL DEF Spec

-----------------------------------------------------------------------------
(* Authorization *)

\* A poll whose client is authorized has not lapsed.
NotLapsed == \A p \in Polls : granted[lease[p]] => ~lapsed[p]

LapseInv == NotLapsed /\ CodeAuthorized

LEMMA LapseStep ==
    ASSUME TypeOK, LapseInv, [Next]_vars
    PROVE  LapseInv'
<1> USE DEF LapseInv
<1>1. ASSUME NEW p \in Polls, NEW a \in Results, Leave(p, a), UNCHANGED lapsed
      PROVE  LapseInv'
  BY <1>1 DEF Leave, TypeOK, NotLapsed, CodeAuthorized
<1>2. ASSUME NEW p \in Polls, NEW step \in Steps, Goto(p, step), UNCHANGED lapsed,
             step = "cleared" => granted[lease[p]]
      PROVE  LapseInv'
  BY <1>2 DEF Goto, TypeOK, NotLapsed, CodeAuthorized
<1>3. ASSUME NEW p \in Polls, NEW success \in BOOLEAN, Scanned(p, success),
             \/ \E a \in Results : Leave(p, a)
             \/ \E step \in Steps : Goto(p, step) /\ (step = "cleared" => Kind[lease[p]] = "on_demand")
      PROVE  LapseInv'
  <2>1. granted' = granted /\ lease' = lease
    BY <1>3 DEF Leave, Goto
  <2>2. lapsed' = [lapsed EXCEPT ![p] = ~granted[lease[p]]]
    BY <1>3 DEF Scanned
  <2>3. NotLapsed'
    BY <2>1, <2>2 DEF NotLapsed, TypeOK
  <2>4. /\ pc'[p] = "cleared" => Kind[lease[p]] = "on_demand"
        /\ \A q \in Polls \ {p} : pc'[q] = pc[q]
    BY <1>3 DEF Leave, Goto, TypeOK
  <2>5. CodeAuthorized'
    BY <2>1, <2>2, <2>4 DEF CodeAuthorized, TypeOK
  <2> QED
    BY <2>3, <2>5
<1>4. ASSUME NEW p \in Polls, NextChannel(p)
      PROVE  \E step \in Steps : step # "cleared" /\ Goto(p, step)
  BY <1>4 DEF NextChannel, Steps
<1>5. ASSUME NEW p \in Polls, Run(p) PROVE LapseInv'
  <2>1. CASE UnsupportedFilter(p)
    BY <2>1, <1>1 DEF UnsupportedFilter, Results
  <2>2. CASE Checkpoint(p)
    BY <2>2, <1>1, <1>2 DEF Checkpoint, Results, Steps
  <2>3. CASE \E success \in BOOLEAN : ScanEmpty(p, success)
    BY <2>3, <1>3, <1>4 DEF ScanEmpty
  <2>4. CASE ScanRaises(p)
    BY <2>4, <1>3 DEF ScanRaises, Results
  <2>5. CASE ScanExhausts(p)
    BY <2>5, <1>3 DEF ScanExhausts, Results
  <2>6. CASE ScanMatches(p)
    BY <2>6, <1>3 DEF ScanMatches, Steps
  <2>7. CASE ScanRejected(p)
    BY <2>7, <1>3 DEF ScanRejected, Steps
  <2>8. CASE ForceRefresh(p)
    BY <2>8, <1>2, <1>4 DEF ForceRefresh, Steps
  <2>9. CASE FinalCheckpoint(p)
    BY <2>9, <1>1, <1>2 DEF FinalCheckpoint, Results, Steps
  <2>10. CASE Deliver(p)
    BY <2>10, <1>1 DEF Deliver, Results
  <2>11. CASE Finish(p)
    BY <2>11, <1>1 DEF Finish, Results
  <2>12. CASE Sleep(p)
    BY <2>12, <1>2 DEF Sleep, Steps
  <2> QED
    BY <1>5, <2>1, <2>2, <2>3, <2>4, <2>5, <2>6, <2>7, <2>8, <2>9, <2>10, <2>11, <2>12 DEF Run
<1>6. ASSUME NEW p \in Polls, Wake(p) PROVE LapseInv'
  BY <1>6, <1>2 DEF Wake, Steps
<1>7. ASSUME NEW p \in Polls, Interrupt(p) PROVE LapseInv'
  BY <1>7, <1>1 DEF Interrupt, Results
<1>8. ASSUME NEW p \in Polls, Elapse(p) PROVE LapseInv'
  BY <1>8 DEF Elapse, NotLapsed, CodeAuthorized
<1>9. ASSUME NEW l \in Leases, Revoke(l) PROVE LapseInv'
  BY <1>9 DEF Revoke, round, TypeOK, NotLapsed, CodeAuthorized
<1>10. ASSUME NEW l \in Leases, Restore(l) PROVE LapseInv'
  BY <1>10 DEF Restore, TypeOK, NotLapsed, CodeAuthorized
<1>11. ASSUME NEW p \in Polls, NEW l \in Leases, Refuse(p, l) PROVE LapseInv'
  BY <1>11 DEF Refuse, round, NotLapsed, CodeAuthorized
<1>12. ASSUME NEW p \in Polls, NEW l \in Leases, NEW t \in Timeouts, Admit(p, l, t)
       PROVE  LapseInv'
  BY <1>12 DEF Admit, TypeOK, NotLapsed, CodeAuthorized
<1>13. ASSUME UNCHANGED vars PROVE LapseInv'
  BY <1>13 DEF vars, round, NotLapsed, CodeAuthorized
<1> QED
  BY <1>5, <1>6, <1>7, <1>8, <1>9, <1>10, <1>11, <1>12, <1>13 DEF Next

\* A Microsoft or SMSBower poll returns a code only to a client that was still
\* authorized after the scan that found it (the checkpoint before the return).
THEOREM NoCodeAfterRevocation == Spec => []CodeAuthorized
<1>1. Init => LapseInv
  BY DEF Init, LapseInv, NotLapsed, CodeAuthorized
<1>2. PollInv /\ LapseInv /\ [Next]_vars => LapseInv'
  BY LapseStep DEF PollInv
<1>3. LapseInv => CodeAuthorized
  BY DEF LapseInv
<1> QED
  BY <1>1, <1>2, <1>3, PollInvariant, PTL DEF Spec

-----------------------------------------------------------------------------
(* Empty answers *)

\* An answer of a Microsoft poll that says "not found" comes after a scan that read.
LEMMA EmptyStep ==
    ASSUME TypeOK, EmptyMeansRead, [Next]_vars
    PROVE  EmptyMeansRead'
<1>1. ASSUME NEW p \in Polls, NEW a \in Results, Leave(p, a),
             a = "empty" /\ Kind[lease[p]] = "microsoft" => read'[p],
             \A q \in Polls \ {p} : read'[q] = read[q]
      PROVE  EmptyMeansRead'
  BY <1>1 DEF Leave, TypeOK, EmptyMeansRead
<1>2. ASSUME NEW p \in Polls, NEW step \in Steps, Goto(p, step),
             \A q \in Polls : read[q] => read'[q]
      PROVE  EmptyMeansRead'
  BY <1>2 DEF Goto, TypeOK, EmptyMeansRead
<1>3. ASSUME NEW p \in Polls, NEW success \in BOOLEAN, Scanned(p, success)
      PROVE  /\ \A q \in Polls \ {p} : read'[q] = read[q]
             /\ \A q \in Polls : read[q] => read'[q]
             /\ success => read'[p]
  BY <1>3 DEF Scanned, TypeOK
<1>4. ASSUME NEW p \in Polls, NextChannel(p) PROVE \E step \in Steps : Goto(p, step)
  BY <1>4 DEF NextChannel, Steps
<1>5. ASSUME NEW p \in Polls, Run(p) PROVE EmptyMeansRead'
  <2>1. CASE UnsupportedFilter(p)
    BY <2>1, <1>1 DEF UnsupportedFilter, Results
  <2>2. CASE Checkpoint(p)
    BY <2>2, <1>1, <1>2 DEF Checkpoint, Results, Steps
  <2>3. CASE \E success \in BOOLEAN : ScanEmpty(p, success)
    BY <2>3, <1>2, <1>3, <1>4 DEF ScanEmpty
  <2>4. CASE ScanRaises(p)
    BY <2>4, <1>1, <1>3 DEF ScanRaises, Results
  <2>5. CASE ScanExhausts(p)
    BY <2>5, <1>1, <1>3 DEF ScanExhausts, Results
  <2>6. CASE ScanMatches(p)
    BY <2>6, <1>2, <1>3 DEF ScanMatches, Steps
  <2>7. CASE ScanRejected(p)
    BY <2>7, <1>2, <1>3 DEF ScanRejected, Steps
  <2>8. CASE ForceRefresh(p)
    BY <2>8, <1>2, <1>4 DEF ForceRefresh, Steps
  <2>9. CASE FinalCheckpoint(p)
    BY <2>9, <1>1, <1>2 DEF FinalCheckpoint, Results, Steps
  <2>10. CASE Deliver(p)
    BY <2>10, <1>1 DEF Deliver, Results
  <2>11. CASE Finish(p)
    <3>1. PICK a \in Results : Leave(p, a) /\ (a = "empty" => read[p] \/ Kind[lease[p]] # "microsoft")
      BY <2>11 DEF Finish, Results
    <3> QED
      BY <2>11, <3>1, <1>1 DEF Finish
  <2>12. CASE Sleep(p)
    BY <2>12, <1>2 DEF Sleep, Steps
  <2> QED
    BY <1>5, <2>1, <2>2, <2>3, <2>4, <2>5, <2>6, <2>7, <2>8, <2>9, <2>10, <2>11, <2>12 DEF Run
<1>6. ASSUME NEW p \in Polls, Wake(p) PROVE EmptyMeansRead'
  BY <1>6, <1>2 DEF Wake, Steps
<1>7. ASSUME NEW p \in Polls, Interrupt(p) PROVE EmptyMeansRead'
  BY <1>7, <1>1 DEF Interrupt, Results
<1>8. ASSUME NEW p \in Polls, Elapse(p) PROVE EmptyMeansRead'
  BY <1>8 DEF Elapse, EmptyMeansRead
<1>9. ASSUME NEW l \in Leases, Revoke(l) \/ Restore(l) PROVE EmptyMeansRead'
  BY <1>9 DEF Revoke, Restore, round, EmptyMeansRead
<1>10. ASSUME NEW p \in Polls, NEW l \in Leases, Refuse(p, l) PROVE EmptyMeansRead'
  BY <1>10 DEF Refuse, round, EmptyMeansRead
<1>11. ASSUME NEW p \in Polls, NEW l \in Leases, NEW t \in Timeouts, Admit(p, l, t)
       PROVE  EmptyMeansRead'
  BY <1>11 DEF Admit, TypeOK, EmptyMeansRead
<1>12. ASSUME UNCHANGED vars PROVE EmptyMeansRead'
  BY <1>12 DEF vars, round, EmptyMeansRead
<1> QED
  BY <1>5, <1>6, <1>7, <1>8, <1>9, <1>10, <1>11, <1>12 DEF Next

\* A Microsoft poll that answers "not found" has read the inbox: an inbox that could
\* not be read is never taken for an empty one, however many polls there are.
THEOREM UnreadIsNotEmpty == Spec => []EmptyMeansRead
<1>1. Init => EmptyMeansRead
  BY DEF Init, EmptyMeansRead
<1>2. PollInv /\ EmptyMeansRead /\ [Next]_vars => EmptyMeansRead'
  BY EmptyStep DEF PollInv
<1> QED
  BY <1>1, <1>2, PollInvariant, PTL DEF Spec

\* The state of the polls and of the capacity keeps its type: counters stay in Nat
\* although a refusal decrements counters it has not incremented.
THEOREM PollTypes == Spec => []TypeOK
<1>1. PollInv => TypeOK
  BY DEF PollInv
<1> QED
  BY <1>1, PollInvariant, PTL
=============================================================================
