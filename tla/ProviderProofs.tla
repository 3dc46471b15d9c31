--------------------------- MODULE ProviderProofs ---------------------------
(***************************************************************************)
(* Proofs about ProviderResources, for any inventory, any leases, any      *)
(* number of threads that serve releases and any number of requests.       *)
(***************************************************************************)
EXTENDS ProviderResources, FiniteSetTheorems, TLAPS

LeaseRow == [state : {"unused", "active", "expired", "released"}, res : Activations \cup {None}, gen : Nat]
CallRow == [pc : {"idle", "opened", "close", "load", "write"}, lease : Leases \cup {None}, op : OpType,
            outcome : Outcomes, view : RowType]
BuyRow == [op : {"none", "running", "bought", "succeeded", "failed", "unknown"}, remote : BOOLEAN]

Held == {"active", "expired"}
Unsettled == {"releasing", "release_unknown"}
Working == {"close", "load", "write"}

\* A lease that is not unused names an activation that has a row; only a released lease has a release
\* operation; a request works on a lease, and once it goes on with the operation, on a released one.
References ==
    /\ \A l \in Leases : lease[l].state # "unused" =>
          lease[l].res \in Activations /\ res[lease[l].res].state # "none"
    /\ \A l \in Leases : op[l].status # "none" => lease[l].state = "released"
    /\ \A k \in Callers : call[k].pc # "idle" => call[k].lease \in Leases /\ lease[call[k].lease].state # "unused"
    /\ \A k \in Callers : call[k].pc \in Working => lease[call[k].lease].state = "released"
    /\ \A l \in overlapped : lease[l].state # "unused"

\* The purchase of an activation is stored once, and then stays.
StoredOnce ==
    \A a \in Activations :
        /\ buy[a].op = "succeeded" <=> res[a].state # "none"
        /\ buy[a].op \in {"none", "failed"} => ~buy[a].remote

ResourceInv == TypeOK /\ References /\ StoredOnce

-----------------------------------------------------------------------------

LEMMA NoRowTyped == NoRow \in RowType /\ NoRow.state = "none"
BY DEF NoRow, RowType, Lifecycle

LEMMA NoCallTyped == NoCall \in CallRow /\ NoCall.pc = "idle" /\ NoOp \in OpType /\ NoOp.status = "none"
<1>1. NoOp \in OpType /\ NoOp.status = "none"
  BY DEF NoOp, OpType
<1> QED
  BY <1>1, NoRowTyped DEF NoCall, CallRow, Outcomes

LEMMA SettledTyped ==
    ASSUME NEW v \in RowType, NEW o \in Outcomes
    PROVE  Settled(v, o) \in RowType /\ Settled(v, o).state # "none"
<1>0. v.gen \in Nat /\ v.gen + 1 \in Nat /\ v.version + 1 \in Nat
  BY DEF RowType
<1>1. CASE o = "succeeded"
  BY <1>0, <1>1 DEF Settled, RowType, Lifecycle
<1>2. CASE o = "failed"
  BY <1>0, <1>2 DEF Settled, RowType, Lifecycle
<1>3. CASE o = "unknown"
  BY <1>0, <1>3 DEF Settled, RowType, Lifecycle
<1> QED
  BY <1>1, <1>2, <1>3 DEF Outcomes

\* What finalize_release_cas writes over the row it finds.
Written(row, view, new) ==
    [state |-> IF new.state # view.state THEN new.state ELSE row.state,
     gen |-> IF new.gen # view.gen THEN new.gen ELSE row.gen,
     version |-> new.version]

LEMMA WrittenTyped ==
    ASSUME NEW row \in RowType, NEW view, NEW new \in RowType, new.state # "none"
    PROVE  /\ Written(row, view, new) \in RowType
           /\ row.state # "none" => Written(row, view, new).state # "none"
<1>1. /\ (IF new.state # view.state THEN new.state ELSE row.state) \in Lifecycle
      /\ (IF new.gen # view.gen THEN new.gen ELSE row.gen) \in Nat /\ new.version \in Nat
  BY DEF RowType
<1> QED
  BY <1>1 DEF Written, RowType

LEMMA FinalizeWrites ==
    ASSUME NEW k \in Callers, FinalizeWrite(k)
    PROVE  LET l == call[k].lease
               new == Settled(call[k].view, call[k].outcome)
           IN  /\ call[k].pc = "write" /\ call' = [call EXCEPT ![k] = NoCall]
               /\ UNCHANGED <<buy, lease, inbox, calls, crashed, overlapped>>
               /\ \/ /\ MaySettle(call[k].view, call[k].op)
                     /\ res' = [res EXCEPT ![lease[l].res] = Written(res[lease[l].res], call[k].view, new)]
                     /\ op' = [op EXCEPT ![l].status =
                                 IF op[l].gen = call[k].op.gen THEN call[k].outcome ELSE op[l].status]
                  \/ UNCHANGED <<res, op>>
BY DEF FinalizeWrite, Written

LEMMA Typed ==
    ASSUME TypeOK
    PROVE  /\ res \in [Activations -> RowType] /\ buy \in [Activations -> BuyRow]
           /\ lease \in [Leases -> LeaseRow] /\ op \in [Leases -> OpType] /\ call \in [Callers -> CallRow]
           /\ inbox \in [Inboxes \cup Debugging -> InboxStates] /\ calls \in Nat /\ crashed \in BOOLEAN
           /\ overlapped \in SUBSET Leases
BY DEF TypeOK, BuyRow, LeaseRow, CallRow

LEMMA ReplenishKeeps ==
    ASSUME ResourceInv, NEW a \in Activations, Replenish(a) PROVE ResourceInv' /\ UNCHANGED others
<1>0. buy \in [Activations -> BuyRow] /\ res \in [Activations -> RowType] /\ buy[a] \in BuyRow
  BY Typed DEF ResourceInv
<1>1. UNCHANGED others
  BY DEF Replenish, ReplenishStart, ReplenishAnswer, ReplenishStore, ReplenishStoreFails, ReplenishCrash
<1>2. ASSUME NEW b \in BuyRow, buy' = [buy EXCEPT ![a] = b], res' = res, buy[a].op # "succeeded",
             b.op # "succeeded", b.op \in {"none", "failed"} => ~b.remote
      PROVE  ResourceInv'
  <2>1. StoredOnce'
    BY <1>0, <1>2 DEF ResourceInv, StoredOnce
  <2> QED
    BY <1>0, <1>1, <1>2, <2>1 DEF ResourceInv, TypeOK, References, BuyRow, others
<1>3. ASSUME NEW o \in {"running", "unknown"}, buy' = [buy EXCEPT ![a].op = o], res' = res, buy[a].op # "succeeded"
      PROVE  ResourceInv'
  <2> DEFINE b == [buy[a] EXCEPT !.op = o]
  <2>1. b \in BuyRow /\ b.op = o
    BY <1>0 DEF BuyRow
  <2>2. buy' = [buy EXCEPT ![a] = b]
    BY <1>0, <1>3
  <2> HIDE DEF b
  <2> QED
    BY <1>2, <1>3, <2>1, <2>2
<1>4. CASE ReplenishStart(a) \/ ReplenishStoreFails(a) \/ ReplenishCrash(a)
  BY <1>3, <1>4 DEF ReplenishStart, ReplenishStoreFails, ReplenishCrash
<1>5. CASE ReplenishAnswer(a)
  <2>1. PICK b \in {[op |-> "bought", remote |-> TRUE], [op |-> "failed", remote |-> FALSE],
                     [op |-> "unknown", remote |-> TRUE], [op |-> "unknown", remote |-> FALSE]} :
            buy' = [buy EXCEPT ![a] = b]
    BY <1>5 DEF ReplenishAnswer
  <2>2. b \in BuyRow /\ b.op # "succeeded" /\ (b.op \in {"none", "failed"} => ~b.remote)
    <3>1. \A o \in {"bought", "failed", "unknown"}, x \in BOOLEAN : [op |-> o, remote |-> x] \in BuyRow
      BY Zenon DEF BuyRow
    <3>2. b \in BuyRow
      BY <3>1
    <3>3. b.op # "succeeded" /\ (b.op \in {"none", "failed"} => ~b.remote)
      OBVIOUS
    <3> QED
      BY <3>2, <3>3
  <2> QED
    BY <1>2, <1>5, <2>1, <2>2 DEF ReplenishAnswer
<1>6. CASE ReplenishStore(a)
  <2> DEFINE b == [buy[a] EXCEPT !.op = "succeeded"]
             r == [res[a] EXCEPT !.state = "available"]
  <2>1. b \in BuyRow /\ b.op = "succeeded" /\ r \in RowType /\ r.state = "available"
    BY <1>0 DEF BuyRow, RowType, Lifecycle
  <2>2. buy' = [buy EXCEPT ![a] = b] /\ res' = [res EXCEPT ![a] = r]
    BY <1>0, <1>6 DEF ReplenishStore
  <2> HIDE DEF b, r
  <2>3. StoredOnce'
    BY <1>0, <2>1, <2>2 DEF ResourceInv, StoredOnce
  <2> QED
    BY <1>0, <1>1, <2>1, <2>2, <2>3 DEF ResourceInv, TypeOK, References, BuyRow, others
<1> QED
  BY <1>1, <1>4, <1>5, <1>6 DEF Replenish

LEMMA AcquireMoves ==
    ASSUME ResourceInv, NEW l \in Leases, NEW a \in Activations, AcquireActivation(l, a)
    PROVE  \E r \in RowType, n \in LeaseRow :
              /\ res' = [res EXCEPT ![a] = r] /\ lease' = [lease EXCEPT ![l] = n]
              /\ r.state = "claimed" /\ r.gen = n.gen /\ n.state = "active" /\ n.res = a
              /\ res[a].state = "available" /\ lease[l].state = "unused"
              /\ UNCHANGED <<buy, op, call, inbox, calls, crashed, overlapped>>
<1> DEFINE g == res[a].gen + 1
           v == res[a].version + 1
           r == [state |-> "claimed", gen |-> g, version |-> v]
           n == [state |-> "active", res |-> a, gen |-> g]
<1>1. g \in Nat /\ v \in Nat
  BY Typed DEF ResourceInv, RowType
<1>2. res' = [res EXCEPT ![a] = r] /\ lease' = [lease EXCEPT ![l] = n]
  BY DEF AcquireActivation
<1> HIDE DEF g, v
<1>3. r \in RowType /\ n \in LeaseRow
  BY <1>1 DEF RowType, LeaseRow, Lifecycle
<1>4. r.state = "claimed" /\ r.gen = n.gen /\ n.state = "active" /\ n.res = a
  OBVIOUS
<1> HIDE DEF r, n
<1> QED
  BY <1>2, <1>3, <1>4 DEF AcquireActivation

LEMMA ExpiryMoves ==
    ASSUME ResourceInv, NEW l \in Leases, LeaseExpires(l)
    PROVE  \E n \in LeaseRow :
              /\ lease' = [lease EXCEPT ![l] = n] /\ lease[l].state = "active"
              /\ n.state = "expired" /\ n.res = lease[l].res /\ n.gen = lease[l].gen
              /\ UNCHANGED <<res, buy, op, call, inbox, calls, crashed, overlapped>>
<1> DEFINE n == [lease[l] EXCEPT !.state = "expired"]
<1>1. lease[l] \in LeaseRow
  BY Typed DEF ResourceInv
<1>2. n \in LeaseRow /\ n.state = "expired" /\ n.res = lease[l].res /\ n.gen = lease[l].gen
  BY <1>1 DEF LeaseRow
<1>3. lease' = [lease EXCEPT ![l] = n]
  BY Typed DEF ResourceInv, LeaseExpires
<1> HIDE DEF n
<1> QED
  BY <1>2, <1>3 DEF LeaseExpires

LEMMA LeaseKeeps ==
    ASSUME ResourceInv, NEW l \in Leases, Lease(l) PROVE ResourceInv'
<1>0. /\ res \in [Activations -> RowType] /\ lease \in [Leases -> LeaseRow]
  BY Typed DEF ResourceInv
<1>1. ASSUME NEW a \in Activations, AcquireActivation(l, a) PROVE ResourceInv'
  <2>1. PICK r \in RowType, n \in LeaseRow :
              /\ res' = [res EXCEPT ![a] = r] /\ lease' = [lease EXCEPT ![l] = n]
              /\ r.state = "claimed" /\ r.gen = n.gen /\ n.state = "active" /\ n.res = a
              /\ res[a].state = "available" /\ lease[l].state = "unused"
              /\ UNCHANGED <<buy, op, call, inbox, calls, crashed, overlapped>>
    BY <1>1, AcquireMoves
  <2>2. TypeOK'
    BY <1>0, <2>1 DEF ResourceInv, TypeOK, LeaseRow
  <2>3. References'
    BY <1>0, <2>1 DEF ResourceInv, References
  <2>4. StoredOnce'
    BY <1>0, <2>1 DEF ResourceInv, StoredOnce
  <2> QED
    BY <2>2, <2>3, <2>4 DEF ResourceInv
<1>2. CASE LeaseExpires(l)
  <2>1. PICK n \in LeaseRow :
              /\ lease' = [lease EXCEPT ![l] = n] /\ lease[l].state = "active"
              /\ n.state = "expired" /\ n.res = lease[l].res /\ n.gen = lease[l].gen
              /\ UNCHANGED <<res, buy, op, call, inbox, calls, crashed, overlapped>>
    BY <1>2, ExpiryMoves
  <2>2. TypeOK'
    BY <1>0, <2>1 DEF ResourceInv, TypeOK, LeaseRow
  <2>3. References'
    BY <1>0, <2>1 DEF ResourceInv, References
  <2> QED
    BY <2>1, <2>2, <2>3 DEF ResourceInv, StoredOnce
<1> QED
  BY <1>1, <1>2 DEF Lease

\* What _release_lease_internal does when the row that was read is given back, ...
ReleaseBegins(k, row) ==
    LET l == call[k].lease
        a == lease[l].res
    IN  \E n \in LeaseRow, r \in RowType, o \in OpType, c \in CallRow :
            /\ lease' = [lease EXCEPT ![l] = n] /\ n.state = "released" /\ n.res = a
            /\ res' = [res EXCEPT ![a] = r] /\ r.state = "releasing" /\ r.gen = res[a].gen
            /\ op' = [op EXCEPT ![l] = o] /\ o.status = "pending" /\ o.gen = row.gen
            /\ call' = [call EXCEPT ![k] = c] /\ c.pc = "close" /\ c.lease = l /\ c.op = o

\* ... when its operation exists already, ...
ReleaseRefused(k, row) ==
    /\ op[call[k].lease].status # "none"
    /\ call' = [call EXCEPT ![k] = NoCall] /\ UNCHANGED <<res, lease, op>>

\* ... and when there is nothing to give back.
ReleaseEnds(k, row) ==
    LET l == call[k].lease
    IN  \E n \in LeaseRow :
            /\ row.state \notin {"claimed", "available"}
            /\ lease' = [lease EXCEPT ![l] = n] /\ n.state = "released" /\ n.res = lease[l].res
            /\ call' = [call EXCEPT ![k] = NoCall] /\ UNCHANGED <<res, op>>

LEMMA ReleaseMoves ==
    ASSUME ResourceInv, NEW k \in Callers, Release(k)
    PROVE  /\ call[k].pc = "opened" /\ call[k].lease \in Leases /\ lease[call[k].lease].state # "unused"
           /\ lease[call[k].lease].res \in Activations
           /\ UNCHANGED <<buy, inbox, calls, crashed, overlapped>>
           /\ \E row \in {call[k].view, res[lease[call[k].lease].res]} :
                 ReleaseBegins(k, row) \/ ReleaseRefused(k, row) \/ ReleaseEnds(k, row)
<1> DEFINE l == call[k].lease
           a == lease[l].res
           n == [lease[l] EXCEPT !.state = "released"]
<1>0. /\ res \in [Activations -> RowType] /\ lease \in [Leases -> LeaseRow] /\ call \in [Callers -> CallRow]
      /\ op \in [Leases -> OpType]
      /\ call[k].pc = "opened" /\ l \in Leases /\ lease[l].state # "unused" /\ a \in Activations
  BY Typed DEF ResourceInv, References, Release
<1>1. n \in LeaseRow /\ n.state = "released" /\ n.res = a
  BY <1>0 DEF LeaseRow
<1>2. PICK row \in {call[k].view, res[a]} :
              \/ GivesBack(l, row) /\ BeginRelease(k, row)
              \/ /\ GivesBack(l, row) /\ op[l].status # "none" /\ op[l].gen = row.gen
                 /\ call' = [call EXCEPT ![k] = NoCall] /\ UNCHANGED <<res, lease, op>>
              \/ /\ ~GivesBack(l, row) /\ lease' = [lease EXCEPT ![l].state = "released"]
                 /\ call' = [call EXCEPT ![k] = NoCall] /\ UNCHANGED <<res, op>>
  BY DEF Release
<1>3. row \in RowType
  BY <1>0 DEF CallRow
<1>4. CASE BeginRelease(k, row)
  <2> DEFINE r == [res[a] EXCEPT !.state = "releasing", !.version = row.version + 1]
             o == [status |-> "pending", gen |-> row.gen, version |-> row.version]
             c == [call[k] EXCEPT !.pc = "close", !.op = o, !.view = NoRow]
  <2>1. r \in RowType /\ r.state = "releasing" /\ r.gen = res[a].gen
    <3>1. res[a] \in RowType /\ row.version + 1 \in Nat
      BY <1>0, <1>3 DEF RowType
    <3> QED
      BY <3>1 DEF RowType, Lifecycle
  <2>2. o \in OpType /\ o.status = "pending" /\ o.gen = row.gen
    BY <1>3 DEF OpType, RowType
  <2>3. lease' = [lease EXCEPT ![l] = n] /\ res' = [res EXCEPT ![a] = r] /\ op' = [op EXCEPT ![l] = o]
    BY <1>0, <1>4 DEF BeginRelease
  <2>4. call' = [call EXCEPT ![k] = c]
    BY <1>0, <1>4 DEF BeginRelease
  <2> HIDE DEF o
  <2>5. c \in CallRow /\ c.pc = "close" /\ c.lease = l /\ c.op = o
    BY <1>0, <2>2, NoRowTyped DEF CallRow
  <2> HIDE DEF n, r, c
  <2>6. ReleaseBegins(k, row)
    BY <1>1, <2>1, <2>2, <2>3, <2>4, <2>5 DEF ReleaseBegins
  <2> QED
    BY <1>0, <2>6 DEF Release
<1>5. CASE /\ op[l].status # "none" /\ call' = [call EXCEPT ![k] = NoCall] /\ UNCHANGED <<res, lease, op>>
  BY <1>0, <1>5 DEF Release, ReleaseRefused
<1>6. CASE /\ ~GivesBack(l, row) /\ lease' = [lease EXCEPT ![l].state = "released"]
           /\ call' = [call EXCEPT ![k] = NoCall] /\ UNCHANGED <<res, op>>
  <2>1. lease' = [lease EXCEPT ![l] = n] /\ row.state \notin {"claimed", "available"}
    BY <1>0, <1>6 DEF GivesBack
  <2> HIDE DEF n
  <2>2. ReleaseEnds(k, row)
    BY <1>1, <1>6, <2>1 DEF ReleaseEnds
  <2> QED
    BY <1>0, <2>2 DEF Release
<1> QED
  BY <1>2, <1>4, <1>5, <1>6

\* A request moves on in its work, or gives it up.
LEMMA CallMoves ==
    ASSUME ResourceInv, NEW k \in Callers, NEW c \in CallRow, call' = [call EXCEPT ![k] = c],
           c.pc # "idle" => c.lease \in Leases /\ lease[c.lease].state # "unused",
           c.pc \in Working => lease[c.lease].state = "released",
           UNCHANGED <<res, buy, lease, op, inbox>>, calls' \in Nat, crashed' \in BOOLEAN,
           overlapped' \in SUBSET Leases, \A l \in overlapped' : lease[l].state # "unused"
    PROVE  ResourceInv'
<1>0. call \in [Callers -> CallRow]
  BY Typed DEF ResourceInv
<1>1. TypeOK'
  BY <1>0 DEF ResourceInv, TypeOK, CallRow
<1>2. References'
  BY <1>0 DEF ResourceInv, References
<1> QED
  BY <1>1, <1>2 DEF ResourceInv, StoredOnce

LEMMA ReleaseKeeps ==
    ASSUME ResourceInv, NEW k \in Callers, Release(k) PROVE ResourceInv'
<1> DEFINE l == call[k].lease
           a == lease[l].res
<1>0. /\ res \in [Activations -> RowType] /\ lease \in [Leases -> LeaseRow] /\ op \in [Leases -> OpType]
      /\ call \in [Callers -> CallRow]
  BY Typed DEF ResourceInv
<1>1. /\ call[k].pc = "opened" /\ l \in Leases /\ lease[l].state # "unused" /\ a \in Activations
      /\ UNCHANGED <<buy, inbox, calls, crashed, overlapped>>
  BY ReleaseMoves
<1>2. res[a].state # "none"
  BY <1>1 DEF ResourceInv, References
<1>3. PICK row \in {call[k].view, res[a]} : ReleaseBegins(k, row) \/ ReleaseRefused(k, row) \/ ReleaseEnds(k, row)
  BY ReleaseMoves
<1>4. CASE ReleaseBegins(k, row)
  <2>1. PICK n \in LeaseRow, r \in RowType, o \in OpType, c \in CallRow :
            /\ lease' = [lease EXCEPT ![l] = n] /\ n.state = "released" /\ n.res = a
            /\ res' = [res EXCEPT ![a] = r] /\ r.state = "releasing" /\ r.gen = res[a].gen
            /\ op' = [op EXCEPT ![l] = o] /\ o.status = "pending" /\ o.gen = row.gen
            /\ call' = [call EXCEPT ![k] = c] /\ c.pc = "close" /\ c.lease = l /\ c.op = o
    BY <1>4, Zenon DEF ReleaseBegins
  <2>2. TypeOK'
    BY <1>0, <1>1, <2>1 DEF ResourceInv, TypeOK, LeaseRow, CallRow
  <2>3. References'
    BY <1>0, <1>1, <2>1 DEF ResourceInv, References, Working
  <2>4. StoredOnce'
    BY <1>0, <1>1, <1>2, <2>1 DEF ResourceInv, StoredOnce
  <2> QED
    BY <2>2, <2>3, <2>4 DEF ResourceInv
<1>5. CASE ReleaseRefused(k, row)
  <2>1. call' = [call EXCEPT ![k] = NoCall] /\ UNCHANGED <<res, lease, op>>
    BY <1>5 DEF ReleaseRefused
  <2>2. calls' \in Nat /\ crashed' \in BOOLEAN /\ overlapped' \in SUBSET Leases
        /\ \A m \in overlapped' : lease[m].state # "unused"
    BY <1>1, Typed DEF ResourceInv, References
  <2> QED
    BY <1>1, <2>1, <2>2, NoCallTyped, CallMoves DEF Working
<1>6. CASE ReleaseEnds(k, row)
  <2>1. PICK n \in LeaseRow :
            /\ lease' = [lease EXCEPT ![l] = n] /\ n.state = "released" /\ n.res = a
            /\ call' = [call EXCEPT ![k] = NoCall] /\ UNCHANGED <<res, op>>
    BY <1>6 DEF ReleaseEnds
  <2>2. TypeOK'
    BY <1>0, <1>1, <2>1, NoCallTyped DEF ResourceInv, TypeOK, LeaseRow, CallRow
  <2>3. References'
    BY <1>0, <1>1, <2>1, NoCallTyped DEF ResourceInv, References, Working
  <2> QED
    BY <1>1, <2>1, <2>2, <2>3 DEF ResourceInv, StoredOnce
<1> QED
  BY <1>3, <1>4, <1>5, <1>6

LEMMA EndpointKeeps ==
    ASSUME ResourceInv, NEW k \in Callers, Endpoint(k) PROVE ResourceInv'
<1>0. /\ res \in [Activations -> RowType] /\ lease \in [Leases -> LeaseRow] /\ op \in [Leases -> OpType]
      /\ call \in [Callers -> CallRow] /\ call[k] \in CallRow /\ calls \in Nat /\ crashed \in BOOLEAN
      /\ overlapped \in SUBSET Leases /\ \A l \in overlapped : lease[l].state # "unused"
      /\ call[k].pc # "idle" => call[k].lease \in Leases /\ lease[call[k].lease].state # "unused"
      /\ call[k].pc \in Working => call[k].lease \in Leases /\ lease[call[k].lease].state = "released"
  BY Typed DEF ResourceInv, References, Working
<1>1. ASSUME NEW l \in Leases, OpenRelease(k, l) PROVE ResourceInv'
  <2> DEFINE v == res[lease[l].res]
             c == [call[k] EXCEPT !.pc = "opened", !.lease = l, !.view = v]
  <2>0. lease[l].state \in {"active", "expired"} /\ UNCHANGED <<res, buy, lease, op, inbox, crashed>>
    BY <1>1 DEF OpenRelease
  <2>1. v \in RowType
    BY <1>0, <2>0 DEF ResourceInv, References
  <2>2. call' = [call EXCEPT ![k] = c] /\ calls' = calls + 1
    BY <1>0, <1>1 DEF OpenRelease
  <2> HIDE DEF v
  <2>3. c \in CallRow /\ c.lease = l /\ c.pc = "opened"
    BY <1>0, <2>1 DEF CallRow
  <2>4. overlapped' \in SUBSET Leases /\ \A m \in overlapped' : lease[m].state # "unused"
    BY <1>0, <1>1, <2>0 DEF OpenRelease, NoteOverlap
  <2>5. calls' \in Nat
    BY <1>0, <2>2
  <2> HIDE DEF c
  <2> QED
    BY <1>0, <2>0, <2>2, <2>3, <2>4, <2>5, CallMoves DEF Working
<1>2. ASSUME NEW l \in Leases, ReleaseAgain(k, l) PROVE ResourceInv'
  <2> DEFINE c == [call[k] EXCEPT !.pc = "close", !.lease = l, !.op = op[l]]
  <2>0. lease[l].state = "released" /\ UNCHANGED <<res, buy, lease, op, inbox, crashed>>
    BY <1>2 DEF ReleaseAgain
  <2>1. c \in CallRow /\ c.lease = l
    BY <1>0 DEF CallRow
  <2>2. call' = [call EXCEPT ![k] = c] /\ calls' = calls + 1
    BY <1>0, <1>2 DEF ReleaseAgain
  <2>3. calls' \in Nat
    BY <1>0, <2>2
  <2>4. overlapped' \in SUBSET Leases /\ \A m \in overlapped' : lease[m].state # "unused"
    BY <1>0, <1>2, <2>0 DEF ReleaseAgain, NoteOverlap
  <2> HIDE DEF c
  <2> QED
    BY <1>0, <2>0, <2>1, <2>2, <2>3, <2>4, CallMoves
<1>3. CASE CloseRemote(k)
  <2>1. PICK o \in Outcomes : call' = [call EXCEPT ![k].pc = "load", ![k].outcome = o]
    BY <1>3 DEF CloseRemote
  <2> DEFINE c == [call[k] EXCEPT !.pc = "load", !.outcome = o]
  <2>2. c \in CallRow /\ c.lease = call[k].lease
    BY <1>0 DEF CallRow
  <2>3. call' = [call EXCEPT ![k] = c]
    BY <1>0, <2>1
  <2>4. /\ call[k].pc = "close" /\ UNCHANGED <<res, buy, lease, op, inbox>>
        /\ calls' = calls /\ crashed' = crashed /\ overlapped' = overlapped
    BY <1>3 DEF CloseRemote
  <2> HIDE DEF c
  <2> QED
    BY <1>0, <2>2, <2>3, <2>4, CallMoves DEF Working
<1>4. CASE FinalizeLoad(k)
  <2> DEFINE v == res[lease[call[k].lease].res]
             c == [call[k] EXCEPT !.pc = "write", !.view = v]
  <2>1. v \in RowType
    BY <1>0, <1>4 DEF FinalizeLoad, ResourceInv, References
  <2>2. call' = [call EXCEPT ![k] = c]
    BY <1>0, <1>4 DEF FinalizeLoad
  <2> HIDE DEF v
  <2>3. c \in CallRow /\ c.lease = call[k].lease
    BY <1>0, <2>1 DEF CallRow
  <2> HIDE DEF c
  <2>4. /\ call[k].pc = "load" /\ UNCHANGED <<res, buy, lease, op, inbox>>
        /\ calls' = calls /\ crashed' = crashed /\ overlapped' = overlapped
    BY <1>4 DEF FinalizeLoad
  <2> QED
    BY <1>0, <2>2, <2>3, <2>4, CallMoves DEF Working
<1>5. CASE FinalizeWrite(k)
  <2> DEFINE l == call[k].lease
             a == lease[l].res
             new == Settled(call[k].view, call[k].outcome)
             row == Written(res[a], call[k].view, new)
             st == IF op[l].gen = call[k].op.gen THEN call[k].outcome ELSE op[l].status
             o == [op[l] EXCEPT !.status = st]
  <2>0. l \in Leases /\ a \in Activations /\ call[k].view \in RowType /\ call[k].outcome \in Outcomes
        /\ lease[l].state = "released"
    BY <1>0, <1>5 DEF FinalizeWrite, ResourceInv, References, CallRow, Working
  <2>1. row \in RowType /\ (res[a].state # "none" => row.state # "none")
    BY <1>0, <2>0, SettledTyped, WrittenTyped
  <2>2. o \in OpType
    <3>1. op[l] \in OpType /\ st \in {"none", "pending"} \cup Outcomes
      BY <1>0, <2>0 DEF OpType
    <3> HIDE DEF st
    <3> QED
      BY <3>1 DEF OpType
  <2>3. call' = [call EXCEPT ![k] = NoCall] /\ UNCHANGED <<buy, lease, inbox, calls, crashed, overlapped>>
    BY <1>5, FinalizeWrites
  <2>4. CASE UNCHANGED <<res, op>>
    BY <1>0, <2>3, <2>4, NoCallTyped, CallMoves DEF Working
  <2>5. CASE res' = [res EXCEPT ![a] = row] /\ op' = [op EXCEPT ![l].status = st]
    <3>1. op' = [op EXCEPT ![l] = o]
      BY <1>0, <2>5
    <3> HIDE DEF o, row, new, st
    <3>2. TypeOK'
      <4>1. /\ res' \in [Activations -> RowType] /\ op' \in [Leases -> OpType]
            /\ call' \in [Callers -> CallRow]
        BY <1>0, <2>1, <2>2, <2>3, <2>5, <3>1, NoCallTyped
      <4> QED
        BY <2>3, <4>1 DEF ResourceInv, TypeOK, CallRow
    <3>5. \A b \in Activations : res[b].state # "none" => res'[b].state # "none"
      BY <1>0, <2>0, <2>1, <2>5
    <3>6. \A m \in Leases \ {l} : op'[m] = op[m]
      BY <1>0, <3>1
    <3>7. \A j \in Callers : call'[j].pc # "idle" => call'[j] = call[j]
      BY <1>0, <2>3, NoCallTyped
    <3>8. \A j \in Callers : call'[j].pc \in Working => call'[j] = call[j]
      BY <3>7 DEF Working
    <3>3. References'
      BY <2>0, <2>3, <3>5, <3>6, <3>7, <3>8 DEF ResourceInv, References
    <3>4. StoredOnce'
      <4>2. \A b \in Activations : res[b].state = "none" => res'[b].state = "none"
        BY <1>0, <2>0, <2>1, <2>5 DEF ResourceInv, References
      <4> QED
        BY <2>3, <3>5, <4>2 DEF ResourceInv, StoredOnce
    <3> QED
      BY <3>2, <3>3, <3>4 DEF ResourceInv
  <2> QED
    BY <1>5, <2>4, <2>5, FinalizeWrites
<1>6. CASE CallerDies(k)
  <2>1. /\ call' = [call EXCEPT ![k] = NoCall] /\ crashed' = TRUE
        /\ UNCHANGED <<res, buy, lease, op, inbox, calls, overlapped>>
    BY <1>6 DEF CallerDies
  <2> QED
    BY <1>0, <2>1, NoCallTyped, CallMoves DEF Working
<1> QED
  BY <1>1, <1>2, <1>3, <1>4, <1>5, <1>6, ReleaseKeeps DEF Endpoint, Caller

LEMMA InboxMoves ==
    ASSUME ResourceInv, NEW i \in Inboxes \cup Debugging, Inbox(i)
    PROVE  /\ inbox' \in [Inboxes \cup Debugging -> InboxStates] /\ UNCHANGED inventory
           /\ \E s \in InboxStates : inbox' = [inbox EXCEPT ![i] = s]
BY Typed DEF ResourceInv, Inbox, Provision, StoreInbox, LoseInbox, InboxExpires, ReleaseInbox, InboxStates

LEMMA InboxKeeps ==
    ASSUME ResourceInv, NEW i \in Inboxes \cup Debugging, Inbox(i) PROVE ResourceInv'
BY InboxMoves DEF ResourceInv, TypeOK, References, StoredOnce, inventory

LEMMA InitResourceInv == Init => ResourceInv
<1> SUFFICES ASSUME Init PROVE ResourceInv
  OBVIOUS
<1>1. res \in [Activations -> RowType] /\ \A a \in Activations : res[a].state = "none"
  BY NoRowTyped DEF Init
<1>2. call \in [Callers -> CallRow] /\ \A k \in Callers : call[k].pc = "idle"
  BY NoCallTyped DEF Init
<1>3. /\ buy \in [Activations -> BuyRow] /\ \A a \in Activations : buy[a].op = "none" /\ ~buy[a].remote
  <2>1. [op |-> "none", remote |-> FALSE] \in BuyRow
    BY Zenon DEF BuyRow
  <2> QED
    BY <2>1 DEF Init
<1>4. lease \in [Leases -> LeaseRow] /\ \A l \in Leases : lease[l].state = "unused"
  BY DEF Init, LeaseRow
<1>5. /\ op \in [Leases -> OpType] /\ \A l \in Leases : op[l].status = "none"
      /\ inbox \in [Inboxes \cup Debugging -> InboxStates] /\ calls \in Nat /\ crashed \in BOOLEAN /\ overlapped = {}
  BY NoCallTyped DEF Init, InboxStates
<1>6. TypeOK
  BY <1>1, <1>2, <1>3, <1>4, <1>5 DEF TypeOK, BuyRow, LeaseRow, CallRow
<1> QED
  BY <1>1, <1>2, <1>3, <1>4, <1>5, <1>6 DEF ResourceInv, References, StoredOnce, Working

LEMMA NextResourceInv == ResourceInv /\ [Next]_vars => ResourceInv'
<1> SUFFICES ASSUME ResourceInv, [Next]_vars PROVE ResourceInv'
  OBVIOUS
<1>1. CASE UNCHANGED vars
  BY <1>1 DEF vars, ResourceInv, TypeOK, References, StoredOnce
<1> QED
  BY <1>1, ReplenishKeeps, LeaseKeeps, EndpointKeeps, InboxKeeps DEF Next

LEMMA AlwaysResourceInv == Spec => []ResourceInv
BY InitResourceInv, NextResourceInv, PTL DEF Spec

\* Every reachable state of the provider resources is well typed.
THEOREM ResourceTypes == Spec => []TypeOK
<1>1. ResourceInv => TypeOK
  BY DEF ResourceInv
<1> QED
  BY <1>1, AlwaysResourceInv, PTL

\* No activation that was paid for is forgotten: it is in the inventory, or an operation that
\* has not failed points at it.
THEOREM NoPurchaseForgotten == Spec => []PurchasesOnRecord
<1>1. ResourceInv => PurchasesOnRecord
  BY Typed DEF ResourceInv, StoredOnce, PurchasesOnRecord, BuyRow
<1> QED
  BY <1>1, AlwaysResourceInv, PTL

-----------------------------------------------------------------------------
(* An activation whose releases did not overlap *)

\* A release operation that has not ended.
Open(l) == op[l].status \in {"pending", "unknown"}

\* A lease that was not released, expired or not, has the resource, in its generation and alone, ...
HoldsOf(a) ==
    /\ \A l \in Leases : lease[l].state \in Held /\ lease[l].res = a =>
          res[a].state = "claimed" /\ res[a].gen = lease[l].gen
    /\ \A l, m \in Leases :
          lease[l].state \in Held /\ lease[l].res = a /\ lease[m].state \in Held /\ lease[m].res = a => l = m

\* ... the resource is being released exactly while one operation is open, in its generation, ...
OpenOf(a) ==
    /\ \A l \in Leases : Open(l) /\ lease[l].res = a => res[a].state \in Unsettled /\ res[a].gen = op[l].gen
    /\ \A l, m \in Leases : Open(l) /\ lease[l].res = a /\ Open(m) /\ lease[m].res = a => l = m
    /\ res[a].state \in Unsettled => \E l \in Leases : Open(l) /\ lease[l].res = a

\* ... and a request either waits to release a lease that still is held or works on the open operation;
\* what it has read of the resource is still so.
RequestsOf(a) ==
    \A k \in Callers : call[k].pc # "idle" /\ lease[call[k].lease].res = a =>
        /\ call[k].pc = "opened" => lease[call[k].lease].state \in Held /\ call[k].view = res[a]
        /\ call[k].pc \in Working => Open(call[k].lease) /\ call[k].op.gen = op[call[k].lease].gen
        /\ call[k].pc = "write" => call[k].view = res[a]

HolderOf(a) == HoldsOf(a) /\ OpenOf(a) /\ RequestsOf(a)

\* Without overlap a lease has one request at a time.
OneRequest ==
    \A k, j \in Callers :
        call[k].pc # "idle" /\ call[j].pc # "idle" /\ call[k].lease = call[j].lease => k = j \/ call[k].lease \in overlapped

HolderInv == OneRequest /\ \A a \in Activations : ~Overlapped(a) => HolderOf(a)

\* A step that leaves the resource, its leases and their operations alone, and whose requests are the same,
\* gone or on another resource, keeps all this.
LEMMA Untouched ==
    ASSUME ResourceInv, NEW a \in Activations, HolderOf(a), res'[a] = res[a],
           \A m \in Leases : \/ lease'[m] = lease[m] /\ op'[m] = op[m]
                             \/ lease'[m].res # a /\ (lease[m].res # a \/ lease[m].state = "unused"),
           \A k \in Callers : call'[k] = call[k] \/ call'[k].pc = "idle" \/ lease'[call'[k].lease].res # a
    PROVE  HolderOf(a)'
<1>1. \A m \in Leases : lease'[m].res = a => lease'[m] = lease[m] /\ op'[m] = op[m]
  OBVIOUS
<1>2. \A m \in Leases : lease[m].state # "unused" /\ lease[m].res = a => lease'[m] = lease[m] /\ op'[m] = op[m]
  OBVIOUS
<1>3. \A m \in Leases : Open(m) => lease[m].state # "unused"
  BY DEF ResourceInv, References, Open
<1>4. HoldsOf(a)'
  BY <1>1 DEF HolderOf, HoldsOf
<1>5. OpenOf(a)'
  BY <1>1, <1>2, <1>3 DEF HolderOf, OpenOf, Open
<1>6. RequestsOf(a)'
  <2> SUFFICES ASSUME NEW k \in Callers, call'[k].pc # "idle", lease'[call'[k].lease].res = a
               PROVE  /\ call'[k].pc = "opened" => lease'[call'[k].lease].state \in Held /\ call'[k].view = res'[a]
                      /\ call'[k].pc \in Working => /\ op'[call'[k].lease].status \in {"pending", "unknown"}
                                                       /\ call'[k].op.gen = op'[call'[k].lease].gen
                      /\ call'[k].pc = "write" => call'[k].view = res'[a]
    BY DEF RequestsOf, Open
  <2>1. call'[k] = call[k] /\ call[k].lease \in Leases
    BY DEF ResourceInv, References
  <2>2. lease'[call[k].lease] = lease[call[k].lease] /\ op'[call[k].lease] = op[call[k].lease]
    BY <1>1, <2>1
  <2> QED
    BY <2>1, <2>2 DEF HolderOf, RequestsOf, Open
<1> QED
  BY <1>4, <1>5, <1>6 DEF HolderOf

\* A resource in a state that is neither claimed nor being released has no lease that holds it, no open
\* operation and no request.
LEMMA Quiet ==
    ASSUME ResourceInv, NEW a \in Activations, HolderOf(a), res[a].state # "claimed", res[a].state \notin Unsettled
    PROVE  /\ \A m \in Leases : ~(lease[m].state \in Held /\ lease[m].res = a) /\ ~(Open(m) /\ lease[m].res = a)
           /\ \A k \in Callers : ~(call[k].pc # "idle" /\ lease[call[k].lease].res = a)
<1>1. \A m \in Leases : ~(lease[m].state \in Held /\ lease[m].res = a) /\ ~(Open(m) /\ lease[m].res = a)
  BY DEF HolderOf, HoldsOf, OpenOf
<1>2. ASSUME NEW k \in Callers, call[k].pc # "idle", lease[call[k].lease].res = a PROVE FALSE
  <2>1. call[k].lease \in Leases /\ call[k].pc \in {"opened", "close", "load", "write"}
    BY <1>2, Typed DEF ResourceInv, References, CallRow
  <2> QED
    BY <1>1, <1>2, <2>1 DEF HolderOf, RequestsOf, Working
<1> QED
  BY <1>1, <1>2

LEMMA AcquireHolds ==
    ASSUME ResourceInv, NEW a \in Activations, HolderOf(a), NEW l \in Leases, NEW b \in Activations,
           AcquireActivation(l, b)
    PROVE  HolderOf(a)'
<1>0. res \in [Activations -> RowType] /\ lease \in [Leases -> LeaseRow]
  BY Typed DEF ResourceInv
<1>1. PICK r \in RowType, n \in LeaseRow :
              /\ res' = [res EXCEPT ![b] = r] /\ lease' = [lease EXCEPT ![l] = n]
              /\ r.state = "claimed" /\ r.gen = n.gen /\ n.state = "active" /\ n.res = b
              /\ res[b].state = "available" /\ lease[l].state = "unused"
              /\ UNCHANGED <<buy, op, call, inbox, calls, crashed, overlapped>>
  BY AcquireMoves
<1>2. CASE a # b
  <2>1. res'[a] = res[a] /\ \A m \in Leases : lease'[m] = lease[m] \/ (lease'[m].res # a /\ lease[m].state = "unused")
    BY <1>0, <1>1, <1>2
  <2> QED
    BY <1>1, <2>1, Untouched
<1>3. CASE a = b
  <2>1. /\ \A m \in Leases : ~(lease[m].state \in Held /\ lease[m].res = a) /\ ~(Open(m) /\ lease[m].res = a)
        /\ \A k \in Callers : ~(call[k].pc # "idle" /\ lease[call[k].lease].res = a)
    BY <1>1, <1>3, Quiet DEF Unsettled
  <2>2. /\ res'[a] = r /\ lease'[l] = n /\ op' = op /\ call' = call
        /\ \A m \in Leases \ {l} : lease'[m] = lease[m]
    BY <1>0, <1>1, <1>3
  <2>3. ~Open(l)
    BY <1>1 DEF ResourceInv, References, Open
  <2>4. HoldsOf(a)'
    BY <1>1, <2>1, <2>2 DEF HoldsOf
  <2>5. OpenOf(a)'
    BY <1>1, <2>1, <2>2, <2>3 DEF OpenOf, Open, Unsettled
  <2>6. \A k \in Callers : call[k].pc # "idle" => call[k].lease \in Leases \ {l}
    BY <1>1 DEF ResourceInv, References
  <2>7. RequestsOf(a)'
    BY <2>1, <2>2, <2>6 DEF RequestsOf
  <2> QED
    BY <2>4, <2>5, <2>7 DEF HolderOf
<1> QED
  BY <1>2, <1>3

LEMMA ExpiryHolds ==
    ASSUME ResourceInv, NEW a \in Activations, HolderOf(a), NEW l \in Leases, LeaseExpires(l) PROVE HolderOf(a)'
<1>0. lease \in [Leases -> LeaseRow]
  BY Typed DEF ResourceInv
<1>1. PICK n \in LeaseRow :
              /\ lease' = [lease EXCEPT ![l] = n] /\ lease[l].state = "active"
              /\ n.state = "expired" /\ n.res = lease[l].res /\ n.gen = lease[l].gen
              /\ UNCHANGED <<res, buy, op, call, inbox, calls, crashed, overlapped>>
  BY ExpiryMoves
<1>2. \A m \in Leases : /\ lease'[m].res = lease[m].res /\ lease'[m].gen = lease[m].gen
                        /\ lease'[m].state \in Held <=> lease[m].state \in Held
  BY <1>0, <1>1 DEF Held
<1>3. HoldsOf(a)' /\ OpenOf(a)'
  BY <1>1, <1>2 DEF HolderOf, HoldsOf, OpenOf, Open
<1>4. RequestsOf(a)'
  BY <1>1, <1>2 DEF HolderOf, RequestsOf, Open, ResourceInv, References
<1> QED
  BY <1>3, <1>4 DEF HolderOf

LEMMA ReleaseHolds ==
    ASSUME ResourceInv, OneRequest, NEW a \in Activations, ~Overlapped(a), HolderOf(a), NEW k \in Callers, Release(k)
    PROVE  HolderOf(a)'
<1>0. /\ res \in [Activations -> RowType] /\ lease \in [Leases -> LeaseRow] /\ op \in [Leases -> OpType]
      /\ call \in [Callers -> CallRow]
  BY Typed DEF ResourceInv
<1>1. PICK l \in Leases, b \in Activations :
            /\ l = call[k].lease /\ b = lease[l].res /\ call[k].pc = "opened" /\ lease[l].state # "unused"
  BY ReleaseMoves
<1>2. PICK row \in {call[k].view, res[b]} : ReleaseBegins(k, row) \/ ReleaseRefused(k, row) \/ ReleaseEnds(k, row)
  BY <1>1, ReleaseMoves
<1>3. CASE a # b
  <2>1. CASE ReleaseRefused(k, row)
    <3>1. call' = [call EXCEPT ![k] = NoCall] /\ UNCHANGED <<res, lease, op>>
      BY <2>1 DEF ReleaseRefused
    <3>2. \A j \in Callers : call'[j] = call[j] \/ call'[j].pc = "idle"
      BY <1>0, <3>1, NoCallTyped
    <3> QED
      BY <3>1, <3>2, Untouched
  <2>2. CASE ReleaseBegins(k, row) \/ ReleaseEnds(k, row)
    <3>1. \A m \in Leases \ {l} : lease'[m] = lease[m] /\ op'[m] = op[m]
      BY <1>0, <1>1, <2>2 DEF ReleaseBegins, ReleaseEnds
    <3>2. lease'[l].res = b
      BY <1>0, <1>1, <2>2 DEF ReleaseBegins, ReleaseEnds
    <3>3. res'[a] = res[a]
      BY <1>0, <1>1, <1>3, <2>2 DEF ReleaseBegins, ReleaseEnds
    <3>4. \A j \in Callers : call'[j] = call[j] \/ call'[j].pc = "idle" \/ call'[j].lease = l
      BY <1>0, <1>1, <2>2, NoCallTyped DEF ReleaseBegins, ReleaseEnds
    <3> QED
      BY <1>1, <1>3, <3>1, <3>2, <3>3, <3>4, Untouched
  <2> QED
    BY <1>2, <2>1, <2>2
<1>4. CASE a = b
  <2>1. lease[l].state \in Held /\ call[k].view = res[a] /\ res[a].state = "claimed" /\ row = res[a]
    BY <1>1, <1>4 DEF HolderOf, RequestsOf, HoldsOf
  <2>2. op[l].status = "none"
    BY <2>1 DEF ResourceInv, References, Held
  <2>3. ReleaseBegins(k, row)
    BY <1>1, <1>2, <2>1, <2>2 DEF ReleaseRefused, ReleaseEnds
  <2>4. PICK n \in LeaseRow, r \in RowType, o \in OpType, c \in CallRow :
            /\ lease' = [lease EXCEPT ![call[k].lease] = n] /\ n.state = "released" /\ n.res = lease[call[k].lease].res
            /\ res' = [res EXCEPT ![lease[call[k].lease].res] = r] /\ r.state = "releasing" /\ r.gen = res[lease[call[k].lease].res].gen
            /\ op' = [op EXCEPT ![call[k].lease] = o] /\ o.status = "pending" /\ o.gen = row.gen
            /\ call' = [call EXCEPT ![k] = c] /\ c.pc = "close" /\ c.lease = call[k].lease /\ c.op = o
    BY <2>3, Zenon DEF ReleaseBegins
  <2>5. /\ lease'[l] = n /\ n.res = a /\ op'[l] = o /\ call'[k] = c /\ c.lease = l /\ res'[a] = r
        /\ o.gen = res[a].gen /\ r.gen = res[a].gen
        /\ \A m \in Leases \ {l} : lease'[m] = lease[m] /\ op'[m] = op[m]
        /\ \A j \in Callers \ {k} : call'[j] = call[j]
    BY <1>0, <1>1, <1>4, <2>1, <2>4
  <2>6. \A m \in Leases : ~(Open(m) /\ lease[m].res = a)
    BY <2>1 DEF HolderOf, OpenOf, Unsettled
  <2>7. HoldsOf(a)'
    <3>1. \A m \in Leases : ~(lease'[m].state \in Held /\ lease'[m].res = a)
      <4>1. \A m \in Leases \ {l} : ~(lease[m].state \in Held /\ lease[m].res = a)
        BY <1>1, <1>4, <2>1 DEF HolderOf, HoldsOf
      <4>2. lease'[l].state \notin Held
        BY <2>4, <2>5 DEF Held
      <4> QED
        BY <2>5, <4>1, <4>2
    <3> QED
      BY <3>1 DEF HoldsOf
  <2>8. OpenOf(a)'
    BY <2>4, <2>5, <2>6 DEF OpenOf, Open, Unsettled
  <2>9. ASSUME NEW j \in Callers \ {k}, call[j].pc # "idle", call[j].lease \in Leases, lease[call[j].lease].res = a
        PROVE  FALSE
    <3>1. call[j].pc \in {"opened", "close", "load", "write"}
      BY <1>0, <2>9 DEF CallRow
    <3>2. call[j].pc = "opened" /\ lease[call[j].lease].state \in Held
      BY <2>6, <2>9, <3>1 DEF HolderOf, RequestsOf, Working
    <3>3. call[j].lease = l
      BY <1>1, <1>4, <2>1, <2>9, <3>2 DEF HolderOf, HoldsOf
    <3>4. l \notin overlapped
      BY <1>1, <1>4 DEF Overlapped
    <3> QED
      BY <1>1, <2>9, <3>3, <3>4 DEF OneRequest
  <2>10. \A j \in Callers : call[j].pc # "idle" => call[j].lease \in Leases
    BY DEF ResourceInv, References
  <2>11. \A j \in Callers \ {k} : ~(call'[j].pc # "idle" /\ lease'[call'[j].lease].res = a)
    <3> SUFFICES ASSUME NEW j \in Callers \ {k}, call[j].pc # "idle", lease'[call[j].lease].res = a PROVE FALSE
      BY <2>5
    <3>1. call[j].lease \in Leases
      BY <2>10
    <3>2. lease[call[j].lease].res = a
      BY <1>1, <1>4, <2>5, <3>1
    <3> QED
      BY <2>9, <3>1, <3>2
  <2>12. RequestsOf(a)'
    BY <2>4, <2>5, <2>11 DEF RequestsOf, Open
  <2> QED
    BY <2>7, <2>8, <2>12 DEF HolderOf
<1> QED
  BY <1>3, <1>4

\* finalize_release_cas never makes a resource claimed.
LEMMA SettledStates ==
    ASSUME NEW v, NEW o \in Outcomes
    PROVE  /\ Settled(v, o).state \in {"available", "cooldown", "release_unknown"}
           /\ o = "unknown" => Settled(v, o).gen = v.gen /\ Settled(v, o).state = "release_unknown"
           /\ o # "unknown" => Settled(v, o).state \in {"available", "cooldown"}
BY DEF Settled, Outcomes

LEMMA FinalizeHolds ==
    ASSUME ResourceInv, OneRequest, NEW a \in Activations, ~Overlapped(a), HolderOf(a), NEW k \in Callers, FinalizeWrite(k)
    PROVE  HolderOf(a)'
<1> DEFINE v == call[k].view
           x == call[k].outcome
           new == Settled(v, x)
<1>0. /\ res \in [Activations -> RowType] /\ lease \in [Leases -> LeaseRow] /\ op \in [Leases -> OpType]
      /\ call \in [Callers -> CallRow]
  BY Typed DEF ResourceInv
<1>1. PICK l \in Leases, b \in Activations :
            /\ l = call[k].lease /\ b = lease[l].res /\ call[k].pc = "write" /\ x \in Outcomes
  BY <1>0 DEF FinalizeWrite, ResourceInv, References, CallRow, Working
<1>2. lease' = lease /\ call' = [call EXCEPT ![k] = NoCall]
  BY FinalizeWrites
<1>3. call'[k].pc = "idle" /\ \A j \in Callers \ {k} : call'[j] = call[j]
  BY <1>0, <1>2, NoCallTyped
<1>4. CASE UNCHANGED <<res, op>>
  BY <1>2, <1>3, <1>4, Untouched
<1>5. CASE /\ res' = [res EXCEPT ![b] = Written(res[b], v, new)]
           /\ op' = [op EXCEPT ![l].status = IF op[l].gen = call[k].op.gen THEN x ELSE op[l].status]
  <2>1. CASE a # b
    <3>1. res'[a] = res[a] /\ \A m \in Leases \ {l} : op'[m] = op[m]
      BY <1>0, <1>5, <2>1
    <3> QED
      BY <1>1, <1>2, <1>3, <2>1, <3>1, Untouched
  <2>2. CASE a = b
    <3>1. v = res[a] /\ Open(l) /\ call[k].op.gen = op[l].gen /\ res[a].state \in Unsettled /\ res[a].gen = op[l].gen
      BY <1>1, <2>2 DEF HolderOf, RequestsOf, OpenOf, Working
    <3>2. /\ new.state \in {"available", "cooldown", "release_unknown"}
          /\ x = "unknown" => new.gen = v.gen /\ new.state = "release_unknown"
          /\ x # "unknown" => new.state \in {"available", "cooldown"}
      BY <1>1, SettledStates
    <3> HIDE DEF new
    <3>3. Written(v, v, new).state = new.state /\ Written(v, v, new).gen = new.gen
      BY DEF Written
    <3>4. res'[a].state = new.state /\ res'[a].gen = new.gen
      BY <1>0, <1>5, <2>2, <3>1, <3>3
    <3>5. op'[l].status = x /\ op'[l].gen = op[l].gen /\ \A m \in Leases \ {l} : op'[m] = op[m]
      BY <1>0, <1>5, <3>1 DEF OpType
    <3> HIDE DEF x, v
    <3>6. \A m \in Leases : ~(lease[m].state \in Held /\ lease[m].res = a)
      BY <3>1 DEF HolderOf, HoldsOf, Unsettled
    <3>7. \A m \in Leases : Open(m) /\ lease[m].res = a => m = l
      BY <1>1, <2>2, <3>1 DEF HolderOf, OpenOf
    <3>8. HoldsOf(a)'
      BY <1>2, <3>6 DEF HoldsOf
    <3>9. OpenOf(a)'
      <4>1. \A m \in Leases : Open(m)' /\ lease'[m].res = a => m = l
        BY <1>2, <3>5, <3>7 DEF Open
      <4>2. Open(l)' <=> x = "unknown"
        BY <1>1, <3>5 DEF Open, Outcomes
      <4>3. res'[a].state \in Unsettled <=> x = "unknown"
        BY <3>2, <3>4 DEF Unsettled
      <4>4. x = "unknown" => res'[a].gen = op'[l].gen
        BY <3>1, <3>2, <3>4, <3>5
      <4> QED
        BY <1>1, <1>2, <2>2, <4>1, <4>2, <4>3, <4>4 DEF OpenOf
    <3>10. ASSUME NEW j \in Callers \ {k}, call[j].pc # "idle", lease[call[j].lease].res = a PROVE FALSE
      <4>1. call[j].pc \in {"opened", "close", "load", "write"} /\ call[j].lease \in Leases
        BY <1>0, <3>10 DEF CallRow, ResourceInv, References
      <4>2. Open(call[j].lease)
        BY <3>6, <3>10, <4>1 DEF HolderOf, RequestsOf, Working
      <4>3. call[j].lease = l
        BY <3>7, <3>10, <4>1, <4>2
      <4>4. l \notin overlapped
        BY <1>1, <2>2 DEF Overlapped
      <4> QED
        BY <1>1, <3>10, <4>3, <4>4 DEF OneRequest
    <3>11. RequestsOf(a)'
      BY <1>2, <1>3, <3>10 DEF RequestsOf
    <3> QED
      BY <3>8, <3>9, <3>11 DEF HolderOf
  <2> QED
    BY <2>1, <2>2
<1> QED
  BY <1>1, <1>4, <1>5, FinalizeWrites

\* The other steps of a request change nothing but the request itself.
LEMMA RequestHolds ==
    ASSUME ResourceInv, NEW a \in Activations, HolderOf(a), NEW k \in Callers,
           \/ CloseRemote(k) \/ FinalizeLoad(k) \/ CallerDies(k)
           \/ \E l \in Leases : OpenRelease(k, l) \/ ReleaseAgain(k, l)
    PROVE  HolderOf(a)'
<1>0. call \in [Callers -> CallRow] /\ UNCHANGED <<res, lease, op>>
  BY Typed DEF ResourceInv, CloseRemote, FinalizeLoad, CallerDies, OpenRelease, ReleaseAgain
<1>1. \A j \in Callers \ {k} : call'[j] = call[j]
  BY <1>0 DEF CloseRemote, FinalizeLoad, CallerDies, OpenRelease, ReleaseAgain
<1>2. HoldsOf(a)' /\ OpenOf(a)'
  BY <1>0 DEF HolderOf, HoldsOf, OpenOf, Open
<1>3. ASSUME \/ call'[k].pc = "idle"
             \/ /\ call'[k].pc = "opened" /\ lease[call'[k].lease].state \in Held
                /\ call'[k].view = res[lease[call'[k].lease].res]
             \/ /\ call'[k].pc \in Working /\ Open(call'[k].lease) /\ call'[k].op.gen = op[call'[k].lease].gen
                /\ call'[k].pc = "write" => call'[k].view = res[lease[call'[k].lease].res]
             \/ lease[call'[k].lease].res # a
      PROVE  HolderOf(a)'
  <2>1. RequestsOf(a)'
    <3> SUFFICES ASSUME NEW j \in Callers, call'[j].pc # "idle", lease[call'[j].lease].res = a
                 PROVE  /\ call'[j].pc = "opened" => lease[call'[j].lease].state \in Held /\ call'[j].view = res[a]
                        /\ call'[j].pc \in Working => Open(call'[j].lease) /\ call'[j].op.gen = op[call'[j].lease].gen
                        /\ call'[j].pc = "write" => call'[j].view = res[a]
      BY <1>0 DEF RequestsOf, Open
    <3>1. CASE j = k
      BY <1>3, <3>1 DEF Working
    <3>2. CASE j # k
      BY <1>1, <3>2 DEF HolderOf, RequestsOf
    <3> QED
      BY <3>1, <3>2
  <2> QED
    BY <1>2, <2>1 DEF HolderOf
<1>4. CASE CloseRemote(k)
  <2>1. call[k].pc = "close" /\ call'[k].pc = "load" /\ call'[k].lease = call[k].lease /\ call'[k].op = call[k].op
    BY <1>0, <1>4 DEF CloseRemote, CallRow
  <2> QED
    BY <1>3, <2>1 DEF HolderOf, RequestsOf, Working
<1>5. CASE FinalizeLoad(k)
  <2>1. /\ call[k].pc = "load" /\ call'[k].pc = "write" /\ call'[k].lease = call[k].lease /\ call'[k].op = call[k].op
        /\ call'[k].view = res[lease[call[k].lease].res]
    BY <1>0, <1>5 DEF FinalizeLoad, CallRow
  <2> QED
    BY <1>3, <2>1 DEF HolderOf, RequestsOf, Working
<1>6. CASE CallerDies(k)
  BY <1>0, <1>3, <1>6, NoCallTyped DEF CallerDies
<1>7. ASSUME NEW l \in Leases, OpenRelease(k, l) PROVE HolderOf(a)'
  <2>1. /\ call'[k].pc = "opened" /\ call'[k].lease = l /\ call'[k].view = res[lease[l].res]
        /\ lease[l].state \in Held
    BY <1>0, <1>7 DEF OpenRelease, CallRow, Held
  <2> QED
    BY <1>3, <2>1
<1>8. ASSUME NEW l \in Leases, ReleaseAgain(k, l) PROVE HolderOf(a)'
  <2>1. call'[k].pc = "close" /\ call'[k].lease = l /\ call'[k].op = op[l] /\ Open(l)
    <3>1. call[k] \in CallRow /\ call' = [call EXCEPT ![k].pc = "close", ![k].lease = l, ![k].op = op[l]]
      BY <1>0, <1>8 DEF ReleaseAgain
    <3>2. op[l].status \in {"pending", "unknown"}
      BY <1>8 DEF ReleaseAgain
    <3> QED
      BY <1>0, <3>1, <3>2 DEF CallRow, Open
  <2> QED
    BY <1>3, <2>1 DEF Working
<1> QED
  BY <1>4, <1>5, <1>6, <1>7, <1>8

LEMMA ReplenishHolds ==
    ASSUME ResourceInv, NEW a \in Activations, HolderOf(a), NEW b \in Activations, Replenish(b) PROVE HolderOf(a)'
<1>0. res \in [Activations -> RowType] /\ UNCHANGED others
  BY Typed, ReplenishKeeps DEF ResourceInv
<1>1. CASE res'[a] = res[a]
  BY <1>0, <1>1, Untouched DEF others
<1>2. CASE ReplenishStore(b) /\ a = b
  <2>1. res[a].state = "none" /\ res'[a].state = "available"
    BY <1>0, <1>2 DEF ReplenishStore, ResourceInv, StoredOnce, RowType
  <2>2. /\ \A m \in Leases : ~(lease[m].state \in Held /\ lease[m].res = a) /\ ~(Open(m) /\ lease[m].res = a)
        /\ \A k \in Callers : ~(call[k].pc # "idle" /\ lease[call[k].lease].res = a)
    BY <2>1, Quiet DEF Unsettled
  <2> QED
    BY <1>0, <2>1, <2>2 DEF others, HolderOf, HoldsOf, OpenOf, RequestsOf, Open, Unsettled
<1>3. CASE ReplenishStore(b) /\ a # b
  BY <1>0, <1>1, <1>3 DEF ReplenishStore
<1> QED
  BY <1>1, <1>2, <1>3 DEF Replenish, ReplenishStart, ReplenishAnswer, ReplenishStoreFails, ReplenishCrash

\* Overlap is never forgotten, and a lease keeps its resource.
LEMMA OverlapGrows ==
    ASSUME ResourceInv, [Next]_vars
    PROVE  /\ overlapped \subseteq overlapped' /\ \A a \in Activations : Overlapped(a) => Overlapped(a)'
<1>0. /\ lease \in [Leases -> LeaseRow] /\ overlapped \in SUBSET Leases
      /\ \A l \in overlapped : lease[l].state # "unused"
  BY Typed DEF ResourceInv, References
<1>1. ASSUME overlapped \subseteq overlapped', \A l \in Leases : lease[l].state # "unused" => lease'[l].res = lease[l].res
      PROVE  /\ overlapped \subseteq overlapped' /\ \A a \in Activations : Overlapped(a) => Overlapped(a)'
  BY <1>0, <1>1 DEF Overlapped
<1>2. ASSUME NEW a \in Activations, Replenish(a) PROVE UNCHANGED <<lease, overlapped>>
  BY <1>2, ReplenishKeeps DEF others
<1>3. ASSUME NEW l \in Leases, Lease(l)
      PROVE  overlapped' = overlapped /\ \A m \in Leases : lease[m].state # "unused" => lease'[m].res = lease[m].res
  <2>1. CASE LeaseExpires(l)
    BY <1>0, <2>1, ExpiryMoves
  <2>2. ASSUME NEW a \in Activations, AcquireActivation(l, a)
        PROVE  overlapped' = overlapped /\ \A m \in Leases : lease[m].state # "unused" => lease'[m].res = lease[m].res
    BY <1>0, <2>2, AcquireMoves
  <2> QED
    BY <1>3, <2>1, <2>2 DEF Lease
<1>4. ASSUME NEW k \in Callers, Release(k)
      PROVE  overlapped' = overlapped /\ \A m \in Leases : lease'[m].res = lease[m].res
  <2>1. call[k].lease \in Leases /\ overlapped' = overlapped
    BY <1>4, ReleaseMoves
  <2>2. PICK row : ReleaseBegins(k, row) \/ ReleaseRefused(k, row) \/ ReleaseEnds(k, row)
    BY <1>4, ReleaseMoves
  <2> QED
    BY <1>0, <2>1, <2>2 DEF ReleaseBegins, ReleaseRefused, ReleaseEnds
<1>5. ASSUME NEW k \in Callers, Endpoint(k), ~Release(k) PROVE lease' = lease /\ overlapped \subseteq overlapped'
  BY <1>5 DEF Endpoint, Caller, CloseRemote, FinalizeLoad, FinalizeWrite, CallerDies, OpenRelease, ReleaseAgain, NoteOverlap
<1>6. ASSUME NEW i \in Inboxes \cup Debugging, Inbox(i) PROVE UNCHANGED <<lease, overlapped>>
  BY <1>6, InboxMoves DEF inventory
<1>7. CASE UNCHANGED <<lease, overlapped>>
  BY <1>1, <1>7
<1>8. CASE UNCHANGED vars
  BY <1>7, <1>8 DEF vars
<1> QED
  BY <1>1, <1>2, <1>3, <1>4, <1>5, <1>6, <1>7, <1>8 DEF Next

LEMMA OneRequestKept ==
    ASSUME ResourceInv, OneRequest, [Next]_vars PROVE OneRequest'
<1>0. call \in [Callers -> CallRow] /\ overlapped \subseteq overlapped'
  BY Typed, OverlapGrows DEF ResourceInv
\* Requests end or go on with their lease, ...
<1>1. CASE \A k \in Callers : call'[k].pc # "idle" => call[k].pc # "idle" /\ call'[k].lease = call[k].lease
  BY <1>0, <1>1 DEF OneRequest
<1>2. CASE call' = call
  BY <1>1, <1>2
\* ... and one that begins where another is under way is noted.
<1>3. ASSUME NEW k \in Callers, NEW l \in Leases, OpenRelease(k, l) \/ ReleaseAgain(k, l) PROVE OneRequest'
  <2>1. call'[k].lease = l /\ \A j \in Callers \ {k} : call'[j] = call[j]
    BY <1>0, <1>3 DEF OpenRelease, ReleaseAgain, CallRow
  <2>2. \A j \in Callers : call[j].lease = l => l \in overlapped'
    BY <1>3 DEF OpenRelease, ReleaseAgain, NoteOverlap
  <2> QED
    BY <1>0, <2>1, <2>2 DEF OneRequest
<1>4. ASSUME NEW k \in Callers, CloseRemote(k) \/ FinalizeLoad(k) PROVE OneRequest'
  <2>1. /\ call[k].pc # "idle" /\ call'[k].lease = call[k].lease /\ \A j \in Callers \ {k} : call'[j] = call[j]
    BY <1>0, <1>4 DEF CloseRemote, FinalizeLoad, CallRow
  <2> QED
    BY <1>1, <2>1
<1>5. ASSUME NEW k \in Callers, FinalizeWrite(k) \/ CallerDies(k) PROVE OneRequest'
  <2>1. call'[k].pc = "idle" /\ \A j \in Callers \ {k} : call'[j] = call[j]
    BY <1>0, <1>5, NoCallTyped DEF FinalizeWrite, CallerDies
  <2> QED
    BY <1>1, <2>1
<1>6. ASSUME NEW k \in Callers, Release(k) PROVE OneRequest'
  <2>1. call[k].pc = "opened"
    BY <1>6, ReleaseMoves
  <2>2. PICK row : ReleaseBegins(k, row) \/ ReleaseRefused(k, row) \/ ReleaseEnds(k, row)
    BY <1>6, ReleaseMoves
  <2>3. /\ call'[k].pc = "idle" \/ call'[k].lease = call[k].lease
        /\ \A j \in Callers \ {k} : call'[j] = call[j]
    BY <1>0, <2>2, NoCallTyped DEF ReleaseBegins, ReleaseRefused, ReleaseEnds
  <2> QED
    BY <1>1, <2>1, <2>3
<1>7. ASSUME NEW a \in Activations, Replenish(a) PROVE call' = call
  BY <1>7, ReplenishKeeps DEF others
<1>8. ASSUME NEW l \in Leases, Lease(l) PROVE call' = call
  BY <1>8 DEF Lease, LeaseExpires, AcquireActivation
<1>9. ASSUME NEW i \in Inboxes \cup Debugging, Inbox(i) PROVE call' = call
  BY <1>9, InboxMoves DEF inventory
<1>10. CASE UNCHANGED vars
  BY <1>2, <1>10 DEF vars
<1> QED
  BY <1>2, <1>3, <1>4, <1>5, <1>6, <1>7, <1>8, <1>9, <1>10 DEF Next, Endpoint, Caller

LEMMA HolderKept == ResourceInv /\ HolderInv /\ [Next]_vars => HolderInv'
<1> SUFFICES ASSUME ResourceInv, HolderInv, [Next]_vars PROVE HolderInv'
  OBVIOUS
<1>0. OneRequest'
  BY OneRequestKept DEF HolderInv
<1> SUFFICES ASSUME NEW a \in Activations, ~Overlapped(a)' PROVE HolderOf(a)'
  BY <1>0 DEF HolderInv
<1>1. ~Overlapped(a) /\ HolderOf(a) /\ OneRequest
  BY OverlapGrows DEF HolderInv
<1>2. CASE UNCHANGED <<res, lease, op, call>>
  BY <1>1, <1>2, Untouched
<1>3. ASSUME NEW i \in Inboxes \cup Debugging, Inbox(i) PROVE HolderOf(a)'
  BY <1>2, <1>3, InboxMoves DEF inventory
<1>4. CASE UNCHANGED vars
  BY <1>2, <1>4 DEF vars
<1>5. ASSUME NEW b \in Activations, Replenish(b) PROVE HolderOf(a)'
  BY <1>1, <1>5, ReplenishHolds
<1>6. ASSUME NEW l \in Leases, Lease(l) PROVE HolderOf(a)'
  BY <1>1, <1>6, AcquireHolds, ExpiryHolds DEF Lease
<1>7. ASSUME NEW k \in Callers, Endpoint(k) PROVE HolderOf(a)'
  BY <1>1, <1>7, ReleaseHolds, FinalizeHolds, RequestHolds DEF Endpoint, Caller
<1> QED
  BY <1>3, <1>4, <1>5, <1>6, <1>7 DEF Next

LEMMA InitHolderInv == Init => HolderInv
<1> SUFFICES ASSUME Init PROVE HolderInv
  OBVIOUS
<1>1. /\ \A k \in Callers : call[k].pc = "idle"
      /\ \A l \in Leases : lease[l].state = "unused" /\ op[l].status = "none"
      /\ \A a \in Activations : res[a].state = "none"
  BY NoCallTyped, NoRowTyped DEF Init
<1> QED
  BY <1>1 DEF HolderInv, OneRequest, HolderOf, HoldsOf, OpenOf, RequestsOf, Open, Held, Unsettled

LEMMA AlwaysHolderInv == Spec => [](ResourceInv /\ HolderInv)
BY InitHolderInv, HolderKept, AlwaysResourceInv, PTL DEF Spec

\* However many threads serve releases: whoever has an active lease of an activation keeps it, in the
\* generation in which it was claimed, unless two releases of one of its leases were under way together.
THEOREM HoldersKeepAccess == Spec => []HolderKeepsUnlessOverlap
<1>1. ResourceInv /\ HolderInv => HolderKeepsUnlessOverlap
  BY DEF ResourceInv, References, HolderInv, HolderOf, HoldsOf, HolderKeepsUnlessOverlap, Held
<1> QED
  BY <1>1, AlwaysHolderInv, PTL

\* However many threads serve releases: a release that stopped half way or got no answer can be taken up
\* again by the release endpoint and will be accepted, unless releases of one lease overlapped.
THEOREM ReleasesResumable == Spec => []ReleaseResumable
<1>1. ResourceInv /\ HolderInv => ReleaseResumable
  <2> SUFFICES ASSUME ResourceInv, HolderInv, NEW a \in Activations, res[a].state \in Unsettled, ~Overlapped(a)
               PROVE  \E l \in Leases : /\ lease[l].state = "released" /\ lease[l].res = a
                                       /\ op[l].status \in {"pending", "unknown"} /\ MaySettle(res[a], op[l])
    BY DEF ReleaseResumable, Unsettled
  <2>1. OpenOf(a)
    BY DEF HolderInv, HolderOf
  <2>2. PICK l \in Leases : Open(l) /\ lease[l].res = a
    BY <2>1 DEF OpenOf
  <2>3. lease[l].state = "released"
    BY <2>2 DEF ResourceInv, References, Open
  <2>4. MaySettle(res[a], op[l])
    BY <2>1, <2>2 DEF OpenOf, MaySettle, Unsettled
  <2> QED
    BY <2>2, <2>3, <2>4 DEF Open
<1> QED
  BY <1>1, AlwaysHolderInv, PTL

-----------------------------------------------------------------------------
(* Claims can be ended *)

\* Lease l still holds activation a, and no request that waits to release it has seen anything but the claim.
Recovers(l, a) ==
    /\ lease[l].state \in Held /\ lease[l].res = a
    /\ \A k \in Callers : call[k].pc = "opened" /\ call[k].lease = l => call[k].view.state = "claimed"

RecoverInv == \A a \in Activations : res[a].state = "claimed" => \E l \in Leases : Recovers(l, a)

LEMMA RecoverKept == ResourceInv /\ RecoverInv /\ [Next]_vars => RecoverInv'
<1> SUFFICES ASSUME ResourceInv, RecoverInv, [Next]_vars, NEW a \in Activations, res'[a].state = "claimed"
             PROVE  \E l \in Leases : Recovers(l, a)'
  BY DEF RecoverInv
<1>0. /\ res \in [Activations -> RowType] /\ lease \in [Leases -> LeaseRow] /\ call \in [Callers -> CallRow]
  BY Typed DEF ResourceInv
\* The lease stays, and requests for it that wait waited before.
<1>1. ASSUME res[a].state = "claimed", \A m \in Leases : lease[m].state \in Held => lease'[m] = lease[m],
             \A k \in Callers : call'[k].pc = "opened" => call'[k] = call[k]
      PROVE  \E l \in Leases : Recovers(l, a)'
  <2>1. PICK l \in Leases : Recovers(l, a)
    BY <1>1 DEF RecoverInv
  <2>2. lease'[l] = lease[l]
    BY <1>1, <2>1 DEF Recovers
  <2> QED
    BY <1>1, <2>1, <2>2 DEF Recovers
<1>2. CASE lease' = lease /\ call' = call /\ res[a].state = "claimed"
  BY <1>1, <1>2
<1>3. ASSUME NEW b \in Activations, Replenish(b) PROVE \E l \in Leases : Recovers(l, a)'
  <2>1. lease' = lease /\ call' = call
    BY <1>3, ReplenishKeeps DEF others
  <2>2. res' = res \/ res' = [res EXCEPT ![b].state = "available"]
    BY <1>3 DEF Replenish, ReplenishStart, ReplenishAnswer, ReplenishStore, ReplenishStoreFails, ReplenishCrash
  <2>3. res[a].state = "claimed"
    BY <1>0, <2>2 DEF RowType
  <2> QED
    BY <1>2, <2>1, <2>3
<1>4. ASSUME NEW l \in Leases, NEW b \in Activations, AcquireActivation(l, b) PROVE \E m \in Leases : Recovers(m, a)'
  <2>1. PICK r \in RowType, n \in LeaseRow :
              /\ res' = [res EXCEPT ![b] = r] /\ lease' = [lease EXCEPT ![l] = n]
              /\ n.state = "active" /\ n.res = b /\ lease[l].state = "unused" /\ call' = call
    BY <1>4, AcquireMoves
  <2>2. CASE a = b
    <3>1. lease'[l] = n /\ \A k \in Callers : call[k].pc = "opened" => call[k].lease # l
      BY <1>0, <2>1 DEF ResourceInv, References
    <3>2. Recovers(l, a)'
      BY <2>1, <2>2, <3>1 DEF Recovers, Held
    <3> QED
      BY <3>2
  <2>3. CASE a # b
    <3>1. res[a].state = "claimed" /\ \A m \in Leases : lease[m].state \in Held => lease'[m] = lease[m]
      BY <1>0, <2>1, <2>3 DEF Held
    <3> QED
      BY <1>1, <2>1, <3>1
  <2> QED
    BY <2>2, <2>3
<1>5. ASSUME NEW l \in Leases, LeaseExpires(l) PROVE \E m \in Leases : Recovers(m, a)'
  <2>1. PICK n \in LeaseRow :
              /\ lease' = [lease EXCEPT ![l] = n] /\ n.state = "expired" /\ n.res = lease[l].res
              /\ res' = res /\ call' = call
    BY <1>5, ExpiryMoves
  <2>2. PICK m \in Leases : Recovers(m, a)
    BY <2>1 DEF RecoverInv
  <2>3. Recovers(m, a)'
    BY <1>0, <2>1, <2>2 DEF Recovers, Held
  <2> QED
    BY <2>3
<1>6. ASSUME NEW k \in Callers, Release(k) PROVE \E m \in Leases : Recovers(m, a)'
  <2>1. PICK l \in Leases, b \in Activations : l = call[k].lease /\ b = lease[l].res /\ call[k].pc = "opened"
    BY <1>6, ReleaseMoves
  <2>2. PICK row \in {call[k].view, res[b]} : ReleaseBegins(k, row) \/ ReleaseRefused(k, row) \/ ReleaseEnds(k, row)
    BY <1>6, <2>1, ReleaseMoves
  <2>3. /\ call'[k].pc # "opened" /\ \A j \in Callers \ {k} : call'[j] = call[j]
    BY <1>0, <2>2, NoCallTyped DEF ReleaseBegins, ReleaseRefused, ReleaseEnds
  <2>4. \A j \in Callers : call'[j].pc = "opened" => call'[j] = call[j]
    BY <2>3
  <2>5. CASE ReleaseRefused(k, row)
    BY <1>1, <2>4, <2>5 DEF ReleaseRefused
  <2>6. CASE ReleaseBegins(k, row) \/ ReleaseEnds(k, row)
    <3>1. \A m \in Leases \ {l} : lease'[m] = lease[m]
      BY <1>0, <2>1, <2>6 DEF ReleaseBegins, ReleaseEnds
    <3>2. res[a].state = "claimed"
      BY <1>0, <2>1, <2>6 DEF ReleaseBegins, ReleaseEnds
    <3>3. PICK m \in Leases : Recovers(m, a)
      BY <3>2 DEF RecoverInv
    <3>4. m # l
      <4>1. CASE ReleaseBegins(k, row)
        BY <1>0, <2>1, <3>3, <4>1 DEF ReleaseBegins, Recovers
      <4>2. CASE ReleaseEnds(k, row)
        BY <2>1, <2>2, <3>2, <3>3, <4>2 DEF ReleaseEnds, Recovers
      <4> QED
        BY <2>6, <4>1, <4>2
    <3>5. Recovers(m, a)'
      BY <2>4, <3>1, <3>3, <3>4 DEF Recovers
    <3> QED
      BY <3>5
  <2> QED
    BY <2>2, <2>5, <2>6
<1>7. ASSUME NEW k \in Callers, FinalizeWrite(k) PROVE \E m \in Leases : Recovers(m, a)'
  <2> DEFINE b == lease[call[k].lease].res
             new == Settled(call[k].view, call[k].outcome)
  <2>0. call[k].outcome \in Outcomes
    BY <1>0 DEF CallRow
  <2>1. new.state # "claimed"
    BY <2>0, SettledStates
  <2> HIDE DEF new
  <2>2. Written(res[b], call[k].view, new).state = "claimed" => res[b].state = "claimed"
    BY <2>1 DEF Written
  <2>3. /\ lease' = lease /\ call' = [call EXCEPT ![k] = NoCall]
        /\ res' = res \/ res' = [res EXCEPT ![b] = Written(res[b], call[k].view, new)]
    BY <1>7, FinalizeWrites DEF new
  <2>4. res[a].state = "claimed"
    BY <1>0, <2>2, <2>3
  <2>5. \A j \in Callers : call'[j].pc = "opened" => call'[j] = call[j]
    BY <1>0, <2>3, NoCallTyped
  <2> QED
    BY <1>1, <2>3, <2>4, <2>5
<1>8. ASSUME NEW k \in Callers, NEW l \in Leases, OpenRelease(k, l) PROVE \E m \in Leases : Recovers(m, a)'
  <2>1. /\ UNCHANGED <<res, lease>> /\ call'[k].lease = l /\ call'[k].view = res[lease[l].res]
        /\ \A j \in Callers \ {k} : call'[j] = call[j]
    BY <1>0, <1>8 DEF OpenRelease, CallRow
  <2>2. PICK m \in Leases : Recovers(m, a)
    BY <2>1 DEF RecoverInv
  <2>3. Recovers(m, a)'
    BY <2>1, <2>2 DEF Recovers
  <2> QED
    BY <2>3
<1>9. ASSUME NEW k \in Callers,
             CloseRemote(k) \/ FinalizeLoad(k) \/ CallerDies(k) \/ \E l \in Leases : ReleaseAgain(k, l)
      PROVE  \E m \in Leases : Recovers(m, a)'
  <2>1. /\ UNCHANGED <<res, lease>> /\ call'[k].pc # "opened" /\ \A j \in Callers \ {k} : call'[j] = call[j]
    <3>1. CASE CloseRemote(k) \/ FinalizeLoad(k)
      BY <1>0, <3>1 DEF CloseRemote, FinalizeLoad, CallRow
    <3>2. CASE CallerDies(k)
      BY <1>0, <3>2, NoCallTyped DEF CallerDies
    <3>3. ASSUME NEW l \in Leases, ReleaseAgain(k, l)
          PROVE  UNCHANGED <<res, lease>> /\ call'[k].pc = "close" /\ \A j \in Callers \ {k} : call'[j] = call[j]
      BY <1>0, <3>3 DEF ReleaseAgain, CallRow
    <3> QED
      BY <1>9, <3>1, <3>2, <3>3
  <2> QED
    BY <1>1, <2>1
<1>10. ASSUME NEW i \in Inboxes \cup Debugging, Inbox(i) PROVE \E m \in Leases : Recovers(m, a)'
  BY <1>2, <1>10, InboxMoves DEF inventory
<1>11. CASE UNCHANGED vars
  BY <1>2, <1>11 DEF vars
<1> QED
  BY <1>3, <1>4, <1>5, <1>6, <1>7, <1>8, <1>9, <1>10, <1>11 DEF Next, Lease, Endpoint, Caller

\* However many releases run at once, a claimed activation has a lease that was not
\* released: the claim can always be ended through it.
THEOREM ClaimsRecoverable == Spec => []ClaimedIsRecoverable
<1>1. Init => RecoverInv
  BY NoRowTyped DEF Init, RecoverInv
<1>2. ResourceInv /\ RecoverInv /\ [Next]_vars => RecoverInv'
  BY RecoverKept
<1>3. RecoverInv => ClaimedIsRecoverable
  BY DEF RecoverInv, Recovers, ClaimedIsRecoverable, Held
<1> QED
  BY <1>1, <1>2, <1>3, AlwaysResourceInv, PTL DEF Spec

-----------------------------------------------------------------------------
(* Sessions of operators *)

Waiting == {i \in Debugging : inbox[i] = "provisioning"}

\* Requests that have passed the count are bounded, and a session can only come from one.
CountInv ==
    /\ Cardinality(Waiting) <= Operators
    /\ Cardinality(Sessions) + Cardinality(Waiting) < MaxSessions + Operators

LEMMA CountsFinite ==
    /\ IsFiniteSet(Waiting) /\ IsFiniteSet(Sessions)
    /\ Cardinality(Waiting) \in Nat /\ Cardinality(Sessions) \in Nat
<1>1. Waiting \in SUBSET Debugging /\ Sessions \in SUBSET Debugging
  BY DEF Waiting, Sessions
<1>2. IsFiniteSet(Waiting) /\ IsFiniteSet(Sessions)
  BY <1>1, FS_Subset, ProviderAssumption
<1> QED
  BY <1>2, FS_CardinalityType

LEMMA CountKept ==
    ASSUME ResourceInv, CountInv, NEW i \in Inboxes \cup Debugging, Inbox(i) PROVE CountInv'
<1>0. inbox \in [Inboxes \cup Debugging -> InboxStates] /\ MaxSessions \in Nat /\ Operators \in Nat
  BY Typed, ProviderAssumption DEF ResourceInv
<1>1. CASE i \notin Debugging
  <2>1. Waiting' = Waiting /\ Sessions' = Sessions
    BY <1>0, <1>1, InboxMoves DEF Waiting, Sessions
  <2> QED
    BY <2>1 DEF CountInv
<1>2. CASE i \in Debugging /\ Provision(i)
  <2>1. Waiting' = Waiting \cup {i} /\ Sessions' = Sessions /\ i \notin Waiting
    BY <1>0, <1>2 DEF Provision, Waiting, Sessions
  <2>2. Cardinality(Waiting') = Cardinality(Waiting) + 1
    BY <2>1, CountsFinite, FS_AddElement
  <2>3. Cardinality(Sessions) < MaxSessions /\ Cardinality(Waiting) < Operators
    BY <1>2 DEF Provision, Waiting
  <2> QED
    BY <1>0, <2>1, <2>2, <2>3, CountsFinite DEF CountInv
<1>3. CASE i \in Debugging /\ StoreInbox(i)
  <2>1. Waiting' = Waiting \ {i} /\ Sessions' = Sessions \cup {i} /\ i \in Waiting /\ i \notin Sessions
    BY <1>0, <1>3 DEF StoreInbox, Waiting, Sessions
  <2>2. Cardinality(Waiting') = Cardinality(Waiting) - 1
    BY <2>1, CountsFinite, FS_RemoveElement
  <2>3. Cardinality(Sessions') = Cardinality(Sessions) + 1
    BY <2>1, CountsFinite, FS_AddElement
  <2> QED
    BY <1>0, <2>2, <2>3, CountsFinite DEF CountInv
<1>4. CASE i \in Debugging /\ (LoseInbox(i) \/ InboxExpires(i) \/ ReleaseInbox(i))
  <2>1. Waiting' \in SUBSET Waiting /\ Sessions' \in SUBSET Sessions
    BY <1>0, <1>4 DEF LoseInbox, InboxExpires, ReleaseInbox, Waiting, Sessions
  <2>2. Cardinality(Waiting') <= Cardinality(Waiting) /\ IsFiniteSet(Waiting')
    BY <2>1, CountsFinite, FS_Subset
  <2>3. Cardinality(Sessions') <= Cardinality(Sessions) /\ IsFiniteSet(Sessions')
    BY <2>1, CountsFinite, FS_Subset
  <2>4. Cardinality(Waiting') \in Nat /\ Cardinality(Sessions') \in Nat
    BY <2>2, <2>3, FS_CardinalityType
  <2> QED
    BY <1>0, <2>2, <2>3, <2>4, CountsFinite DEF CountInv
<1> QED
  BY <1>1, <1>2, <1>3, <1>4 DEF Inbox

\* The limit on sessions is passed by fewer than the requests that are under way together.
THEOREM SessionOvershootBounded == Spec => []SessionsBounded
<1>1. Init => CountInv
  <2> SUFFICES ASSUME Init PROVE CountInv
    OBVIOUS
  <2>1. Waiting = {} /\ Sessions = {}
    BY DEF Init, Waiting, Sessions
  <2>2. Cardinality(Waiting) = 0 /\ Cardinality(Sessions) = 0
    BY <2>1, FS_EmptySet
  <2> QED
    BY <2>2, ProviderAssumption DEF CountInv
<1>2. ResourceInv /\ CountInv /\ [Next]_vars => CountInv'
  <2> SUFFICES ASSUME ResourceInv, CountInv, [Next]_vars PROVE CountInv'
    OBVIOUS
  <2>1. CASE UNCHANGED inbox
    BY <2>1 DEF CountInv, Waiting, Sessions
  <2>2. ASSUME NEW a \in Activations, Replenish(a) PROVE UNCHANGED inbox
    BY <2>2, ReplenishKeeps DEF others
  <2>3. ASSUME NEW l \in Leases, Lease(l) PROVE UNCHANGED inbox
    BY <2>3 DEF Lease, LeaseExpires, AcquireActivation
  <2>4. ASSUME NEW k \in Callers, Endpoint(k) PROVE UNCHANGED inbox
    BY <2>4 DEF Endpoint, Caller, CloseRemote, FinalizeLoad, FinalizeWrite, CallerDies, Release, BeginRelease, OpenRelease, ReleaseAgain
  <2> QED
    BY <2>1, <2>2, <2>3, <2>4, CountKept DEF Next, vars
<1>3. CountInv => SessionsBounded
  BY CountsFinite, ProviderAssumption DEF CountInv, SessionsBounded
<1> QED
  BY <1>1, <1>2, <1>3, AlwaysResourceInv, PTL DEF Spec
=============================================================================
