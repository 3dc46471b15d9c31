--------------------------- MODULE AddressProofs ---------------------------
(***************************************************************************)
(* Under REPEATABLE READ, MySQL's default, two active leases never share a *)
(* business address and every active lease is backed by its claim.         *)
(***************************************************************************)
EXTENDS LeaseClaimsProofs

-----------------------------------------------------------------------------
(* Steps that only remove rows *)

\* The leases of the next state are leases of this one, possibly released.
Shrinks ==
    /\ \A k \in leases' : \E l \in leases :
          k.id = l.id /\ k.mailbox = l.mailbox /\ (Active(k)' => Active(l) /\ k = l)
    /\ \A k, l \in leases' : k.id = l.id => k = l
    /\ claims' \subseteq claims
    /\ usedIds' = usedIds

\* A session is left alone or ends.
Kept(t) == pc'[t] = pc[t] /\ req'[t] = req[t] /\ pend'[t] = pend[t] /\ view'[t] = view[t]
Ended(t) == pc'[t] = "idle" /\ pend'[t] = NoWrites /\ view'[t] = NoView

LEMMA LiveShrinks ==
    ASSUME TypeOK, TypeOK', now' = now \/ now' = now + 1
    PROVE  /\ \A c \in ClaimRows : Live(c)' => Live(c)
           /\ \A l \in LeaseRows : Active(l)' => Active(l)
BY DEF TypeOK, ClaimRows, LeaseRows, Live, Active

LEMMA ShrinkFrame ==
    ASSUME AddressInv, BaseInv', Shrinks, ClaimMirrorsLease', now' = now \/ now' = now + 1,
           \A t \in Sessions : Kept(t) \/ Ended(t),
           \A t \in Sessions : pc[t] \in Writing /\ Kept(t) =>
              \A l \in leases : l.mailbox \in locked[t] =>
                 \E k \in leases' : k.id = l.id /\ k.mailbox = l.mailbox
    PROVE  AddressInv'
<1>1. TypeOK /\ TypeOK' BY DEF AddressInv, BaseInv
<1>2. UniqueRows' BY DEF AddressInv, UniqueRows, Shrinks
<1>3. IdsUsed'
    <2>1. \A l \in leases' : l.id \in usedIds' BY DEF AddressInv, IdsUsed, Shrinks
    <2>2. \A c \in claims' : c.lease \in usedIds' BY DEF AddressInv, IdsUsed, Shrinks
    <2>3. ASSUME NEW t \in Sessions
          PROVE  /\ pend'[t].dead \subseteq usedIds'
                 /\ \A c \in view'[t].claims :
                       /\ c.lease \in usedIds'
                       /\ \A l \in leases' : c.lease = l.id => c.mailbox = l.mailbox
        <3>1. CASE Ended(t) BY <3>1 DEF Ended, NoWrites, NoView
        <3>2. CASE Kept(t) BY <3>2 DEF Kept, AddressInv, IdsUsed, Shrinks
        <3>3. QED BY <3>1, <3>2
    <2>4. QED BY <2>1, <2>2, <2>3 DEF IdsUsed
<1>4. \A t \in Sessions : pc'[t] # "idle" => Kept(t) BY DEF Ended
<1>5. PendingRows'
    <2>1. SUFFICES ASSUME NEW s \in Sessions, pc'[s] \in Writing, NEW r \in pend'[s].put
                   PROVE  /\ r.id \in usedIds' =>
                                /\ req'[s].op = "reacquire"
                                /\ \E l \in leases' : l.id = r.id /\ l.mailbox = r.mailbox
                          /\ \A t \in Sessions \ {s} : pc'[t] \in Writing =>
                                \A q \in pend'[t].put : q.id # r.id
        BY DEF PendingRows
    <2>2. Kept(s) /\ pc[s] \in Writing /\ r \in pend[s].put
        BY <1>4, <2>1 DEF Kept, Writing
    <2>3. ASSUME r.id \in usedIds' PROVE \E l \in leases' : l.id = r.id /\ l.mailbox = r.mailbox
        <3>1. PICK l \in leases : l.id = r.id /\ l.mailbox = r.mailbox
            BY <2>2, <2>3 DEF AddressInv, PendingRows, Shrinks
        <3>2. l.mailbox \in locked[s]
            BY <2>2, <3>1 DEF AddressInv, BaseInv, SessionOK
        <3>3. QED BY <2>2, <3>1, <3>2
    <2>4. \A t \in Sessions \ {s} : pc'[t] \in Writing => \A q \in pend'[t].put : q.id # r.id
        BY <1>4, <2>2 DEF AddressInv, PendingRows, Kept, Writing
    <2>5. r.id \in usedIds' => req'[s].op = "reacquire"
        BY <2>2 DEF AddressInv, PendingRows, Shrinks, Kept
    <2>6. QED BY <2>3, <2>4, <2>5
<1>6. InsertedRows'
    <2>1. SUFFICES ASSUME NEW s \in Sessions, pc'[s] = "inserted", NEW r \in pend'[s].put
                   PROVE  /\ \A c \in claims' : c.lease \notin pend'[s].dead =>
                                c.lease # r.id /\ (r.address # NoAddress => c.address # r.address)
                          /\ \A t \in Sessions \ {s} : pc'[t] = "inserted" =>
                                \A q \in pend'[t].put : r.address # NoAddress => q.address # r.address
                          /\ \A l \in leases' : l.id \in pend'[s].dead =>
                                l.mailbox = r.mailbox /\ (Active(l)' => l.id = r.id)
        BY DEF InsertedRows
    <2>2. Kept(s) /\ pc[s] = "inserted" /\ r \in pend[s].put
        BY <1>4, <2>1 DEF Kept
    <2>3. \A t \in Sessions \ {s} : pc'[t] = "inserted" => Kept(t)
        BY <1>4
    <2>4. QED BY <2>2, <2>3 DEF AddressInv, InsertedRows, Kept, Shrinks
<1>7. NeverUnclaimed'
    <2>1. ASSUME NEW s \in Sessions PROVE pc'[s] # "unclaimed"
        BY <1>4 DEF AddressInv, NeverUnclaimed, Kept
    <2>2. ASSUME NEW s \in Sessions, pc'[s] = "selected", req'[s].op = "acquire",
                 NEW r \in pend'[s].put, ~IsPlus(r), NEW c \in view'[s].claims, c.mailbox = r.mailbox
          PROVE  ~Live(c)'
        <3>1. Kept(s) BY <1>4, <2>2
        <3>2. ~Live(c) BY <2>2, <3>1 DEF Kept, AddressInv, NeverUnclaimed
        <3>3. c \in ClaimRows BY <1>1, <2>2 DEF TypeOK, Views
        <3>4. QED BY <1>1, <3>2, <3>3, LiveShrinks
    <2>3. QED BY <2>1, <2>2 DEF NeverUnclaimed, IsPlus
<1>8. Imports'
    <2>1. ASSUME NEW s \in Sessions, pc'[s] \in {"imp_open", "imp_claims", "imp_commit"}
          PROVE  Kept(s) /\ Doomed(s)' = Doomed(s)
        BY <1>4, <2>1 DEF Kept, Doomed
    <2>2. ASSUME NEW s \in Sessions, pc'[s] \in {"imp_claims", "imp_commit"}
          PROVE  /\ \A l \in leases' : l.id \in Doomed(s)' =>
                       l.mailbox = req'[s].mailbox /\ (Active(l)' => l.id \in pend'[s].rel)
                 /\ \A t \in Sessions : pc'[t] \in Writing =>
                       \A r \in pend'[t].put : r.id \notin Doomed(s)'
        <3>1. Kept(s) /\ Doomed(s)' = Doomed(s) BY <2>1, <2>2
        <3>2. \A t \in Sessions : pc'[t] \in Writing => Kept(t) BY <1>4 DEF Writing
        <3>3. QED BY <2>2, <3>1, <3>2 DEF Kept, AddressInv, Imports, Shrinks
    <2>3. QED BY <2>1, <2>2 DEF Imports, Kept, AddressInv
<1>9. QED BY <1>2, <1>3, <1>5, <1>6, <1>7, <1>8 DEF AddressInv

\* An active lease of the next state is one of this state, with its claim.
LEMMA SameTables ==
    ASSUME AddressInv, TypeOK', UNCHANGED <<leases, claims, usedIds>>, now' = now \/ now' = now + 1
    PROVE  Shrinks /\ ClaimMirrorsLease'
<1>1. \A l \in leases : Active(l)' => Active(l)
    BY LiveShrinks DEF AddressInv, BaseInv, TypeOK
<1>2. QED BY <1>1 DEF Shrinks, AddressInv, UniqueRows, ClaimMirrorsLease, ClaimOf

LEMMA EndKept ==
    ASSUME TypeOK, NEW s \in Sessions, End(s)
    PROVE  Ended(s) /\ \A t \in Sessions \ {s} : Kept(t)
BY DEF TypeOK, End, Ended, Kept

LEMMA AddressEnd ==
    ASSUME AddressInv, BaseInv', NEW s \in Sessions, Abort(s) \/ DeleteSite(s)
    PROVE  AddressInv'
<1>1. End(s) /\ UNCHANGED <<now, leases, claims, usedIds>> BY DEF Abort, DeleteSite, tables
<1>2. Shrinks /\ ClaimMirrorsLease' BY <1>1, SameTables DEF BaseInv
<1>3. \A t \in Sessions : Kept(t) \/ Ended(t) BY <1>1, EndKept DEF AddressInv, BaseInv
<1>4. QED BY <1>1, <1>2, <1>3, ShrinkFrame

\* Releasing leases and deleting claims that back no other active lease.
LEMMA ReleasedShrinks ==
    ASSUME AddressInv, NEW ids, leases' = Released(ids), claims' \subseteq claims,
           UNCHANGED <<now, usedIds>>,
           \A l \in leases : Active(l) /\ l.id \notin ids => ClaimOf(l) \in claims'
    PROVE  /\ Shrinks /\ ClaimMirrorsLease'
           /\ \A l \in leases : \E k \in leases' : k.id = l.id /\ k.mailbox = l.mailbox
<1>1. \A l \in leases : LET k == [l EXCEPT !.released = TRUE] IN
         k.id = l.id /\ k.mailbox = l.mailbox /\ k.released = TRUE
    BY DEF AddressInv, BaseInv, TypeOK, LeaseRows
<1>2. \A k \in leases' : \E l \in leases :
         /\ k.id = l.id /\ k.mailbox = l.mailbox
         /\ k = IF l.id \in ids THEN [l EXCEPT !.released = TRUE] ELSE l
    BY <1>1 DEF Released
<1>3. ASSUME NEW k \in leases', Active(k)' PROVE k \in leases /\ Active(k) /\ k.id \notin ids
    <2>1. PICK l \in leases : k = IF l.id \in ids THEN [l EXCEPT !.released = TRUE] ELSE l
        BY <1>2
    <2>2. ~k.released /\ Active(k) BY <1>3 DEF Active
    <2>3. QED BY <1>1, <2>1, <2>2
<1>4. \A k \in leases' : \E l \in leases :
          k.id = l.id /\ k.mailbox = l.mailbox /\ (Active(k)' => Active(l) /\ k = l)
    BY <1>2, <1>3
<1>5. ASSUME NEW k \in leases', NEW l \in leases', k.id = l.id PROVE k = l
    <2>1. PICK a \in leases : k.id = a.id /\ k = IF a.id \in ids THEN [a EXCEPT !.released = TRUE] ELSE a
        BY <1>2
    <2>2. PICK b \in leases : l.id = b.id /\ l = IF b.id \in ids THEN [b EXCEPT !.released = TRUE] ELSE b
        BY <1>2
    <2>3. a = b BY <1>5, <2>1, <2>2 DEF AddressInv, UniqueRows
    <2>4. QED BY <2>1, <2>2, <2>3
<1>6. Shrinks BY <1>4, <1>5 DEF Shrinks
<1>7. ClaimMirrorsLease' BY <1>3 DEF ClaimMirrorsLease, ClaimOf
<1>8. \A l \in leases : \E k \in leases' : k.id = l.id /\ k.mailbox = l.mailbox
    BY <1>1 DEF Released
<1>9. QED BY <1>6, <1>7, <1>8

LEMMA AddressRelease ==
    ASSUME AddressInv, BaseInv', NEW s \in Sessions, Release(s)
    PROVE  AddressInv'
<1>1. PICK seen \in pend[s].put :
         /\ leases' = Released({seen.id})
         /\ claims' \subseteq claims /\ \A c \in claims : c.lease # seen.id => c \in claims'
    BY DEF Release
<1>2. End(s) /\ UNCHANGED <<now, usedIds>> BY DEF Release
<1>3. \A l \in leases : Active(l) /\ l.id # seen.id => ClaimOf(l) \in claims'
    BY <1>1 DEF AddressInv, ClaimMirrorsLease, ClaimOf
<1>4. /\ Shrinks /\ ClaimMirrorsLease'
      /\ \A l \in leases : \E k \in leases' : k.id = l.id /\ k.mailbox = l.mailbox
    BY <1>1, <1>2, <1>3, ReleasedShrinks
<1>5. \A t \in Sessions : Kept(t) \/ Ended(t) BY <1>2, EndKept DEF AddressInv, BaseInv
<1>6. QED BY <1>2, <1>4, <1>5, ShrinkFrame

LEMMA AddressCommitImport ==
    ASSUME AddressInv, BaseInv', NEW s \in Sessions, CommitImport(s)
    PROVE  AddressInv'
<1>1. /\ pc[s] = "imp_commit" /\ End(s) /\ UNCHANGED <<now, usedIds>>
      /\ leases' = Released(pend[s].rel)
      /\ claims' = {c \in claims : c.lease \notin pend[s].dead}
    BY DEF CommitImport
<1>2. Doomed(s) = pend[s].dead BY <1>1 DEF Doomed
<1>3. \A l \in leases : Active(l) /\ l.id \notin pend[s].rel => ClaimOf(l) \in claims'
    BY <1>1, <1>2 DEF AddressInv, ClaimMirrorsLease, ClaimOf, Imports
<1>4. /\ Shrinks /\ ClaimMirrorsLease'
      /\ \A l \in leases : \E k \in leases' : k.id = l.id /\ k.mailbox = l.mailbox
    BY <1>1, <1>3, ReleasedShrinks
<1>5. \A t \in Sessions : Kept(t) \/ Ended(t) BY <1>1, EndKept DEF AddressInv, BaseInv
<1>6. QED BY <1>1, <1>4, <1>5, ShrinkFrame

\* Deleted mailboxes are locked by no session that is writing a lease.
LEMMA AddressDelete ==
    ASSUME AddressInv, BaseInv', NEW S \in SUBSET Mailboxes, DeleteRows(S),
           \A t \in Sessions : Kept(t) \/ Ended(t),
           \A t \in Sessions : pc[t] \in Writing => locked[t] \cap S = {}
    PROVE  AddressInv'
<1>1. /\ leases' = {l \in leases : l.mailbox \notin S}
      /\ claims' = {c \in claims : c.mailbox \notin S}
      /\ UNCHANGED <<now, usedIds>>
    BY DEF DeleteRows
<1>2. Shrinks BY <1>1 DEF Shrinks, Active, AddressInv, UniqueRows
<1>3. ClaimMirrorsLease' BY <1>1 DEF AddressInv, ClaimMirrorsLease, ClaimOf, Active
<1>4. QED BY <1>1, <1>2, <1>3, ShrinkFrame

LEMMA AddressCommitDeletion ==
    ASSUME AddressInv, BaseInv', NEW s \in Sessions, CommitDeletion(s)
    PROVE  AddressInv'
<1>1. pc[s] \in Deleting /\ DeleteRows(pend[s].gone) /\ End(s) BY DEF CommitDeletion, Deleting
<1>2. pend[s].gone \subseteq locked[s] /\ LocksDisjoint /\ pend[s].gone \in SUBSET Mailboxes
    BY <1>1 DEF AddressInv, BaseInv, SessionOK, TypeOK, Writes
<1>3. \A t \in Sessions : Kept(t) \/ Ended(t) BY <1>1, EndKept DEF AddressInv, BaseInv
<1>4. \A t \in Sessions : pc[t] \in Writing => locked[t] \cap pend[s].gone = {}
    BY <1>1, <1>2 DEF LocksDisjoint, Writing, Deleting
<1>5. QED BY <1>1, <1>2, <1>3, <1>4, AddressDelete

LEMMA AddressAtomic == ASSUME AddressInv, BaseInv', Atomic PROVE AddressInv'
<1>1. CASE \E m \in Mailboxes, force \in BOOLEAN : DeleteMailbox(m, force)
    <2>1. PICK m \in Mailboxes : LockFree(m) /\ DeleteRows({m}) /\ UNCHANGED session
        BY <1>1 DEF DeleteMailbox
    <2>2. \A t \in Sessions : Kept(t) /\ locked[t] \cap {m} = {}
        BY <2>1 DEF Kept, session, LockFree
    <2>3. QED BY <2>1, <2>2, AddressDelete
<1>2. CASE UNCHANGED <<leases, claims, usedIds>>
    <2>1. UNCHANGED session /\ (now' = now \/ now' = now + 1)
        BY AtomicFrame DEF AddressInv, BaseInv, TypeOK
    <2>2. Shrinks /\ ClaimMirrorsLease' BY <1>2, <2>1, SameTables DEF BaseInv
    <2>3. \A t \in Sessions : Kept(t) BY <2>1 DEF session, Kept
    <2>4. QED BY <1>2, <2>1, <2>2, <2>3, ShrinkFrame
<1>3. QED BY <1>1, <1>2 DEF Atomic, ImportNew, MarkInvalid,
          ProbeCapability, PutSite, RevokeUsage, Tick, tables

-----------------------------------------------------------------------------
(* Steps of one session before its commit *)

\* Only session s moves: what is said of the tables and of the other sessions stays.
Only(s) ==
    /\ UNCHANGED <<now, leases, claims, usedIds>>
    /\ \A t \in Sessions \ {s} : Kept(t)

LEMMA OnlyTables ==
    ASSUME AddressInv, NEW s \in Sessions, Only(s)
    PROVE  UniqueRows' /\ ClaimMirrorsLease'
BY DEF AddressInv, Only, UniqueRows, ClaimMirrorsLease, ClaimOf, Active

LEMMA OnlyIds ==
    ASSUME AddressInv, NEW s \in Sessions, Only(s), pend'[s].dead \subseteq usedIds,
           view'[s].claims \subseteq view[s].claims \cup claims
    PROVE  IdsUsed'
<1>1. ASSUME NEW c \in view'[s].claims
      PROVE  c.lease \in usedIds /\ \A l \in leases : c.lease = l.id => c.mailbox = l.mailbox
    BY <1>1 DEF AddressInv, IdsUsed, UniqueRows
<1>2. ASSUME NEW t \in Sessions
      PROVE  /\ pend'[t].dead \subseteq usedIds'
             /\ \A c \in view'[t].claims :
                   /\ c.lease \in usedIds'
                   /\ \A l \in leases' : c.lease = l.id => c.mailbox = l.mailbox
    <2>1. CASE t = s BY <1>1, <2>1 DEF Only
    <2>2. CASE t # s BY <2>2 DEF Only, Kept, AddressInv, IdsUsed
    <2>3. QED BY <2>1, <2>2
<1>3. QED BY <1>2 DEF Only, AddressInv, IdsUsed

LEMMA OnlyImports ==
    ASSUME AddressInv, NEW s \in Sessions, Only(s),
           pc'[s] \notin {"imp_claims", "imp_commit"},
           pc'[s] = "imp_open" => pend'[s].dead = {},
           pc'[s] \in Writing => \A t \in Sessions : pc[t] \in {"imp_claims", "imp_commit"} =>
              \A q \in pend'[s].put : q.id \notin Doomed(t)
    PROVE  Imports'
<1>1. ASSUME NEW t \in Sessions, pc'[t] \in {"imp_claims", "imp_commit"}
      PROVE  t # s /\ Kept(t) /\ pc[t] = pc'[t] /\ Doomed(t)' = Doomed(t)
    BY <1>1 DEF Only, Kept, Doomed
<1>2. ASSUME NEW t \in Sessions, pc'[t] \in {"imp_claims", "imp_commit"},
             NEW u \in Sessions, pc'[u] \in Writing, NEW q \in pend'[u].put
      PROVE  q.id \notin Doomed(t)'
    <2>1. CASE u = s BY <1>1, <1>2, <2>1
    <2>2. CASE u # s
        <3>1. Kept(u) BY <2>2 DEF Only
        <3>2. pc[u] \in Writing /\ q \in pend[u].put BY <1>2, <3>1 DEF Kept
        <3>3. QED BY <1>1, <1>2, <3>2 DEF AddressInv, Imports
    <2>3. QED BY <2>1, <2>2
<1>3. ASSUME NEW t \in Sessions, pc'[t] \in {"imp_claims", "imp_commit"},
             NEW l \in leases', l.id \in Doomed(t)'
      PROVE  l.mailbox = req'[t].mailbox /\ (Active(l)' => l.id \in pend'[t].rel)
    <2>1. l \in leases /\ (Active(l)' => Active(l)) BY DEF Only, Active
    <2>2. QED BY <1>1, <1>3, <2>1 DEF Kept, AddressInv, Imports
<1>4. ASSUME NEW t \in Sessions, pc'[t] = "imp_open" PROVE pend'[t].dead = {}
    BY <1>4 DEF Only, Kept, AddressInv, Imports
<1>5. QED BY <1>2, <1>3, <1>4 DEF Imports

LEMMA AddressBegin ==
    ASSUME AddressInv, BaseInv', NEW s \in Sessions, NEW r, NEW w,
           NEW step \in {"open", "peeked", "imp_open", "site_counted"},
           Begin(s, r, step, w), w.dead = {}
    PROVE  AddressInv'
<1>1. /\ Only(s) /\ pc'[s] = step /\ pend'[s] = w /\ view'[s] = Snapshot
    BY DEF Begin, tables, Only, Kept, AddressInv, BaseInv, TypeOK
<1>2. UniqueRows' /\ ClaimMirrorsLease' BY <1>1, OnlyTables
<1>3. IdsUsed' BY <1>1, OnlyIds DEF Snapshot
<1>4. PendingRows' BY <1>1 DEF Only, Kept, AddressInv, PendingRows, Writing
<1>5. InsertedRows' BY <1>1 DEF Only, Kept, AddressInv, InsertedRows, Active
<1>6. NeverUnclaimed' BY <1>1 DEF Only, Kept, AddressInv, NeverUnclaimed, IsPlus, Live
<1>7. Imports' BY <1>1, OnlyImports DEF Writing
<1>8. QED BY <1>2, <1>3, <1>4, <1>5, <1>6, <1>7 DEF AddressInv

LEMMA AddressChunk ==
    ASSUME AddressInv, BaseInv', NEW s \in Sessions, DeleteFirstChunk(s) \/ DeleteNextChunk(s)
    PROVE  AddressInv'
<1>1. /\ Only(s) /\ pc'[s] \in Deleting
      /\ pend'[s].dead = pend[s].dead /\ view'[s] = DeletionView(s)
    <2>1. BaseInv /\ TypeOK BY DEF AddressInv, BaseInv
    <2>2. PICK C \in SUBSET Mailboxes :
             /\ pc'[s] \in Deleting
             /\ view' = [view EXCEPT ![s] = DeletionView(s)]
             /\ pend' = [pend EXCEPT ![s].gone = @ \cup StillInvalid(s, C)]
             /\ UNCHANGED <<now, tables>>
        BY <2>1, ChunkStep
    <2>3. \A t \in Sessions \ {s} : Kept(t) BY <2>1, DeletionFrame DEF Kept
    <2>4. pend'[s].dead = pend[s].dead /\ view'[s] = DeletionView(s)
        BY <2>1, <2>2 DEF TypeOK, Writes
    <2>5. QED BY <2>2, <2>3, <2>4 DEF Only, tables
<1>2. UniqueRows' /\ ClaimMirrorsLease' BY <1>1, OnlyTables
<1>3. IdsUsed'
    <2>1. DeletionView(s).claims \subseteq view[s].claims \cup claims
        BY DEF DeletionView, NoView
    <2>2. pend[s].dead \subseteq usedIds BY DEF AddressInv, IdsUsed
    <2>3. QED BY <1>1, <2>1, <2>2, OnlyIds
<1>4. PendingRows' BY <1>1 DEF Only, Kept, AddressInv, PendingRows, Writing, Deleting
<1>5. InsertedRows' BY <1>1 DEF Only, Kept, AddressInv, InsertedRows, Active, Deleting
<1>6. NeverUnclaimed' BY <1>1 DEF Only, Kept, AddressInv, NeverUnclaimed, IsPlus, Live, Deleting
<1>7. Imports' BY <1>1, OnlyImports DEF Writing, Deleting
<1>8. QED BY <1>2, <1>3, <1>4, <1>5, <1>6, <1>7 DEF AddressInv

LEMMA AddressOpen ==
    ASSUME AddressInv, BaseInv', NEW s \in Sessions,
           OpenAcquire(s) \/ OpenReacquire(s) \/ PeekLease(s) \/ OpenImport(s) \/ CountUsages(s)
    PROVE  AddressInv'
<1>1. NoWrites.dead = {} /\ \A l : [NoWrites EXCEPT !.put = {l}].dead = {} BY DEF NoWrites
<1>2. QED BY <1>1, AddressBegin DEF OpenAcquire, OpenReacquire, PeekLease, OpenImport, CountUsages

\* The mailbox is locked and the lease row is built: row is new, or renews an
\* active lease that no import is about to end.
LEMMA AddressSelected ==
    ASSUME AddressInv, BaseInv', NEW s \in Sessions, NEW rows \in SUBSET Mailboxes,
           NEW row \in LeaseRows, Selected(s, rows, row), row.mailbox \in rows,
           \A m \in rows : LockFree(m),
           \/ row.id \in FreshIds
           \/ /\ req[s].op = "reacquire"
              /\ \E l \in leases : l.id = row.id /\ l.mailbox = row.mailbox /\ Active(l)
              /\ ~ImportHolds(row.mailbox),
           req[s].op = "acquire" /\ ~IsPlus(row) =>
              ~\E c \in view[s].claims : c.mailbox = row.mailbox /\ Live(c)
    PROVE  AddressInv'
<1>0. TypeOK BY DEF AddressInv, BaseInv
<1>1. /\ Only(s) /\ pc'[s] = "selected" /\ req' = req
      /\ pend'[s] = [NoWrites EXCEPT !.put = {row}] /\ view'[s] = ClaimsView(s)
    BY <1>0 DEF Selected, tables, Only, Kept, TypeOK
<1>2. pend'[s].put = {row} /\ pend'[s].dead = {} BY <1>1 DEF NoWrites
<1>3. view'[s].claims \subseteq view[s].claims
    BY <1>1 DEF ClaimsView, NoView
<1>4. UniqueRows' /\ ClaimMirrorsLease' BY <1>1, OnlyTables
<1>5. IdsUsed' BY <1>1, <1>2, <1>3, OnlyIds
<1>6. ASSUME NEW t \in Sessions \ {s}, pc[t] \in Writing, NEW q \in pend[t].put
      PROVE  q.id # row.id
    <2>1. CASE row.id \in FreshIds BY <1>6, <2>1 DEF FreshIds
    <2>2. CASE row.id \notin FreshIds
        <3>1. SUFFICES ASSUME q.id = row.id PROVE FALSE OBVIOUS
        <3>2. PICK l \in leases : l.id = row.id /\ l.mailbox = row.mailbox BY <2>2
        <3>3. PICK k \in leases : k.id = q.id /\ k.mailbox = q.mailbox
            BY <1>6, <3>1, <3>2 DEF AddressInv, PendingRows, IdsUsed
        <3>4. k = l BY <3>1, <3>2, <3>3 DEF AddressInv, UniqueRows
        <3>5. q.mailbox \in locked[t] BY <1>6 DEF AddressInv, BaseInv, SessionOK
        <3>6. QED BY <3>2, <3>3, <3>4, <3>5 DEF LockFree
    <2>3. QED BY <2>1, <2>2
<1>7. PendingRows'
    <2>1. row.id \in usedIds => /\ req[s].op = "reacquire"
                                /\ \E l \in leases : l.id = row.id /\ l.mailbox = row.mailbox
        BY DEF FreshIds
    <2>2. ASSUME NEW t \in Sessions, pc'[t] \in Writing, NEW q \in pend'[t].put
          PROVE  q.id \in usedIds' => /\ req'[t].op = "reacquire"
                                      /\ \E l \in leases' : l.id = q.id /\ l.mailbox = q.mailbox
        <3>1. CASE t = s BY <1>1, <1>2, <2>1, <2>2, <3>1 DEF Only
        <3>2. CASE t # s BY <1>1, <2>2, <3>2 DEF Only, Kept, AddressInv, PendingRows
        <3>3. QED BY <3>1, <3>2
    <2>3. ASSUME NEW t \in Sessions, NEW u \in Sessions \ {t}, pc'[t] \in Writing, pc'[u] \in Writing,
                 NEW q \in pend'[t].put, NEW p \in pend'[u].put
          PROVE  p.id # q.id
        <3>1. CASE t = s BY <1>1, <1>2, <1>6, <2>3, <3>1 DEF Only, Kept
        <3>2. CASE u = s BY <1>1, <1>2, <1>6, <2>3, <3>2 DEF Only, Kept
        <3>3. CASE t # s /\ u # s BY <1>1, <2>3, <3>3 DEF Only, Kept, AddressInv, PendingRows
        <3>4. QED BY <3>1, <3>2, <3>3
    <2>4. QED BY <2>2, <2>3 DEF PendingRows
<1>8. InsertedRows' BY <1>1 DEF Only, Kept, AddressInv, InsertedRows, Active
<1>9. NeverUnclaimed'
    <2>1. ASSUME NEW t \in Sessions PROVE pc'[t] # "unclaimed"
        BY <1>1 DEF Only, Kept, AddressInv, NeverUnclaimed
    <2>2. ASSUME NEW t \in Sessions, pc'[t] = "selected", req'[t].op = "acquire",
                 NEW q \in pend'[t].put, ~IsPlus(q), NEW c \in view'[t].claims, c.mailbox = q.mailbox
          PROVE  ~Live(c)
        <3>1. CASE t = s BY <1>1, <1>2, <1>3, <2>2, <3>1
        <3>2. CASE t # s BY <1>1, <2>2, <3>2 DEF Only, Kept, AddressInv, NeverUnclaimed
        <3>3. QED BY <3>1, <3>2
    <2>3. QED BY <1>1, <2>1, <2>2 DEF NeverUnclaimed, IsPlus, Live, Only
<1>10. ASSUME NEW t \in Sessions, pc[t] \in {"imp_claims", "imp_commit"}
       PROVE  row.id \notin Doomed(t)
    <2>1. Doomed(t) \subseteq usedIds BY DEF Doomed, AddressInv, IdsUsed
    <2>2. CASE row.id \in FreshIds BY <2>1, <2>2 DEF FreshIds
    <2>3. CASE row.id \notin FreshIds
        <3>1. PICK l \in leases : l.id = row.id /\ l.mailbox = row.mailbox /\ Active(l) BY <2>3
        <3>2. row.id \in Doomed(t) => row.mailbox = req[t].mailbox /\ row.id \in pend[t].rel
            BY <1>10, <3>1 DEF AddressInv, Imports
        <3>3. QED BY <1>10, <2>3, <3>2 DEF ImportHolds
    <2>4. QED BY <2>2, <2>3
<1>11. Imports' BY <1>1, <1>2, <1>10, OnlyImports
<1>12. QED BY <1>4, <1>5, <1>7, <1>8, <1>9, <1>11 DEF AddressInv

LEMMA AddressSelect ==
    ASSUME AddressInv, BaseInv', NEW s \in Sessions, SelectMailbox(s) \/ SelectForReacquire(s)
    PROVE  AddressInv'
<1>0. BaseInv BY DEF AddressInv
<1>1. CASE SelectMailbox(s)
    <2>1. PICK rows \in SUBSET Mailboxes, row \in LeaseRows :
             /\ Selected(s, rows, row)
             /\ row.mailbox \in rows /\ (\A m \in rows : LockFree(m))
             /\ row.id \in FreshIds
             /\ ~IsPlus(row) => ~\E c \in view[s].claims : c.mailbox = row.mailbox /\ Live(c)
        BY <1>0, <1>1, AcquiredRow
    <2>2. QED BY <2>1, AddressSelected
<1>2. CASE SelectForReacquire(s)
    <2>1. PICK m \in Mailboxes, row \in LeaseRows :
             /\ Selected(s, {m}, row) /\ row.mailbox = m /\ LockFree(m)
             /\ req[s].op = "reacquire" /\ ~ImportHolds(m)
             /\ \/ row.id \in FreshIds
                \/ \E l \in leases : l.id = row.id /\ l.mailbox = m /\ Active(l)
        BY <1>0, <1>2, ReacquiredRow
    <2>2. {m} \in SUBSET Mailboxes /\ row.mailbox \in {m} /\ \A n \in {m} : LockFree(n) BY <2>1
    <2>3. req[s].op # "acquire" BY <2>1
    <2>4. QED BY <2>1, <2>2, <2>3, AddressSelected
<1>3. QED BY <1>1, <1>2

\* What an insert is about to delete: expired claims of the locked mailbox,
\* which back no active lease, and the claim of the lease itself.
LEMMA DeadIsDead ==
    ASSUME AddressInv, Isolation = "REPEATABLE READ", NEW s \in Sessions, pc[s] = "selected",
           NEW row \in pend[s].put
    PROVE  /\ DeadClaims(s, row) \subseteq usedIds
           /\ \A l \in leases : l.id \in DeadClaims(s, row) =>
                 l.mailbox = row.mailbox /\ (Active(l) => l.id = row.id)
<1>1. ClaimRead(s) = view[s].claims BY DEF ClaimRead
<1>2. DeadClaims(s, row) \subseteq usedIds
    BY <1>1 DEF DeadClaims, AddressInv, IdsUsed
<1>3. ASSUME NEW l \in leases, l.id = row.id PROVE l.mailbox = row.mailbox
    <2>1. pc[s] \in Writing BY DEF Writing
    <2>2. row.id \in usedIds BY <1>3 DEF AddressInv, IdsUsed
    <2>3. PICK k \in leases : k.id = row.id /\ k.mailbox = row.mailbox
        BY <2>1, <2>2 DEF AddressInv, PendingRows
    <2>4. QED BY <1>3, <2>3 DEF AddressInv, UniqueRows
<1>4. ASSUME NEW l \in leases, NEW c \in claims, c.mailbox = row.mailbox, ~Live(c), c.lease = l.id
      PROVE  l.mailbox = row.mailbox /\ ~Active(l)
    <2>1. l.mailbox = row.mailbox BY <1>4 DEF AddressInv, UniqueRows
    <2>2. Active(l) => ClaimOf(l) \in claims /\ ClaimOf(l).lease = l.id /\ ClaimOf(l).expires = l.expires
        BY DEF AddressInv, ClaimMirrorsLease, ClaimOf
    <2>3. Active(l) => c = ClaimOf(l) BY <1>4, <2>2 DEF AddressInv, UniqueRows
    <2>4. QED BY <1>4, <2>1, <2>2, <2>3 DEF Active, Live
<1>5. ASSUME NEW l \in leases, l.id \in DeadClaims(s, row)
      PROVE  l.mailbox = row.mailbox /\ (Active(l) => l.id = row.id)
    <2>1. l.id = row.id \/ \E c \in claims : c.mailbox = row.mailbox /\ ~Live(c) /\ c.lease = l.id
        BY <1>5 DEF DeadClaims
    <2>2. QED BY <1>3, <1>4, <2>1
<1>6. QED BY <1>2, <1>5

LEMMA AddressInsert ==
    ASSUME AddressInv, BaseInv', Isolation = "REPEATABLE READ", NEW s \in Sessions, InsertClaim(s)
    PROVE  AddressInv'
<1>0. TypeOK /\ pend[s] \in Writes /\ SessionOK(s) BY DEF AddressInv, BaseInv, TypeOK
<1>1. PICK row \in pend[s].put :
         /\ UniqueClaim(s, row)
         /\ pend' = [pend EXCEPT ![s].claim = {ClaimOf(row)}, ![s].dead = DeadClaims(s, row),
                                 ![s].usage = UsageOf(s, row)]
    BY DEF InsertClaim
<1>2. /\ pc[s] = "selected" /\ pc' = [pc EXCEPT ![s] = "inserted"]
      /\ UNCHANGED <<now, leases, claims, usedIds, req, view, locked>>
    BY DEF InsertClaim, tables
<1>3. pend[s].put = {row} BY <1>0, <1>1, <1>2 DEF SessionOK, Writing
<1>4. pc'[s] = "inserted" /\ pend'[s].put = {row} /\ pend'[s].dead = DeadClaims(s, row)
    BY <1>0, <1>1, <1>2, <1>3 DEF TypeOK, Writes
<1>5. Only(s) BY <1>0, <1>1, <1>2 DEF Only, Kept, TypeOK
<1>6. /\ DeadClaims(s, row) \subseteq usedIds
      /\ \A l \in leases : l.id \in DeadClaims(s, row) =>
            l.mailbox = row.mailbox /\ (Active(l) => l.id = row.id)
    BY <1>1, <1>2, DeadIsDead
<1>7. UniqueRows' /\ ClaimMirrorsLease' BY <1>5, OnlyTables
<1>8. IdsUsed' BY <1>2, <1>4, <1>5, <1>6, OnlyIds
<1>9. ASSUME NEW t \in Sessions
      PROVE  pend'[t].put = pend[t].put /\ (pc'[t] \in Writing <=> pc[t] \in Writing)
    BY <1>2, <1>3, <1>4, <1>5 DEF Only, Kept, Writing
<1>10. PendingRows'
    <2>1. ASSUME NEW t \in Sessions, pc'[t] \in Writing, NEW q \in pend'[t].put
          PROVE  /\ q.id \in usedIds' => /\ req'[t].op = "reacquire"
                                         /\ \E l \in leases' : l.id = q.id /\ l.mailbox = q.mailbox
                 /\ \A u \in Sessions \ {t} : pc'[u] \in Writing => \A p \in pend'[u].put : p.id # q.id
        <3>1. pc[t] \in Writing /\ q \in pend[t].put BY <1>9, <2>1
        <3>2. \A u \in Sessions \ {t} : pc'[u] \in Writing =>
                 pc[u] \in Writing /\ pend'[u].put = pend[u].put
            BY <1>9
        <3>3. PendingRows BY DEF AddressInv
        <3>4. \A u \in Sessions \ {t} : pc[u] \in Writing => \A p \in pend[u].put : p.id # q.id
            BY <3>1, <3>3 DEF PendingRows
        <3>5. q.id \in usedIds => /\ req[t].op = "reacquire"
                                  /\ \E l \in leases : l.id = q.id /\ l.mailbox = q.mailbox
            BY <3>1, <3>3 DEF PendingRows
        <3>6. QED BY <1>2, <3>2, <3>4, <3>5
    <2>2. QED BY <2>1 DEF PendingRows
<1>11. InsertedRows'
    <2>1. \A c \in claims : c.lease \notin DeadClaims(s, row) =>
             c.lease # row.id /\ (row.address # NoAddress => c.address # row.address)
        BY <1>1 DEF UniqueClaim
    <2>2. ASSUME NEW t \in Sessions \ {s}, pc[t] = "inserted", NEW q \in pend[t].put,
                 row.address # NoAddress
          PROVE  q.address # row.address
        <3>0. SessionOK(t) BY DEF AddressInv, BaseInv
        <3>1. pend[t].claim = {ClaimOf(r) : r \in pend[t].put} BY <2>2, <3>0 DEF SessionOK
        <3>2. ClaimOf(q) \in pend[t].claim BY <2>2, <3>1
        <3>3. ClaimOf(q).address # row.address BY <1>1, <2>2, <3>2 DEF UniqueClaim
        <3>4. QED BY <3>3 DEF ClaimOf
    <2>3. ASSUME NEW t \in Sessions, pc'[t] = "inserted", NEW q \in pend'[t].put
          PROVE  /\ \A c \in claims' : c.lease \notin pend'[t].dead =>
                       c.lease # q.id /\ (q.address # NoAddress => c.address # q.address)
                 /\ \A l \in leases' : l.id \in pend'[t].dead =>
                       l.mailbox = q.mailbox /\ (Active(l)' => l.id = q.id)
        <3>1. CASE t = s BY <1>2, <1>4, <1>6, <2>1, <2>3, <3>1 DEF Active
        <3>2. CASE t # s
            <4>1. pc[t] = "inserted" /\ pend'[t] = pend[t] BY <1>5, <2>3, <3>2 DEF Only, Kept
            <4>2. QED BY <1>2, <2>3, <4>1 DEF Active, AddressInv, InsertedRows
        <3>3. QED BY <3>1, <3>2
    <2>4. ASSUME NEW t \in Sessions, NEW u \in Sessions \ {t}, pc'[t] = "inserted",
                 pc'[u] = "inserted", NEW q \in pend'[t].put, NEW p \in pend'[u].put,
                 q.address # NoAddress
          PROVE  p.address # q.address
        <3>1. CASE t = s BY <1>4, <1>5, <2>2, <2>4, <3>1 DEF Only, Kept
        <3>2. CASE u = s BY <1>4, <1>5, <2>2, <2>4, <3>2 DEF Only, Kept
        <3>3. CASE t # s /\ u # s
            <4>1. /\ pc[t] = "inserted" /\ pend'[t] = pend[t]
                  /\ pc[u] = "inserted" /\ pend'[u] = pend[u]
                BY <1>5, <2>4, <3>3 DEF Only, Kept
            <4>2. \A v \in Sessions \ {t} : pc[v] = "inserted" =>
                     \A r \in pend[v].put : q.address # NoAddress => r.address # q.address
                BY <2>4, <4>1 DEF AddressInv, InsertedRows
            <4>3. QED BY <2>4, <4>1, <4>2
        <3>4. QED BY <3>1, <3>2, <3>3
    <2>5. QED BY <2>3, <2>4 DEF InsertedRows
<1>12. NeverUnclaimed'
    <2>1. ASSUME NEW t \in Sessions, pc'[t] = "selected" PROVE t # s /\ Kept(t)
        BY <1>4, <1>5, <2>1 DEF Only
    <2>2. \A t \in Sessions : pc'[t] # "unclaimed"
        BY <1>4, <1>5 DEF Only, Kept, AddressInv, NeverUnclaimed
    <2>3. QED BY <1>2, <2>1, <2>2 DEF Kept, AddressInv, NeverUnclaimed, IsPlus, Live
<1>13. Imports'
    <2>1. \A t \in Sessions : pc[t] \in {"imp_claims", "imp_commit"} =>
             \A q \in pend'[s].put : q.id \notin Doomed(t)
        BY <1>2, <1>9 DEF AddressInv, Imports, Writing
    <2>2. QED BY <1>4, <1>5, <2>1, OnlyImports
<1>14. QED BY <1>7, <1>8, <1>10, <1>11, <1>12, <1>13 DEF AddressInv

\* A statement of an import outside Writing keeps everything but Imports as it is.
LEMMA ImportStatement ==
    ASSUME AddressInv, BaseInv', NEW s \in Sessions, Only(s), view' = view,
           pc[s] \notin Writing, pc'[s] \in {"imp_claims", "imp_commit"},
           pend'[s].dead \subseteq usedIds, Imports'
    PROVE  AddressInv'
<1>1. UniqueRows' /\ ClaimMirrorsLease' BY OnlyTables
<1>2. IdsUsed' BY OnlyIds
<1>3. ASSUME NEW t \in Sessions, pc'[t] \in Writing
      PROVE  t # s /\ Kept(t) /\ pc[t] = pc'[t] /\ pend'[t] = pend[t] /\ req'[t] = req[t]
    BY <1>3 DEF Only, Kept, Writing
<1>4. PendingRows'
    <2>1. ASSUME NEW t \in Sessions, pc'[t] \in Writing, NEW q \in pend'[t].put
          PROVE  /\ q.id \in usedIds => /\ req'[t].op = "reacquire"
                                        /\ \E l \in leases : l.id = q.id /\ l.mailbox = q.mailbox
                 /\ \A u \in Sessions \ {t} : pc[u] \in Writing => \A p \in pend[u].put : p.id # q.id
        BY <1>3, <2>1 DEF AddressInv, PendingRows
    <2>2. QED BY <1>3, <2>1 DEF PendingRows, Only
<1>5. InsertedRows'
    <2>1. \A t \in Sessions : pc'[t] = "inserted" => pc[t] = "inserted" /\ pend'[t] = pend[t]
        BY <1>3 DEF Writing
    <2>2. ASSUME NEW t \in Sessions, pc'[t] = "inserted", NEW r \in pend'[t].put
          PROVE  /\ \A c \in claims : c.lease \notin pend[t].dead =>
                       c.lease # r.id /\ (r.address # NoAddress => c.address # r.address)
                 /\ \A u \in Sessions \ {t} : pc[u] = "inserted" =>
                       \A q \in pend[u].put : r.address # NoAddress => q.address # r.address
                 /\ \A l \in leases : l.id \in pend[t].dead =>
                       l.mailbox = r.mailbox /\ (Active(l) => l.id = r.id)
        BY <2>1, <2>2 DEF AddressInv, InsertedRows
    <2>3. QED BY <2>1, <2>2 DEF InsertedRows, Only, Active
<1>6. NeverUnclaimed'
    <2>1. \A t \in Sessions : pc'[t] # "unclaimed"
        BY DEF Only, Kept, AddressInv, NeverUnclaimed
    <2>2. \A t \in Sessions : pc'[t] = "selected" => Kept(t) BY <1>3 DEF Writing
    <2>3. QED BY <2>1, <2>2 DEF Only, Kept, AddressInv, NeverUnclaimed, IsPlus, Live
<1>7. QED BY <1>1, <1>2, <1>4, <1>5, <1>6 DEF AddressInv

\* The sessions other than s keep what Imports says of them when s writes no lease.
LEMMA OtherImports ==
    ASSUME AddressInv, NEW s \in Sessions, Only(s), pc'[s] \in {"imp_claims", "imp_commit"},
           \A l \in leases : l.id \in Doomed(s)' =>
              l.mailbox = req'[s].mailbox /\ (Active(l) => l.id \in pend'[s].rel),
           \A t \in Sessions \ {s} : pc[t] \in Writing => \A r \in pend[t].put : r.id \notin Doomed(s)'
    PROVE  Imports'
<1>1. ASSUME NEW t \in Sessions, pc'[t] \in Writing
      PROVE  t # s /\ pc[t] = pc'[t] /\ pend'[t] = pend[t]
    BY <1>1 DEF Only, Kept, Writing
<1>2. ASSUME NEW t \in Sessions \ {s}, pc'[t] \in {"imp_claims", "imp_commit"}
      PROVE  /\ pc[t] = pc'[t] /\ Doomed(t)' = Doomed(t)
             /\ req'[t] = req[t] /\ pend'[t] = pend[t]
    BY <1>2 DEF Only, Kept, Doomed
<1>3. ASSUME NEW t \in Sessions, pc'[t] \in {"imp_claims", "imp_commit"},
             NEW l \in leases, l.id \in Doomed(t)'
      PROVE  l.mailbox = req'[t].mailbox /\ (Active(l) => l.id \in pend'[t].rel)
    <2>1. CASE t = s BY <1>3, <2>1
    <2>2. CASE t # s BY <1>2, <1>3, <2>2 DEF AddressInv, Imports
    <2>3. QED BY <2>1, <2>2
<1>4. ASSUME NEW t \in Sessions, pc'[t] \in {"imp_claims", "imp_commit"},
             NEW u \in Sessions, pc'[u] \in Writing, NEW r \in pend'[u].put
      PROVE  r.id \notin Doomed(t)'
    <2>1. u # s /\ pc[u] \in Writing /\ r \in pend[u].put BY <1>1, <1>4
    <2>2. CASE t = s BY <2>1, <2>2
    <2>3. CASE t # s BY <1>2, <1>4, <2>1, <2>3 DEF AddressInv, Imports
    <2>4. QED BY <2>2, <2>3
<1>5. ASSUME NEW t \in Sessions, pc'[t] = "imp_open" PROVE pend'[t].dead = {}
    BY <1>5 DEF Only, Kept, AddressInv, Imports
<1>6. QED BY <1>3, <1>4, <1>5 DEF Imports, Only, Active

LEMMA AddressCheckImport ==
    ASSUME AddressInv, BaseInv', Isolation = "REPEATABLE READ", NEW s \in Sessions, CheckImport(s)
    PROVE  AddressInv'
<1>0. TypeOK /\ pend[s] \in Writes BY DEF AddressInv, BaseInv, TypeOK
<1> DEFINE m == req[s].mailbox
           held == {l.id : l \in {k \in leases : k.mailbox = m /\ Active(k)}}
<1>1. /\ pc[s] = "imp_open" /\ pend[s].dead = {}
      /\ UNCHANGED <<now, leases, claims, usedIds, req, view, locked>>
    BY DEF CheckImport, tables, AddressInv, Imports
<1>2. CASE pc' = [pc EXCEPT ![s] = "imp_commit"] /\ UNCHANGED pend
    <2>1. Only(s) /\ pc'[s] = "imp_commit" /\ pend'[s].dead = {} /\ Doomed(s)' = {}
        BY <1>0, <1>1, <1>2 DEF Only, Kept, TypeOK, Doomed
    <2>2. Imports' BY <2>1, OtherImports
    <2>3. QED BY <1>1, <2>1, <2>2, ImportStatement DEF Writing
<1>3. CASE /\ pend' = [pend EXCEPT ![s].rel = held]
           /\ pc' = [pc EXCEPT ![s] = "imp_claims"]
           /\ \A t \in Sessions : \A r \in pend[t].put : r.mailbox = m =>
                 ~(pc[t] \in {"inserted", "unclaimed"} \/ req[t].op = "reacquire")
    <2>1. Only(s) /\ pc'[s] = "imp_claims" /\ pend'[s].dead = {} /\ pend'[s].rel = held
        BY <1>0, <1>1, <1>3 DEF Only, Kept, TypeOK, Writes
    <2>2. Doomed(s)' = {c.lease : c \in {d \in view[s].claims : d.mailbox = m}}
        BY <1>1, <2>1 DEF Doomed
    <2>3. ASSUME NEW l \in leases, l.id \in Doomed(s)'
          PROVE  l.mailbox = m /\ (Active(l) => l.id \in held)
        <3>1. PICK c \in view[s].claims : c.mailbox = m /\ c.lease = l.id BY <2>2, <2>3
        <3>2. l.mailbox = m BY <3>1 DEF AddressInv, IdsUsed
        <3>3. QED BY <3>2
    <2>4. ASSUME NEW t \in Sessions \ {s}, pc[t] \in Writing, NEW r \in pend[t].put,
                 r.id \in Doomed(s)'
          PROVE  FALSE
        <3>1. r.id \in usedIds BY <2>2, <2>4 DEF AddressInv, IdsUsed
        <3>2. PICK l \in leases : l.id = r.id /\ l.mailbox = r.mailbox /\ req[t].op = "reacquire"
            BY <2>4, <3>1 DEF AddressInv, PendingRows
        <3>3. r.mailbox = m BY <2>3, <2>4, <3>2
        <3>4. QED BY <1>3, <2>4, <3>2, <3>3
    <2>5. Imports' BY <1>1, <2>1, <2>3, <2>4, OtherImports
    <2>6. QED BY <1>1, <2>1, <2>5, ImportStatement DEF Writing
<1>4. QED BY <1>2, <1>3 DEF CheckImport

LEMMA AddressReadClaims ==
    ASSUME AddressInv, BaseInv', Isolation = "REPEATABLE READ", NEW s \in Sessions,
           ReadClaimsToDelete(s)
    PROVE  AddressInv'
<1>0. TypeOK /\ pend[s] \in Writes BY DEF AddressInv, BaseInv, TypeOK
<1> DEFINE D == {c.lease : c \in {d \in ClaimRead(s) : d.mailbox = req[s].mailbox}}
<1>1. /\ pc[s] = "imp_claims" /\ pc' = [pc EXCEPT ![s] = "imp_commit"]
      /\ pend' = [pend EXCEPT ![s].dead = D]
      /\ UNCHANGED <<now, leases, claims, usedIds, req, view, locked>>
    BY DEF ReadClaimsToDelete, tables
<1>2. Only(s) /\ pc'[s] = "imp_commit" /\ pend'[s].dead = D /\ pend'[s].rel = pend[s].rel
    BY <1>0, <1>1 DEF Only, Kept, TypeOK, Writes
<1>3. ClaimRead(s) = view[s].claims BY DEF ClaimRead
<1>4. Doomed(s)' = D /\ Doomed(s) = D BY <1>1, <1>2, <1>3 DEF Doomed
<1>5. D \subseteq usedIds BY <1>3 DEF AddressInv, IdsUsed
<1> HIDE DEF D
<1>6. Imports' BY <1>1, <1>2, <1>4, OtherImports DEF AddressInv, Imports
<1>7. QED BY <1>1, <1>2, <1>5, <1>6, ImportStatement DEF Writing

-----------------------------------------------------------------------------
(* The commit, and the theorem *)

LEMMA AddressCommit ==
    ASSUME AddressInv, BaseInv', NEW s \in Sessions, Commit(s)
    PROVE  AddressInv'
<1>0. TypeOK /\ SessionOK(s) /\ pc[s] = "inserted" /\ End(s) BY DEF AddressInv, BaseInv, Commit
<1>1. /\ leases' = {l \in leases : \A r \in pend[s].put : l.id # r.id} \cup pend[s].put
      /\ claims' = {c \in claims : c.lease \notin pend[s].dead} \cup pend[s].claim
      /\ usedIds' = usedIds \cup {r.id : r \in pend[s].put}
      /\ now' = now
    BY DEF Commit, Apply
<1>2. Ended(s) /\ \A t \in Sessions \ {s} : Kept(t) BY <1>0, EndKept
<1>3. PICK row \in pend[s].put : pend[s].put = {row} /\ pend[s].claim = {ClaimOf(row)}
    BY <1>0 DEF SessionOK, Writing
<1>4. /\ leases' = {l \in leases : l.id # row.id} \cup {row}
      /\ claims' = {c \in claims : c.lease \notin pend[s].dead} \cup {ClaimOf(row)}
      /\ usedIds' = usedIds \cup {row.id}
    BY <1>1, <1>3
<1>5. /\ ClaimOf(row).lease = row.id /\ ClaimOf(row).mailbox = row.mailbox
      /\ ClaimOf(row).address = row.address
    BY DEF ClaimOf
<1>6. /\ \A c \in claims : c.lease \notin pend[s].dead =>
            c.lease # row.id /\ (row.address # NoAddress => c.address # row.address)
      /\ \A t \in Sessions \ {s} : pc[t] = "inserted" =>
            \A q \in pend[t].put : row.address # NoAddress => q.address # row.address
      /\ \A l \in leases : l.id \in pend[s].dead => (Active(l) => l.id = row.id)
    BY <1>0, <1>3 DEF AddressInv, InsertedRows
<1>7. /\ row.id \in usedIds => \E l \in leases : l.id = row.id /\ l.mailbox = row.mailbox
      /\ \A t \in Sessions \ {s} : pc[t] \in Writing => \A q \in pend[t].put : q.id # row.id
      /\ row.mailbox \in locked[s]
    BY <1>0, <1>3 DEF AddressInv, PendingRows, Writing, SessionOK
<1>8. \A t \in Sessions : pc'[t] # "idle" => t # s /\ Kept(t) /\ pc[t] = pc'[t]
    BY <1>2 DEF Ended, Kept
<1>9. UniqueRows'
    <2>1. \A l, k \in leases' : l.id = k.id => l = k
        BY <1>4 DEF AddressInv, UniqueRows
    <2>2. \A c, d \in claims' :
             c.lease = d.lease \/ (c.address = d.address /\ c.address # NoAddress) => c = d
        BY <1>4, <1>5, <1>6 DEF AddressInv, UniqueRows
    <2>3. \A c \in claims', l \in leases' : c.lease = l.id => c.mailbox = l.mailbox
        BY <1>4, <1>5, <1>6 DEF AddressInv, UniqueRows
    <2>4. QED BY <2>1, <2>2, <2>3 DEF UniqueRows
<1>10. IdsUsed'
    <2>1. ASSUME NEW t \in Sessions
          PROVE  /\ pend'[t].dead \subseteq usedIds'
                 /\ \A c \in view'[t].claims :
                       /\ c.lease \in usedIds'
                       /\ \A l \in leases' : c.lease = l.id => c.mailbox = l.mailbox
        <3>1. CASE t = s BY <1>2, <3>1 DEF Ended, NoWrites, NoView
        <3>2. CASE t # s
            <4>1. pend'[t] = pend[t] /\ view'[t] = view[t] BY <1>2, <3>2 DEF Kept
            <4>2. ASSUME NEW c \in view[t].claims, c.lease = row.id PROVE c.mailbox = row.mailbox
                <5>1. PICK l \in leases : l.id = row.id /\ l.mailbox = row.mailbox
                    BY <1>7, <4>2 DEF AddressInv, IdsUsed
                <5>2. QED BY <4>2, <5>1 DEF AddressInv, IdsUsed
            <4>3. QED BY <1>4, <4>1, <4>2 DEF AddressInv, IdsUsed
        <3>3. QED BY <3>1, <3>2
    <2>2. (\A l \in leases' : l.id \in usedIds') /\ (\A c \in claims' : c.lease \in usedIds')
        BY <1>4, <1>5 DEF AddressInv, IdsUsed
    <2>3. QED BY <2>1, <2>2 DEF IdsUsed
<1>11. PendingRows'
    <2>1. ASSUME NEW t \in Sessions, pc'[t] \in Writing, NEW q \in pend'[t].put
          PROVE  /\ q.id \in usedIds' => /\ req'[t].op = "reacquire"
                                         /\ \E l \in leases' : l.id = q.id /\ l.mailbox = q.mailbox
                 /\ \A u \in Sessions \ {t} : pc'[u] \in Writing => \A p \in pend'[u].put : p.id # q.id
        <3>1. t # s /\ pc[t] \in Writing /\ q \in pend[t].put /\ req'[t] = req[t]
            BY <1>8, <2>1 DEF Kept, Writing
        <3>2. \A u \in Sessions \ {t} : pc'[u] \in Writing =>
                 pc[u] \in Writing /\ pend'[u] = pend[u]
            BY <1>8 DEF Kept, Writing
        <3>3. \A u \in Sessions \ {t} : pc[u] \in Writing => \A p \in pend[u].put : p.id # q.id
            BY <3>1 DEF AddressInv, PendingRows
        <3>4. q.id \in usedIds => /\ req[t].op = "reacquire"
                                  /\ \E l \in leases : l.id = q.id /\ l.mailbox = q.mailbox
            BY <3>1 DEF AddressInv, PendingRows
        <3>5. q.id # row.id BY <1>7, <3>1
        <3>6. QED BY <1>4, <3>1, <3>2, <3>3, <3>4, <3>5
    <2>2. QED BY <2>1 DEF PendingRows
<1>12. InsertedRows'
    <2>1. ASSUME NEW t \in Sessions, pc'[t] = "inserted", NEW q \in pend'[t].put
          PROVE  /\ \A c \in claims' : c.lease \notin pend'[t].dead =>
                       c.lease # q.id /\ (q.address # NoAddress => c.address # q.address)
                 /\ \A u \in Sessions \ {t} : pc'[u] = "inserted" =>
                       \A p \in pend'[u].put : q.address # NoAddress => p.address # q.address
                 /\ \A l \in leases' : l.id \in pend'[t].dead =>
                       l.mailbox = q.mailbox /\ (Active(l)' => l.id = q.id)
        <3>1. t # s /\ pc[t] = "inserted" /\ q \in pend[t].put /\ pend'[t] = pend[t]
            BY <1>8, <2>1 DEF Kept
        <3>2. \A u \in Sessions \ {t} : pc'[u] = "inserted" => pc[u] = "inserted" /\ pend'[u] = pend[u]
            BY <1>8 DEF Kept
        <3>3. /\ \A c \in claims : c.lease \notin pend[t].dead =>
                    c.lease # q.id /\ (q.address # NoAddress => c.address # q.address)
              /\ \A u \in Sessions \ {t} : pc[u] = "inserted" =>
                    \A p \in pend[u].put : q.address # NoAddress => p.address # q.address
              /\ \A l \in leases : l.id \in pend[t].dead =>
                    l.mailbox = q.mailbox /\ (Active(l) => l.id = q.id)
            BY <3>1 DEF AddressInv, InsertedRows
        <3>4. q.id # row.id BY <1>7, <3>1 DEF Writing
        <3>5. q.address # NoAddress => row.address # q.address BY <1>6, <3>1
        <3>6. row.id \notin pend[t].dead
            <4>1. SUFFICES ASSUME row.id \in pend[t].dead PROVE FALSE OBVIOUS
            <4>2. row.id \in usedIds BY <4>1 DEF AddressInv, IdsUsed
            <4>3. PICK l \in leases : l.id = row.id /\ l.mailbox = row.mailbox BY <1>7, <4>2
            <4>4. row.mailbox = q.mailbox BY <3>3, <4>1, <4>3
            <4>5. SessionOK(t) /\ LocksDisjoint BY DEF AddressInv, BaseInv
            <4>6. q.mailbox \in locked[t] BY <3>1, <4>5 DEF SessionOK, Writing
            <4>7. QED BY <1>7, <3>1, <4>4, <4>5, <4>6 DEF LocksDisjoint
        <3>7. \A l \in leases : Active(l)' => Active(l) BY <1>1 DEF Active
        <3>8. \A c \in claims' : c.lease \notin pend[t].dead =>
                 c.lease # q.id /\ (q.address # NoAddress => c.address # q.address)
            BY <1>4, <1>5, <3>3, <3>4, <3>5
        <3>9. \A l \in leases' : l.id \in pend[t].dead => l \in leases
            BY <1>4, <3>6
        <3>10. QED BY <3>1, <3>2, <3>3, <3>7, <3>8, <3>9
    <2>2. QED BY <2>1 DEF InsertedRows
<1>13. NeverUnclaimed'
    <2>1. \A t \in Sessions : pc'[t] # "unclaimed"
        BY <1>8 DEF AddressInv, NeverUnclaimed
    <2>2. \A t \in Sessions : pc'[t] = "selected" => Kept(t) BY <1>8
    <2>3. QED BY <1>1, <2>1, <2>2 DEF Kept, AddressInv, NeverUnclaimed, IsPlus, Live
<1>14. Imports'
    <2>1. ASSUME NEW t \in Sessions, pc'[t] \in {"imp_claims", "imp_commit"}
          PROVE  /\ t # s /\ pc[t] = pc'[t] /\ Doomed(t)' = Doomed(t)
                 /\ req'[t] = req[t] /\ pend'[t] = pend[t]
        BY <1>8, <2>1 DEF Kept, Doomed
    <2>2. ASSUME NEW t \in Sessions, pc'[t] \in {"imp_claims", "imp_commit"},
                 NEW l \in leases', l.id \in Doomed(t)'
          PROVE  l.mailbox = req'[t].mailbox /\ (Active(l)' => l.id \in pend'[t].rel)
        <3>1. row.id \notin Doomed(t)
            BY <1>0, <1>3, <2>1, <2>2 DEF AddressInv, Imports, Writing
        <3>2. l \in leases BY <1>4, <2>1, <2>2, <3>1
        <3>3. Active(l)' => Active(l) BY <1>1 DEF Active
        <3>4. QED BY <2>1, <2>2, <3>2, <3>3 DEF AddressInv, Imports
    <2>3. ASSUME NEW t \in Sessions, pc'[t] \in {"imp_claims", "imp_commit"},
                 NEW u \in Sessions, pc'[u] \in Writing, NEW r \in pend'[u].put
          PROVE  r.id \notin Doomed(t)'
        <3>1. pc[u] \in Writing /\ r \in pend[u].put BY <1>8, <2>3 DEF Kept, Writing
        <3>2. QED BY <2>1, <2>3, <3>1 DEF AddressInv, Imports
    <2>4. ASSUME NEW t \in Sessions, pc'[t] = "imp_open" PROVE pend'[t].dead = {}
        BY <1>8, <2>4 DEF Kept, AddressInv, Imports
    <2>5. QED BY <2>2, <2>3, <2>4 DEF Imports
<1>15. ClaimMirrorsLease'
    <2>1. ASSUME NEW l \in leases', Active(l)' PROVE ClaimOf(l) \in claims'
        <3>1. CASE l = row BY <1>4, <3>1
        <3>2. CASE l # row
            <4>1. l \in leases /\ l.id # row.id /\ Active(l) BY <1>1, <1>4, <2>1, <3>2 DEF Active
            <4>2. ClaimOf(l) \in claims /\ ClaimOf(l).lease = l.id
                BY <4>1 DEF AddressInv, ClaimMirrorsLease, ClaimOf
            <4>3. QED BY <1>4, <1>6, <4>1, <4>2
        <3>3. QED BY <3>1, <3>2
    <2>2. QED BY <2>1 DEF ClaimMirrorsLease, ClaimOf
<1>16. QED BY <1>9, <1>10, <1>11, <1>12, <1>13, <1>14, <1>15 DEF AddressInv

LEMMA AddressNext ==
    ASSUME Isolation = "REPEATABLE READ", AddressInv, [Next]_vars
    PROVE  AddressInv'
<1>1. BaseInv' BY BaseNext DEF AddressInv
<1>2. ASSUME NEW s \in Sessions, LoseClaim(s) PROVE FALSE
    <2>1. PICK row \in pend[s].put : ClaimConflict(s, row) BY <1>2 DEF LoseClaim
    <2>2. ~IsPlus(row) /\ \E c \in view[s].claims : c.mailbox = row.mailbox /\ Live(c)
        BY <2>1 DEF ClaimConflict, ClaimRead
    <2>3. QED BY <1>2, <2>1, <2>2 DEF LoseClaim, AddressInv, NeverUnclaimed
<1>3. ASSUME NEW s \in Sessions, FallbackCommit(s) PROVE FALSE
    BY <1>3 DEF FallbackCommit, AddressInv, NeverUnclaimed
<1>4. CASE \E s \in Sessions : LeaseStep(s) \/ AdminStep(s)
    BY <1>1, <1>2, <1>3, <1>4, AddressOpen, AddressSelect, AddressInsert, AddressCommit,
       AddressRelease, AddressEnd, AddressCheckImport, AddressReadClaims, AddressCommitImport,
       AddressChunk, AddressCommitDeletion
    DEF LeaseStep, AdminStep
<1>5. CASE Atomic BY <1>1, <1>5, AddressAtomic
<1>6. CASE UNCHANGED vars
    <2>1. Shrinks /\ ClaimMirrorsLease' BY <1>1, <1>6, SameTables DEF BaseInv, vars, tables
    <2>2. \A t \in Sessions : Kept(t) BY <1>6 DEF vars, session, Kept
    <2>3. QED BY <1>1, <1>6, <2>1, <2>2, ShrinkFrame DEF vars, tables
<1>7. QED BY <1>4, <1>5, <1>6 DEF Next, Atomic

LEMMA AddressInit == ASSUME Init PROVE AddressInv
<1>1. BaseInv BY BaseInit
<1>2. UniqueRows /\ ClaimMirrorsLease BY DEF Init, UniqueRows, ClaimMirrorsLease
<1>3. IdsUsed BY DEF Init, IdsUsed, NoWrites, NoView
<1>4. PendingRows /\ InsertedRows /\ NeverUnclaimed /\ Imports
    BY DEF Init, PendingRows, InsertedRows, NeverUnclaimed, Imports, Writing
<1>5. QED BY <1>1, <1>2, <1>3, <1>4 DEF AddressInv

\* Mirrored leases with unique claims have unique addresses.
LEMMA MirrorExcludes == ASSUME AddressInv PROVE AddressExclusive
<1>1. SUFFICES ASSUME NEW l \in leases, NEW k \in leases, Active(l), Active(k),
                      l.address = k.address, l.address # NoAddress
               PROVE  l = k
    BY DEF AddressExclusive
<1>2. ClaimOf(l) \in claims /\ ClaimOf(k) \in claims
    BY <1>1 DEF AddressInv, ClaimMirrorsLease
<1>3. ClaimOf(l) = ClaimOf(k) BY <1>1, <1>2 DEF AddressInv, UniqueRows, ClaimOf
<1>4. l.id = k.id BY <1>3 DEF ClaimOf
<1>5. QED BY <1>4 DEF AddressInv, UniqueRows

\* Under REPEATABLE READ every active lease is backed by its claim row, through
\* acquire, reacquire, release, forced import, deletion and expiry.
THEOREM MirroredUnderRepeatableRead ==
    ASSUME Isolation = "REPEATABLE READ" PROVE Spec => []ClaimMirrorsLease
<1>1. Init => AddressInv BY AddressInit
<1>2. AddressInv /\ [Next]_vars => AddressInv' BY AddressNext
<1>3. AddressInv => ClaimMirrorsLease BY DEF AddressInv
<1>4. QED BY <1>1, <1>2, <1>3, PTL DEF Spec

\* Under REPEATABLE READ no two active leases hold the same business address.
THEOREM AddressExclusiveUnderRepeatableRead ==
    ASSUME Isolation = "REPEATABLE READ" PROVE Spec => []AddressExclusive
<1>1. Init => AddressInv BY AddressInit
<1>2. AddressInv /\ [Next]_vars => AddressInv' BY AddressNext
<1>3. AddressInv => AddressExclusive BY MirrorExcludes
<1>4. QED BY <1>1, <1>2, <1>3, PTL DEF Spec

=============================================================================
