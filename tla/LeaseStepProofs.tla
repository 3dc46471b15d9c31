-------------------------- MODULE LeaseStepProofs --------------------------
(***************************************************************************)
(* What a step of leasing may never do: record an occupied (address, site) *)
(* pair again, end an active lease without consent, leave a claim without  *)
(* a lease, or hand an address from one lease to another.                  *)
(***************************************************************************)
EXTENDS AddressProofs

-----------------------------------------------------------------------------
(* Usages, under either isolation level *)

\* A step that inserts no claim and records no active usage.
UsageQuiet ==
    /\ \A t \in Sessions : pc'[t] = "inserted" => pc[t] = "inserted" /\ pend'[t] = pend[t]
    /\ \A u \in usages' : u.active => u \in usages

LEMMA UsageFrame == ASSUME UsageInserted, UsageQuiet PROVE UsageInserted'
BY DEF UsageInserted, UsageQuiet

LEMMA QuietEnd ==
    ASSUME TypeOK, NEW s \in Sessions, End(s), usages' \subseteq usages
    PROVE  UsageQuiet
BY EndKept DEF Kept, Ended, UsageQuiet

LEMMA QuietBegin ==
    ASSUME TypeOK, NEW s \in Sessions, NEW r, NEW w,
           NEW step \in {"open", "peeked", "imp_open", "site_counted"}, Begin(s, r, step, w)
    PROVE  UsageQuiet
BY DEF TypeOK, Begin, UsageQuiet, tables

LEMMA QuietSelected ==
    ASSUME TypeOK, NEW s \in Sessions, NEW rows, NEW row, Selected(s, rows, row)
    PROVE  UsageQuiet
BY DEF TypeOK, Selected, UsageQuiet, tables

\* Every step of a session but the insert of a claim and a commit.
LEMMA QuietStep ==
    ASSUME BaseInv, NEW s \in Sessions, LeaseStep(s) \/ AdminStep(s),
           ~InsertClaim(s), ~Commit(s), ~FallbackCommit(s)
    PROVE  UsageQuiet
<1>0. TypeOK BY DEF BaseInv
<1>1. CASE OpenAcquire(s) \/ OpenReacquire(s) \/ PeekLease(s) \/ OpenImport(s) \/ CountUsages(s)
    BY <1>0, <1>1, QuietBegin DEF OpenAcquire, OpenReacquire, PeekLease, OpenImport, CountUsages
<1>2. CASE SelectMailbox(s) BY <1>0, <1>2, QuietSelected, AcquiredRow
<1>3. CASE SelectForReacquire(s) BY <1>0, <1>3, QuietSelected, ReacquiredRow
<1>4. CASE Abort(s) \/ Release(s) \/ CommitImport(s) \/ DeleteSite(s)
    BY <1>0, <1>4, QuietEnd DEF Abort, Release, CommitImport, DeleteSite, tables
<1>5. CASE LoseClaim(s)
    <2>1. PICK row : pend' = [pend EXCEPT ![s].dead = DeadClaims(s, row)] BY <1>5 DEF LoseClaim
    <2>2. pc' = [pc EXCEPT ![s] = "unclaimed"] /\ usages' = usages BY <1>5 DEF LoseClaim, tables
    <2>3. QED BY <1>0, <2>1, <2>2 DEF TypeOK, UsageQuiet
<1>6. CASE CheckImport(s) \/ ReadClaimsToDelete(s)
    <2>1. usages' = usages BY <1>6 DEF CheckImport, ReadClaimsToDelete, tables
    <2>2. PICK step \in {"imp_claims", "imp_commit"} : pc' = [pc EXCEPT ![s] = step]
        BY <1>6 DEF CheckImport, ReadClaimsToDelete
    <2>3. \A t \in Sessions : t # s => pend'[t] = pend[t]
        BY <1>0, <1>6 DEF TypeOK, CheckImport, ReadClaimsToDelete
    <2>4. QED BY <1>0, <2>1, <2>2, <2>3 DEF TypeOK, UsageQuiet
<1>7. CASE DeleteFirstChunk(s) \/ DeleteNextChunk(s) \/ CommitDeletion(s)
    BY <1>7, DeletionFrame DEF UsageQuiet, Deleting
<1>8. QED BY <1>1, <1>2, <1>3, <1>4, <1>5, <1>6, <1>7 DEF LeaseStep, AdminStep

LEMMA QuietAtomic == ASSUME BaseInv, Atomic PROVE UsageQuiet
<1>1. UNCHANGED session BY AtomicFrame DEF BaseInv, TypeOK
<1>2. \A t \in Sessions : pc'[t] = pc[t] /\ pend'[t] = pend[t] BY <1>1 DEF session
<1>3. \A u \in usages' : u.active => u \in usages
    <2>1. CASE \E u \in usages : RevokeUsage(u)
        <3>1. PICK u \in usages : usages' = (usages \ {u}) \cup {[u EXCEPT !.active = FALSE]}
            BY <2>1 DEF RevokeUsage
        <3>2. [u EXCEPT !.active = FALSE].active = FALSE BY DEF BaseInv, TypeOK, UsageRows
        <3>3. QED BY <3>1, <3>2
    <2>2. CASE usages' = usages BY <2>2
    <2>3. QED BY <2>1, <2>2 DEF Atomic, DeleteMailbox, DeleteRows, ImportNew,
              MarkInvalid, ProbeCapability, PutSite, Tick, tables
<1>4. QED BY <1>2, <1>3 DEF UsageQuiet

\* The insert checks the usage with a locking read, and UNIQUE (allocated_email)
\* keeps the addresses of uncommitted claims apart.
LEMMA UsageInsert ==
    ASSUME UsageInv, NEW s \in Sessions, InsertClaim(s)
    PROVE  UsageInserted'
<1>0. TypeOK /\ pend[s] \in Writes /\ SessionOK(s) BY DEF UsageInv, BaseInv, TypeOK
<1>1. PICK row \in pend[s].put :
         /\ UniqueClaim(s, row) /\ UsageFree(s, row)
         /\ pend' = [pend EXCEPT ![s].claim = {ClaimOf(row)}, ![s].dead = DeadClaims(s, row),
                                 ![s].usage = UsageOf(s, row)]
    BY DEF InsertClaim
<1>2. pc[s] = "selected" /\ pc' = [pc EXCEPT ![s] = "inserted"] /\ usages' = usages
    BY DEF InsertClaim, tables
<1>3. pend[s].put = {row} BY <1>0, <1>1, <1>2 DEF SessionOK, Writing
<1>4. pend'[s].put = {row} /\ pend'[s].usage = UsageOf(s, row)
    BY <1>0, <1>1, <1>3 DEF TypeOK, Writes
<1>5. \A t \in Sessions \ {s} : pc'[t] = pc[t] /\ pend'[t] = pend[t]
    BY <1>0, <1>1, <1>2 DEF TypeOK
<1>6. \A u \in UsageOf(s, row) : u.active /\ u \notin usages /\ u.address = row.address
    BY <1>1 DEF UsageFree, UsageOf
<1>7. ASSUME NEW t \in Sessions \ {s}, pc[t] = "inserted", NEW q \in pend[t].put,
             row.address # NoAddress
      PROVE  q.address # row.address
    <2>1. SessionOK(t) BY DEF UsageInv, BaseInv
    <2>2. ClaimOf(q) \in pend[t].claim BY <1>7, <2>1 DEF SessionOK
    <2>3. ClaimOf(q).address # row.address BY <1>1, <1>7, <2>2 DEF UniqueClaim
    <2>4. QED BY <2>3 DEF ClaimOf
<1>8. ASSUME NEW t \in Sessions, pc'[t] = "inserted", NEW u \in pend'[t].usage
      PROVE  u.active /\ u \notin usages' /\ \A r \in pend'[t].put : r.address = u.address
    <2>1. CASE t = s BY <1>2, <1>4, <1>6, <1>8, <2>1
    <2>2. CASE t # s BY <1>2, <1>5, <1>8, <2>2 DEF UsageInv, UsageInserted
    <2>3. QED BY <2>1, <2>2
<1>9. ASSUME NEW t \in Sessions, NEW v \in Sessions \ {t}, pc'[t] = "inserted", pc'[v] = "inserted",
             NEW r \in pend'[t].put, NEW q \in pend'[v].put, r.address # NoAddress
      PROVE  q.address # r.address
    <2>1. CASE t = s BY <1>4, <1>5, <1>7, <1>9, <2>1
    <2>2. CASE v = s BY <1>4, <1>5, <1>7, <1>9, <2>2
    <2>3. CASE t # s /\ v # s BY <1>5, <1>9, <2>3 DEF UsageInv, UsageInserted
    <2>4. QED BY <2>1, <2>2, <2>3
<1>10. QED BY <1>8, <1>9 DEF UsageInserted

LEMMA UsageCommit ==
    ASSUME UsageInv, NEW s \in Sessions, Commit(s) \/ FallbackCommit(s)
    PROVE  UsageInserted'
<1>0. TypeOK /\ SessionOK(s) /\ End(s) BY DEF UsageInv, BaseInv, Commit, FallbackCommit
<1>1. usages' \subseteq usages \cup pend[s].usage BY DEF Commit, FallbackCommit, Apply
<1>2. CASE pc[s] # "inserted"
    <2>1. usages' \subseteq usages BY <1>0, <1>1, <1>2 DEF SessionOK
    <2>2. QED BY <1>0, <2>1, QuietEnd, UsageFrame DEF UsageInv
<1>3. CASE pc[s] = "inserted"
    <2>1. Ended(s) /\ \A t \in Sessions \ {s} : Kept(t) BY <1>0, EndKept
    <2>2. ASSUME NEW t \in Sessions \ {s}, pc[t] = "inserted", NEW u \in pend[t].usage
          PROVE  u \notin pend[s].usage
        <3>1. SessionOK(t) /\ pend[t] \in Writes BY DEF UsageInv, BaseInv, TypeOK
        <3>2. PICK r \in pend[s].put, q \in pend[t].put : TRUE
            BY <1>0, <1>3, <2>2, <3>1 DEF SessionOK, Writing
        <3>3. u \in UsageRows /\ u.address # NoAddress
            BY <2>2, <3>1, ConstantsAssumption DEF Writes, UsageRows
        <3>4. q.address = u.address BY <2>2, <3>2 DEF UsageInv, UsageInserted
        <3>5. r.address # q.address BY <1>3, <2>2, <3>2, <3>3, <3>4 DEF UsageInv, UsageInserted
        <3>6. QED BY <1>3, <3>2, <3>4, <3>5 DEF UsageInv, UsageInserted
    <2>3. \A t \in Sessions : pc'[t] = "inserted" => t # s /\ pc[t] = "inserted" /\ pend'[t] = pend[t]
        BY <2>1 DEF Ended, Kept
    <2>4. QED BY <1>1, <2>2, <2>3 DEF UsageInv, UsageInserted
<1>4. QED BY <1>2, <1>3

LEMMA UsageNext == ASSUME UsageInv, [Next]_vars PROVE UsageInv'
<1>1. BaseInv /\ BaseInv' BY BaseNext DEF UsageInv
<1>2. CASE \E s \in Sessions : LeaseStep(s) \/ AdminStep(s)
    BY <1>1, <1>2, QuietStep, UsageFrame, UsageInsert, UsageCommit DEF UsageInv
<1>3. CASE Atomic BY <1>1, <1>3, QuietAtomic, UsageFrame DEF UsageInv
<1>4. CASE UNCHANGED vars
    BY <1>1, <1>4 DEF UsageInv, UsageInserted, vars, session, tables
<1>5. QED BY <1>2, <1>3, <1>4 DEF Next, Atomic

\* Under either isolation level, no commit records an active usage of an address
\* for a site that is active already: an address is not handed out twice for the
\* same site until the administrator revokes the usage or deletes the site.
THEOREM UsedOncePerSite == Spec => NoRepeatUse
<1>1. Init => UsageInv BY BaseInit DEF Init, UsageInv, UsageInserted
<1>2. UsageInv /\ [Next]_vars => UsageInv' BY UsageNext DEF UsageInv
<1>3. UsageInv /\ [Next]_vars =>
         [\A s \in Sessions : pc[s] = "inserted" /\ pc'[s] = "idle" /\ leases' # leases =>
             \A u \in pend[s].usage : u \notin usages]_vars
    BY DEF UsageInv, UsageInserted
<1>4. QED BY <1>1, <1>2, <1>3, PTL DEF Spec, NoRepeatUse

-----------------------------------------------------------------------------
(* REPEATABLE READ: the inductive invariant of the steps *)

\* Leases disappear or are released, claims disappear, sessions stay or end.
LEMMA StepShrink ==
    ASSUME StepInv, AddressInv', \A t \in Sessions : Kept(t) \/ Ended(t),
           \A k \in leases' : \E l \in leases :
              k.id = l.id /\ k.client = l.client /\ k.address = l.address,
           claims' \subseteq claims,
           \A l \in leases : ClaimOf(l) \in claims' => \E k \in leases' : ClaimOf(k) = ClaimOf(l)
    PROVE  StepInv'
<1>1. \A t \in Sessions : pc'[t] # "idle" => Kept(t) BY DEF Ended
<1>2. RenewsOwn'
    <2>1. SUFFICES ASSUME NEW s \in Sessions, pc'[s] \in Writing, NEW r \in pend'[s].put,
                          NEW k \in leases', k.id = r.id
                   PROVE  r.client = k.client /\ r.address = k.address /\ req'[s].op = "reacquire"
        BY DEF RenewsOwn
    <2>2. Kept(s) BY <1>1, <2>1 DEF Writing
    <2>3. QED BY <2>1, <2>2 DEF Kept, StepInv, RenewsOwn
<1>3. ForcedReleases'
    <2>1. \A s \in Sessions : pc'[s] \in Importing => Kept(s) BY <1>1 DEF Importing
    <2>2. QED BY <2>1 DEF Kept, StepInv, ForcedReleases
<1>4. \A c \in claims' : \E k \in leases' : ClaimOf(k) = c BY DEF StepInv, ClaimNamesLease
<1>5. ClaimNamesLease' BY <1>4 DEF ClaimNamesLease, ClaimOf
<1>6. QED BY <1>2, <1>3, <1>5 DEF StepInv

\* What releasing leases does to the rows.
LEMMA ReleasedRows ==
    ASSUME TypeOK, NEW ids
    PROVE  /\ \A k \in Released(ids) : \E l \in leases :
                 /\ k.id = l.id /\ k.client = l.client /\ k.address = l.address
                 /\ ~k.released => k = l
           /\ \A l \in leases : l.id \notin ids => l \in Released(ids)
           /\ \A l \in leases : \E k \in Released(ids) : ClaimOf(k) = ClaimOf(l)
<1>1. \A l \in leases : LET k == [l EXCEPT !.released = TRUE] IN
         /\ k.id = l.id /\ k.client = l.client /\ k.address = l.address /\ k.released = TRUE
         /\ k.mailbox = l.mailbox /\ k.mode = l.mode /\ k.expires = l.expires
    BY DEF TypeOK, LeaseRows
<1>2. \A l \in leases : ClaimOf([l EXCEPT !.released = TRUE]) = ClaimOf(l) BY <1>1 DEF ClaimOf
<1>3. \A l \in leases : \E k \in Released(ids) : ClaimOf(k) = ClaimOf(l) BY <1>2 DEF Released
<1>4. QED BY <1>1, <1>3 DEF Released

LEMMA StepRelease ==
    ASSUME StepInv, AddressInv', NEW s \in Sessions, Release(s) \/ CommitImport(s)
    PROVE  StepInv'
<1>0. TypeOK BY DEF StepInv, AddressInv, BaseInv
<1>1. PICK ids : leases' = Released(ids) BY DEF Release, CommitImport
<1>2. End(s) /\ claims' \subseteq claims BY DEF Release, CommitImport
<1>3. /\ \A k \in leases' : \E l \in leases :
            k.id = l.id /\ k.client = l.client /\ k.address = l.address
      /\ \A l \in leases : \E k \in leases' : ClaimOf(k) = ClaimOf(l)
    BY <1>0, <1>1, ReleasedRows
<1>4. QED BY <1>0, <1>2, <1>3, StepShrink, EndKept

LEMMA StepSame ==
    ASSUME StepInv, AddressInv', UNCHANGED <<leases, claims>>, \A t \in Sessions : Kept(t) \/ Ended(t)
    PROVE  StepInv'
BY StepShrink

LEMMA StepDelete ==
    ASSUME StepInv, AddressInv', NEW S, DeleteRows(S), \A t \in Sessions : Kept(t) \/ Ended(t)
    PROVE  StepInv'
<1>1. /\ leases' = {l \in leases : l.mailbox \notin S}
      /\ claims' = {c \in claims : c.mailbox \notin S}
    BY DEF DeleteRows
<1>2. \A l \in leases : ClaimOf(l) \in claims' => l \in leases' BY <1>1 DEF ClaimOf
<1>3. QED BY <1>1, <1>2, StepShrink

LEMMA StepAtomic == ASSUME StepInv, AddressInv', Atomic PROVE StepInv'
<1>1. UNCHANGED session BY AtomicFrame DEF StepInv, AddressInv, BaseInv, TypeOK
<1>2. \A t \in Sessions : Kept(t) BY <1>1 DEF session, Kept
<1>3. CASE \E S : DeleteRows(S) BY <1>2, <1>3, StepDelete
<1>4. CASE UNCHANGED <<leases, claims>> BY <1>2, <1>4, StepSame
<1>5. QED BY <1>3, <1>4 DEF Atomic, DeleteMailbox, ImportNew, MarkInvalid,
          ProbeCapability, PutSite, RevokeUsage, Tick, tables

\* One session moves and the tables stay.
LEMMA StepOnly ==
    ASSUME StepInv, AddressInv', NEW s \in Sessions, Only(s),
           pc'[s] \in Writing => \A r \in pend'[s].put : \A l \in leases :
              l.id = r.id => /\ r.client = l.client /\ r.address = l.address
                             /\ req'[s].op = "reacquire",
           pc'[s] \in Importing /\ pend'[s].rel # {} => pc'[s] # "imp_open" /\ req'[s].force
    PROVE  StepInv'
<1>1. \A t \in Sessions : t = s \/ Kept(t) BY DEF Only
<1>2. RenewsOwn' BY <1>1 DEF Only, Kept, StepInv, RenewsOwn
<1>3. ForcedReleases' BY <1>1 DEF Kept, StepInv, ForcedReleases
<1>4. ClaimNamesLease' BY DEF Only, StepInv, ClaimNamesLease, ClaimOf
<1>5. QED BY <1>2, <1>3, <1>4 DEF StepInv

LEMMA StepBegin ==
    ASSUME StepInv, AddressInv', NEW s \in Sessions, NEW r, NEW w,
           NEW step \in {"open", "peeked", "imp_open", "site_counted"},
           Begin(s, r, step, w), w.rel = {}
    PROVE  StepInv'
<1>1. Only(s) /\ pc'[s] = step /\ pend'[s] = w
    BY DEF Begin, tables, Only, Kept, StepInv, AddressInv, BaseInv, TypeOK
<1>2. QED BY <1>1, StepOnly DEF Writing

LEMMA StepDeletion ==
    ASSUME StepInv, AddressInv', NEW s \in Sessions,
           DeleteFirstChunk(s) \/ DeleteNextChunk(s) \/ CommitDeletion(s)
    PROVE  StepInv'
<1>0. BaseInv /\ TypeOK BY DEF StepInv, AddressInv, BaseInv
<1>1. CASE DeleteFirstChunk(s) \/ DeleteNextChunk(s)
    <2>1. pc'[s] \in Deleting /\ UNCHANGED <<now, leases, claims, usedIds>>
        BY <1>0, <1>1, ChunkStep DEF tables
    <2>2. \A t \in Sessions \ {s} : Kept(t) BY <1>0, <1>1, DeletionFrame DEF Kept
    <2>3. Only(s) BY <2>1, <2>2 DEF Only
    <2>4. QED BY <2>1, <2>3, StepOnly DEF Writing, Importing, Deleting
<1>2. CASE CommitDeletion(s)
    BY <1>0, <1>2, EndKept, StepDelete DEF CommitDeletion
<1>3. QED BY <1>1, <1>2

LEMMA StepOpen ==
    ASSUME StepInv, AddressInv', NEW s \in Sessions,
           OpenAcquire(s) \/ OpenReacquire(s) \/ PeekLease(s) \/ OpenImport(s) \/ CountUsages(s)
    PROVE  StepInv'
<1>1. NoWrites.rel = {} /\ \A l : [NoWrites EXCEPT !.put = {l}].rel = {} BY DEF NoWrites
<1>2. QED BY <1>1, StepBegin DEF OpenAcquire, OpenReacquire, PeekLease, OpenImport, CountUsages

LEMMA StepSelect ==
    ASSUME StepInv, AddressInv', NEW s \in Sessions, SelectMailbox(s) \/ SelectForReacquire(s)
    PROVE  StepInv'
<1>0. BaseInv /\ TypeOK /\ IdsUsed /\ UniqueRows BY DEF StepInv, AddressInv, BaseInv
<1>1. PICK rows \in SUBSET Mailboxes, row \in LeaseRows :
         /\ Selected(s, rows, row)
         /\ \/ row.id \in FreshIds
            \/ /\ req[s].op = "reacquire"
               /\ \E l \in leases : l.id = row.id /\ row.client = l.client /\ row.address = l.address
    <2>1. CASE SelectMailbox(s) BY <1>0, <2>1, AcquiredRow
    <2>2. CASE SelectForReacquire(s)
        <3>1. PICK m \in Mailboxes, row \in LeaseRows :
                 /\ Selected(s, {m}, row) /\ req[s].op = "reacquire"
                 /\ \/ row.id \in FreshIds
                    \/ \E l \in leases : l.id = row.id /\ row.client = l.client /\ row.address = l.address
            BY <1>0, <2>2, ReacquiredRow
        <3>2. QED BY <3>1
    <2>3. QED BY <2>1, <2>2
<1>2. /\ Only(s) /\ pc'[s] = "selected" /\ req' = req
      /\ pend'[s] = [NoWrites EXCEPT !.put = {row}]
    BY <1>0, <1>1 DEF Selected, tables, Only, Kept, TypeOK
<1>3. pend'[s].put = {row} BY <1>2 DEF NoWrites
<1>4. \A l \in leases : l.id = row.id =>
         row.client = l.client /\ row.address = l.address /\ req[s].op = "reacquire"
    <2>1. CASE row.id \in FreshIds BY <1>0, <2>1 DEF FreshIds, IdsUsed
    <2>2. CASE row.id \notin FreshIds BY <1>0, <1>1, <2>2 DEF UniqueRows
    <2>3. QED BY <2>1, <2>2
<1>5. QED BY <1>2, <1>3, <1>4, StepOnly DEF Importing

LEMMA StepInsert ==
    ASSUME StepInv, AddressInv', NEW s \in Sessions, InsertClaim(s)
    PROVE  StepInv'
<1>0. TypeOK /\ pend[s] \in Writes BY DEF StepInv, AddressInv, BaseInv, TypeOK
<1>1. PICK row \in pend[s].put :
         pend' = [pend EXCEPT ![s].claim = {ClaimOf(row)}, ![s].dead = DeadClaims(s, row),
                              ![s].usage = UsageOf(s, row)]
    BY DEF InsertClaim
<1>2. /\ pc[s] = "selected" /\ pc' = [pc EXCEPT ![s] = "inserted"]
      /\ UNCHANGED <<now, leases, claims, usedIds, req, view, locked>>
    BY DEF InsertClaim, tables
<1>3. pc'[s] = "inserted" /\ pend'[s].put = pend[s].put BY <1>0, <1>1, <1>2 DEF TypeOK, Writes
<1>4. Only(s) BY <1>0, <1>1, <1>2 DEF Only, Kept, TypeOK
<1>5. QED BY <1>2, <1>3, <1>4, StepOnly DEF StepInv, RenewsOwn, Writing, Importing

LEMMA StepImport ==
    ASSUME StepInv, AddressInv', NEW s \in Sessions, CheckImport(s) \/ ReadClaimsToDelete(s)
    PROVE  StepInv'
<1>0. TypeOK /\ pend[s] \in Writes BY DEF StepInv, AddressInv, BaseInv, TypeOK
<1>1. UNCHANGED <<now, leases, claims, usedIds, req, view, locked>>
    BY DEF CheckImport, ReadClaimsToDelete, tables
<1>2. PICK step \in {"imp_claims", "imp_commit"} : pc' = [pc EXCEPT ![s] = step]
    BY DEF CheckImport, ReadClaimsToDelete
<1>3. \A t \in Sessions : t # s => pend'[t] = pend[t]
    BY <1>0 DEF TypeOK, CheckImport, ReadClaimsToDelete
<1>4. Only(s) /\ pc'[s] = step BY <1>0, <1>1, <1>2, <1>3 DEF Only, Kept, TypeOK
<1>5. pend'[s].rel # {} => req[s].force
    <2>1. CASE CheckImport(s)
        <3>1. pc[s] \in Importing /\ pc[s] = "imp_open" BY <2>1 DEF CheckImport, Importing
        <3>2. pend[s].rel = {} BY <3>1 DEF StepInv, ForcedReleases
        <3>3. QED BY <2>1, <3>2 DEF CheckImport
    <2>2. CASE ReadClaimsToDelete(s)
        <3>1. pc[s] \in Importing BY <2>2 DEF ReadClaimsToDelete, Importing
        <3>2. pend'[s].rel = pend[s].rel BY <1>0, <2>2 DEF ReadClaimsToDelete, TypeOK, Writes
        <3>3. QED BY <3>1, <3>2 DEF StepInv, ForcedReleases
    <2>3. QED BY <2>1, <2>2
<1>6. QED BY <1>1, <1>4, <1>5, StepOnly DEF Writing

\* The lease row and the claim row a commit writes.
LEMMA CommittedRow ==
    ASSUME StepInv, NEW s \in Sessions, Commit(s)
    PROVE  \E row \in pend[s].put :
              /\ leases' = {l \in leases : l.id # row.id} \cup {row}
              /\ claims' = {c \in claims : c.lease \notin pend[s].dead} \cup {ClaimOf(row)}
              /\ \A c \in claims : c.lease \notin pend[s].dead =>
                    c.lease # row.id /\ (row.address # NoAddress => c.address # row.address)
              /\ \A l \in leases : l.id \in pend[s].dead /\ Active(l) => l.id = row.id
              /\ \A t \in Sessions \ {s} : pc[t] \in Writing => \A q \in pend[t].put : q.id # row.id
<1>0. SessionOK(s) /\ pc[s] = "inserted" BY DEF StepInv, AddressInv, BaseInv, Commit
<1>1. PICK row \in pend[s].put : pend[s].put = {row} /\ pend[s].claim = {ClaimOf(row)}
    BY <1>0 DEF SessionOK, Writing
<1>2. /\ leases' = {l \in leases : l.id # row.id} \cup {row}
      /\ claims' = {c \in claims : c.lease \notin pend[s].dead} \cup {ClaimOf(row)}
    BY <1>1 DEF Commit, Apply
<1>3. /\ \A c \in claims : c.lease \notin pend[s].dead =>
            c.lease # row.id /\ (row.address # NoAddress => c.address # row.address)
      /\ \A l \in leases : l.id \in pend[s].dead /\ Active(l) => l.id = row.id
    BY <1>0, <1>1 DEF StepInv, AddressInv, InsertedRows
<1>4. \A t \in Sessions \ {s} : pc[t] \in Writing => \A q \in pend[t].put : q.id # row.id
    BY <1>0, <1>1 DEF StepInv, AddressInv, PendingRows, Writing
<1>5. QED BY <1>1, <1>2, <1>3, <1>4

LEMMA StepCommit ==
    ASSUME StepInv, AddressInv', NEW s \in Sessions, Commit(s)
    PROVE  StepInv'
<1>0. TypeOK /\ End(s) BY DEF StepInv, AddressInv, BaseInv, Commit
<1>1. PICK row \in pend[s].put :
         /\ leases' = {l \in leases : l.id # row.id} \cup {row}
         /\ claims' = {c \in claims : c.lease \notin pend[s].dead} \cup {ClaimOf(row)}
         /\ \A c \in claims : c.lease \notin pend[s].dead => c.lease # row.id
         /\ \A t \in Sessions \ {s} : pc[t] \in Writing => \A q \in pend[t].put : q.id # row.id
    BY CommittedRow
<1>2. \A t \in Sessions : pc'[t] # "idle" => t # s /\ Kept(t) BY <1>0, EndKept DEF Ended
<1>3. RenewsOwn'
    <2>1. SUFFICES ASSUME NEW t \in Sessions, pc'[t] \in Writing, NEW q \in pend'[t].put,
                          NEW k \in leases', k.id = q.id
                   PROVE  q.client = k.client /\ q.address = k.address /\ req'[t].op = "reacquire"
        BY DEF RenewsOwn
    <2>2. t # s /\ Kept(t) /\ pc[t] \in Writing /\ q \in pend[t].put
        BY <1>2, <2>1 DEF Kept, Writing
    <2>3. k \in leases BY <1>1, <2>1, <2>2
    <2>4. QED BY <2>1, <2>2, <2>3 DEF Kept, StepInv, RenewsOwn
<1>4. ForcedReleases'
    <2>1. \A t \in Sessions : pc'[t] \in Importing => Kept(t) BY <1>2 DEF Importing
    <2>2. QED BY <2>1 DEF Kept, StepInv, ForcedReleases
<1>5. ASSUME NEW c \in claims' PROVE \E l \in leases' : ClaimOf(l) = c
    <2>1. CASE c = ClaimOf(row) BY <1>1, <2>1
    <2>2. CASE c # ClaimOf(row)
        <3>1. c \in claims /\ c.lease # row.id BY <1>1, <2>2
        <3>2. PICK l \in leases : ClaimOf(l) = c BY <3>1 DEF StepInv, ClaimNamesLease
        <3>3. l.id # row.id BY <3>1, <3>2 DEF ClaimOf
        <3>4. QED BY <1>1, <3>2, <3>3
    <2>3. QED BY <2>1, <2>2
<1>6. ClaimNamesLease' BY <1>5 DEF ClaimNamesLease, ClaimOf
<1>7. QED BY <1>3, <1>4, <1>6 DEF StepInv

LEMMA NoFallback ==
    ASSUME AddressInv, Isolation = "REPEATABLE READ", NEW s \in Sessions
    PROVE  ~LoseClaim(s) /\ ~FallbackCommit(s)
<1>1. ASSUME LoseClaim(s) PROVE FALSE
    <2>1. PICK row \in pend[s].put : ClaimConflict(s, row) BY <1>1 DEF LoseClaim
    <2>2. ~IsPlus(row) /\ \E c \in view[s].claims : c.mailbox = row.mailbox /\ Live(c)
        BY <2>1 DEF ClaimConflict, ClaimRead
    <2>3. QED BY <1>1, <2>1, <2>2 DEF LoseClaim, AddressInv, NeverUnclaimed
<1>2. QED BY <1>1 DEF FallbackCommit, AddressInv, NeverUnclaimed

LEMMA StepNext ==
    ASSUME Isolation = "REPEATABLE READ", StepInv, [Next]_vars
    PROVE  StepInv'
<1>1. AddressInv /\ AddressInv' BY AddressNext DEF StepInv
<1>2. TypeOK BY <1>1 DEF AddressInv, BaseInv
<1>3. ASSUME NEW s \in Sessions, Abort(s) \/ DeleteSite(s) PROVE StepInv'
    <2>1. End(s) /\ UNCHANGED <<leases, claims>> BY <1>3 DEF Abort, DeleteSite, tables
    <2>2. QED BY <1>1, <1>2, <2>1, StepSame, EndKept
<1>4. CASE \E s \in Sessions : LeaseStep(s) \/ AdminStep(s)
    BY <1>1, <1>3, <1>4, NoFallback, StepOpen, StepSelect, StepInsert, StepCommit, StepRelease,
       StepImport, StepDeletion
    DEF LeaseStep, AdminStep
<1>5. CASE Atomic BY <1>1, <1>5, StepAtomic
<1>6. CASE UNCHANGED vars
    <2>1. \A t \in Sessions : Kept(t) BY <1>6 DEF vars, session, Kept
    <2>2. QED BY <1>1, <1>6, <2>1, StepSame DEF vars, tables
<1>7. QED BY <1>4, <1>5, <1>6 DEF Next, Atomic

LEMMA StepInit == ASSUME Init PROVE StepInv
<1>1. AddressInv BY AddressInit
<1>2. QED BY <1>1 DEF Init, StepInv, RenewsOwn, ForcedReleases, ClaimNamesLease, NoWrites,
          Writing, Importing

\* Under REPEATABLE READ every claim, also one a forced import or a release did
\* not see, is that of a lease row and expires with it.
THEOREM ClaimsNameLeases ==
    ASSUME Isolation = "REPEATABLE READ" PROVE Spec => []ClaimNamesLease
<1>1. Init => StepInv BY StepInit
<1>2. StepInv /\ [Next]_vars => StepInv' BY StepNext
<1>3. StepInv => ClaimNamesLease BY DEF StepInv
<1>4. QED BY <1>1, <1>2, <1>3, PTL DEF Spec

-----------------------------------------------------------------------------
(* A lease ends by consent *)

\* Which steps write the two tables.
LEMMA TableSteps ==
    ASSUME Isolation = "REPEATABLE READ", StepInv, [Next]_vars
    PROVE  /\ now' = now \/ now' = now + 1
           /\ \/ leases' = leases
              \/ \E s \in Sessions : Commit(s) \/ Release(s) \/ CommitImport(s) \/ CommitDeletion(s)
              \/ \E m \in Mailboxes, force \in BOOLEAN : DeleteMailbox(m, force)
<1>1. AddressInv /\ now \in Nat BY DEF StepInv, AddressInv, BaseInv, TypeOK
<1>2. CASE \E s \in Sessions : LeaseStep(s) \/ AdminStep(s)
    <2>1. PICK s \in Sessions : LeaseStep(s) \/ AdminStep(s) BY <1>2
    <2>2. ~LoseClaim(s) /\ ~FallbackCommit(s) BY <1>1, NoFallback
    <2>3. CASE Commit(s) \/ Release(s) \/ CommitImport(s) \/ CommitDeletion(s)
        BY <2>3 DEF Commit, Release, CommitImport, CommitDeletion, DeleteRows
    <2>4. CASE ~(Commit(s) \/ Release(s) \/ CommitImport(s) \/ CommitDeletion(s))
        BY <2>1, <2>2, <2>4 DEF LeaseStep, AdminStep, OpenAcquire, SelectMailbox, InsertClaim,
           OpenReacquire, SelectForReacquire, PeekLease, Abort, OpenImport, CheckImport,
           ReadClaimsToDelete, DeleteFirstChunk, DeleteNextChunk, DeleteChunk, CountUsages,
           DeleteSite, Begin, Selected, tables
    <2>5. QED BY <2>3, <2>4
<1>3. CASE Atomic
    <2>1. now' = now \/ now' = now + 1 BY <1>1, <1>3, AtomicFrame
    <2>2. \/ leases' = leases
          \/ \E m \in Mailboxes, force \in BOOLEAN : DeleteMailbox(m, force)
        BY <1>3 DEF Atomic, ImportNew, MarkInvalid, ProbeCapability, PutSite, RevokeUsage, Tick, tables
    <2>3. QED BY <2>1, <2>2
<1>4. CASE UNCHANGED vars BY <1>4 DEF vars, tables
<1>5. QED BY <1>2, <1>3, <1>4 DEF Next, Atomic

\* How an active lease may come to an end.
Consented(l) ==
    \/ \E s \in Sessions : pc[s] = "peeked" /\ pc'[s] = "idle" /\ \E r \in pend[s].put : r.id = l.id
    \/ \E s \in Sessions : pc[s] = "inserted" /\ pc'[s] = "idle" /\ req[s].op = "reacquire"
                         /\ \E r \in pend[s].put : r.id = l.id /\ r.client = l.client
    \/ \E s \in Sessions : pc[s] = "imp_commit" /\ pc'[s] = "idle" /\ req[s].force
    \/ \E m \in Mailboxes : DeleteMailbox(m, TRUE) /\ ~DeleteMailbox(m, FALSE)
    \/ \E s \in Sessions :
          /\ pc[s] \in {"chunk", "deleted"} /\ pc'[s] = "idle"
          /\ l.mailbox \in pend[s].gone
          /\ req[s].force \/ ClaimOf(l) \notin view[s].claims

LEMMA ReleaseConsented ==
    ASSUME StepInv, NEW s \in Sessions, Release(s) \/ CommitImport(s), NEW l \in leases, Lost(l)
    PROVE  Consented(l)
<1>0. TypeOK BY DEF StepInv, AddressInv, BaseInv
<1>1. End(s) /\ pc'[s] = "idle" BY <1>0 DEF Release, CommitImport, End, TypeOK
<1>2. \A ids : leases' = Released(ids) => l.id \in ids BY <1>0, ReleasedRows DEF Lost
<1>3. CASE Release(s)
    <2>1. PICK seen \in pend[s].put : leases' = Released({seen.id}) BY <1>3 DEF Release
    <2>2. l.id = seen.id BY <1>2, <2>1
    <2>3. QED BY <1>1, <1>3, <2>2 DEF Release, Consented
<1>4. CASE CommitImport(s)
    <2>1. l.id \in pend[s].rel BY <1>2, <1>4 DEF CommitImport
    <2>2. pc[s] = "imp_commit" /\ req[s].force
        BY <1>4, <2>1 DEF CommitImport, StepInv, ForcedReleases, Importing
    <2>3. QED BY <1>1, <2>2 DEF Consented
<1>5. QED BY <1>3, <1>4

LEMMA CommitConsented ==
    ASSUME StepInv, NEW s \in Sessions, Commit(s), NEW l \in leases, Lost(l)
    PROVE  Consented(l)
<1>0. TypeOK BY DEF StepInv, AddressInv, BaseInv
<1>1. pc[s] = "inserted" /\ pc'[s] = "idle" BY <1>0 DEF Commit, End, TypeOK
<1>2. PICK row \in pend[s].put : leases' = {k \in leases : k.id # row.id} \cup {row} BY CommittedRow
<1>3. l.id = row.id BY <1>2 DEF Lost
<1>4. row.client = l.client /\ req[s].op = "reacquire"
    BY <1>1, <1>2, <1>3 DEF StepInv, RenewsOwn, Writing
<1>5. QED BY <1>1, <1>2, <1>3, <1>4 DEF Consented

\* The claim of an active lease stops a deletion that is not forced.
LEMMA DeleteConsented ==
    ASSUME StepInv, NEW l \in leases, Lost(l),
           NEW m \in Mailboxes, NEW force \in BOOLEAN, DeleteMailbox(m, force)
    PROVE  Consented(l)
<1>1. ClaimOf(l) \in claims /\ ClaimOf(l).mailbox = l.mailbox /\ Live(ClaimOf(l))
    BY DEF Lost, StepInv, AddressInv, ClaimMirrorsLease, ClaimOf, Active, Live
<1>2. l.mailbox = m BY DEF DeleteMailbox, DeleteRows, Lost
<1>3. ~DeleteMailbox(m, FALSE) BY <1>1, <1>2 DEF DeleteMailbox
<1>4. DeleteMailbox(m, TRUE) BY DEF DeleteMailbox
<1>5. QED BY <1>3, <1>4 DEF Consented

\* A claim that the view of the deletion of invalid mailboxes shows stops it.
LEMMA DeletionConsented ==
    ASSUME ConsentInv, NEW s \in Sessions, CommitDeletion(s), NEW l \in leases, Lost(l)
    PROVE  Consented(l)
<1>1. pc[s] \in {"chunk", "deleted"} /\ pc'[s] = "idle"
    BY DEF CommitDeletion, End, ConsentInv, StepInv, AddressInv, BaseInv, TypeOK
<1>2. l.mailbox \in pend[s].gone BY DEF CommitDeletion, DeleteRows, Lost
<1>3. ClaimOf(l).mailbox = l.mailbox /\ Live(ClaimOf(l)) BY DEF Lost, Active, ClaimOf, Live
<1>4. req[s].force \/ ClaimOf(l) \notin view[s].claims
    BY <1>1, <1>2, <1>3 DEF ConsentInv, UnforcedDeletions, Deleting
<1>5. QED BY <1>1, <1>2, <1>4 DEF Consented

\* Whoever is deleting after a step other than a chunk was deleting before it.
LEMMA DeletersKept ==
    ASSUME BaseInv, [Next]_vars,
           ~\E s \in Sessions : DeleteFirstChunk(s) \/ DeleteNextChunk(s)
    PROVE  \A t \in Sessions : pc'[t] \in Deleting => Kept(t)
<1>0. TypeOK BY DEF BaseInv
<1>1. CASE \E s \in Sessions : LeaseStep(s) \/ AdminStep(s)
    <2>1. PICK s \in Sessions : LeaseStep(s) \/ AdminStep(s) BY <1>1
    <2>2. pc'[s] \notin Deleting
        BY <1>0, <2>1 DEF LeaseStep, AdminStep, OpenAcquire, SelectMailbox, InsertClaim, LoseClaim,
           Commit, FallbackCommit, OpenReacquire, SelectForReacquire, PeekLease, Release, Abort,
           OpenImport, CheckImport, ReadClaimsToDelete, CommitImport, CommitDeletion, CountUsages,
           DeleteSite, Begin, Selected, End, TypeOK, Deleting
    <2>3. \A t \in Sessions : t # s => Kept(t)
        BY <1>0, <2>1 DEF LeaseStep, AdminStep, OpenAcquire, SelectMailbox, InsertClaim, LoseClaim,
           Commit, FallbackCommit, OpenReacquire, SelectForReacquire, PeekLease, Release, Abort,
           OpenImport, CheckImport, ReadClaimsToDelete, CommitImport, CommitDeletion, CountUsages,
           DeleteSite, Begin, Selected, End, TypeOK, Kept
    <2>4. QED BY <2>2, <2>3
<1>2. CASE Atomic BY <1>0, <1>2, AtomicFrame DEF session, Kept, TypeOK
<1>3. CASE UNCHANGED vars BY <1>3 DEF vars, session, Kept
<1>4. QED BY <1>1, <1>2, <1>3 DEF Next, Atomic

LEMMA UnforcedNext ==
    ASSUME Isolation = "REPEATABLE READ", ConsentInv, StepInv', [Next]_vars
    PROVE  UnforcedDeletions'
<1>0. BaseInv /\ TypeOK /\ TypeOK' BY DEF ConsentInv, StepInv, AddressInv, BaseInv
<1>1. now' = now \/ now' = now + 1 BY TableSteps DEF ConsentInv
<1>2. \A c \in ClaimRows : Live(c)' => Live(c) BY <1>0, <1>1, LiveShrinks
<1>3. ASSUME NEW t \in Sessions, Kept(t), pc'[t] \in Deleting, ~req'[t].force,
             NEW c \in view'[t].claims, c.mailbox \in pend'[t].gone
      PROVE  ~Live(c)'
    <2>1. c \in ClaimRows BY <1>0, <1>3 DEF TypeOK, Views
    <2>2. ~Live(c) BY <1>3 DEF Kept, ConsentInv, UnforcedDeletions
    <2>3. QED BY <1>2, <2>1, <2>2
<1>4. CASE \E s \in Sessions : DeleteFirstChunk(s) \/ DeleteNextChunk(s)
    <2>1. PICK s \in Sessions : DeleteFirstChunk(s) \/ DeleteNextChunk(s) BY <1>4
    <2>2. \A t \in Sessions : t # s => Kept(t) BY <1>0, <2>1, DeletionFrame DEF Kept
    <2>3. PICK C \in SUBSET Mailboxes, r \in Workload \cap DeletionRequests :
             /\ pc[s] = "idle" \/ (pc[s] = "chunk" /\ r = req[s])
             /\ MayDelete(s, r.force, StillInvalid(s, C))
             /\ req' = [req EXCEPT ![s] = r]
             /\ view' = [view EXCEPT ![s] = DeletionView(s)]
             /\ pend' = [pend EXCEPT ![s].gone = @ \cup StillInvalid(s, C)]
             /\ UNCHANGED <<now, tables>>
        BY <1>0, <2>1, ChunkStep
    <2>4. /\ req'[s] = r /\ view'[s] = DeletionView(s) /\ now' = now
          /\ pend'[s].gone = pend[s].gone \cup StillInvalid(s, C)
        BY <1>0, <2>3 DEF TypeOK, Writes
    <2>5. ASSUME ~r.force, NEW c \in DeletionView(s).claims,
                 c.mailbox \in pend[s].gone \cup StillInvalid(s, C)
          PROVE  ~Live(c)
        <3>1. CASE c.mailbox \in StillInvalid(s, C) BY <2>3, <2>5, <3>1 DEF MayDelete
        <3>2. CASE c.mailbox \in pend[s].gone
            <4>1. pc[s] # "idle" BY <1>0, <3>2 DEF BaseInv, SessionOK
            <4>2. pc[s] = "chunk" /\ ~req[s].force BY <2>3, <2>5, <4>1
            <4>3. c \in view[s].claims BY <2>5, <4>2 DEF DeletionView
            <4>4. QED BY <3>2, <4>2, <4>3 DEF ConsentInv, UnforcedDeletions, Deleting
        <3>3. QED BY <2>5, <3>1, <3>2
    <2>6. ASSUME ~req'[s].force
          PROVE  ~\E c \in view'[s].claims : c.mailbox \in pend'[s].gone /\ Live(c)'
        BY <2>4, <2>5, <2>6 DEF Live
    <2>7. QED BY <1>3, <2>2, <2>6 DEF UnforcedDeletions
<1>5. CASE ~\E s \in Sessions : DeleteFirstChunk(s) \/ DeleteNextChunk(s)
    BY <1>0, <1>3, <1>5, DeletersKept DEF UnforcedDeletions
<1>6. QED BY <1>4, <1>5

\* Under REPEATABLE READ a lease ends before its time only by its client's
\* release or shorter renewal, by the administrator's force, or, in the deletion
\* of invalid mailboxes, because it was granted after that deletion opened its view.
THEOREM LeasesEndByConsent ==
    ASSUME Isolation = "REPEATABLE READ" PROVE Spec => EndsByConsent
<1>1. Init => ConsentInv
    BY StepInit DEF Init, ConsentInv, UnforcedDeletions, Deleting
<1>2. ConsentInv /\ [Next]_vars => ConsentInv' BY StepNext, UnforcedNext DEF ConsentInv
<1>3. ASSUME ConsentInv, [Next]_vars, NEW l \in leases, Lost(l) PROVE Consented(l)
    <2>1. leases' # leases BY <1>3 DEF Lost
    <2>2. StepInv BY <1>3 DEF ConsentInv
    <2>3. QED BY <1>3, <2>1, <2>2, TableSteps, ReleaseConsented, CommitConsented, DeleteConsented,
             DeletionConsented
<1>4. ConsentInv /\ [Next]_vars => [\A l \in leases : Lost(l) => Consented(l)]_vars BY <1>3
<1>5. QED BY <1>1, <1>2, <1>4, PTL DEF Spec, EndsByConsent, Consented

-----------------------------------------------------------------------------
(* Leasing implements address occupancy *)

\* The refinement mapping, of leases L at time t.
On(l, t) == ~l.released /\ l.expires > t
HolderOf(L, t, a) ==
    IF \E l \in L : On(l, t) /\ l.address = a
    THEN (CHOOSE l \in L : On(l, t) /\ l.address = a).id ELSE NoAddress

\* With one active lease per address, the holder is that lease.
Exclusive(L, t) ==
    /\ \A l, k \in L : On(l, t) /\ On(k, t) /\ l.address = k.address /\ l.address # NoAddress => l = k
    /\ \A l \in L : l.id \in LeaseIds

LEMMA HolderIs ==
    ASSUME NEW L, NEW t, Exclusive(L, t), NEW a \in Addresses
    PROVE  /\ \A l \in L : On(l, t) /\ l.address = a =>
                 HolderOf(L, t, a) = l.id /\ HolderOf(L, t, a) # NoAddress
           /\ HolderOf(L, t, a) # NoAddress =>
                 \E l \in L : On(l, t) /\ l.address = a /\ l.id = HolderOf(L, t, a)
<1>1. a # NoAddress /\ NoAddress \notin LeaseIds BY ConstantsAssumption
<1>2. CASE \E l \in L : On(l, t) /\ l.address = a
    <2> DEFINE h == CHOOSE l \in L : On(l, t) /\ l.address = a
    <2>1. h \in L /\ On(h, t) /\ h.address = a BY <1>2
    <2>2. HolderOf(L, t, a) = h.id BY <1>2 DEF HolderOf
    <2> HIDE DEF h
    <2>3. \A l \in L : On(l, t) /\ l.address = a => l = h BY <1>1, <2>1 DEF Exclusive
    <2>4. QED BY <1>1, <2>1, <2>2, <2>3 DEF Exclusive
<1>3. CASE ~\E l \in L : On(l, t) /\ l.address = a BY <1>3 DEF HolderOf
<1>4. QED BY <1>2, <1>3

LEMMA LeasesExclusive == ASSUME AddressInv PROVE Exclusive(leases, now)
<1>1. AddressExclusive BY MirrorExcludes
<1>2. leases \subseteq LeaseRows BY DEF AddressInv, BaseInv, TypeOK
<1>3. QED BY <1>1, <1>2 DEF Exclusive, AddressExclusive, Active, On, LeaseRows

\* The same of the next state.
LEMMA LeasesExclusiveNext == ASSUME AddressInv' PROVE Exclusive(leases', now')
<1>1. UniqueRows' /\ ClaimMirrorsLease' /\ TypeOK' BY DEF AddressInv, BaseInv
<1>2. ASSUME NEW l \in leases', NEW k \in leases', On(l, now'), On(k, now'),
             l.address = k.address, l.address # NoAddress
      PROVE  l = k
    <2>1. ClaimOf(l) \in claims' /\ ClaimOf(k) \in claims'
        BY <1>1, <1>2 DEF ClaimMirrorsLease, ClaimOf, Active, On
    <2>2. ClaimOf(l) = ClaimOf(k) BY <1>1, <1>2, <2>1 DEF UniqueRows, ClaimOf
    <2>3. l.id = k.id BY <2>2 DEF ClaimOf
    <2>4. QED BY <1>1, <2>3 DEF UniqueRows
<1>3. \A l \in leases' : l.id \in LeaseIds BY <1>1 DEF TypeOK, LeaseRows
<1>4. QED BY <1>2, <1>3 DEF Exclusive

LEMMA HolderMap ==
    /\ Holder = [a \in Addresses |-> HolderOf(leases, now, a)]
    /\ Holder' = [a \in Addresses |-> HolderOf(leases', now', a)]
BY DEF Holder, HolderOf, On, Active

\* The abstract step, spelled out on the mapping.
Occupies ==
    \/ \E a \in Addresses, id \in LeaseIds :
          /\ Holder[a] = NoAddress
          /\ id \notin {Holder[b] : b \in Addresses} \ {NoAddress}
          /\ Holder' = [Holder EXCEPT ![a] = id]
    \/ \E S \in SUBSET Addresses :
          /\ \A a \in S : Holder[a] # NoAddress
          /\ Holder' = [a \in Addresses |-> IF a \in S THEN NoAddress ELSE Holder[a]]

\* A step after which the active leases are among those of before gives up the
\* addresses of the others.
LEMMA GivesUp ==
    ASSUME AddressInv, AddressInv',
           \A k \in leases' : On(k, now') /\ k.address \in Addresses =>
              \E l \in leases : On(l, now) /\ l.id = k.id /\ l.address = k.address
    PROVE  Occupies
<1> DEFINE H(a) == HolderOf(leases, now, a)
           G(a) == HolderOf(leases', now', a)
           S == {a \in Addresses : H(a) # NoAddress /\ G(a) = NoAddress}
<1>1. Exclusive(leases, now) /\ Exclusive(leases', now') BY LeasesExclusive, LeasesExclusiveNext
<1>2. ASSUME NEW a \in Addresses, G(a) # NoAddress PROVE H(a) = G(a)
    <2>1. PICK k \in leases' : On(k, now') /\ k.address = a /\ k.id = G(a) BY <1>1, <1>2, HolderIs
    <2>2. PICK l \in leases : On(l, now) /\ l.id = k.id /\ l.address = a BY <2>1
    <2>3. H(a) = l.id BY <1>1, <2>2, HolderIs
    <2>4. QED BY <2>1, <2>2, <2>3
<1>3. Holder' = [a \in Addresses |-> G(a)] /\ Holder = [a \in Addresses |-> H(a)] BY HolderMap
<1> HIDE DEF H, G
<1>4. \A a \in Addresses : G(a) = IF a \in S THEN NoAddress ELSE H(a) BY <1>2
<1>5. Holder' = [a \in Addresses |-> IF a \in S THEN NoAddress ELSE Holder[a]] BY <1>3, <1>4
<1>6. S \in SUBSET Addresses /\ \A a \in S : Holder[a] # NoAddress BY <1>3
<1> HIDE DEF S
<1>7. QED BY <1>5, <1>6 DEF Occupies

\* Every step but a commit.
LEMMA OccupiesNot ==
    ASSUME Isolation = "REPEATABLE READ", StepInv, AddressInv', [Next]_vars,
           ~\E s \in Sessions : Commit(s)
    PROVE  Occupies
<1>0. AddressInv /\ TypeOK /\ TypeOK' /\ leases \subseteq LeaseRows
    BY DEF StepInv, AddressInv, BaseInv, TypeOK
<1>1. now' = now \/ now' = now + 1 BY TableSteps
<1>2. \A l \in leases : On(l, now') => On(l, now) BY <1>0, <1>1, LiveShrinks DEF On, Active
<1>3. \A k \in leases' : ~k.released => k \in leases
    <2>1. CASE leases' = leases BY <2>1
    <2>2. CASE \E ids : leases' = Released(ids) BY <1>0, <2>2, ReleasedRows
    <2>3. CASE \E S : DeleteRows(S) BY <2>3 DEF DeleteRows
    <2>4. QED BY <2>1, <2>2, <2>3, TableSteps DEF Release, CommitImport, DeleteMailbox, CommitDeletion
<1>4. \A k \in leases' : On(k, now') => k \in leases /\ On(k, now) BY <1>2, <1>3 DEF On
<1>5. QED BY <1>0, <1>4, GivesUp

\* A commit takes a free address, renews a lease that holds it, or writes a row
\* without an address or one that has expired meanwhile.
LEMMA OccupiesCommit ==
    ASSUME StepInv, AddressInv', NEW s \in Sessions, Commit(s)
    PROVE  Occupies
<1>0. AddressInv /\ now' = now /\ pc[s] = "inserted" BY DEF StepInv, Commit
<1>1. PICK row \in pend[s].put :
         /\ leases' = {l \in leases : l.id # row.id} \cup {row}
         /\ \A c \in claims : c.lease \notin pend[s].dead =>
               c.lease # row.id /\ (row.address # NoAddress => c.address # row.address)
         /\ \A l \in leases : l.id \in pend[s].dead /\ Active(l) => l.id = row.id
    BY CommittedRow
<1>2. Exclusive(leases, now) /\ Exclusive(leases', now') BY <1>0, LeasesExclusive, LeasesExclusiveNext
<1>3. CASE ~On(row, now) \/ row.address \notin Addresses
    BY <1>0, <1>1, <1>3, GivesUp
<1>4. CASE \E l \in leases : On(l, now) /\ l.id = row.id
    <2>1. PICK l \in leases : On(l, now) /\ l.id = row.id BY <1>4
    <2>2. l.address = row.address BY <1>0, <1>1, <2>1 DEF StepInv, RenewsOwn, Writing
    <2>3. QED BY <1>0, <1>1, <2>1, <2>2, GivesUp
<1>5. CASE /\ On(row, now) /\ row.address \in Addresses
           /\ ~\E l \in leases : On(l, now) /\ l.id = row.id
    <2> DEFINE a == row.address
               H(b) == HolderOf(leases, now, b)
               G(b) == HolderOf(leases', now', b)
    <2>1. ASSUME NEW l \in leases, On(l, now) PROVE l.address # a
        <3>1. SUFFICES ASSUME l.address = a PROVE FALSE OBVIOUS
        <3>2. ClaimOf(l) \in claims /\ ClaimOf(l).lease = l.id /\ ClaimOf(l).address = a
            BY <1>0, <2>1, <3>1 DEF AddressInv, ClaimMirrorsLease, ClaimOf, Active, On
        <3>3. a # NoAddress BY <1>5, ConstantsAssumption
        <3>4. l.id \in pend[s].dead BY <1>1, <3>2, <3>3
        <3>5. l.id = row.id BY <1>1, <2>1, <3>4 DEF Active, On
        <3>6. QED BY <1>5, <2>1, <3>5
    <2>2. H(a) = NoAddress BY <1>2, <1>5, <2>1, HolderIs
    <2>3. G(a) = row.id /\ row.id \in LeaseIds BY <1>0, <1>1, <1>2, <1>5, HolderIs DEF Exclusive
    <2>4. ASSUME NEW b \in Addresses PROVE H(b) # row.id
        <3>1. SUFFICES ASSUME H(b) = row.id PROVE FALSE OBVIOUS
        <3>2. H(b) # NoAddress BY <2>3, <3>1, ConstantsAssumption
        <3>3. PICK l \in leases : On(l, now) /\ l.id = row.id BY <1>2, <3>1, <3>2, HolderIs
        <3>4. QED BY <1>5, <3>3
    <2>5. ASSUME NEW b \in Addresses, b # a PROVE G(b) = H(b)
        <3>1. CASE H(b) # NoAddress
            <4>1. PICK l \in leases : On(l, now) /\ l.address = b /\ l.id = H(b)
                BY <1>2, <3>1, HolderIs
            <4>2. l \in leases' BY <1>1, <2>4, <4>1
            <4>3. QED BY <1>0, <1>2, <4>1, <4>2, HolderIs
        <3>2. CASE H(b) = NoAddress
            <4>1. SUFFICES ASSUME G(b) # NoAddress PROVE FALSE BY <3>2
            <4>2. PICK k \in leases' : On(k, now) /\ k.address = b BY <1>0, <1>2, <4>1, HolderIs
            <4>3. k \in leases BY <1>1, <2>5, <4>2
            <4>4. QED BY <1>2, <3>2, <4>2, <4>3, HolderIs
        <3>3. QED BY <3>1, <3>2
    <2>6. Holder' = [b \in Addresses |-> G(b)] /\ Holder = [b \in Addresses |-> H(b)] BY HolderMap
    <2> HIDE DEF H, G
    <2>7. Holder' = [Holder EXCEPT ![a] = row.id] BY <1>5, <2>3, <2>5, <2>6
    <2>8. Holder[a] = NoAddress /\ row.id \notin {Holder[b] : b \in Addresses} \ {NoAddress}
        BY <1>5, <2>2, <2>4, <2>6
    <2>9. QED BY <1>5, <2>3, <2>7, <2>8 DEF Occupies
<1>6. QED BY <1>3, <1>4, <1>5

\* Under REPEATABLE READ leasing implements AddressOccupancy: an address is held
\* by at most one lease, taken only when free, and never passes from one lease to
\* another in one step.
THEOREM ImplementsOccupancy ==
    ASSUME Isolation = "REPEATABLE READ" PROVE Spec => OccupancySpec
<1>1. Init => StepInv BY StepInit
<1>2. StepInv /\ [Next]_vars => StepInv' BY StepNext
<1>3. Init => Occupancy!Init BY DEF Init, Occupancy!Init, Holder
<1>4. ASSUME StepInv, StepInv', [Next]_vars PROVE Occupies
    BY <1>4, OccupiesCommit, OccupiesNot DEF StepInv
<1>5. Occupies => Occupancy!Next
    BY DEF Occupies, Occupancy!Next, Occupancy!Take, Occupancy!GiveUp, Occupancy!Held
<1>6. StepInv /\ StepInv' /\ [Next]_vars => [Occupancy!Next]_Holder BY <1>4, <1>5
<1>7. QED BY <1>1, <1>2, <1>3, <1>6, PTL DEF Spec, OccupancySpec, Occupancy!Spec

=============================================================================
