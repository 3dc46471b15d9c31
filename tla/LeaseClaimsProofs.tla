------------------------- MODULE LeaseClaimsProofs -------------------------
(***************************************************************************)
(* Proofs about LeaseClaims for every set of mailboxes, addresses, clients,*)
(* sites, lease ids and sessions, every workload and every clock bound.    *)
(***************************************************************************)
EXTENDS LeaseClaimsInv, TLAPS

-----------------------------------------------------------------------------
(* Typing *)

\* The rows and records the actions build have their types.
LEMMA Empties == NoView \in Views /\ NoWrites \in Writes
BY DEF NoView, NoWrites, Views, Writes, Statuses

LEMMA SnapshotType == ASSUME TypeOK PROVE Snapshot \in Views
BY DEF TypeOK, Snapshot, Views

LEMMA ClaimOfType == ASSUME NEW l \in LeaseRows PROVE ClaimOf(l) \in ClaimRows
BY DEF LeaseRows, ClaimRows, ClaimOf

LEMMA ClaimReadType ==
    ASSUME TypeOK, NEW s \in Sessions PROVE ClaimRead(s) \subseteq ClaimRows
BY DEF TypeOK, ClaimRead, Views

\* The end of a transaction clears what the session held.
LEMMA EndType ==
    ASSUME TypeOK, NEW s \in Sessions, End(s)
    PROVE  /\ pc' \in [Sessions -> Steps]
           /\ req' \in [Sessions -> Workload \cup {NoRequest}]
           /\ view' \in [Sessions -> Views]
           /\ locked' \in [Sessions -> SUBSET Mailboxes]
           /\ pend' \in [Sessions -> Writes]
BY Empties DEF TypeOK, End, Steps

LEMMA ReleasedType == ASSUME TypeOK, NEW ids PROVE Released(ids) \subseteq LeaseRows
<1>1. \A l \in LeaseRows : [l EXCEPT !.released = TRUE] \in LeaseRows
    BY DEF LeaseRows
<1>2. QED BY <1>1 DEF TypeOK, Released

LEMMA BeginType ==
    ASSUME TypeOK, NEW s \in Sessions, NEW r, NEW step \in Steps, NEW w \in Writes,
           Begin(s, r, step, w)
    PROVE  TypeOK'
<1>1. view' \in [Sessions -> Views]
    BY SnapshotType DEF Begin, TypeOK
<1>2. QED BY <1>1 DEF Begin, TypeOK, tables

LEMMA SelectedType ==
    ASSUME TypeOK, NEW s \in Sessions, NEW rows \in SUBSET Mailboxes, NEW row \in LeaseRows,
           Selected(s, rows, row)
    PROVE  TypeOK'
<1>1. [NoWrites EXCEPT !.put = {row}] \in Writes
    BY DEF NoWrites, Writes
<1>2. ClaimsView(s) \in Views
    BY Empties DEF ClaimsView, Views, TypeOK
<1>3. QED BY <1>1, <1>2 DEF Selected, TypeOK, tables, Steps

LEMMA ApplyType ==
    ASSUME TypeOK, NEW s \in Sessions, Apply(s)
    PROVE  /\ leases' \subseteq LeaseRows
           /\ claims' \subseteq ClaimRows
           /\ usages' \subseteq UsageRows
           /\ usedIds' \subseteq LeaseIds
<1>1. pend[s] \in Writes BY DEF TypeOK
<1>2. /\ pend[s].put \subseteq LeaseRows /\ pend[s].claim \subseteq ClaimRows
      /\ pend[s].usage \subseteq UsageRows
    BY <1>1 DEF Writes
<1>3. {r.id : r \in pend[s].put} \subseteq LeaseIds
    BY <1>2 DEF LeaseRows
<1>4. QED BY <1>2, <1>3 DEF Apply, TypeOK

-----------------------------------------------------------------------------
(* Sessions and locks *)

\* SessionOK(t) is about t's own variables: a step that leaves them alone keeps it.
LEMMA SessionFrame ==
    ASSUME NEW t \in Sessions, SessionOK(t), pc'[t] = pc[t], req'[t] = req[t],
           locked'[t] = locked[t], pend'[t] = pend[t]
    PROVE  SessionOK(t)'
BY DEF SessionOK, ClaimOf

LEMMA EndSession ==
    ASSUME BaseInv, NEW s \in Sessions, End(s)
    PROVE  LocksDisjoint' /\ \A t \in Sessions : SessionOK(t)'
<1>1. LocksDisjoint' BY DEF BaseInv, TypeOK, LocksDisjoint, End
<1>2. SessionOK(s)'
    BY DEF BaseInv, TypeOK, End, SessionOK, Writing, Importing, Deleting, NoWrites
<1>3. ASSUME NEW t \in Sessions, t # s PROVE SessionOK(t)'
    <2>1. SessionOK(t) /\ pc'[t] = pc[t] /\ req'[t] = req[t] /\ locked'[t] = locked[t] /\ pend'[t] = pend[t]
        BY <1>3 DEF BaseInv, TypeOK, End
    <2>2. QED BY <2>1, SessionFrame
<1>4. QED BY <1>1, <1>2, <1>3

LEMMA BeginSession ==
    ASSUME BaseInv, NEW s \in Sessions, NEW r, NEW w,
           NEW step \in {"open", "peeked", "imp_open", "site_counted"}, Begin(s, r, step, w),
           w.claim = {}, w.usage = {},
           step = "open" => r \in AcquireRequests \cup ReacquireRequests,
           step = "imp_open" => r \in ImportRequests,
           step = "site_counted" => r \in SiteRequests
    PROVE  LocksDisjoint' /\ \A t \in Sessions : SessionOK(t)'
<1>1. LocksDisjoint' BY DEF BaseInv, LocksDisjoint, Begin
<1>2. SessionOK(s)'
    BY DEF BaseInv, TypeOK, Begin, SessionOK, Writing, Importing, Deleting
<1>3. ASSUME NEW t \in Sessions, t # s PROVE SessionOK(t)'
    <2>1. SessionOK(t) /\ pc'[t] = pc[t] /\ req'[t] = req[t] /\ locked'[t] = locked[t] /\ pend'[t] = pend[t]
        BY <1>3 DEF BaseInv, TypeOK, Begin
    <2>2. QED BY <2>1, SessionFrame
<1>4. QED BY <1>1, <1>2, <1>3

LEMMA SelectedSession ==
    ASSUME BaseInv, NEW s \in Sessions, NEW rows \in SUBSET Mailboxes, NEW row \in LeaseRows,
           Selected(s, rows, row), row.mailbox \in rows, \A m \in rows : LockFree(m),
           req[s] \in AcquireRequests \cup ReacquireRequests,
           req[s].op = "acquire" /\ req[s].site # NoSite => row.address \in Addresses
    PROVE  LocksDisjoint' /\ \A t \in Sessions : SessionOK(t)'
<1>1. LocksDisjoint' BY DEF BaseInv, TypeOK, LocksDisjoint, Selected, LockFree
<1>2. SessionOK(s)'
    <2>1. /\ pc'[s] = "selected" /\ locked'[s] = rows /\ req'[s] = req[s]
          /\ pend'[s] = [NoWrites EXCEPT !.put = {row}]
        BY DEF BaseInv, TypeOK, Selected
    <2>2. pend'[s].put = {row} /\ pend'[s].rel = {} /\ pend'[s].claim = {} /\ pend'[s].usage = {}
        BY <2>1 DEF NoWrites
    <2>3. QED BY <2>1, <2>2 DEF SessionOK, Importing, Deleting
<1>3. ASSUME NEW t \in Sessions, t # s PROVE SessionOK(t)'
    <2>1. SessionOK(t) /\ pc'[t] = pc[t] /\ req'[t] = req[t] /\ locked'[t] = locked[t] /\ pend'[t] = pend[t]
        BY <1>3 DEF BaseInv, TypeOK, Selected
    <2>2. QED BY <2>1, SessionFrame
<1>4. QED BY <1>1, <1>2, <1>3

\* A statement inside a transaction moves pc and pend of its session only.
LEMMA StatementSession ==
    ASSUME BaseInv, NEW s \in Sessions, UNCHANGED <<req, locked>>,
           \A t \in Sessions : t # s => pc'[t] = pc[t] /\ pend'[t] = pend[t],
           SessionOK(s)'
    PROVE  LocksDisjoint' /\ \A t \in Sessions : SessionOK(t)'
<1>1. LocksDisjoint' BY DEF BaseInv, LocksDisjoint
<1>2. ASSUME NEW t \in Sessions, t # s PROVE SessionOK(t)'
    <2>1. SessionOK(t) /\ pc'[t] = pc[t] /\ req'[t] = req[t] /\ locked'[t] = locked[t] /\ pend'[t] = pend[t]
        BY <1>2 DEF BaseInv
    <2>2. QED BY <2>1, SessionFrame
<1>3. QED BY <1>1, <1>2

-----------------------------------------------------------------------------
(* Every action preserves BaseInv *)

\* The rows an acquire locks and the lease it builds.
LEMMA AcquiredRow ==
    ASSUME BaseInv, NEW s \in Sessions, SelectMailbox(s)
    PROVE  \E rows \in SUBSET Mailboxes, row \in LeaseRows :
              /\ Selected(s, rows, row)
              /\ row.mailbox \in rows /\ (\A m \in rows : LockFree(m))
              /\ req[s] \in AcquireRequests
              /\ req[s].site # NoSite => row.address \in Addresses
              /\ row.id \in FreshIds
              /\ ~IsPlus(row) => ~\E c \in view[s].claims : c.mailbox = row.mailbox /\ Live(c)
<1>1. PICK want \in {Mailboxes} \cup {{m} : m \in Mailboxes} :
      \E m \in {n \in want : Eligible(s, n)}, id \in FreshIds, ttl \in TTLs :
      \E a \in AllocatedAddress(s, m) :
         Selected(s, {n \in want : Eligible(s, n)},
                  [id |-> id, mailbox |-> m, client |-> req[s].client, mode |-> req[s].mode,
                   address |-> a, expires |-> now + ttl, released |-> FALSE])
    BY DEF SelectMailbox
<1> DEFINE rows == {n \in want : Eligible(s, n)}
<1>2. PICK m \in rows, id \in FreshIds, ttl \in TTLs : \E a \in AllocatedAddress(s, m) :
         Selected(s, rows,
                  [id |-> id, mailbox |-> m, client |-> req[s].client, mode |-> req[s].mode,
                   address |-> a, expires |-> now + ttl, released |-> FALSE])
    BY <1>1
<1>3. PICK a \in AllocatedAddress(s, m) :
         Selected(s, rows,
                  [id |-> id, mailbox |-> m, client |-> req[s].client, mode |-> req[s].mode,
                   address |-> a, expires |-> now + ttl, released |-> FALSE])
    BY <1>2
<1> DEFINE row == [id |-> id, mailbox |-> m, client |-> req[s].client, mode |-> req[s].mode,
                   address |-> a, expires |-> now + ttl, released |-> FALSE]
<1>4. req[s] \in AcquireRequests
    BY DEF SelectMailbox, BaseInv, SessionOK, ReacquireRequests
<1>5. rows \in SUBSET Mailboxes /\ \A n \in rows : LockFree(n)
    BY DEF Eligible
<1>6. a \in Addresses \cup {NoAddress} /\ (req[s].site # NoSite => a \in Addresses)
    BY <1>4, <1>5, ConstantsAssumption
    DEF AllocatedAddress, AllocatePlusAlias, AcquireRequests
<1>7. row \in LeaseRows
    BY <1>4, <1>5, <1>6, ConstantsAssumption
    DEF LeaseRows, FreshIds, AcquireRequests, BaseInv, TypeOK
<1>8. IsPlus(row) \/ ~\E c \in view[s].claims : c.mailbox = row.mailbox /\ Live(c)
    <2>1. CASE req[s].plus
        <3>1. req[s].mode = "mail_read" BY <1>4, <2>1 DEF AcquireRequests
        <3>2. a \in AliasesOf[m] BY <2>1, <3>1 DEF AllocatedAddress, AllocatePlusAlias
        <3>3. a # PrimaryOf[m] BY <1>5, <3>2, ConstantsAssumption
        <3>4. QED BY <3>1, <3>3 DEF IsPlus
    <2>2. CASE ~req[s].plus BY <2>2 DEF Eligible
    <2>3. QED BY <2>1, <2>2
<1> HIDE DEF row, rows
<1>9. Selected(s, rows, row) BY <1>3 DEF row
<1>10. row.mailbox \in rows /\ row.address = a /\ row.id \in FreshIds BY <1>2 DEF row
<1>11. QED BY <1>4, <1>5, <1>6, <1>7, <1>8, <1>9, <1>10

\* The mailbox a reacquire locks and the lease it builds or renews.
LEMMA ReacquiredRow ==
    ASSUME BaseInv, NEW s \in Sessions, SelectForReacquire(s)
    PROVE  \E m \in Mailboxes, row \in LeaseRows :
              /\ Selected(s, {m}, row) /\ row.mailbox = m /\ LockFree(m)
              /\ req[s] \in ReacquireRequests /\ req[s].op = "reacquire"
              /\ ~ImportHolds(m)
              /\ \/ row.id \in FreshIds
                 \/ \E l \in leases : /\ l.id = row.id /\ l.mailbox = m /\ Active(l)
                                      /\ row.client = l.client /\ row.address = l.address
<1> DEFINE m == req[s].mailbox
<1>1. req[s] \in ReacquireRequests
    BY DEF SelectForReacquire, BaseInv, SessionOK, AcquireRequests
<1>2. m \in Mailboxes /\ LockFree(m) /\ req[s].op = "reacquire" /\ ~ImportHolds(m)
    BY <1>1 DEF SelectForReacquire, ReacquireRequests
<1>3. PICK ttl \in TTLs :
         \/ \E l \in leases : l.mailbox = m /\ Active(l) /\ Selected(s, {m}, [l EXCEPT !.expires = now + ttl])
         \/ \E id \in FreshIds :
              Selected(s, {m}, [id |-> id, mailbox |-> m, client |-> req[s].client,
                                mode |-> "mail_read", address |-> req[s].address,
                                expires |-> now + ttl, released |-> FALSE])
    BY DEF SelectForReacquire
<1>4. now + ttl \in Nat BY ConstantsAssumption DEF BaseInv, TypeOK
<1>5. ASSUME NEW l \in leases, l.mailbox = m
      PROVE  /\ [l EXCEPT !.expires = now + ttl] \in LeaseRows
             /\ [l EXCEPT !.expires = now + ttl].mailbox = m
             /\ [l EXCEPT !.expires = now + ttl].id = l.id
             /\ [l EXCEPT !.expires = now + ttl].client = l.client
             /\ [l EXCEPT !.expires = now + ttl].address = l.address
    BY <1>4, <1>5 DEF BaseInv, TypeOK, LeaseRows
<1>6. ASSUME NEW id \in FreshIds
      PROVE  [id |-> id, mailbox |-> m, client |-> req[s].client,
              mode |-> "mail_read", address |-> req[s].address,
              expires |-> now + ttl, released |-> FALSE] \in LeaseRows
    BY <1>1, <1>4 DEF LeaseRows, ReacquireRequests, FreshIds, Modes
<1> HIDE DEF m
<1>7. CASE \E l \in leases : l.mailbox = m /\ Active(l) /\ Selected(s, {m}, [l EXCEPT !.expires = now + ttl])
    BY <1>1, <1>2, <1>5, <1>7
<1>8. CASE \E id \in FreshIds :
              Selected(s, {m}, [id |-> id, mailbox |-> m, client |-> req[s].client,
                                mode |-> "mail_read", address |-> req[s].address,
                                expires |-> now + ttl, released |-> FALSE])
    BY <1>1, <1>2, <1>6, <1>8
<1>9. QED BY <1>3, <1>7, <1>8

LEMMA BaseAcquire ==
    ASSUME BaseInv, NEW s \in Sessions, OpenAcquire(s) \/ SelectMailbox(s)
    PROVE  BaseInv'
<1>1. CASE OpenAcquire(s)
    <2>1. PICK r \in Workload \cap AcquireRequests : Begin(s, r, "open", NoWrites)
        BY <1>1 DEF OpenAcquire
    <2>2. TypeOK' BY <2>1, BeginType, Empties DEF BaseInv, Steps
    <2>3. QED BY <2>1, <2>2, BeginSession DEF BaseInv, NoWrites
<1>2. CASE SelectMailbox(s)
    <2>1. PICK rows \in SUBSET Mailboxes, row \in LeaseRows :
             /\ Selected(s, rows, row)
             /\ row.mailbox \in rows /\ (\A m \in rows : LockFree(m))
             /\ req[s] \in AcquireRequests
             /\ req[s].site # NoSite => row.address \in Addresses
        BY <1>2, AcquiredRow
    <2>2. TypeOK' BY <2>1, SelectedType DEF BaseInv
    <2>3. QED BY <2>1, <2>2, SelectedSession DEF BaseInv
<1>3. QED BY <1>1, <1>2

LEMMA BaseClaim ==
    ASSUME BaseInv, NEW s \in Sessions, InsertClaim(s) \/ LoseClaim(s)
    PROVE  BaseInv'
<1>0. pend[s] \in Writes /\ SessionOK(s) BY DEF BaseInv, TypeOK
<1>1. ASSUME NEW row \in pend[s].put
      PROVE  DeadClaims(s, row) \subseteq LeaseIds
    <2>1. \A c \in ClaimRows : c.lease \in LeaseIds BY DEF ClaimRows
    <2>2. claims \subseteq ClaimRows /\ ClaimRead(s) \subseteq ClaimRows
        BY ClaimReadType DEF BaseInv, TypeOK
    <2>3. QED BY <2>1, <2>2 DEF DeadClaims
<1>2. CASE InsertClaim(s)
    <2>1. PICK row \in pend[s].put :
             pend' = [pend EXCEPT ![s].claim = {ClaimOf(row)}, ![s].dead = DeadClaims(s, row),
                                  ![s].usage = UsageOf(s, row)]
        BY <1>2 DEF InsertClaim
    <2>2. /\ pc[s] = "selected" /\ pc' = [pc EXCEPT ![s] = "inserted"]
          /\ UNCHANGED <<now, tables, req, view, locked>>
        BY <1>2 DEF InsertClaim
    <2>3. /\ pend'[s].put = pend[s].put /\ pend'[s].rel = pend[s].rel
          /\ pend'[s].claim = {ClaimOf(row)} /\ pend'[s].usage = UsageOf(s, row)
          /\ pend'[s].dead = DeadClaims(s, row)
          /\ \A t \in Sessions : t # s => pc'[t] = pc[t] /\ pend'[t] = pend[t]
        BY <2>1, <2>2, <1>0 DEF BaseInv, TypeOK, Writes
    <2>4. row \in LeaseRows BY <1>0 DEF Writes
    <2>5. UsageOf(s, row) \subseteq UsageRows
        <3>1. CASE req[s].op = "acquire" /\ req[s].site # NoSite
            <4>1. req[s] \in AcquireRequests
                BY <1>0, <2>2, <3>1 DEF SessionOK, Writing, ReacquireRequests
            <4>2. req[s].site \in Sites BY <3>1, <4>1 DEF AcquireRequests
            <4>3. row.address \in Addresses BY <1>0, <2>2, <3>1 DEF SessionOK, Writing
            <4>4. QED BY <3>1, <4>2, <4>3 DEF UsageOf, UsageRows
        <3>2. QED BY <3>1 DEF UsageOf
    <2>6. pend'[s] \in Writes
        BY <1>0, <1>1, <2>1, <2>4, <2>5, ClaimOfType DEF Writes, BaseInv, TypeOK
    <2>7. pend' \in [Sessions -> Writes]
        BY <2>1, <2>3, <2>6 DEF BaseInv, TypeOK
    <2>8. TypeOK' BY <2>2, <2>7 DEF BaseInv, TypeOK, tables, Steps
    <2>9. pend[s].put = {row} BY <1>0, <2>2 DEF SessionOK, Writing
    <2>10. SessionOK(s)'
        BY <1>0, <2>2, <2>3, <2>9 DEF SessionOK, Writing, Importing, Deleting, ClaimOf, BaseInv, TypeOK
    <2>11. QED BY <2>2, <2>3, <2>8, <2>10, StatementSession DEF BaseInv
<1>3. CASE LoseClaim(s)
    <2>1. PICK row \in pend[s].put : pend' = [pend EXCEPT ![s].dead = DeadClaims(s, row)]
        BY <1>3 DEF LoseClaim
    <2>2. /\ pc[s] = "selected" /\ pc' = [pc EXCEPT ![s] = "unclaimed"]
          /\ UNCHANGED <<now, tables, req, view, locked>>
        BY <1>3 DEF LoseClaim
    <2>3. /\ pend'[s].put = pend[s].put /\ pend'[s].rel = pend[s].rel
          /\ pend'[s].claim = pend[s].claim /\ pend'[s].usage = pend[s].usage
          /\ \A t \in Sessions : t # s => pc'[t] = pc[t] /\ pend'[t] = pend[t]
        BY <2>1, <2>2, <1>0 DEF BaseInv, TypeOK, Writes
    <2>4. pend' \in [Sessions -> Writes]
        BY <1>0, <1>1, <2>1, <2>3 DEF Writes, BaseInv, TypeOK
    <2>5. TypeOK' BY <2>2, <2>4 DEF BaseInv, TypeOK, tables, Steps
    <2>6. SessionOK(s)'
        BY <1>0, <2>2, <2>3 DEF SessionOK, Writing, Importing, Deleting, BaseInv, TypeOK
    <2>7. QED BY <2>2, <2>3, <2>5, <2>6, StatementSession DEF BaseInv
<1>4. QED BY <1>2, <1>3

LEMMA BaseCommit ==
    ASSUME BaseInv, NEW s \in Sessions, Commit(s) \/ FallbackCommit(s) \/ Abort(s)
    PROVE  BaseInv'
<1>1. End(s) /\ UNCHANGED <<now, status, sites>>
    BY DEF Commit, FallbackCommit, Abort, tables
<1>2. TypeOK'
    <2>1. CASE Apply(s) BY <1>1, <2>1, ApplyType, EndType DEF BaseInv, TypeOK
    <2>2. CASE UNCHANGED tables BY <1>1, <2>2, EndType DEF BaseInv, TypeOK, tables
    <2>3. QED BY <2>1, <2>2 DEF Commit, FallbackCommit, Abort
<1>3. QED BY <1>1, <1>2, EndSession DEF BaseInv

LEMMA BaseReacquire ==
    ASSUME BaseInv, NEW s \in Sessions, OpenReacquire(s) \/ SelectForReacquire(s)
    PROVE  BaseInv'
<1>1. CASE OpenReacquire(s)
    <2>1. PICK l \in leases, m \in Mailboxes :
             /\ l.mode = "mail_read" /\ Resolves(l.address, m)
             /\ Begin(s, [op |-> "reacquire", client |-> l.client, address |-> l.address, mailbox |-> m],
                      "open", NoWrites)
        BY <1>1 DEF OpenReacquire
    <2> DEFINE r == [op |-> "reacquire", client |-> l.client, address |-> l.address, mailbox |-> m]
    <2>2. r \in ReacquireRequests
        <3>1. l.address \in Addresses
            BY <2>1, ConstantsAssumption DEF Resolves
        <3>2. QED BY <3>1 DEF ReacquireRequests, BaseInv, TypeOK, LeaseRows
    <2>3. TypeOK' BY <2>1, BeginType, Empties DEF BaseInv, Steps
    <2>4. QED BY <2>1, <2>2, <2>3, BeginSession DEF BaseInv, NoWrites
<1>2. CASE SelectForReacquire(s)
    <2>1. PICK m \in Mailboxes, row \in LeaseRows :
             /\ Selected(s, {m}, row) /\ row.mailbox = m /\ LockFree(m)
             /\ req[s] \in ReacquireRequests /\ req[s].op = "reacquire"
        BY <1>2, ReacquiredRow
    <2>2. TypeOK' BY <2>1, SelectedType DEF BaseInv
    <2>3. QED BY <2>1, <2>2, SelectedSession DEF BaseInv
<1>3. QED BY <1>1, <1>2

LEMMA BaseRelease ==
    ASSUME BaseInv, NEW s \in Sessions, PeekLease(s) \/ Release(s)
    PROVE  BaseInv'
<1>1. CASE PeekLease(s)
    <2>1. PICK l \in leases : Begin(s, [op |-> "release"], "peeked", [NoWrites EXCEPT !.put = {l}])
        BY <1>1 DEF PeekLease
    <2> DEFINE w == [NoWrites EXCEPT !.put = {l}]
    <2>2. w \in Writes /\ w.claim = {} /\ w.usage = {}
        BY DEF BaseInv, TypeOK, NoWrites, Writes
    <2> HIDE DEF w
    <2>3. Begin(s, [op |-> "release"], "peeked", w) BY <2>1 DEF w
    <2>4. TypeOK' BY <2>2, <2>3, BeginType DEF BaseInv, Steps
    <2>5. QED BY <2>2, <2>3, <2>4, BeginSession DEF BaseInv
<1>2. CASE Release(s)
    <2>1. PICK seen : leases' = Released({seen.id}) /\ claims' \subseteq claims
        BY <1>2 DEF Release
    <2>2. TypeOK' BY <1>2, <2>1, ReleasedType, EndType DEF BaseInv, TypeOK, Release
    <2>3. QED BY <1>2, <2>2, EndSession DEF BaseInv, Release
<1>3. QED BY <1>1, <1>2

LEMMA BaseImport ==
    ASSUME BaseInv, NEW s \in Sessions,
           OpenImport(s) \/ CheckImport(s) \/ ReadClaimsToDelete(s) \/ CommitImport(s)
    PROVE  BaseInv'
<1>1. CASE OpenImport(s)
    <2>1. PICK m \in Mailboxes, force \in BOOLEAN :
             Begin(s, [op |-> "import", mailbox |-> m, force |-> force], "imp_open", NoWrites)
        BY <1>1 DEF OpenImport
    <2>2. TypeOK' BY <2>1, BeginType, Empties DEF BaseInv, Steps
    <2>3. QED BY <2>1, <2>2, BeginSession DEF BaseInv, NoWrites, ImportRequests
<1>2. CASE CheckImport(s) \/ ReadClaimsToDelete(s)
    <2>1. /\ pc[s] \in {"imp_open", "imp_claims"}
          /\ UNCHANGED <<now, tables, req, view, locked>>
        BY <1>2 DEF CheckImport, ReadClaimsToDelete
    <2>2. PICK step \in {"imp_claims", "imp_commit"} : pc' = [pc EXCEPT ![s] = step]
        BY <1>2 DEF CheckImport, ReadClaimsToDelete
    <2>4. /\ pend' \in [Sessions -> Writes]
          /\ pend'[s].claim = pend[s].claim /\ pend'[s].usage = pend[s].usage
          /\ \A t \in Sessions : t # s => pend'[t] = pend[t]
        <3>1. pend[s] \in Writes /\ pend \in [Sessions -> Writes] BY DEF BaseInv, TypeOK
        <3>2. ASSUME NEW rel \in SUBSET LeaseIds, pend' = [pend EXCEPT ![s].rel = rel]
              PROVE  <2>4!1 /\ <2>4!2 /\ <2>4!3
            BY <3>1, <3>2 DEF Writes
        <3>3. ASSUME NEW dead \in SUBSET LeaseIds, pend' = [pend EXCEPT ![s].dead = dead]
              PROVE  <2>4!1 /\ <2>4!2 /\ <2>4!3
            BY <3>1, <3>3 DEF Writes
        <3>4. CASE CheckImport(s)
            <4>1. {l.id : l \in {k \in leases : k.mailbox = req[s].mailbox /\ Active(k)}} \in SUBSET LeaseIds
                BY DEF BaseInv, TypeOK, LeaseRows
            <4>2. QED BY <3>1, <3>2, <3>4, <4>1 DEF CheckImport
        <3>5. CASE ReadClaimsToDelete(s)
            <4>1. {c.lease : c \in {d \in ClaimRead(s) : d.mailbox = req[s].mailbox}} \in SUBSET LeaseIds
                BY ClaimReadType DEF ClaimRows, BaseInv
            <4>2. QED BY <3>3, <3>5, <4>1 DEF ReadClaimsToDelete
        <3>6. QED BY <1>2, <3>4, <3>5
    <2>5. TypeOK' BY <2>1, <2>2, <2>4 DEF BaseInv, TypeOK, tables, Steps
    <2>6. pc'[s] = step /\ \A t \in Sessions : t # s => pc'[t] = pc[t]
        BY <2>2 DEF BaseInv, TypeOK
    <2>7. SessionOK(s)'
        BY <2>1, <2>4, <2>6 DEF SessionOK, Writing, Importing, Deleting, BaseInv
    <2>8. QED BY <2>1, <2>4, <2>5, <2>6, <2>7, StatementSession DEF BaseInv
<1>3. CASE CommitImport(s)
    <2>1. TypeOK'
        BY <1>3, ReleasedType, EndType DEF BaseInv, TypeOK, CommitImport, Statuses
    <2>2. QED BY <1>3, <2>1, EndSession DEF BaseInv, CommitImport
<1>4. QED BY <1>1, <1>2, <1>3

\* A chunk changes only the deleting session's own variables: it locks free rows
\* and notes the ones the view shows invalid.
LEMMA ChunkStep ==
    ASSUME BaseInv, NEW s \in Sessions, DeleteFirstChunk(s) \/ DeleteNextChunk(s)
    PROVE  \E C \in SUBSET Mailboxes, r \in Workload \cap DeletionRequests :
              /\ \A m \in C : m \in locked[s] \/ LockFree(m)
              /\ pc[s] = "idle" \/ (pc[s] = "chunk" /\ r = req[s])
              /\ MayDelete(s, r.force, StillInvalid(s, C))
              /\ \A m \in StillInvalid(s, C) : ~ImportHolds(m)
              /\ pc'[s] \in Deleting /\ pc' = [pc EXCEPT ![s] = pc'[s]]
              /\ req' = [req EXCEPT ![s] = r]
              /\ view' = [view EXCEPT ![s] = DeletionView(s)]
              /\ locked' = [locked EXCEPT ![s] = @ \cup C]
              /\ pend' = [pend EXCEPT ![s].gone = @ \cup StillInvalid(s, C)]
              /\ UNCHANGED <<now, tables>>
<1>1. \A C \in Chunks(s) : C \in SUBSET Mailboxes /\ \A m \in C : m \in locked[s] \/ LockFree(m)
    BY DEF Chunks
<1>2. pc \in [Sessions -> Steps] BY DEF BaseInv, TypeOK
<1>3. CASE DeleteFirstChunk(s)
    <2>1. PICK r \in Workload \cap DeletionRequests, C \in Chunks(s) : DeleteChunk(s, r, C)
        BY <1>3 DEF DeleteFirstChunk
    <2>2. pc'[s] \in Deleting /\ pc' = [pc EXCEPT ![s] = pc'[s]]
        BY <1>2, <2>1 DEF DeleteChunk, Deleting
    <2>3. /\ pc[s] = "idle" \/ (pc[s] = "chunk" /\ r = req[s])
          /\ MayDelete(s, r.force, StillInvalid(s, C))
          /\ \A m \in StillInvalid(s, C) : ~ImportHolds(m)
          /\ req' = [req EXCEPT ![s] = r]
          /\ view' = [view EXCEPT ![s] = DeletionView(s)]
          /\ locked' = [locked EXCEPT ![s] = @ \cup C]
          /\ pend' = [pend EXCEPT ![s].gone = @ \cup StillInvalid(s, C)]
          /\ UNCHANGED <<now, tables>>
        BY <1>3, <2>1 DEF DeleteFirstChunk, DeleteChunk
    <2>4. QED BY <1>1, <2>2, <2>3
<1>4. CASE DeleteNextChunk(s)
    <2>1. PICK C \in Chunks(s) : DeleteChunk(s, req[s], C) BY <1>4 DEF DeleteNextChunk
    <2>2. pc'[s] \in Deleting /\ pc' = [pc EXCEPT ![s] = pc'[s]]
        BY <1>2, <2>1 DEF DeleteChunk, Deleting
    <2>3. pc[s] = "chunk" /\ req[s] \in Workload \cap DeletionRequests
        <3>1. pc[s] = "chunk" /\ SessionOK(s) BY <1>4 DEF DeleteNextChunk, BaseInv
        <3>2. req[s] \in DeletionRequests BY <3>1 DEF SessionOK, Deleting
        <3>3. req[s] \in Workload \cup {NoRequest} BY DEF BaseInv, TypeOK
        <3>4. NoRequest \notin DeletionRequests BY DEF NoRequest, DeletionRequests
        <3>5. QED BY <3>1, <3>2, <3>3, <3>4
    <2>4. /\ pc[s] = "idle" \/ (pc[s] = "chunk" /\ req[s] = req[s])
          /\ MayDelete(s, req[s].force, StillInvalid(s, C))
          /\ \A m \in StillInvalid(s, C) : ~ImportHolds(m)
          /\ req' = [req EXCEPT ![s] = req[s]]
          /\ view' = [view EXCEPT ![s] = DeletionView(s)]
          /\ locked' = [locked EXCEPT ![s] = @ \cup C]
          /\ pend' = [pend EXCEPT ![s].gone = @ \cup StillInvalid(s, C)]
          /\ UNCHANGED <<now, tables>>
        BY <2>1, <2>3 DEF DeleteChunk
    <2>5. QED BY <1>1, <2>2, <2>3, <2>4
<1>5. QED BY <1>3, <1>4

LEMMA DeletionFrame ==
    ASSUME BaseInv, NEW s \in Sessions,
           DeleteFirstChunk(s) \/ DeleteNextChunk(s) \/ CommitDeletion(s)
    PROVE  /\ now' = now /\ claims' \subseteq claims /\ UNCHANGED usages
           /\ pc'[s] \in Deleting \cup {"idle"}
           /\ \A t \in Sessions : t # s =>
                 /\ pc'[t] = pc[t] /\ req'[t] = req[t] /\ view'[t] = view[t]
                 /\ locked'[t] = locked[t] /\ pend'[t] = pend[t]
<1>1. CASE DeleteFirstChunk(s) \/ DeleteNextChunk(s)
    BY <1>1, ChunkStep DEF BaseInv, TypeOK, tables
<1>2. CASE CommitDeletion(s)
    BY <1>2 DEF CommitDeletion, DeleteRows, End, BaseInv, TypeOK
<1>3. QED BY <1>1, <1>2

LEMMA BaseDeletion ==
    ASSUME BaseInv, NEW s \in Sessions,
           DeleteFirstChunk(s) \/ DeleteNextChunk(s) \/ CommitDeletion(s)
    PROVE  BaseInv'
<1>1. CASE DeleteFirstChunk(s) \/ DeleteNextChunk(s)
    <2>1. PICK C \in SUBSET Mailboxes, r \in Workload \cap DeletionRequests :
             /\ \A m \in C : m \in locked[s] \/ LockFree(m)
             /\ pc[s] = "idle" \/ (pc[s] = "chunk" /\ r = req[s])
             /\ pc'[s] \in Deleting /\ pc' = [pc EXCEPT ![s] = pc'[s]]
             /\ req' = [req EXCEPT ![s] = r]
             /\ view' = [view EXCEPT ![s] = DeletionView(s)]
             /\ locked' = [locked EXCEPT ![s] = @ \cup C]
             /\ pend' = [pend EXCEPT ![s].gone = @ \cup StillInvalid(s, C)]
             /\ UNCHANGED <<now, tables>>
        BY <1>1, ChunkStep
    <2>2. TypeOK BY DEF BaseInv
    <2>3. DeletionView(s) \in Views
        BY <2>2, Empties DEF DeletionView, Views, TypeOK
    <2>4. StillInvalid(s, C) \subseteq C BY DEF StillInvalid
    <2>5. pend' \in [Sessions -> Writes]
        <3>1. pend[s] \in Writes BY <2>2 DEF TypeOK
        <3>2. [pend[s] EXCEPT !.gone = @ \cup StillInvalid(s, C)] \in Writes
            BY <2>4, <3>1 DEF Writes
        <3>3. QED BY <2>1, <2>2, <3>2 DEF TypeOK
    <2>6. TypeOK'
        <3>1. pc' \in [Sessions -> Steps] BY <2>1, <2>2 DEF TypeOK, Deleting, Steps
        <3>2. req' \in [Sessions -> Workload \cup {NoRequest}] BY <2>1, <2>2 DEF TypeOK
        <3>3. view' \in [Sessions -> Views] BY <2>1, <2>2, <2>3 DEF TypeOK
        <3>4. locked' \in [Sessions -> SUBSET Mailboxes] BY <2>1, <2>2 DEF TypeOK
        <3>5. QED BY <2>1, <2>2, <2>5, <3>1, <3>2, <3>3, <3>4 DEF TypeOK, tables
    <2>7. LocksDisjoint'
        <3>1. /\ locked'[s] = locked[s] \cup C
              /\ \A t \in Sessions : t # s => locked'[t] = locked[t] /\ C \cap locked[t] \subseteq locked[s]
            BY <2>1, <2>2 DEF TypeOK, LockFree
        <3>2. LocksDisjoint BY DEF BaseInv
        <3>3. QED BY <3>1, <3>2 DEF LocksDisjoint
    <2>8. SessionOK(s)'
        <3>1. /\ pend'[s].gone = pend[s].gone \cup StillInvalid(s, C)
              /\ pend'[s].claim = pend[s].claim /\ pend'[s].usage = pend[s].usage
              /\ req'[s] = r /\ locked'[s] = locked[s] \cup C
            BY <2>1, <2>2 DEF TypeOK, Writes
        <3>2. pend[s].claim = {} /\ pend[s].usage = {} /\ pend[s].gone \subseteq locked[s]
            BY <2>1 DEF BaseInv, SessionOK, Deleting
        <3>3. QED BY <2>1, <2>4, <3>1, <3>2 DEF SessionOK, Writing, Importing, Deleting
    <2>9. ASSUME NEW t \in Sessions, t # s PROVE SessionOK(t)'
        BY <1>1, <2>9, DeletionFrame, SessionFrame DEF BaseInv
    <2>10. QED BY <2>6, <2>7, <2>8, <2>9 DEF BaseInv
<1>2. CASE CommitDeletion(s)
    <2>1. DeleteRows(pend[s].gone) /\ End(s) BY <1>2 DEF CommitDeletion
    <2>2. TypeOK'
        BY <2>1, EndType DEF BaseInv, TypeOK, DeleteRows, Statuses
    <2>3. QED BY <2>1, <2>2, EndSession DEF BaseInv
<1>3. QED BY <1>1, <1>2

LEMMA BaseSites ==
    ASSUME BaseInv, NEW s \in Sessions, CountUsages(s) \/ DeleteSite(s)
    PROVE  BaseInv'
<1>1. CASE CountUsages(s)
    <2>1. PICK code \in Sites :
             Begin(s, [op |-> "delete_site", site |-> code], "site_counted", NoWrites)
        BY <1>1 DEF CountUsages
    <2>2. TypeOK' BY <2>1, BeginType, Empties DEF BaseInv, Steps
    <2>3. QED BY <2>1, <2>2, BeginSession DEF BaseInv, NoWrites, SiteRequests
<1>2. CASE DeleteSite(s)
    <2>1. TypeOK' BY <1>2, EndType DEF BaseInv, TypeOK, DeleteSite, SiteStates
    <2>2. QED BY <1>2, <2>1, EndSession DEF BaseInv, DeleteSite
<1>3. QED BY <1>1, <1>2

\* Steps outside the sessions leave the sessions' variables alone.
Atomic ==
    \/ \E m \in Mailboxes, force \in BOOLEAN : DeleteMailbox(m, force)
    \/ \E m \in Mailboxes : ImportNew(m) \/ MarkInvalid(m) \/ ProbeCapability(m)
    \/ \E code \in Sites, state \in {"enabled", "disabled"} : PutSite(code, state)
    \/ \E u \in usages : RevokeUsage(u)
    \/ Tick

LEMMA AtomicFrame ==
    ASSUME Atomic, now \in Nat
    PROVE  UNCHANGED session /\ claims' \subseteq claims /\ (now' = now \/ now' = now + 1)
<1>1. CASE Tick BY <1>1 DEF Tick, tables
<1>2. CASE \E m \in Mailboxes, force \in BOOLEAN : DeleteMailbox(m, force)
    BY <1>2 DEF DeleteMailbox, DeleteRows
<1>4. CASE \E m \in Mailboxes : ImportNew(m) \/ MarkInvalid(m) \/ ProbeCapability(m)
    BY <1>4 DEF ImportNew, MarkInvalid, ProbeCapability
<1>5. CASE \E code \in Sites, state \in {"enabled", "disabled"} : PutSite(code, state)
    BY <1>5 DEF PutSite
<1>6. CASE \E u \in usages : RevokeUsage(u)
    BY <1>6 DEF RevokeUsage
<1>7. QED BY <1>1, <1>2, <1>4, <1>5, <1>6 DEF Atomic

LEMMA BaseAtomic == ASSUME BaseInv, Atomic PROVE BaseInv'
<1>1. UNCHANGED session BY AtomicFrame DEF BaseInv, TypeOK
<1>2. TypeOK'
    <2>1. CASE \E S \in SUBSET Mailboxes : DeleteRows(S)
        BY <2>1, <1>1 DEF DeleteRows, BaseInv, TypeOK, session, Statuses
    <2>2. CASE \E m \in Mailboxes : ImportNew(m) \/ MarkInvalid(m) \/ ProbeCapability(m)
        BY <2>2, <1>1 DEF ImportNew, MarkInvalid, ProbeCapability, BaseInv, TypeOK, session, Statuses
    <2>3. CASE \E code \in Sites, state \in {"enabled", "disabled"} : PutSite(code, state)
        BY <2>3, <1>1 DEF PutSite, BaseInv, TypeOK, session, SiteStates
    <2>4. CASE \E u \in usages : RevokeUsage(u)
        <3>1. \A u \in UsageRows : [u EXCEPT !.active = FALSE] \in UsageRows BY DEF UsageRows
        <3>2. QED BY <2>4, <3>1, <1>1 DEF RevokeUsage, BaseInv, TypeOK, session
    <2>5. CASE Tick BY <2>5, <1>1 DEF Tick, BaseInv, TypeOK, session, tables
    <2>6. QED BY <2>1, <2>2, <2>3, <2>4, <2>5 DEF Atomic, DeleteMailbox
<1>3. QED BY <1>1, <1>2 DEF BaseInv, LocksDisjoint, SessionOK, ClaimOf, session

LEMMA BaseInit == ASSUME Init PROVE BaseInv
<1>1. TypeOK BY Empties DEF Init, TypeOK, Statuses, SiteStates, Steps
<1>2. QED BY <1>1 DEF Init, BaseInv, LocksDisjoint, SessionOK, Writing, Importing, Deleting, NoWrites

LEMMA BaseNext == ASSUME BaseInv, [Next]_vars PROVE BaseInv'
<1>1. CASE \E s \in Sessions : LeaseStep(s) \/ AdminStep(s)
    BY <1>1, BaseAcquire, BaseClaim, BaseCommit, BaseReacquire, BaseRelease, BaseImport, BaseDeletion,
       BaseSites
    DEF LeaseStep, AdminStep
<1>2. CASE Atomic BY <1>2, BaseAtomic
<1>3. CASE UNCHANGED vars
    BY <1>3 DEF vars, tables, session, BaseInv, TypeOK, LocksDisjoint, SessionOK, ClaimOf
<1>4. QED BY <1>1, <1>2, <1>3 DEF Next, Atomic

\* Every table, view, lock set and pending write keeps its type, whatever the
\* isolation level and the workload.
THEOREM TypeCorrect == Spec => []TypeOK
<1>1. BaseInv => TypeOK BY DEF BaseInv
<1>2. QED BY BaseInit, BaseNext, <1>1, PTL DEF Spec

=============================================================================
