---------------------------- MODULE LeaseClaims ----------------------------
(***************************************************************************)
(* Leasing of owned (Microsoft) mailboxes: the tables mailboxes, leases,   *)
(* mailbox_lease_claims, usage_sites and email_site_usages, and every      *)
(* request that changes them (lease_service.py, mailbox_admin_service.py,  *)
(* and the import endpoint of main.py).                                    *)
(*                                                                         *)
(* Every request is one database transaction, run by a worker thread (a    *)
(* Session).  A transaction is cut into the statements between which       *)
(* another transaction can matter: the read that opens its consistent-read *)
(* view, the locking read of the mailbox, the writes, and the commit.      *)
(* Tables are sets of rows.  Uncommitted rows live in pend[s] and reach    *)
(* the tables when s commits; only unique indexes and row locks see them   *)
(* earlier.                                                                *)
(*                                                                         *)
(* Left out: which of several eligible mailboxes ORDER BY updated_at       *)
(* prefers, audit rows, scopes, the display names of sites.                *)
(***************************************************************************)
EXTENDS Naturals, FiniteSets

CONSTANTS
    Mailboxes,   \* rows of mailboxes; every one has a client_id and a refresh token
    Addresses,   \* business addresses: primary ones and plus aliases
    NoAddress,   \* allocated_email IS NULL (token leases)
    PrimaryOf,   \* primary_email of a mailbox
    AliasesOf,   \* the plus aliases _allocate_plus_alias may build for a mailbox
    Clients,     \* client keys
    Sites,       \* usage_site codes
    NoSite,      \* no usage_site given
    LeaseIds,    \* lease ids (uuid4): never used twice
    Sessions,    \* concurrent requests
    Workload,    \* the requests the clients, the administrator and the token service make
    Isolation,   \* the isolation level the MySQL server gives the sessions
    TTLs,        \* lease lifetimes clients ask for
    ChunkSize,   \* batch_size of the deletion of invalid mailboxes
    MaxTime      \* bound on the clock

Modes == {"access_token", "refresh_token", "mail_read"}
Levels == {"REPEATABLE READ", "READ COMMITTED"}

VARIABLES
    now,      \* utc_now()
    status,   \* mailboxes.status and capability, per mailbox
    leases,   \* rows of leases
    claims,   \* rows of mailbox_lease_claims
    sites,    \* usage_sites: per code, absent, enabled or disabled
    usages,   \* rows of email_site_usages
    usedIds,  \* lease ids handed out so far
    pc,       \* per session: what its transaction did last
    req,      \* per session: the request
    view,     \* per session: its consistent-read view
    locked,   \* per session: the mailbox rows it holds FOR UPDATE
    pend      \* per session: its uncommitted writes

tables == <<status, leases, claims, sites, usages, usedIds>>
session == <<pc, req, view, locked, pend>>
vars == <<now, tables, session>>

-----------------------------------------------------------------------------
(* Rows and requests *)

\* "unprobed": ACTIVE with capability NULL; "active": ACTIVE with IMAP or GRAPH.
Statuses == {"absent", "unprobed", "active", "invalid", "deleted"}
SiteStates == {"absent", "enabled", "disabled"}

LeaseRows == [id : LeaseIds, mailbox : Mailboxes, client : Clients, mode : Modes,
              address : Addresses \cup {NoAddress}, expires : Nat, released : BOOLEAN]
ClaimRows == [lease : LeaseIds, mailbox : Mailboxes, mode : Modes,
              address : Addresses \cup {NoAddress}, expires : Nat]
UsageRows == [address : Addresses, site : Sites, active : BOOLEAN]

Views == [leases : SUBSET LeaseRows, claims : SUBSET ClaimRows,
          usages : SUBSET UsageRows, status : [Mailboxes -> Statuses]]
Writes == [put : SUBSET LeaseRows, claim : SUBSET ClaimRows, dead : SUBSET LeaseIds,
           usage : SUBSET UsageRows, rel : SUBSET LeaseIds, gone : SUBSET Mailboxes]

AcquireRequests ==
    {r \in [op : {"acquire"}, client : Clients, mode : Modes, plus : BOOLEAN,
            site : Sites \cup {NoSite}, multi : BOOLEAN] :
        /\ r.mode # "mail_read" => ~r.plus /\ ~r.multi /\ r.site = NoSite
        /\ r.mode = "mail_read" /\ ~r.plus => r.site # NoSite}
ReacquireRequests == [op : {"reacquire"}, client : Clients, address : Addresses,
                      mailbox : Mailboxes]
ImportRequests == [op : {"import"}, mailbox : Mailboxes, force : BOOLEAN]
DeletionRequests == [op : {"delete_invalid"}, force : BOOLEAN]
SiteRequests == [op : {"delete_site"}, site : Sites]
OtherRequests == [op : {"release", "delete_mailbox", "token_refresh", "put_site", "revoke_usage",
                         "import_new"}]
Requests == AcquireRequests \cup ReacquireRequests \cup ImportRequests
            \cup DeletionRequests \cup SiteRequests \cup OtherRequests
NoRequest == [op |-> "none"]

ASSUME ConstantsAssumption ==
    /\ PrimaryOf \in [Mailboxes -> Addresses]
    /\ \A m, n \in Mailboxes : PrimaryOf[m] = PrimaryOf[n] => m = n
    /\ AliasesOf \in [Mailboxes -> SUBSET Addresses]
    /\ \A m \in Mailboxes : PrimaryOf[m] \notin AliasesOf[m]
    /\ NoAddress \notin Addresses \cup LeaseIds
    /\ NoSite \notin Sites
    /\ Isolation \in Levels
    /\ Workload \subseteq Requests
    /\ TTLs \subseteq Nat \ {0}
    /\ ChunkSize \in Nat \ {0}
    /\ MaxTime \in Nat

Steps == {"idle", "open", "selected", "inserted", "unclaimed", "peeked",
          "imp_open", "imp_claims", "imp_commit", "chunk", "deleted", "site_counted"}

NoView == [leases |-> {}, claims |-> {}, usages |-> {},
           status |-> [m \in Mailboxes |-> "absent"]]
NoWrites == [put |-> {}, claim |-> {}, dead |-> {}, usage |-> {}, rel |-> {}, gone |-> {}]

TypeOK ==
    /\ now \in Nat
    /\ status \in [Mailboxes -> Statuses]
    /\ leases \subseteq LeaseRows
    /\ claims \subseteq ClaimRows
    /\ sites \in [Sites -> SiteStates]
    /\ usages \subseteq UsageRows
    /\ usedIds \subseteq LeaseIds
    /\ pc \in [Sessions -> Steps]
    /\ req \in [Sessions -> Workload \cup {NoRequest}]
    /\ view \in [Sessions -> Views]
    /\ locked \in [Sessions -> SUBSET Mailboxes]
    /\ pend \in [Sessions -> Writes]

Active(l) == ~l.released /\ l.expires > now
Live(c) == c.expires > now

\* _upsert_lease_claim's new_is_plus; a claim that is not plus is exclusive.
IsPlus(r) == r.mode = "mail_read" /\ r.address # PrimaryOf[r.mailbox]

ClaimOf(l) == [lease |-> l.id, mailbox |-> l.mailbox, mode |-> l.mode,
               address |-> l.address, expires |-> l.expires]

Exists(m) == status[m] \notin {"absent", "deleted"}

-----------------------------------------------------------------------------
(* What a transaction reads and what it must wait for *)

\* Non-locking reads: the view opened by the first one, or the current rows.
LeaseRead(s) == IF Isolation = "REPEATABLE READ" THEN view[s].leases ELSE leases
ClaimRead(s) == IF Isolation = "REPEATABLE READ" THEN view[s].claims ELSE claims
UsageRead(s) == IF Isolation = "REPEATABLE READ" THEN view[s].usages ELSE usages

Snapshot == [leases |-> leases, claims |-> claims, usages |-> usages, status |-> status]

\* What is read of the view once the mailbox is locked.
ClaimsView(s) ==
    [NoView EXCEPT !.claims = IF Isolation = "REPEATABLE READ" THEN view[s].claims ELSE {}]

LockFree(m) == \A t \in Sessions : m \notin locked[t]

\* The forced import locks the active leases of its mailbox and, under
\* REPEATABLE READ, the index gaps between them.
ImportHolds(m) ==
    \E t \in Sessions : /\ pc[t] \in {"imp_claims", "imp_commit"}
                        /\ req[t].mailbox = m
                        /\ pend[t].rel # {}
InsertGapFree(m) == Isolation = "REPEATABLE READ" => ~ImportHolds(m)

Asked(op) == [op |-> op] \in Workload

End(s) ==
    /\ pc' = [pc EXCEPT ![s] = "idle"]
    /\ req' = [req EXCEPT ![s] = NoRequest]
    /\ view' = [view EXCEPT ![s] = NoView]
    /\ locked' = [locked EXCEPT ![s] = {}]
    /\ pend' = [pend EXCEPT ![s] = NoWrites]

Begin(s, r, step, writes) ==
    /\ pc[s] = "idle" /\ r \in Workload
    /\ pc' = [pc EXCEPT ![s] = step]
    /\ req' = [req EXCEPT ![s] = r]
    /\ view' = [view EXCEPT ![s] = Snapshot]
    /\ pend' = [pend EXCEPT ![s] = writes]
    /\ UNCHANGED <<now, tables, locked>>

\* An exception rolls the request's transaction back: nothing eligible, a busy
\* mailbox, a duplicate key, a lock wait timeout (1205), a deadlock (1213), a
\* crash of the process.  The lock retry then opens a new transaction.
Abort(s) ==
    /\ pc[s] # "idle"
    /\ End(s)
    /\ UNCHANGED <<now, tables>>

-----------------------------------------------------------------------------
(* Acquire *)

\* Authentication reads the client key, and with it opens the view.
OpenAcquire(s) ==
    \E r \in Workload \cap AcquireRequests :
        /\ r.site # NoSite => sites[r.site] = "enabled"
        /\ Begin(s, r, "open", NoWrites)

\* The WHERE clause of the mailbox query.  The mailbox row itself is read with
\* FOR UPDATE SKIP LOCKED, its subqueries are non-locking reads of the view.
Eligible(s, m) ==
    LET r == req[s] IN
    /\ LockFree(m)
    /\ status[m] = "active" \/ (r.mode # "mail_read" /\ status[m] = "unprobed")
    /\ ~r.plus => /\ ~\E l \in view[s].leases : l.mailbox = m /\ Active(l)
                  /\ ~\E c \in view[s].claims : c.mailbox = m /\ Live(c)
    /\ r.mode = "mail_read" /\ ~r.plus =>
          ~\E u \in view[s].usages : u = [address |-> PrimaryOf[m], site |-> r.site, active |-> TRUE]

AllocatePlusAlias(s, m) ==
    {a \in AliasesOf[m] :
        /\ ~\E l \in LeaseRead(s) : l.address = a /\ Active(l)
        /\ req[s].site # NoSite =>
              ~\E u \in UsageRead(s) : u = [address |-> a, site |-> req[s].site, active |-> TRUE]}

\* Mutant: allocated_email is left NULL.
AllocatedAddressUnset(s, m) == {NoAddress}
AllocatedAddress(s, m) ==
    IF req[s].mode # "mail_read" THEN {NoAddress}
    ELSE IF req[s].plus THEN AllocatePlusAlias(s, m) ELSE {PrimaryOf[m]}

\* uuid4().
FreshIds == LeaseIds \ (usedIds \cup {r.id : r \in UNION {pend[t].put : t \in Sessions}})

Selected(s, rows, row) ==
    /\ pc' = [pc EXCEPT ![s] = "selected"]
    /\ locked' = [locked EXCEPT ![s] = rows]
    /\ pend' = [pend EXCEPT ![s] = [NoWrites EXCEPT !.put = {row}]]
    /\ view' = [view EXCEPT ![s] = ClaimsView(s)]
    /\ UNCHANGED <<now, tables, req>>

\* The query has no LIMIT: it locks every row it returns, not only the one used.
SelectMailbox(s) ==
    /\ pc[s] = "open" /\ req[s].op = "acquire"
    /\ \E want \in {Mailboxes} \cup {{m} : m \in Mailboxes} :
       LET rows == {m \in want : Eligible(s, m)} IN
       \E m \in rows, id \in FreshIds, ttl \in TTLs :
       \E a \in AllocatedAddress(s, m) :
          Selected(s, rows,
                   [id |-> id, mailbox |-> m, client |-> req[s].client, mode |-> req[s].mode,
                    address |-> a, expires |-> now + ttl, released |-> FALSE])

-----------------------------------------------------------------------------
(* The claim: _upsert_lease_claim and _record_email_site_usage *)

\* Mutant: every claim of the mailbox is deleted, not only the expired ones.
DeadClaimsAll(s, row) == {c.lease : c \in {d \in claims : d.mailbox = row.mailbox}}
\* Claims this transaction deletes: the expired ones of the mailbox (a current
\* read) and the lease's own, if the session can see it.
DeadClaims(s, row) ==
    {c.lease : c \in {d \in claims : d.mailbox = row.mailbox /\ ~Live(d)}}
    \cup {c.lease : c \in {d \in ClaimRead(s) : d.lease = row.id}}

\* Mutant: only claims of the same mode conflict.
ClaimConflictSameMode(s, row) ==
    /\ ~IsPlus(row)
    /\ \E c \in ClaimRead(s) : /\ c.mailbox = row.mailbox /\ c.lease # row.id /\ Live(c)
                               /\ c.mode = row.mode
ClaimConflict(s, row) ==
    /\ ~IsPlus(row)
    /\ \E c \in ClaimRead(s) : c.mailbox = row.mailbox /\ c.lease # row.id /\ Live(c)

\* Mutant: allocated_email is not unique.
UniqueClaimDropped(s, row) == \A c \in claims : c.lease \notin DeadClaims(s, row) => c.lease # row.id
\* Mutant: allocated_email is unique within a mailbox only.
UniqueClaimPerMailbox(s, row) ==
    /\ \A c \in claims : c.lease \notin DeadClaims(s, row) =>
          c.lease # row.id /\ (row.address # NoAddress /\ c.mailbox = row.mailbox => c.address # row.address)
    /\ \A t \in Sessions \ {s} : \A c \in pend[t].claim :
          row.address # NoAddress /\ c.mailbox = row.mailbox => c.address # row.address
\* PRIMARY KEY (lease_id) and UNIQUE (allocated_email), NULLs excepted; a row
\* another transaction has not committed yet makes the insert wait.
UniqueClaim(s, row) ==
    /\ \A c \in claims : c.lease \notin DeadClaims(s, row) =>
          c.lease # row.id /\ (row.address # NoAddress => c.address # row.address)
    /\ \A t \in Sessions \ {s} : \A c \in pend[t].claim :
          row.address # NoAddress => c.address # row.address

UsageOf(s, row) ==
    IF req[s].op = "acquire" /\ req[s].site # NoSite
    THEN {[address |-> row.address, site |-> req[s].site, active |-> TRUE]} ELSE {}

\* Mutant: the usage is recorded without looking for an active one.
UsageFreeUnchecked(s, row) == \A u \in UsageOf(s, row) : sites[u.site] # "absent"
\* _record_email_site_usage rejects an active usage (a locking read); the
\* foreign key needs the site.
UsageFree(s, row) ==
    \A u \in UsageOf(s, row) : u \notin usages /\ sites[u.site] # "absent"

InsertClaim(s) ==
    /\ pc[s] = "selected"
    /\ \E row \in pend[s].put :
          /\ InsertGapFree(row.mailbox)
          /\ ~ClaimConflict(s, row)
          /\ UniqueClaim(s, row)
          /\ UsageFree(s, row)
          /\ pend' = [pend EXCEPT ![s].claim = {ClaimOf(row)},
                                  ![s].dead = DeadClaims(s, row),
                                  ![s].usage = UsageOf(s, row)]
    /\ pc' = [pc EXCEPT ![s] = "inserted"]
    /\ UNCHANGED <<now, tables, req, view, locked>>

\* LeaseUnavailableError after the lease row was flushed.  A request with more
\* provider types to try continues in the same transaction.
LoseClaim(s) ==
    /\ pc[s] = "selected" /\ req[s].op = "acquire" /\ req[s].multi
    /\ \E row \in pend[s].put :
          /\ InsertGapFree(row.mailbox)
          /\ ClaimConflict(s, row)
          /\ pend' = [pend EXCEPT ![s].dead = DeadClaims(s, row)]
    /\ pc' = [pc EXCEPT ![s] = "unclaimed"]
    /\ UNCHANGED <<now, tables, req, view, locked>>

\* The end of the request commits what its transaction wrote: after the claim,
\* or after another provider served the request (FallbackCommit).
Apply(s) ==
    /\ leases' = {l \in leases : \A r \in pend[s].put : l.id # r.id} \cup pend[s].put
    /\ claims' = {c \in claims : c.lease \notin pend[s].dead} \cup pend[s].claim
    /\ usedIds' = usedIds \cup {r.id : r \in pend[s].put}
    /\ usages' = {u \in usages : \A w \in pend[s].usage : <<u.address, u.site>> # <<w.address, w.site>>}
                 \cup pend[s].usage

Commit(s) ==
    /\ pc[s] = "inserted"
    /\ Apply(s)
    /\ End(s)
    /\ UNCHANGED <<now, status, sites>>

FallbackCommit(s) ==
    /\ pc[s] = "unclaimed"
    /\ Apply(s)
    /\ End(s)
    /\ UNCHANGED <<now, status, sites>>

-----------------------------------------------------------------------------
(* Reacquire *)

\* _resolve_reacquire_email: a primary address first, a plus alias second.
Resolves(a, m) ==
    /\ Exists(m)
    /\ \/ a = PrimaryOf[m]
       \/ a \in AliasesOf[m] /\ ~\E n \in Mailboxes : Exists(n) /\ a = PrimaryOf[n]

OpenReacquire(s) ==
    \E l \in leases, m \in Mailboxes :
        /\ l.mode = "mail_read"
        /\ Resolves(l.address, m)
        /\ Begin(s, [op |-> "reacquire", client |-> l.client, address |-> l.address, mailbox |-> m],
                 "open", NoWrites)

\* The locking reads of the mailbox and of its leases see current rows (the
\* object _resolve_reacquire_email loaded is gone by then: it returns the id).
SelectForReacquire(s) ==
    /\ pc[s] = "open" /\ req[s].op = "reacquire"
    /\ LET a == req[s].address
           m == req[s].mailbox
           held == {l \in leases : l.mailbox = m /\ Active(l)}
           mine == {l \in held : l.client = req[s].client /\ l.mode = "mail_read" /\ l.address = a}
       IN /\ LockFree(m) /\ status[m] = "active" /\ ~ImportHolds(m)
          /\ \A l \in held \ mine : l.address # a /\ a # PrimaryOf[m]
          /\ \E ttl \in TTLs :
             \/ \E l \in mine : Selected(s, {m}, [l EXCEPT !.expires = now + ttl])
             \/ /\ mine = {}
                /\ \E id \in FreshIds :
                      Selected(s, {m}, [id |-> id, mailbox |-> m, client |-> req[s].client,
                                        mode |-> "mail_read", address |-> a,
                                        expires |-> now + ttl, released |-> FALSE])

-----------------------------------------------------------------------------
(* Release: by the client, or to compensate a failed token acquire *)

Released(ids) == {IF l.id \in ids THEN [l EXCEPT !.released = TRUE] ELSE l : l \in leases}

\* The unlocked preview of _load_owned_lease_mailbox_first.  (A lease that is
\* released already is returned as it is.)
PeekLease(s) ==
    \E l \in leases : ~l.released /\ Begin(s, [op |-> "release"], "peeked", [NoWrites EXCEPT !.put = {l}])

\* The locking read returns the object of the preview, so released_at is the
\* preview's; the row it then writes is the current one.
Release(s) ==
    /\ pc[s] = "peeked"
    /\ \E seen \in pend[s].put :
          /\ LockFree(seen.mailbox) /\ ~ImportHolds(seen.mailbox) /\ Exists(seen.mailbox)
          /\ \E l \in leases : l.id = seen.id
          /\ leases' = Released({seen.id})
          /\ claims' = IF \E c \in ClaimRead(s) : c.lease = seen.id
                       THEN {c \in claims : c.lease # seen.id} ELSE claims
    /\ End(s)
    /\ UNCHANGED <<now, status, sites, usages, usedIds>>

-----------------------------------------------------------------------------
(* Import of credentials over an existing mailbox (on_conflict=replace_token),
   and of a new one *)

ImportNew(m) ==
    /\ Asked("import_new") /\ status[m] = "absent"
    /\ status' = [status EXCEPT ![m] = "unprobed"]
    /\ UNCHANGED <<now, leases, claims, sites, usages, usedIds, session>>

OpenImport(s) ==
    \E m \in Mailboxes, force \in BOOLEAN :
        /\ Exists(m)
        /\ Begin(s, [op |-> "import", mailbox |-> m, force |-> force], "imp_open", NoWrites)

\* No mailbox lock is taken here.  A forced import locks and releases the
\* active leases; without force a visible live claim rejects the line.
CheckImport(s) ==
    /\ pc[s] = "imp_open"
    /\ LET m == req[s].mailbox
           busy == \E c \in ClaimRead(s) : c.mailbox = m /\ Live(c)
       IN \/ /\ ~busy
             /\ pc' = [pc EXCEPT ![s] = "imp_commit"]
             /\ UNCHANGED pend
          \/ /\ busy /\ req[s].force
             /\ ~ImportHolds(m)
             /\ \A t \in Sessions : \A r \in pend[t].put : r.mailbox = m =>
                   ~(pc[t] \in {"inserted", "unclaimed"} \/ req[t].op = "reacquire")
             /\ \A t \in Sessions : m \notin pend[t].gone
             /\ pend' = [pend EXCEPT ![s].rel = {l.id : l \in {k \in leases : k.mailbox = m /\ Active(k)}}]
             /\ pc' = [pc EXCEPT ![s] = "imp_claims"]
    /\ UNCHANGED <<now, tables, req, view, locked>>

ReadClaimsToDelete(s) ==
    /\ pc[s] = "imp_claims"
    /\ pend' = [pend EXCEPT ![s].dead = {c.lease : c \in {d \in ClaimRead(s) : d.mailbox = req[s].mailbox}}]
    /\ pc' = [pc EXCEPT ![s] = "imp_commit"]
    /\ UNCHANGED <<now, tables, req, view, locked>>

\* Mutant: the claims are deleted but the leases stay active.
CommitImportKeepsLeases(s) ==
    /\ pc[s] = "imp_commit"
    /\ LockFree(req[s].mailbox) /\ Exists(req[s].mailbox)
    /\ status' = [status EXCEPT ![req[s].mailbox] = "unprobed"]
    /\ claims' = {c \in claims : c.lease \notin pend[s].dead}
    /\ End(s)
    /\ UNCHANGED <<now, leases, sites, usages, usedIds>>
\* The UPDATE of the mailbox row waits for its lock.
CommitImport(s) ==
    /\ pc[s] = "imp_commit"
    /\ LockFree(req[s].mailbox) /\ Exists(req[s].mailbox)
    /\ status' = [status EXCEPT ![req[s].mailbox] = "unprobed"]
    /\ leases' = Released(pend[s].rel)
    /\ claims' = {c \in claims : c.lease \notin pend[s].dead}
    /\ End(s)
    /\ UNCHANGED <<now, sites, usages, usedIds>>

-----------------------------------------------------------------------------
(* Deletion of mailboxes by the administrator *)

\* Mutant: the claims of a deleted mailbox stay.
DeleteRowsKeepsClaims(S) ==
    /\ status' = [m \in Mailboxes |-> IF m \in S THEN "deleted" ELSE status[m]]
    /\ leases' = {l \in leases : l.mailbox \notin S}
    /\ UNCHANGED <<now, claims, sites, usages, usedIds>>
DeleteRows(S) ==
    /\ status' = [m \in Mailboxes |-> IF m \in S THEN "deleted" ELSE status[m]]
    /\ leases' = {l \in leases : l.mailbox \notin S}
    /\ claims' = {c \in claims : c.mailbox \notin S}
    /\ UNCHANGED <<now, sites, usages, usedIds>>

\* Of selected mailboxes: the first read is the lock, so that the one read of the
\* claims is current.
DeleteMailbox(m, force) ==
    /\ Asked("delete_mailbox") /\ Exists(m)
    /\ LockFree(m) /\ ~ImportHolds(m)
    /\ force \/ ~\E c \in claims : c.mailbox = m /\ Live(c)
    /\ DeleteRows({m})
    /\ UNCHANGED session

\* Of all invalid mailboxes: one transaction that locks them chunk by chunk.  The
\* locking read (LIMIT batch_size, SKIP LOCKED) sees current rows; it may return
\* a row it locked before and did not delete.
Chunks(s) ==
    LET invalid == {m \in Mailboxes \ pend[s].gone :
                       status[m] = "invalid" /\ (m \in locked[s] \/ LockFree(m))}
    IN {C \in SUBSET invalid :
           IF C = invalid THEN Cardinality(C) <= ChunkSize ELSE Cardinality(C) = ChunkSize}

\* What the plain reads of the deletion see: the first of them, in the first
\* chunk, opens the view, and the later chunks read that view.
DeletionView(s) ==
    IF pc[s] = "chunk" /\ Isolation = "REPEATABLE READ" THEN view[s]
    ELSE [NoView EXCEPT !.claims = claims, !.status = status]

\* The status of the locked rows is confirmed by a plain read.
StillInvalid(s, C) == {m \in C : DeletionView(s).status[m] = "invalid"}

\* Mutant: the claims are looked at in the first chunk only.
MayDeleteFirst(s, force, S) ==
    force \/ pc[s] = "chunk" \/ ~\E c \in DeletionView(s).claims : c.mailbox \in S /\ Live(c)
\* One live claim rejects the whole call (Abort), unless it is forced.
MayDelete(s, force, S) ==
    force \/ ~\E c \in DeletionView(s).claims : c.mailbox \in S /\ Live(c)

DeleteChunk(s, r, C) ==
    LET S == StillInvalid(s, C) IN
    /\ S # {} /\ MayDelete(s, r.force, S)
    /\ \A m \in S : ~ImportHolds(m)
    /\ pc' = [pc EXCEPT ![s] = IF Cardinality(C) < ChunkSize THEN "deleted" ELSE "chunk"]
    /\ req' = [req EXCEPT ![s] = r]
    /\ view' = [view EXCEPT ![s] = DeletionView(s)]
    /\ locked' = [locked EXCEPT ![s] = @ \cup C]
    /\ pend' = [pend EXCEPT ![s].gone = @ \cup S]
    /\ UNCHANGED <<now, tables>>

DeleteFirstChunk(s) ==
    /\ pc[s] = "idle"
    /\ \E r \in Workload \cap DeletionRequests, C \in Chunks(s) : DeleteChunk(s, r, C)

DeleteNextChunk(s) ==
    /\ pc[s] = "chunk"
    /\ \E C \in Chunks(s) : DeleteChunk(s, req[s], C)

\* The loop ends after a short chunk, or a chunk with nothing left to delete.
CommitDeletion(s) ==
    /\ \/ pc[s] = "deleted"
       \/ pc[s] = "chunk" /\ \E C \in Chunks(s) : StillInvalid(s, C) = {}
    /\ DeleteRows(pend[s].gone)
    /\ End(s)

-----------------------------------------------------------------------------
(* What the token service does to a mailbox row, and the site administration *)

MarkInvalid(m) ==
    /\ Asked("token_refresh")
    /\ status[m] \in {"active", "unprobed"} /\ LockFree(m)
    /\ status' = [status EXCEPT ![m] = "invalid"]
    /\ UNCHANGED <<now, leases, claims, sites, usages, usedIds, session>>

ProbeCapability(m) ==
    /\ Asked("token_refresh")
    /\ status[m] = "unprobed" /\ LockFree(m)
    /\ status' = [status EXCEPT ![m] = "active"]
    /\ UNCHANGED <<now, leases, claims, sites, usages, usedIds, session>>

\* create_usage_site and update_usage_site.
PutSite(code, state) ==
    /\ Asked("put_site") /\ state # sites[code]
    /\ sites' = [sites EXCEPT ![code] = state]
    /\ UNCHANGED <<now, status, leases, claims, usages, usedIds, session>>

RevokeUsage(u) ==
    /\ Asked("revoke_usage") /\ u.active
    /\ usages' = (usages \ {u}) \cup {[u EXCEPT !.active = FALSE]}
    /\ UNCHANGED <<now, status, leases, claims, sites, usedIds, session>>

\* delete_usage_site counts active usages with a non-locking read ...
CountUsages(s) ==
    \E code \in Sites :
        /\ sites[code] # "absent"
        /\ ~\E u \in usages : u.site = code /\ u.active
        /\ Begin(s, [op |-> "delete_site", site |-> code], "site_counted", NoWrites)

\* ... and deletes every usage row of the site, after waiting for uncommitted ones.
DeleteSite(s) ==
    /\ pc[s] = "site_counted"
    /\ \A t \in Sessions : \A u \in pend[t].usage : u.site # req[s].site
    /\ usages' = {u \in usages : u.site # req[s].site}
    /\ sites' = [sites EXCEPT ![req[s].site] = "absent"]
    /\ End(s)
    /\ UNCHANGED <<now, status, leases, claims, usedIds>>

Tick ==
    /\ now < MaxTime
    /\ now' = now + 1
    /\ UNCHANGED <<tables, session>>

-----------------------------------------------------------------------------
Init ==
    /\ now = 0
    /\ status \in [Mailboxes -> {"absent", "active"}]
    /\ leases = {} /\ claims = {} /\ usages = {} /\ usedIds = {}
    /\ sites = [code \in Sites |-> "enabled"]
    /\ pc = [s \in Sessions |-> "idle"]
    /\ req = [s \in Sessions |-> NoRequest]
    /\ view = [s \in Sessions |-> NoView]
    /\ locked = [s \in Sessions |-> {}]
    /\ pend = [s \in Sessions |-> NoWrites]

LeaseStep(s) ==
    \/ OpenAcquire(s) \/ SelectMailbox(s) \/ InsertClaim(s) \/ LoseClaim(s)
    \/ Commit(s) \/ FallbackCommit(s)
    \/ OpenReacquire(s) \/ SelectForReacquire(s)
    \/ PeekLease(s) \/ Release(s)
    \/ Abort(s)

AdminStep(s) ==
    \/ OpenImport(s) \/ CheckImport(s) \/ ReadClaimsToDelete(s) \/ CommitImport(s)
    \/ DeleteFirstChunk(s) \/ DeleteNextChunk(s) \/ CommitDeletion(s)
    \/ CountUsages(s) \/ DeleteSite(s)

Next ==
    \/ \E s \in Sessions : LeaseStep(s) \/ AdminStep(s)
    \/ \E m \in Mailboxes, force \in BOOLEAN : DeleteMailbox(m, force)
    \/ \E m \in Mailboxes : ImportNew(m) \/ MarkInvalid(m) \/ ProbeCapability(m)
    \/ \E code \in Sites, state \in {"enabled", "disabled"} : PutSite(code, state)
    \/ \E u \in usages : RevokeUsage(u)
    \/ Tick

Spec == Init /\ [][Next]_vars

-----------------------------------------------------------------------------
(* Properties *)

\* No two active leases hold the same business address: a client never reads
\* the codes of another client's registration (UNIQUE (allocated_email) and the
\* pairing of lease and claim by every request).
AddressExclusive ==
    \A l, k \in leases : Active(l) /\ Active(k) /\ l.address = k.address /\ l.address # NoAddress
                         => l = k

\* Every active lease is backed by its claim row, with the same mailbox,
\* address and expiry: leases and mailbox_lease_claims never tell two stories.
ClaimMirrorsLease ==
    \A l \in leases : Active(l) => ClaimOf(l) \in claims

\* At most one live exclusive claim (access_token, refresh_token or primary
\* mail_read) per mailbox, as LeaseService's claim check is meant to enforce.
ExclusiveClaims ==
    \A c, d \in claims : /\ Live(c) /\ Live(d) /\ c.mailbox = d.mailbox
                         /\ ~IsPlus(c) /\ ~IsPlus(d)
                         => c = d

\* A claim is never left without the lease it was made for: also the claim a
\* forced import or a release does not see, and so leaves behind, has a lease of
\* its mailbox and expires with it, so that it blocks the mailbox no longer than
\* the lease would have.
ClaimNamesLease ==
    \A c \in claims : \E l \in leases : ClaimOf(l) = c

\* A lease ends early only because its own client releases it, or renews it for
\* a shorter time, or the administrator forces it: no retry, import or cleanup of
\* expired claims by another request takes an active lease away.  The deletion of
\* invalid mailboxes takes without force only a lease that was granted or renewed
\* after it opened its view: the claims a later chunk checks are those of the view.
Lost(l) == Active(l) /\ ~\E k \in leases' : k.id = l.id /\ Active(k)
EndsByConsent ==
    [][\A l \in leases : Lost(l) =>
          \/ \E s \in Sessions : pc[s] = "peeked" /\ pc'[s] = "idle" /\ \E r \in pend[s].put : r.id = l.id
          \/ \E s \in Sessions : pc[s] = "inserted" /\ pc'[s] = "idle" /\ req[s].op = "reacquire"
                               /\ \E r \in pend[s].put : r.id = l.id /\ r.client = l.client
          \/ \E s \in Sessions : pc[s] = "imp_commit" /\ pc'[s] = "idle" /\ req[s].force
          \/ \E m \in Mailboxes : DeleteMailbox(m, TRUE) /\ ~DeleteMailbox(m, FALSE)
          \/ \E s \in Sessions :
                /\ pc[s] \in {"chunk", "deleted"} /\ pc'[s] = "idle"
                /\ l.mailbox \in pend[s].gone
                /\ req[s].force \/ ClaimOf(l) \notin view[s].claims]_vars

\* An address used for a site is never handed out again for that site until the
\* administrator revokes the usage: no commit records an occupied pair again.
NoRepeatUse ==
    [][\A s \in Sessions : pc[s] = "inserted" /\ pc'[s] = "idle" /\ leases' # leases =>
          \A u \in pend[s].usage : u \notin usages]_vars

\* Leasing implements address occupancy: the holder of an address is the active
\* lease whose allocated_email it is.
Holder ==
    [a \in Addresses |-> IF \E l \in leases : Active(l) /\ l.address = a
                        THEN (CHOOSE l \in leases : Active(l) /\ l.address = a).id
                        ELSE NoAddress]
Occupancy == INSTANCE AddressOccupancy WITH Nobody <- NoAddress, holder <- Holder
OccupancySpec == Occupancy!Spec

=============================================================================
