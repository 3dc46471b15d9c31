--------------------------- MODULE LeaseClaimsInv ---------------------------
(***************************************************************************)
(* The inductive invariants behind the safety properties of LeaseClaims.   *)
(***************************************************************************)
EXTENDS LeaseClaims

Writing == {"selected", "inserted", "unclaimed"}
Importing == {"imp_open", "imp_claims", "imp_commit"}
Deleting == {"chunk", "deleted"}

\* A session's request, locks and uncommitted writes fit the statement it is at.
SessionOK(s) ==
    /\ pc[s] \in Writing =>
          /\ req[s] \in AcquireRequests \cup ReacquireRequests
          /\ \A r \in pend[s].put :
                /\ r.mailbox \in locked[s]
                /\ req[s].op = "acquire" /\ req[s].site # NoSite => r.address \in Addresses
          /\ pend[s].put # {} /\ \A r, q \in pend[s].put : r = q
          /\ pend[s].rel = {}
    /\ pc[s] = "open" => req[s] \in AcquireRequests \cup ReacquireRequests
    /\ pc[s] = "inserted" => pend[s].claim = {ClaimOf(r) : r \in pend[s].put}
    /\ pc[s] # "inserted" => pend[s].claim = {} /\ pend[s].usage = {}
    /\ pc[s] \in Importing => req[s] \in ImportRequests
    /\ pc[s] \in Deleting => req[s] \in DeletionRequests /\ pend[s].gone \subseteq locked[s]
    /\ pc[s] = "site_counted" => req[s] \in SiteRequests
    /\ pc[s] = "idle" => locked[s] = {} /\ pend[s].gone = {}

\* A mailbox row is locked by one session.
LocksDisjoint == \A s, t \in Sessions : s # t => locked[s] \cap locked[t] = {}

BaseInv == TypeOK /\ LocksDisjoint /\ \A s \in Sessions : SessionOK(s)

-----------------------------------------------------------------------------
(* REPEATABLE READ: one active lease per address *)

\* The keys of the two tables; a claim is in the mailbox of its lease.
UniqueRows ==
    /\ \A l, k \in leases : l.id = k.id => l = k
    /\ \A c, d \in claims :
          c.lease = d.lease \/ (c.address = d.address /\ c.address # NoAddress) => c = d
    /\ \A c \in claims, l \in leases : c.lease = l.id => c.mailbox = l.mailbox

\* Ids a session knows are used up; what its view says of a lease's mailbox holds.
IdsUsed ==
    /\ \A l \in leases : l.id \in usedIds
    /\ \A c \in claims : c.lease \in usedIds
    /\ \A s \in Sessions :
          /\ pend[s].dead \subseteq usedIds
          /\ \A c \in view[s].claims :
                /\ c.lease \in usedIds
                /\ \A l \in leases : c.lease = l.id => c.mailbox = l.mailbox

\* A row being written is new or renews a lease of the locked mailbox, and no
\* two sessions write the same lease.
PendingRows ==
    \A s \in Sessions : pc[s] \in Writing => \A r \in pend[s].put :
        /\ r.id \in usedIds => /\ req[s].op = "reacquire"
                               /\ \E l \in leases : l.id = r.id /\ l.mailbox = r.mailbox
        /\ \A t \in Sessions \ {s} : pc[t] \in Writing => \A q \in pend[t].put : q.id # r.id

\* An inserted claim stays unique until its session commits, and what that
\* commit deletes backs no other active lease.
InsertedRows ==
    \A s \in Sessions : pc[s] = "inserted" => \A r \in pend[s].put :
        /\ \A c \in claims : c.lease \notin pend[s].dead =>
              c.lease # r.id /\ (r.address # NoAddress => c.address # r.address)
        /\ \A t \in Sessions \ {s} : pc[t] = "inserted" =>
              \A q \in pend[t].put : r.address # NoAddress => q.address # r.address
        /\ \A l \in leases : l.id \in pend[s].dead =>
              l.mailbox = r.mailbox /\ (Active(l) => l.id = r.id)

\* The view that chose a mailbox for an exclusive lease also clears its claim, so
\* the claim check never fails and no lease is left without a claim.
NeverUnclaimed ==
    \A s \in Sessions :
        /\ pc[s] # "unclaimed"
        /\ pc[s] = "selected" /\ req[s].op = "acquire" =>
              \A r \in pend[s].put : ~IsPlus(r) =>
                  ~\E c \in view[s].claims : c.mailbox = r.mailbox /\ Live(c)

\* The leases whose claims an import past its check deletes: none of them is
\* active unless the import releases it, and none is being renewed.
Doomed(s) ==
    IF pc[s] = "imp_claims"
    THEN {c.lease : c \in {d \in view[s].claims : d.mailbox = req[s].mailbox}}
    ELSE pend[s].dead
Imports ==
    \A s \in Sessions :
        /\ pc[s] = "imp_open" => pend[s].dead = {}
        /\ pc[s] \in {"imp_claims", "imp_commit"} =>
              /\ \A l \in leases : l.id \in Doomed(s) =>
                    l.mailbox = req[s].mailbox /\ (Active(l) => l.id \in pend[s].rel)
              /\ \A t \in Sessions : pc[t] \in Writing => \A r \in pend[t].put : r.id \notin Doomed(s)

AddressInv ==
    /\ BaseInv /\ UniqueRows /\ IdsUsed /\ PendingRows /\ InsertedRows
    /\ NeverUnclaimed /\ Imports /\ ClaimMirrorsLease

-----------------------------------------------------------------------------
(* What a step may never do *)

\* A row being written that renews a lease keeps its client and its address.
RenewsOwn ==
    \A s \in Sessions : pc[s] \in Writing => \A r \in pend[s].put : \A l \in leases :
        l.id = r.id => /\ r.client = l.client /\ r.address = l.address
                       /\ req[s].op = "reacquire"

\* Only an import the administrator forced has leases to release.
ForcedReleases ==
    \A s \in Sessions : pc[s] \in Importing /\ pend[s].rel # {} =>
        pc[s] # "imp_open" /\ req[s].force

StepInv == AddressInv /\ RenewsOwn /\ ForcedReleases /\ ClaimNamesLease

\* The view of an unforced deletion shows no live claim of what it deletes.
UnforcedDeletions ==
    \A s \in Sessions : pc[s] \in Deleting /\ ~req[s].force =>
        ~\E c \in view[s].claims : c.mailbox \in pend[s].gone /\ Live(c)

ConsentInv == StepInv /\ UnforcedDeletions

\* Under either isolation level: sessions about to commit hold different
\* addresses, and the usages they are about to record are free and theirs.
UsageInserted ==
    \A s \in Sessions : pc[s] = "inserted" =>
        /\ \A u \in pend[s].usage :
              /\ u.active /\ u \notin usages
              /\ \A r \in pend[s].put : r.address = u.address
        /\ \A t \in Sessions \ {s} : pc[t] = "inserted" =>
              \A r \in pend[s].put, q \in pend[t].put :
                 r.address # NoAddress => q.address # r.address

UsageInv == BaseInv /\ UsageInserted

=============================================================================
