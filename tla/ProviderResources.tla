------------------------- MODULE ProviderResources -------------------------
(***************************************************************************)
(* Addresses that are not owned mailboxes (mailbox_provider_resources).    *)
(*                                                                         *)
(* Activations: Gmail addresses that an administrator buys from SMSBower   *)
(* one at a time (smsbower_gmail.py), that leases claim and give back      *)
(* (lease_service.py), and whose release is closed at SMSBower outside     *)
(* any transaction and then finalized (main.py,                            *)
(* provider_operation_service.py).                                         *)
(*                                                                         *)
(* Inboxes: addresses made on demand, one for each lease of a client or    *)
(* debugging session of an operator (operator_session_service.py).         *)
(*                                                                         *)
(* readiness is ready exactly in the states available and claimed and is   *)
(* left out, as are codes and messages.  SMSBower is assumed to answer a   *)
(* purchase with an activation or with an error that means none was made,  *)
(* or not to answer.                                                       *)
(***************************************************************************)
EXTENDS Naturals, FiniteSets

CONSTANTS
    Activations,   \* SMSBower activations that can be bought
    Inboxes,       \* addresses on-demand providers make for clients' leases
    Debugging,     \* those they make for sessions of operators
    Leases,        \* leases of activations
    Callers,       \* threads that serve POST /leases/{id}/release
    MaxSessions,   \* MAX_ACTIVE_OPERATOR_SESSIONS
    Operators,     \* operators who ask for a session at the same time
    None,          \* SQL NULL
    MaxCalls       \* bound: release requests

ASSUME ProviderAssumption ==
    /\ IsFiniteSet(Debugging)
    /\ None \notin Activations \cup Leases
    /\ MaxSessions \in Nat \ {0} /\ Operators \in Nat \ {0} /\ MaxCalls \in Nat

VARIABLES
    res,      \* the resource row of an activation
    buy,      \* the replenish operation of an activation, and what SMSBower did
    lease,    \* per lease
    op,       \* per lease: its newest release operation
    call,     \* per caller
    inbox,    \* the on-demand addresses, with the lease or session of each
    calls,    \* the counter for the bound
    crashed, overlapped   \* history: a caller died; leases with two releases at a time

vars == <<res, buy, lease, op, call, inbox, calls, crashed, overlapped>>

Lifecycle == {"none", "available", "claimed", "releasing", "release_unknown", "cooldown"}
Outcomes == {"succeeded", "failed", "unknown"}
\* An address and its lease: rows are stored as claimed with an active lease, and retired
\* without their secret when it is released.
InboxStates == {"none", "provisioning", "active", "expired", "retired"}
RowType == [state : Lifecycle, gen : Nat, version : Nat]
NoRow == [state |-> "none", gen |-> 0, version |-> 0]
OpType == [status : {"none", "pending"} \cup Outcomes, gen : Nat, version : Nat]
NoOp == [status |-> "none", gen |-> 0, version |-> 0]

TypeOK ==
    /\ res \in [Activations -> RowType]
    /\ buy \in [Activations -> [op : {"none", "running", "bought", "succeeded", "failed", "unknown"},
                                remote : BOOLEAN]]
    /\ lease \in [Leases -> [state : {"unused", "active", "expired", "released"},
                             res : Activations \cup {None}, gen : Nat]]
    /\ op \in [Leases -> OpType]
    /\ call \in [Callers -> [pc : {"idle", "opened", "close", "load", "write"}, lease : Leases \cup {None},
                             op : OpType, outcome : Outcomes, view : RowType]]
    /\ inbox \in [Inboxes \cup Debugging -> InboxStates]
    /\ calls \in Nat /\ crashed \in BOOLEAN /\ overlapped \in SUBSET Leases

\* A request works on a lease, with the operation and the resource row as it has read them.
NoCall == [pc |-> "idle", lease |-> None, op |-> NoOp, outcome |-> "unknown", view |-> NoRow]

Init ==
    /\ res = [a \in Activations |-> NoRow]
    /\ buy = [a \in Activations |-> [op |-> "none", remote |-> FALSE]]
    /\ lease = [l \in Leases |-> [state |-> "unused", res |-> None, gen |-> 0]]
    /\ op = [l \in Leases |-> NoOp]
    /\ call = [k \in Callers |-> NoCall]
    /\ inbox = [i \in Inboxes \cup Debugging |-> "none"]
    /\ calls = 0 /\ crashed = FALSE /\ overlapped = {}

-----------------------------------------------------------------------------
(* Buying an activation: replenish_one *)

others == <<lease, op, call, inbox, calls, crashed, overlapped>>

\* create_pending_operation and mark_running, committed before the purchase
ReplenishStart(a) ==
    /\ buy[a].op = "none"
    /\ buy' = [buy EXCEPT ![a].op = "running"]
    /\ UNCHANGED <<res, others>>

\* get_activation: bought, refused, or no answer, after a purchase or before it.
\* _finalize_replenish_failure records the last two.
ReplenishAnswer(a) ==
    /\ buy[a].op = "running" /\ ~buy[a].remote
    /\ buy' \in {[buy EXCEPT ![a] = b] :
                    b \in {[op |-> "bought", remote |-> TRUE], [op |-> "failed", remote |-> FALSE],
                           [op |-> "unknown", remote |-> TRUE], [op |-> "unknown", remote |-> FALSE]}}
    /\ UNCHANGED <<res, others>>

\* finalize_smsbower_replenish_success
ReplenishStore(a) ==
    /\ buy[a].op = "bought"
    /\ res' = [res EXCEPT ![a].state = "available"]
    /\ buy' = [buy EXCEPT ![a].op = "succeeded"]
    /\ UNCHANGED others

\* Mutant: a purchase that could not be stored counts as failed.
ReplenishStoreFailsForGood(a) ==
    /\ buy[a].op = "bought"
    /\ buy' = [buy EXCEPT ![a].op = "failed"]
    /\ UNCHANGED <<res, others>>

\* The row cannot be written, ...
ReplenishStoreFails(a) ==
    /\ buy[a].op = "bought"
    /\ buy' = [buy EXCEPT ![a].op = "unknown"]
    /\ UNCHANGED <<res, others>>

\* ... or the process stops: the operation stays running.
ReplenishCrash(a) ==
    /\ buy[a].op = "bought"
    /\ buy' = [buy EXCEPT ![a].op = "running"]
    /\ UNCHANGED <<res, others>>

-----------------------------------------------------------------------------
(* Leasing an activation *)

\* _acquire_smsbower_mail_read_lease locks an available row; _upsert_lease_claim refuses a
\* resource, and the unique address refuses an address, that another live claim holds.
AcquireActivation(l, a) ==
    /\ lease[l].state = "unused" /\ res[a].state = "available"
    /\ ~ \E other \in Leases : lease[other].state = "active" /\ lease[other].res = a
    /\ res' = [res EXCEPT ![a] = [state |-> "claimed", gen |-> @.gen + 1, version |-> @.version + 1]]
    /\ lease' = [lease EXCEPT ![l] = [state |-> "active", res |-> a, gen |-> res[a].gen + 1]]
    /\ UNCHANGED <<buy, op, call, inbox, calls, crashed, overlapped>>

\* Mutant: an expired lease gives its resource back at once.
LeaseExpiresReclaims(l) ==
    /\ lease[l].state = "active"
    /\ lease' = [lease EXCEPT ![l].state = "expired"]
    /\ res' = [res EXCEPT ![lease[l].res].state = "available"]
    /\ UNCHANGED <<buy, op, call, inbox, calls, crashed, overlapped>>

\* The claim lapses with its lease; nothing takes the resource back.
LeaseExpires(l) ==
    /\ lease[l].state = "active"
    /\ lease' = [lease EXCEPT ![l].state = "expired"]
    /\ UNCHANGED <<res, buy, op, call, inbox, calls, crashed, overlapped>>

-----------------------------------------------------------------------------
(* POST /leases/{id}/release *)

\* History: a release request for l begins while another is under way.
NoteOverlap(l) ==
    overlapped' = IF \E k \in Callers : call[k].lease = l THEN overlapped \cup {l} ELSE overlapped

\* A request opens its view: the lease is not released in it.  What follows uses this
\* preview; it waits for the lock of the resource.
OpenRelease(k, l) ==
    /\ call[k].pc = "idle" /\ calls < MaxCalls
    /\ lease[l].state \in {"active", "expired"}
    /\ call' = [call EXCEPT ![k].pc = "opened", ![k].lease = l, ![k].view = res[lease[l].res]]
    /\ NoteOverlap(l)
    /\ calls' = calls + 1
    /\ UNCHANGED <<res, buy, lease, op, inbox, crashed>>

\* Mutant: only a lease that has not expired gives its resource back.
GivesBackActive(l, row) == lease[l].state = "active" /\ row.state \in {"claimed", "available"}

\* The resource row for which a release begins, whatever became of the lease.
GivesBack(l, row) == row.state \in {"claimed", "available"}

\* begin_release_operation for the row that was read: the new row and the new operation.
\* Its idempotency key, unique, is made of the lease and the generation.
BeginRelease(k, row) ==
    LET l == call[k].lease
        new == [status |-> "pending", gen |-> row.gen, version |-> row.version]
    IN  /\ ~(op[l].status # "none" /\ op[l].gen = row.gen)
        /\ lease' = [lease EXCEPT ![l].state = "released"]
        /\ res' = [res EXCEPT ![lease[l].res].state = "releasing",
                              ![lease[l].res].version = row.version + 1]
        /\ op' = [op EXCEPT ![l] = new]
        /\ call' = [call EXCEPT ![k] = [@ EXCEPT !.pc = "close", !.op = new, !.view = NoRow]]

\* The rest of _release_lease_internal, under the lock of the resource, in one transaction.
\* released_at is judged on the preview; the resource is the locked row while the session
\* still has the object, and is read again from the view when it has not.  The second
\* operation with one key is refused and the request rolled back.
Release(k) ==
    LET l == call[k].lease
    IN  /\ call[k].pc = "opened"
        /\ \E row \in {call[k].view, res[lease[l].res]} :
              \/ GivesBack(l, row) /\ BeginRelease(k, row)
              \/ /\ GivesBack(l, row) /\ op[l].status # "none" /\ op[l].gen = row.gen
                 /\ call' = [call EXCEPT ![k] = NoCall]
                 /\ UNCHANGED <<res, lease, op>>
              \/ /\ ~GivesBack(l, row)
                 /\ lease' = [lease EXCEPT ![l].state = "released"]
                 /\ call' = [call EXCEPT ![k] = NoCall]
                 /\ UNCHANGED <<res, op>>
        /\ UNCHANGED <<buy, inbox, calls, crashed, overlapped>>

\* The endpoint called again for a released lease: _maybe_finalize_smsbower_release goes on
\* with an operation that has not ended.
ReleaseAgain(k, l) ==
    /\ call[k].pc = "idle" /\ calls < MaxCalls
    /\ lease[l].state = "released" /\ op[l].status \in {"pending", "unknown"}
    /\ call' = [call EXCEPT ![k].pc = "close", ![k].lease = l, ![k].op = op[l]]
    /\ NoteOverlap(l)
    /\ calls' = calls + 1
    /\ UNCHANGED <<res, buy, lease, op, inbox, crashed>>

\* SmsBowerGmailProvider.finalize: setStatus at SMSBower
CloseRemote(k) ==
    /\ call[k].pc = "close"
    /\ \E o \in Outcomes : call' = [call EXCEPT ![k].pc = "load", ![k].outcome = o]
    /\ UNCHANGED <<res, buy, lease, op, inbox, calls, crashed, overlapped>>

\* finalize_release_cas reads the resource and the operation without a lock ...
FinalizeLoad(k) ==
    LET l == call[k].lease
    IN  /\ call[k].pc = "load"
        /\ call' = [call EXCEPT ![k].pc = "write", ![k].view = res[lease[l].res]]
        /\ UNCHANGED <<res, buy, lease, op, inbox, calls, crashed, overlapped>>

\* Mutant: the outcome itself is stored.
SettledByOutcome(view, outcome) ==
    [state |-> outcome, gen |-> view.gen, version |-> view.version + 1]

\* Mutant: every outcome counts the generation up.
SettledCountsAlways(view, outcome) ==
    [state |-> CASE outcome = "succeeded" -> "available"
                 [] outcome = "failed" -> "cooldown"
                 [] OTHER -> "release_unknown",
     gen |-> view.gen + 1,
     version |-> view.version + 1]

\* The new row for each outcome, from the row that was read.
Settled(view, outcome) ==
    [state |-> CASE outcome = "succeeded" -> "available"
                 [] outcome = "failed" -> "cooldown"
                 [] OTHER -> "release_unknown",
     gen |-> IF outcome = "succeeded" THEN view.gen + 1 ELSE view.gen,
     version |-> view.version + 1]

\* Mutant: expected_state_version, read before begin_release_operation counts it up, is
\* compared too.
MaySettleVersioned(view, expected) ==
    /\ view.gen = expected.gen /\ view.state \in {"releasing", "release_unknown"}
    /\ view.version = expected.version

\* The conditions of finalize_release_cas; expected_state_version is not among them.
MaySettle(view, expected) ==
    view.gen = expected.gen /\ view.state \in {"releasing", "release_unknown"}

\* ... and writes what differs from what it read.  The operation is the request's own; a
\* newer one of the lease stays as it is.
FinalizeWrite(k) ==
    LET l == call[k].lease
        view == call[k].view
        new == Settled(view, call[k].outcome)
    IN  /\ call[k].pc = "write"
        /\ IF MaySettle(view, call[k].op)
           THEN /\ res' = [res EXCEPT ![lease[l].res] =
                             [state |-> IF new.state # view.state THEN new.state ELSE @.state,
                              gen |-> IF new.gen # view.gen THEN new.gen ELSE @.gen,
                              version |-> new.version]]
                /\ op' = [op EXCEPT ![l].status = IF op[l].gen = call[k].op.gen THEN call[k].outcome ELSE @]
           ELSE UNCHANGED <<res, op>>
        /\ call' = [call EXCEPT ![k] = NoCall]
        /\ UNCHANGED <<buy, lease, inbox, calls, crashed, overlapped>>

CallerDies(k) ==
    /\ call[k].pc # "idle"
    /\ call' = [call EXCEPT ![k] = NoCall]
    /\ crashed' = TRUE
    /\ UNCHANGED <<res, buy, lease, op, inbox, calls, overlapped>>

-----------------------------------------------------------------------------
(* Inboxes *)

inventory == <<res, buy, lease, op, call, calls, crashed, overlapped>>

\* _count_active_sessions
Sessions == {i \in Debugging : inbox[i] = "active"}

\* Mutant: the sessions are not counted.
ProvisionUncounted(i) ==
    /\ inbox[i] = "none"
    /\ inbox' = [inbox EXCEPT ![i] = "provisioning"]
    /\ UNCHANGED inventory

\* _acquire_on_demand_mail_read_lease and create_session call the provider first, outside
\* any lock.  create_session counts the sessions before that; at most Operators of them are
\* under way together.
Provision(i) ==
    /\ inbox[i] = "none"
    /\ i \in Debugging =>
          /\ Cardinality(Sessions) < MaxSessions
          /\ Cardinality({j \in Debugging : inbox[j] = "provisioning"}) < Operators
    /\ inbox' = [inbox EXCEPT ![i] = "provisioning"]
    /\ UNCHANGED inventory

StoreInbox(i) ==
    /\ inbox[i] = "provisioning"
    /\ inbox' = [inbox EXCEPT ![i] = "active"]
    /\ UNCHANGED inventory

\* The provider made none, or the rows were not written: nothing remembers the address.
LoseInbox(i) ==
    /\ inbox[i] = "provisioning"
    /\ inbox' = [inbox EXCEPT ![i] = "none"]
    /\ UNCHANGED inventory

InboxExpires(i) ==
    /\ inbox[i] = "active"
    /\ inbox' = [inbox EXCEPT ![i] = "expired"]
    /\ UNCHANGED inventory

\* _release_lease_internal for an on-demand lease and release_session.
ReleaseInbox(i) ==
    /\ inbox[i] \in {"active", "expired"}
    /\ inbox' = [inbox EXCEPT ![i] = "retired"]
    /\ UNCHANGED inventory

-----------------------------------------------------------------------------

Caller(k) == Release(k) \/ CloseRemote(k) \/ FinalizeLoad(k) \/ FinalizeWrite(k)

Replenish(a) ==
    \/ ReplenishStart(a) \/ ReplenishAnswer(a) \/ ReplenishStore(a)
    \/ ReplenishStoreFails(a) \/ ReplenishCrash(a)

Lease(l) == LeaseExpires(l) \/ \E a \in Activations : AcquireActivation(l, a)

Endpoint(k) ==
    \/ Caller(k) \/ CallerDies(k)
    \/ \E l \in Leases : OpenRelease(k, l) \/ ReleaseAgain(k, l)

Inbox(i) ==
    \/ Provision(i) \/ StoreInbox(i) \/ LoseInbox(i) \/ InboxExpires(i) \/ ReleaseInbox(i)

Next ==
    \/ \E a \in Activations : Replenish(a)
    \/ \E l \in Leases : Lease(l)
    \/ \E k \in Callers : Endpoint(k)
    \/ \E i \in Inboxes \cup Debugging : Inbox(i)

Spec == Init /\ [][Next]_vars

\* A request that is being served goes on: waits for locks and setStatus have a timeout.
LiveSpec == Spec /\ \A k \in Callers : WF_vars(Caller(k))

-----------------------------------------------------------------------------
(* Properties *)

\* An activation that was paid for is in the inventory, or a replenish operation that has
\* not failed says that one may exist: no crash between purchase and row hides one.
PurchasesOnRecord ==
    \A a \in Activations : buy[a].remote =>
        res[a].state # "none" \/ buy[a].op \in {"running", "bought", "unknown"}

\* What docs/smsbower-gmail-phase1a.md says of the generation: finalize_release_cas never
\* writes to a resource that was claimed in another generation than the release it ends.
FinalizeSparesNewLease ==
    [][\A k \in Callers : FinalizeWrite(k) =>
          LET a == lease[call[k].lease].res
          IN  res[a].state = "claimed" /\ res[a].gen # call[k].op.gen => res'[a] = res[a]]_vars

\* Two release requests for one lease of the activation were once under way together.
Overlapped(a) == \E l \in overlapped : lease[l].res = a

\* Only overlapping releases of one lease can take a resource from its holder: requests for
\* different leases of an activation, repeated releases, crashes and lost answers cannot,
\* although finalize_release_cas reads and writes without a lock.
HolderKeepsUnlessOverlap ==
    \A l \in Leases : lease[l].state = "active" /\ ~Overlapped(lease[l].res) =>
        res[lease[l].res].state = "claimed" /\ res[lease[l].res].gen = lease[l].gen

\* A claimed activation is never out of reach: an expired lease does not give it back, but
\* there is one that was not released, through which a release still ends the claim.
ClaimedIsRecoverable ==
    \A a \in Activations : res[a].state = "claimed" =>
        \E l \in Leases : lease[l].state \in {"active", "expired"} /\ lease[l].res = a

\* A release that was interrupted, or that SMSBower did not answer, can be taken up again
\* unless releases of one lease overlapped: the release of the same lease goes on with its
\* operation, and finalize_release_cas will accept the resource in the generation the
\* operation recorded.
ReleaseResumable ==
    \A a \in Activations : res[a].state \in {"releasing", "release_unknown"} /\ ~Overlapped(a) =>
        \E l \in Leases : /\ lease[l].state = "released" /\ lease[l].res = a
                         /\ op[l].status \in {"pending", "unknown"}
                         /\ MaySettle(res[a], op[l])

\* A release does not stay half done: finalize_release_cas finds its resource, unless the
\* process that served the release stopped or releases of one lease overlapped.
ReleaseSettles ==
    \A a \in Activations :
        res[a].state = "releasing" ~> (res[a].state # "releasing" \/ crashed \/ Overlapped(a))

\* The session limit is counted before the address is made and not again: it can be passed,
\* but by no more than the requests that were under way together.
SessionsBounded == Cardinality(Sessions) < MaxSessions + Operators
=============================================================================
