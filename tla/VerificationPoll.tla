-------------------------- MODULE VerificationPoll --------------------------
(***************************************************************************)
(* POST /leases/{id}/verification-code: a long poll that takes a capacity  *)
(* slot (verification_poll_capacity.py), and then checks its authorization *)
(* (verification_authorization.py), scans the inbox and sleeps until a     *)
(* code is found or the deadline passes (verification_code_service.py).    *)
(*                                                                         *)
(* The endpoint is a coroutine on one event loop and awaits only its       *)
(* sleep: polls interleave with one another there and nowhere else.        *)
(* Everything that ends an authorization (release, expiry, a disabled key, *)
(* an invalid mailbox) runs in other threads and interleaves anywhere.     *)
(*                                                                         *)
(* Left out: the contents of messages and the matching of codes, and       *)
(* last_verification_code, a cache written for the administrator's view.   *)
(***************************************************************************)
EXTENDS Naturals, FiniteSets

CONSTANTS
    Polls,         \* concurrent requests
    Clients,       \* client keys
    Leases,        \* mail_read leases
    Owner,         \* the client of a lease
    Kind,          \* the provider type of a lease
    Channels,      \* how many channels a scan of the lease's mailbox tries
    MaxPolls,      \* mail_poll_max_concurrency
    MaxPerClient,  \* mail_poll_max_concurrency_per_client
    MaxPerLease,   \* mail_poll_max_concurrency_per_lease
    Timeouts       \* timeout_seconds, in poll intervals

Kinds == {"microsoft", "on_demand", "smsbower_gmail"}

ASSUME PollAssumption ==
    /\ IsFiniteSet(Polls)
    /\ Owner \in [Leases -> Clients]
    /\ Kind \in [Leases -> Kinds]
    /\ Channels \in [Leases -> {1, 2}]
    /\ MaxPolls \in Nat \ {0} /\ MaxPerClient \in Nat \ {0} /\ MaxPerLease \in Nat \ {0}
    /\ Timeouts \subseteq Nat

VARIABLES
    granted,      \* per lease: what revalidate_verification_authorization finds
    free,         \* global_semaphore
    perClient,    \* per_client_counts
    perLease,     \* per_lease_counts
    pc,           \* per poll: the statement it is at
    lease,        \* per poll: its lease
    left,         \* per poll: intervals left until its deadline
    chan,         \* per poll: channels left in this round
    read,         \* per poll: any_scan_succeeded
    result,       \* per poll: the answer it gave
    lapsed        \* history: no authorization at any time since the poll's last scan

slots == <<free, perClient, perLease>>
round == <<lease, left, chan, read, lapsed>>
vars == <<granted, slots, pc, round, result>>

Steps == {"idle", "top", "scan", "refresh", "rescan", "matched", "cleared", "scanned", "asleep"}
Results == {"none", "code", "empty", "error", "denied", "aborted"}

TypeOK ==
    /\ granted \in [Leases -> BOOLEAN]
    /\ free \in 0..MaxPolls
    /\ perClient \in [Clients -> Nat]
    /\ perLease \in [Leases -> Nat]
    /\ pc \in [Polls -> Steps]
    /\ lease \in [Polls -> Leases]
    /\ left \in [Polls -> Nat]
    /\ chan \in [Polls -> 0..2]
    /\ read \in [Polls -> BOOLEAN]
    /\ result \in [Polls -> Results]
    /\ lapsed \in [Polls -> BOOLEAN]

InSlot == {p \in Polls : pc[p] # "idle"}
OfClient(c) == {p \in InSlot : Owner[lease[p]] = c}
OfLease(l) == {p \in InSlot : lease[p] = l}

\* No poll is between two awaits.
LoopFree == \A p \in Polls : pc[p] \in {"idle", "asleep"}

-----------------------------------------------------------------------------
(* The slot: acquire_verification_poll_slot *)

\* Mutant: the counters may drop below zero.
MinusUnfloored(n) == n - 1
Minus(n) == IF n <= 1 THEN 0 ELSE n - 1

HasCapacity(l) == perClient[Owner[l]] < MaxPerClient /\ perLease[l] < MaxPerLease

\* With no slot left the request is refused and changes nothing.
Admit(p, l, timeout) ==
    /\ pc[p] = "idle" /\ LoopFree
    /\ granted[l] /\ free > 0 /\ HasCapacity(l)
    /\ free' = free - 1
    /\ perClient' = [perClient EXCEPT ![Owner[l]] = @ + 1]
    /\ perLease' = [perLease EXCEPT ![l] = @ + 1]
    /\ pc' = [pc EXCEPT ![p] = "top"]
    /\ lease' = [lease EXCEPT ![p] = l]
    /\ left' = [left EXCEPT ![p] = timeout]
    /\ read' = [read EXCEPT ![p] = FALSE]
    /\ result' = [result EXCEPT ![p] = "none"]
    /\ lapsed' = [lapsed EXCEPT ![p] = FALSE]
    /\ UNCHANGED <<granted, chan>>

\* Mutant: the semaphore is not released.
GiveBackNoRelease(l) ==
    /\ perClient' = [perClient EXCEPT ![Owner[l]] = Minus(@)]
    /\ perLease' = [perLease EXCEPT ![l] = Minus(@)]
    /\ UNCHANGED free
\* Mutant: the count of the client is not decremented.
GiveBackUncounted(l) ==
    /\ perLease' = [perLease EXCEPT ![l] = Minus(@)]
    /\ free' = free + 1
    /\ UNCHANGED perClient
\* The finally block.
GiveBack(l) ==
    /\ perClient' = [perClient EXCEPT ![Owner[l]] = Minus(@)]
    /\ perLease' = [perLease EXCEPT ![l] = Minus(@)]
    /\ free' = free + 1

\* A refusal inside the try block runs its finally too: it returns the slot of
\* the semaphore, and decrements counters it has not incremented.
Refuse(p, l) ==
    /\ pc[p] = "idle" /\ LoopFree
    /\ granted[l] /\ free > 0 /\ ~HasCapacity(l)
    /\ perClient' = [perClient EXCEPT ![Owner[l]] = Minus(@)]
    /\ perLease' = [perLease EXCEPT ![l] = Minus(@)]
    /\ UNCHANGED <<granted, free, pc, round, result>>

Leave(p, answer) ==
    /\ GiveBack(lease[p])
    /\ pc' = [pc EXCEPT ![p] = "idle"]
    /\ result' = [result EXCEPT ![p] = answer]
    /\ UNCHANGED <<granted, lease, left, chan>>

-----------------------------------------------------------------------------
(* The loop: wait_for_verification_code and its variants *)

Goto(p, step) ==
    /\ pc' = [pc EXCEPT ![p] = step]
    /\ UNCHANGED <<granted, slots, lease, result>>

\* default_recipient falls back to the leased address, so every poll has a
\* recipient filter, and _wait_for_smsbower_code accepts none.
UnsupportedFilter(p) ==
    /\ pc[p] = "top" /\ Kind[lease[p]] = "smsbower_gmail"
    /\ Leave(p, "error")
    /\ UNCHANGED <<read, lapsed>>

Checkpoint(p) ==
    /\ pc[p] = "top" /\ Kind[lease[p]] # "smsbower_gmail"
    /\ \/ /\ granted[lease[p]]
          /\ chan' = [chan EXCEPT ![p] = Channels[lease[p]]]
          /\ Goto(p, "scan") /\ UNCHANGED left
       \/ ~granted[lease[p]] /\ Leave(p, "denied")
    /\ UNCHANGED <<read, lapsed>>

\* A scan of one channel, and the scan repeated with a forced access token.
Scanning(p) == pc[p] \in {"scan", "rescan"}

Scanned(p, success) ==
    /\ read' = [read EXCEPT ![p] = @ \/ success]
    /\ lapsed' = [lapsed EXCEPT ![p] = ~granted[lease[p]]]

NextChannel(p) ==
    /\ chan' = [chan EXCEPT ![p] = @ - 1]
    /\ Goto(p, IF chan[p] > 1 THEN "scan" ELSE "scanned")
    /\ UNCHANGED left

\* No code in the messages, or (success = FALSE) no messages at all.
ScanEmpty(p, success) ==
    /\ Scanning(p)
    /\ success \/ Kind[lease[p]] = "microsoft" \/ left[p] > 0
    /\ NextChannel(p)
    /\ Scanned(p, success)

\* The provider loops raise an error that comes after the deadline.
ScanRaises(p) ==
    /\ Scanning(p) /\ Kind[lease[p]] # "microsoft" /\ left[p] = 0
    /\ Leave(p, "error")
    /\ Scanned(p, FALSE)

\* Only the Microsoft loop counts the bytes it has read for the request.
ScanExhausts(p) ==
    /\ Scanning(p) /\ Kind[lease[p]] = "microsoft"
    /\ Leave(p, "empty")
    /\ Scanned(p, TRUE)

\* _wait_for_ondemand_code returns its code without a checkpoint.
ScanMatches(p) ==
    /\ Scanning(p)
    /\ Goto(p, IF Kind[lease[p]] = "on_demand" THEN "cleared" ELSE "matched")
    /\ Scanned(p, TRUE)
    /\ UNCHANGED <<left, chan>>

\* A rejected access token is exchanged once, by force.
ScanRejected(p) ==
    /\ pc[p] = "scan" /\ Kind[lease[p]] = "microsoft"
    /\ Goto(p, "refresh")
    /\ Scanned(p, FALSE)
    /\ UNCHANGED <<left, chan>>

ForceRefresh(p) ==
    /\ pc[p] = "refresh"
    /\ \/ Goto(p, "rescan") /\ UNCHANGED <<left, chan>>
       \/ NextChannel(p)
    /\ UNCHANGED <<read, lapsed>>

\* Mutant: the code is returned without a checkpoint.
FinalCheckpointSkipped(p) ==
    /\ pc[p] = "matched"
    /\ Goto(p, "cleared")
    /\ UNCHANGED <<left, chan, read, lapsed>>
FinalCheckpoint(p) ==
    /\ pc[p] = "matched"
    /\ \/ granted[lease[p]] /\ Goto(p, "cleared") /\ UNCHANGED <<left, chan>>
       \/ ~granted[lease[p]] /\ Leave(p, "denied")
    /\ UNCHANGED <<read, lapsed>>

Deliver(p) == pc[p] = "cleared" /\ Leave(p, "code") /\ UNCHANGED <<read, lapsed>>

\* Mutant: every poll that ends without a code answers "not found".
FinishEmpty(p) ==
    /\ pc[p] = "scanned" /\ left[p] = 0
    /\ Leave(p, "empty")
    /\ UNCHANGED <<read, lapsed>>
\* The deadline.  A Microsoft poll none of whose scans succeeded is an error.
Finish(p) ==
    /\ pc[p] = "scanned" /\ left[p] = 0
    /\ Leave(p, IF read[p] \/ Kind[lease[p]] # "microsoft" THEN "empty" ELSE "error")
    /\ UNCHANGED <<read, lapsed>>

\* Mutant: the deadline moves with the sleep.
SleepForever(p) ==
    /\ pc[p] = "scanned" /\ left[p] > 0
    /\ Goto(p, "asleep")
    /\ UNCHANGED <<left, chan, read, lapsed>>
\* min(interval, remaining): every sleep brings the deadline nearer.
Sleep(p) ==
    /\ pc[p] = "scanned" /\ left[p] > 0
    /\ left' = [left EXCEPT ![p] = @ - 1]
    /\ Goto(p, "asleep")
    /\ UNCHANGED <<chan, read, lapsed>>

Wake(p) ==
    /\ pc[p] = "asleep" /\ LoopFree
    /\ Goto(p, "top")
    /\ UNCHANGED <<left, chan, read, lapsed>>

\* The database fails at a checkpoint, or the server cancels a sleeping request.
Interrupt(p) ==
    /\ pc[p] \in {"top", "matched", "asleep"}
    /\ Leave(p, "aborted")
    /\ UNCHANGED <<read, lapsed>>

-----------------------------------------------------------------------------
(* What happens beside the polls *)

\* Network calls take time.
Elapse(p) ==
    /\ pc[p] \notin {"idle", "asleep"} /\ left[p] > 0
    /\ left' = [left EXCEPT ![p] = @ - 1]
    /\ UNCHANGED <<granted, slots, pc, lease, chan, read, lapsed, result>>

\* The lease is released or expires, its key is disabled, expires or loses the
\* scope, its mailbox becomes invalid or is deleted.
Revoke(l) ==
    /\ granted[l]
    /\ granted' = [granted EXCEPT ![l] = FALSE]
    /\ UNCHANGED <<slots, pc, round, result>>

\* The scope is given back, the mailbox imported again.
Restore(l) ==
    /\ ~granted[l]
    /\ granted' = [granted EXCEPT ![l] = TRUE]
    /\ lapsed' = [p \in Polls |-> lapsed[p] /\ lease[p] # l]
    /\ UNCHANGED <<slots, pc, lease, left, chan, read, result>>

-----------------------------------------------------------------------------
Init ==
    /\ granted = [l \in Leases |-> TRUE]
    /\ free = MaxPolls
    /\ perClient = [c \in Clients |-> 0]
    /\ perLease = [l \in Leases |-> 0]
    /\ pc = [p \in Polls |-> "idle"]
    /\ lease \in [Polls -> Leases]
    /\ left = [p \in Polls |-> 0]
    /\ chan = [p \in Polls |-> 0]
    /\ read = [p \in Polls |-> FALSE]
    /\ result = [p \in Polls |-> "none"]
    /\ lapsed = [p \in Polls |-> FALSE]

\* The steps a poll takes between two awaits.
Run(p) ==
    \/ UnsupportedFilter(p) \/ Checkpoint(p)
    \/ \E success \in BOOLEAN : ScanEmpty(p, success)
    \/ ScanRaises(p) \/ ScanExhausts(p) \/ ScanMatches(p) \/ ScanRejected(p)
    \/ ForceRefresh(p) \/ FinalCheckpoint(p) \/ Deliver(p)
    \/ Finish(p) \/ Sleep(p)

Next ==
    \/ \E p \in Polls : Run(p) \/ Wake(p) \/ Interrupt(p) \/ Elapse(p)
    \/ \E p \in Polls, l \in Leases : Refuse(p, l) \/ \E t \in Timeouts : Admit(p, l, t)
    \/ \E l \in Leases : Revoke(l) \/ Restore(l)

Spec == Init /\ [][Next]_vars

\* Network calls have timeouts, so a running poll goes on; the event loop's
\* ready queue is first in, first out, so a sleeper gets its turn.
Fairness == \A p \in Polls : WF_vars(Run(p)) /\ SF_vars(Wake(p))
LiveSpec == Spec /\ Fairness

-----------------------------------------------------------------------------
(* Properties *)

\* The semaphore accounts for every poll in progress, whatever way polls end: no
\* slot is lost, none is returned twice, and at most MaxPolls are in progress.
SlotsAccounted == free + Cardinality(InSlot) = MaxPolls

\* The counters never exceed the polls in progress: a client or a lease never
\* loses capacity for good, and can poll again once its polls have ended.
CountsNeverLeak ==
    /\ \A c \in Clients : perClient[c] <= Cardinality(OfClient(c))
    /\ \A l \in Leases : perLease[l] <= Cardinality(OfLease(l))

\* A code is on its way to the client only if the client was still authorized
\* after the scan that found it: the checkpoint before returning a code, which
\* only _wait_for_ondemand_code does without.
CodeAuthorized ==
    \A p \in Polls : pc[p] = "cleared" /\ Kind[lease[p]] # "on_demand" => ~lapsed[p]

\* "Not found" from a Microsoft inbox means that some scan did read it: one that is
\* unreachable for the whole poll is an error and not an empty answer.
EmptyMeansRead ==
    \A p \in Polls : result[p] = "empty" /\ Kind[lease[p]] = "microsoft" => read[p]

\* Every poll ends, whatever else the event loop has to do.
PollEnds == \A p \in Polls : pc[p] # "idle" ~> pc[p] = "idle"
=============================================================================
