----------------------------- MODULE EgressProxy -----------------------------
(***************************************************************************)
(* The proxies that mail and token requests go out through                 *)
(* (proxy_service.py): the sticky binding of a mailbox, the failover of a  *)
(* request, the health of a proxy, and the scheduled probes                *)
(* (proxy_scheduler.py), which one process at a time runs under a          *)
(* JobLease.                                                               *)
(*                                                                         *)
(* Workers resolve and record in transactions of their own                 *)
(* (session_factory); a probe loads the proxy, waits for the handshake and *)
(* records in one session.  No query of the service refreshes an object    *)
(* the session has loaded (no populate_existing), so a row that is locked  *)
(* for update after it was read is still seen as it was read, and only the *)
(* columns that differ from that are written.                              *)
(*                                                                         *)
(* There is one mailbox, whose requests compete.  The number of bound      *)
(* mailboxes only orders the candidates and is left out.                   *)
(***************************************************************************)
EXTENDS Naturals, FiniteSets

CONSTANTS
    Proxies,       \* their places in the order of priority and id
    Workers,       \* threads that send requests for the mailbox
    Runners,       \* processes whose scheduler probes the proxies
    Direct,        \* NULL: no proxy, and the owner of no job
    Required, AllowDirect,      \* the policy, which is enabled
    Threshold,     \* failure_threshold
    MaxFailures,   \* bound: requests and handshakes that fail
    BatchSize,     \* proxies a batch probes
    MaxFence,      \* bound: changes of the process that runs the batches
    MaxAdmin       \* bound: administrative changes

ASSUME ProxyAssumption ==
    /\ Proxies \subseteq Nat /\ Direct \notin Proxies \cup Runners
    /\ Required \in BOOLEAN /\ AllowDirect \in BOOLEAN
    /\ Threshold \in Nat \ {0}
    /\ BatchSize \in Nat \ {0}
    /\ MaxFailures \in Nat /\ MaxFence \in Nat /\ MaxAdmin \in Nat

VARIABLES
    rows,       \* the proxies that have a row in egress_proxies
    enabled,    \* those that are enabled
    health,     \* per proxy: the columns the observations write
    binding,    \* egress_proxy_id of the mailbox
    worker,     \* per worker
    batch,      \* per runner: the proxies still to probe, and the one being probed
    newest,     \* history, per proxy: the newest observation recorded
    job, handle,                \* the state of JobLease
    failures, changes           \* counters for the bounds

table == <<rows, enabled, health, newest>>
schedule == <<batch, job, handle>>
vars == <<table, binding, worker, schedule, failures, changes>>

Job == INSTANCE JobLease WITH None <- Direct

\* cooldown_until is NULL, to come or past.
Health == [status : {"unknown", "healthy", "cooldown"}, fails : Nat, until : {"null", "future", "past"}]
News == {"success", "failure", "probe_failure"}
Fresh == [status |-> "unknown", fails |-> 0, until |-> "null"]

Idle == [pc |-> "idle", retry |-> FALSE, via |-> Direct, failed |-> Direct, bound |-> Direct, on |-> FALSE,
         seen |-> Fresh, candidates |-> {}, ok |-> TRUE, ahead |-> {}, late |-> FALSE]
Resting == [pc |-> "idle", todo |-> {}, at |-> Direct, seen |-> Fresh]

TypeOK ==
    /\ rows \subseteq Proxies /\ enabled \subseteq rows
    /\ health \in [Proxies -> Health] /\ newest \in [Proxies -> News]
    /\ binding \in rows \cup {Direct}
    /\ worker \in [Workers -> [pc : {"idle", "failover", "rebind", "use", "record"}, retry : BOOLEAN,
                               via : Proxies \cup {Direct}, failed : Proxies \cup {Direct},
                               bound : Proxies \cup {Direct}, on : BOOLEAN, seen : Health,
                               candidates : SUBSET Proxies, ok : BOOLEAN,
                               ahead : SUBSET Workers, late : BOOLEAN]]
    /\ batch \in [Runners -> [pc : {"idle", "next", "handshake", "dead"}, todo : SUBSET Proxies,
                              at : Proxies \cup {Direct}, seen : Health]]
    /\ Job!JobTypeOK
    /\ failures \in Nat /\ changes \in Nat

Init ==
    /\ rows = Proxies /\ enabled = Proxies
    /\ health = [p \in Proxies |-> Fresh] /\ newest = [p \in Proxies |-> "success"]
    /\ binding = Direct
    /\ worker = [w \in Workers |-> Idle]
    /\ batch = [r \in Runners |-> Resting]
    /\ Job!JobInit
    /\ failures = 0 /\ changes = 0

-----------------------------------------------------------------------------
(* Health *)

\* _is_proxy_available, of an enabled proxy
Usable(h) == h.status = "cooldown" => h.until = "past"

Available(p) == p \in enabled /\ Usable(health[p])

\* The query of _select_candidate takes a cooldown without an end for one that is over.
Ranked == {p \in enabled : health[p].status = "cooldown" => health[p].until # "future"}

\* Mutant: the outcome itself is stored.
ObservedOutcome(seen, ok) ==
    IF ok THEN [seen EXCEPT !.status = "success", !.fails = 0, !.until = "null"]
    ELSE [seen EXCEPT !.status = "failure", !.fails = @ + 1]

\* record_proxy_observation: what a success and a failure make of the health that was seen.
Observed(seen, ok) ==
    IF ok THEN [status |-> "healthy", fails |-> 0, until |-> "null"]
    ELSE IF seen.fails + 1 >= Threshold
    THEN [status |-> "cooldown", fails |-> seen.fails + 1, until |-> "future"]
    ELSE [status |-> "unknown", fails |-> seen.fails + 1, until |-> seen.until]

\* The flush: columns that differ from what was loaded are written, a new end of a cooldown
\* always.
Flush(row, seen, new) ==
    [status |-> IF new.status # seen.status THEN new.status ELSE row.status,
     fails |-> IF new.fails # seen.fails THEN new.fails ELSE row.fails,
     until |-> IF new.until # seen.until \/ new.status = "cooldown" THEN new.until ELSE row.until]

\* Time passes, for the row and for what sessions have loaded of it.
CooldownElapses(p) ==
    LET past(h) == [h EXCEPT !.until = IF @ = "future" THEN "past" ELSE @]
    IN  /\ health[p].until = "future"
        /\ health' = [health EXCEPT ![p] = past(@)]
        /\ worker' = [w \in Workers |-> IF worker[w].bound = p THEN [worker[w] EXCEPT !.seen = past(@)]
                                        ELSE worker[w]]
        /\ batch' = [r \in Runners |-> IF batch[r].at = p THEN [batch[r] EXCEPT !.seen = past(@)]
                                       ELSE batch[r]]
        /\ UNCHANGED <<rows, enabled, newest, binding, job, handle, failures, changes>>

-----------------------------------------------------------------------------
(* Requests: _execute_with_proxy_retry of the OAuth client and connect of the IMAP client *)

\* resolve_for_mailbox begins: one consistent read of the mailbox, its proxy and the ranked
\* candidates.  A bound proxy that is available is used again, except by a failover.
Resolve(w) ==
    LET me == worker[w]
        sticky == ~me.retry /\ binding # Direct /\ Available(binding)
    IN  /\ me.pc \in {"idle", "failover"}
        /\ worker' = [worker EXCEPT ![w] =
              IF sticky THEN [me EXCEPT !.pc = "use", !.via = binding]
              ELSE [me EXCEPT !.pc = "rebind", !.bound = binding, !.on = binding \in enabled,
                              !.seen = IF binding = Direct THEN Fresh ELSE health[binding],
                              !.candidates = Ranked \ {me.failed}]]
        /\ UNCHANGED <<table, binding, schedule, failures, changes>>

\* The mailbox is locked and the sticky check repeated, on the mailbox and the proxy as they
\* were loaded before.
StillSticky(w) ==
    LET me == worker[w] IN ~me.retry /\ me.bound # Direct /\ me.on /\ Usable(me.seen)

\* What the session sees of a candidate that it locks: the row, unless it had loaded it.
Locked(w, p) == IF p = worker[w].bound THEN worker[w].seen ELSE health[p]

\* Mutant: a failover may choose the proxy that has just failed.
SelectableAgain(w) == {p \in enabled : Usable(Locked(w, p))}

Selectable(w) ==
    {p \in worker[w].candidates \cap rows : (p \in enabled \/ p = worker[w].bound) /\ Usable(Locked(w, p))}

\* Somebody else may hold the lock of a proxy's row, which SKIP LOCKED passes over.
Contended(w) ==
    \/ \E v \in Workers \ {w} : worker[v].pc \in {"rebind", "record"}
    \/ \E r \in Runners : batch[r].pc = "handshake"

Use(w, via) ==
    worker' = [worker EXCEPT ![w] = [Idle EXCEPT !.pc = "use", !.retry = worker[w].retry,
                                                 !.failed = worker[w].failed, !.via = via]]

\* _update_binding compares with the mailbox as it was loaded.
UpdateBinding(w, via) == binding' = IF via # worker[w].bound THEN via ELSE binding

RebindSticky(w) ==
    /\ worker[w].pc = "rebind" /\ StillSticky(w)
    /\ Use(w, worker[w].bound)
    /\ UNCHANGED <<table, binding, schedule, failures, changes>>

\* _select_candidate and _update_binding; a cooldown that is over is ended.
RebindTo(w, p) ==
    LET seen == Locked(w, p)
        new == IF seen.status = "cooldown" THEN [seen EXCEPT !.status = "unknown", !.until = "null"] ELSE seen
    IN  /\ worker[w].pc = "rebind" /\ ~StillSticky(w) /\ p \in Selectable(w)
        /\ health' = [health EXCEPT ![p] = Flush(@, seen, new)]
        /\ UpdateBinding(w, p) /\ Use(w, p)
        /\ UNCHANGED <<rows, enabled, newest, schedule, failures, changes>>

\* No candidate, after _select_candidate_with_retry: the request goes out directly or not.
RebindNone(w) ==
    /\ worker[w].pc = "rebind" /\ ~StillSticky(w)
    /\ Selectable(w) = {} \/ Contended(w)
    /\ IF AllowDirect /\ ~Required THEN UpdateBinding(w, Direct) /\ Use(w, Direct)
       ELSE worker' = [worker EXCEPT ![w] = Idle] /\ UNCHANGED binding
    /\ UNCHANGED <<table, schedule, failures, changes>>

\* record_proxy_success or record_proxy_failure takes the time before it locks the row;
\* ahead: the workers whose observations of this proxy are older.
Observe(w, ok) ==
    [worker[w] EXCEPT !.pc = "record", !.ok = ok,
        !.ahead = {v \in Workers : worker[v].pc = "record" /\ worker[v].via = worker[w].via}]

Succeeds(w) ==
    /\ worker[w].pc = "use"
    /\ worker' = [worker EXCEPT ![w] = IF @.via = Direct THEN Idle ELSE Observe(w, TRUE)]
    /\ UNCHANGED <<table, binding, schedule, failures, changes>>

\* EgressProxyTransportError: the first time it is recorded, the second time not.
TransportFails(w) ==
    /\ worker[w].pc = "use" /\ failures < MaxFailures
    /\ failures' = failures + 1
    /\ worker' = [worker EXCEPT ![w] = IF @.via = Direct \/ @.retry THEN Idle ELSE Observe(w, FALSE)]
    /\ UNCHANGED <<table, binding, schedule, changes>>

\* Any other error says nothing about the proxy.
Errs(w) ==
    /\ worker[w].pc = "use"
    /\ worker' = [worker EXCEPT ![w] = Idle]
    /\ UNCHANGED <<table, binding, schedule, failures, changes>>

\* Mutant: the time of an observation is not compared with the last one.
AppliesAlways(w) == worker[w].via \in rows

\* An observation that is older than the last one recorded is dropped.
Applies(w) == worker[w].via \in rows /\ ~worker[w].late

\* record_proxy_observation in a session of its own.  A failed request then fails over.
Record(w) ==
    LET me == worker[w]
        last == me.via \in rows /\ ~me.late
    IN  /\ me.pc = "record"
        /\ health' = [health EXCEPT ![me.via] = IF Applies(w) THEN Observed(@, me.ok) ELSE @]
        /\ newest' = [newest EXCEPT ![me.via] = IF ~last THEN @
                                              ELSE IF me.ok THEN "success" ELSE "failure"]
        /\ worker' = [v \in Workers |->
              IF v # w THEN [worker[v] EXCEPT !.ahead = @ \ {w}, !.late = @ \/ (last /\ v \in me.ahead)]
              ELSE IF me.ok THEN Idle
              ELSE [Idle EXCEPT !.pc = "failover", !.retry = TRUE, !.failed = me.via]]
        /\ UNCHANGED <<rows, enabled, binding, schedule, failures, changes>>

-----------------------------------------------------------------------------
(* Probes: run_once of the scheduler.  An administrator's test does the same for one proxy, *)
(* without the lease.                                                                       *)

\* The query of run_once: the first of the enabled proxies, ordered and limited.
FirstEnabled == {p \in enabled : Cardinality({q \in enabled : q < p}) < BatchSize}

\* Under the job lease.
StartBatch(r) ==
    /\ batch[r].pc = "idle" /\ Job!TokenFor(r) <= MaxFence
    /\ Job!TryAcquire(r)
    /\ batch' = [batch EXCEPT ![r].pc = "next", ![r].todo = FirstEnabled]
    /\ UNCHANGED <<table, binding, worker, failures, changes>>

\* Mutant: proxies in cooldown are not probed.
LoadUsable(r, p) ==
    /\ batch[r].pc = "next" /\ p \in batch[r].todo
    /\ batch' = [batch EXCEPT ![r] =
          IF p \in rows /\ health[p].status # "cooldown"
          THEN [pc |-> "handshake", todo |-> batch[r].todo \ {p}, at |-> p, seen |-> health[p]]
          ELSE [batch[r] EXCEPT !.todo = @ \ {p}]]
    /\ UNCHANGED <<table, binding, worker, job, handle, failures, changes>>

\* test_proxy_connectivity loads the proxy and waits for the handshake ...
Load(r, p) ==
    LET rest == batch[r].todo \ {p}
    IN  /\ batch[r].pc = "next" /\ p \in batch[r].todo
        /\ batch' = [batch EXCEPT ![r] =
              IF p \in rows THEN [pc |-> "handshake", todo |-> rest, at |-> p, seen |-> health[p]]
              ELSE [batch[r] EXCEPT !.todo = rest]]
        /\ UNCHANGED <<table, binding, worker, job, handle, failures, changes>>

\* ... and records what it found, from the proxy it loaded: no observation is older.
RecordProbe(r, ok) ==
    LET p == batch[r].at
        seen == batch[r].seen
    IN  /\ batch[r].pc = "handshake"
        /\ ok \/ failures < MaxFailures
        /\ failures' = IF ok THEN failures ELSE failures + 1
        /\ health' = [health EXCEPT ![p] = IF p \in rows THEN Flush(@, seen, Observed(seen, ok)) ELSE @]
        /\ newest' = [newest EXCEPT ![p] = IF ok THEN "success" ELSE "probe_failure"]
        /\ worker' = [w \in Workers |-> IF worker[w].pc = "record" /\ worker[w].via = p /\ p \in rows
                                        THEN [worker[w] EXCEPT !.late = TRUE] ELSE worker[w]]
        /\ batch' = [batch EXCEPT ![r] = [Resting EXCEPT !.pc = "next", !.todo = batch[r].todo]]
        /\ UNCHANGED <<rows, enabled, binding, job, handle, changes>>

\* The finally of run_once releases the lease, or cannot.
Finish(r) ==
    /\ batch[r].pc = "next" /\ batch[r].todo = {}
    /\ batch' = [batch EXCEPT ![r] = Resting]
    /\ Job!Release(r) \/ Job!Abandon(r)
    /\ UNCHANGED <<table, binding, worker, failures, changes>>

\* A process stops in its batch.  Its name dies with it; another process goes on (and the
\* bound leaves it a change of owner).
Dies(r) ==
    /\ batch[r].pc \in {"next", "handshake"} /\ job.fence < MaxFence
    /\ \E s \in Runners \ {r} : batch[s].pc # "dead"
    /\ batch' = [batch EXCEPT ![r] = [Resting EXCEPT !.pc = "dead"]]
    /\ Job!Abandon(r)
    /\ UNCHANGED <<table, binding, worker, failures, changes>>

JobLeaseLapses ==
    /\ Job!LeaseLapses
    /\ UNCHANGED <<table, binding, worker, batch, failures, changes>>

-----------------------------------------------------------------------------
(* Administration of proxies *)

Change == changes < MaxAdmin /\ changes' = changes + 1 /\ UNCHANGED <<worker, schedule, failures>>

SetEnabled(p) ==
    /\ Change /\ p \in rows
    /\ enabled' = IF p \in enabled THEN enabled \ {p} ELSE enabled \cup {p}
    /\ UNCHANGED <<rows, health, newest, binding>>

\* recover_proxy
Recover(p) ==
    /\ Change /\ p \in rows /\ health[p] # Fresh
    /\ health' = [health EXCEPT ![p] = Fresh]
    /\ UNCHANGED <<rows, enabled, newest, binding>>

\* With force, or of a proxy without mailboxes.
Delete(p) ==
    /\ Change /\ p \in rows
    /\ rows' = rows \ {p} /\ enabled' = enabled \ {p}
    /\ binding' = IF binding = p THEN Direct ELSE binding
    /\ UNCHANGED <<health, newest>>

\* bind_mailbox_to_proxy
AdminBind(p) ==
    /\ Change /\ p # binding
    /\ IF p = Direct THEN ~Required ELSE Available(p)
    /\ binding' = p
    /\ UNCHANGED table

-----------------------------------------------------------------------------

Request(w) ==
    \/ Resolve(w) \/ RebindSticky(w) \/ RebindNone(w) \/ Succeeds(w) \/ TransportFails(w)
    \/ Errs(w) \/ Record(w)
    \/ \E p \in Proxies : RebindTo(w, p)

Probe(r) ==
    \/ \E p \in Proxies : Load(r, p)
    \/ \E ok \in BOOLEAN : RecordProbe(r, ok)
    \/ Finish(r)

Admin(p) == SetEnabled(p) \/ Recover(p) \/ Delete(p)

Next ==
    \/ \E w \in Workers : Request(w)
    \/ \E r \in Runners : StartBatch(r) \/ Probe(r) \/ Dies(r)
    \/ \E p \in Proxies : CooldownElapses(p) \/ Admin(p)
    \/ \E p \in Proxies \cup {Direct} : AdminBind(p)
    \/ JobLeaseLapses

Spec == Init /\ [][Next]_vars

\* Time passes, and schedulers run their jobs again and again.
LiveSpec ==
    /\ Spec
    /\ \A p \in Proxies : WF_vars(CooldownElapses(p))
    /\ \A r \in Runners : WF_vars(Probe(r)) /\ WF_vars(StartBatch(r))
    /\ WF_vars(JobLeaseLapses)

-----------------------------------------------------------------------------
(* Properties *)

\* Two batches never run under one fencing token, even when the first outlived its lease,
\* and the newest token belongs to the owner the row of the job names.
OneBatchPerToken == Job!OneBatchPerToken

\* The late release of a batch that was overtaken leaves its successor's lease alone.
LateReleaseHarmless == Job!LateReleaseHarmless

\* A request that fails over does not go out through the proxy that failed it, whoever has
\* bound the mailbox to that proxy in the meantime.
FailoverSwitches ==
    \A w \in Workers : worker[w].pc = "use" /\ worker[w].retry => worker[w].via # worker[w].failed

\* Whatever the order in which requests record what they met, and whatever the probes between
\* them record, a proxy is not called healthy when the newest observation of it is the failure
\* of a request.  (The failure of a probe can be lost: the probe compares with the row it
\* loaded before its handshake, and writes only what differs.)
HealthyIsNews == \A p \in rows : health[p].status = "healthy" => newest[p] # "failure"

\* An enabled proxy that the batches reach is not out of use for good, whatever stale
\* observations wrote over its row (even a cooldown without an end) and whichever processes
\* died: once requests stop failing, a probe or time makes it usable.
UsableAgain ==
    \A p \in Proxies : p \in FirstEnabled /\ ~Usable(health[p])
                        ~> Usable(health[p]) \/ p \notin FirstEnabled
=============================================================================
