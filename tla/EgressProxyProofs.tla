-------------------------- MODULE EgressProxyProofs --------------------------
(***************************************************************************)
(* Proofs about EgressProxy and the JobLease it is composed with, for any  *)
(* number of proxies, workers and runners and any failures.                *)
(***************************************************************************)
EXTENDS EgressProxy, TLAPS

WorkerType == [pc : {"idle", "failover", "rebind", "use", "record"}, retry : BOOLEAN,
               via : Proxies \cup {Direct}, failed : Proxies \cup {Direct},
               bound : Proxies \cup {Direct}, on : BOOLEAN, seen : Health,
               candidates : SUBSET Proxies, ok : BOOLEAN,
               ahead : SUBSET Workers, late : BOOLEAN]
BatchType == [pc : {"idle", "next", "handshake", "dead"}, todo : SUBSET Proxies,
              at : Proxies \cup {Direct}, seen : Health]

-----------------------------------------------------------------------------
(* The job lease *)

LEMMA JobInitTyped == Job!JobInit => Job!JobTypeOK /\ Job!OneBatchPerToken
BY DEF Job!JobInit, Job!JobTypeOK, Job!OneBatchPerToken

\* A step of the model moves the job lease by one of its operations or not at all.
JobStep ==
    \/ \E r \in Runners : Job!TryAcquire(r) \/ Job!Release(r) \/ Job!Abandon(r)
    \/ Job!LeaseLapses
    \/ UNCHANGED <<job, handle>>

LEMMA JobSteps == ASSUME [Next]_vars PROVE JobStep
<1>1. CASE UNCHANGED <<job, handle>>
  BY <1>1 DEF JobStep
<1>2. ASSUME NEW w \in Workers, Request(w) PROVE UNCHANGED <<job, handle>>
  BY <1>2 DEF Request, Resolve, RebindSticky, RebindNone, Succeeds, TransportFails, Errs, Record,
              RebindTo, schedule
<1>3. ASSUME NEW r \in Runners, StartBatch(r) \/ Probe(r) \/ Dies(r) PROVE JobStep
  <2>1. CASE StartBatch(r) \/ Finish(r) \/ Dies(r)
    BY <2>1 DEF StartBatch, Finish, Dies, JobStep
  <2>2. CASE \E p \in Proxies : Load(r, p)
    BY <2>2 DEF Load, JobStep
  <2>3. CASE \E ok \in BOOLEAN : RecordProbe(r, ok)
    BY <2>3 DEF RecordProbe, JobStep
  <2> QED
    BY <1>3, <2>1, <2>2, <2>3 DEF Probe
<1>4. ASSUME NEW p, CooldownElapses(p) \/ Admin(p) \/ AdminBind(p) PROVE UNCHANGED <<job, handle>>
  BY <1>4 DEF CooldownElapses, Admin, SetEnabled, Recover, Delete, AdminBind, Change, schedule
<1>5. CASE JobLeaseLapses
  BY <1>5 DEF JobLeaseLapses, JobStep
<1>6. CASE UNCHANGED vars
  BY <1>1, <1>6 DEF vars, schedule
<1> QED
  BY <1>1, <1>2, <1>3, <1>4, <1>5, <1>6 DEF Next

LEMMA JobStepKeeps ==
    ASSUME Job!JobTypeOK, Job!OneBatchPerToken, JobStep
    PROVE  Job!JobTypeOK' /\ Job!OneBatchPerToken'
<1>0. /\ job \in [owner : Runners \cup {Direct}, fence : Nat, live : BOOLEAN]
      /\ handle \in [Runners -> Nat] /\ job.fence \in Nat /\ job.owner \in Runners \cup {Direct}
      /\ job.live \in BOOLEAN
  BY DEF Job!JobTypeOK
<1>1. ASSUME NEW r \in Runners, Job!TryAcquire(r) PROVE Job!JobTypeOK' /\ Job!OneBatchPerToken'
  <2> DEFINE t == Job!TokenFor(r)
  <2>1. t \in Nat /\ job.fence <= t /\ (t = job.fence => job.owner = r)
    BY <1>0 DEF Job!TokenFor
  <2>2. /\ job' = [owner |-> r, fence |-> t, live |-> TRUE]
        /\ handle' = [handle EXCEPT ![r] = t] /\ handle[r] = 0
    BY <1>1 DEF Job!TryAcquire
  <2> HIDE DEF t
  <2>3. Job!JobTypeOK'
    BY <1>0, <2>1, <2>2 DEF Job!JobTypeOK
  <2>4. Job!OneBatchPerToken'
    <3> SUFFICES ASSUME NEW s \in Runners, handle'[s] # 0
                 PROVE  handle'[s] <= job'.fence /\ (handle'[s] = job'.fence => job'.owner = s)
      BY DEF Job!OneBatchPerToken
    <3>1. CASE s = r
      BY <1>0, <2>1, <2>2, <3>1
    <3>2. CASE s # r
      <4>1. handle'[s] = handle[s] /\ handle[s] \in Nat /\ job'.fence = t /\ job'.owner = r
        BY <1>0, <2>2, <3>2
      <4>2. handle[s] <= job.fence /\ (handle[s] = job.fence => job.owner = s)
        BY <4>1 DEF Job!OneBatchPerToken
      <4> QED
        BY <1>0, <2>1, <3>2, <4>1, <4>2
    <3> QED
      BY <3>1, <3>2
  <2> QED
    BY <2>3, <2>4
<1>2. ASSUME job'.owner = job.owner, job'.fence = job.fence,
             job' \in [owner : Runners \cup {Direct}, fence : Nat, live : BOOLEAN],
             handle' \in [Runners -> Nat], \A s \in Runners : handle'[s] \in {0, handle[s]}
      PROVE  Job!JobTypeOK' /\ Job!OneBatchPerToken'
  BY <1>2 DEF Job!JobTypeOK, Job!OneBatchPerToken
<1>3. [job EXCEPT !.live = FALSE] \in [owner : Runners \cup {Direct}, fence : Nat, live : BOOLEAN]
      /\ [job EXCEPT !.live = FALSE].owner = job.owner /\ [job EXCEPT !.live = FALSE].fence = job.fence
  BY <1>0
<1>4. ASSUME NEW r \in Runners, Job!Release(r) \/ Job!Abandon(r)
      PROVE  Job!JobTypeOK' /\ Job!OneBatchPerToken'
  <2>1. handle' = [handle EXCEPT ![r] = 0] /\ job' \in {job, [job EXCEPT !.live = FALSE]}
    BY <1>4 DEF Job!Release, Job!Abandon
  <2>2. handle' \in [Runners -> Nat] /\ \A s \in Runners : handle'[s] \in {0, handle[s]}
    BY <1>0, <2>1
  <2> QED
    BY <1>0, <1>2, <1>3, <2>1, <2>2
<1>5. CASE Job!LeaseLapses
  BY <1>0, <1>2, <1>3, <1>5 DEF Job!LeaseLapses
<1>6. CASE UNCHANGED <<job, handle>>
  BY <1>6 DEF Job!JobTypeOK, Job!OneBatchPerToken
<1> QED
  BY <1>1, <1>4, <1>5, <1>6 DEF JobStep

LEMMA AlwaysJobInv == Spec => [](Job!JobTypeOK /\ Job!OneBatchPerToken)
<1>1. Init => Job!JobTypeOK /\ Job!OneBatchPerToken
  BY JobInitTyped DEF Init
<1>2. Job!JobTypeOK /\ Job!OneBatchPerToken /\ [Next]_vars => Job!JobTypeOK' /\ Job!OneBatchPerToken'
  BY JobSteps, JobStepKeeps
<1> QED
  BY <1>1, <1>2, PTL DEF Spec

\* No two batches of probes ever run under the same fencing token, however many processes
\* die or outlive their lease.
THEOREM FencingTokensUnique == Spec => []OneBatchPerToken
<1>1. Job!JobTypeOK /\ Job!OneBatchPerToken => OneBatchPerToken
  BY DEF OneBatchPerToken
<1> QED
  BY <1>1, AlwaysJobInv, PTL

\* A live lease of the job is ended only by its own holder, or by time.
THEOREM LateReleaseIgnored == Spec => LateReleaseHarmless
<1>1. Job!JobTypeOK /\ [Next]_vars =>
        [job.live /\ ~job'.live /\ handle' # handle =>
            job.owner # Direct /\ handle[job.owner] = job.fence /\ handle'[job.owner] = 0]_<<job, handle>>
  <2> SUFFICES ASSUME Job!JobTypeOK, JobStep, job.live, ~job'.live, handle' # handle
               PROVE  job.owner # Direct /\ handle[job.owner] = job.fence /\ handle'[job.owner] = 0
    BY JobSteps
  <2>1. PICK r \in Runners : Job!Release(r)
    <3>1. ASSUME NEW r \in Runners, Job!TryAcquire(r) PROVE FALSE
      BY <3>1 DEF Job!TryAcquire
    <3>2. ASSUME NEW r \in Runners, Job!Abandon(r) PROVE FALSE
      BY <3>2 DEF Job!Abandon
    <3>3. CASE Job!LeaseLapses
      BY <3>3 DEF Job!LeaseLapses
    <3> QED
      BY <3>1, <3>2, <3>3 DEF JobStep
  <2>2. job.owner = r /\ job.fence = handle[r]
    BY <2>1 DEF Job!Release
  <2>3. handle'[r] = 0
    BY <2>1 DEF Job!Release, Job!JobTypeOK
  <2> QED
    BY <2>2, <2>3, ProxyAssumption
<1>2. Job!JobTypeOK /\ Job!OneBatchPerToken => Job!JobTypeOK
  OBVIOUS
<1> QED
  BY <1>1, <1>2, AlwaysJobInv, PTL DEF Spec, LateReleaseHarmless, Job!LateReleaseHarmless, Job!jobVars

-----------------------------------------------------------------------------
(* Requests *)

\* What a request's course says of it: a failover knows the proxy that failed, which is none
\* of its candidates and not the one it uses.
OnCourse(r) ==
    /\ r.pc = "idle" => ~r.retry
    /\ r.pc = "record" => r.via \in Proxies
    /\ r.retry /\ r.pc \in {"failover", "rebind", "use"} => r.failed \in Proxies
    /\ r.retry /\ r.pc = "rebind" => r.failed \notin r.candidates
    /\ r.retry /\ r.pc = "use" => r.via # r.failed

ProxyInv ==
    /\ TypeOK
    /\ \A w \in Workers : OnCourse(worker[w])
    /\ \A r \in Runners : batch[r].pc = "handshake" => batch[r].at \in Proxies

LEMMA FreshTyped == Fresh \in Health
BY DEF Fresh, Health

LEMMA IdleTyped == Idle \in WorkerType /\ OnCourse(Idle)
<1>1. Idle \in WorkerType
  BY FreshTyped DEF Idle, WorkerType
<1> QED
  BY <1>1 DEF Idle, OnCourse

LEMMA RestingTyped == Resting \in BatchType /\ Resting.pc = "idle"
BY FreshTyped DEF Resting, BatchType

LEMMA ObservedTyped ==
    ASSUME NEW h \in Health, NEW ok \in BOOLEAN PROVE Observed(h, ok) \in Health
<1>1. h.fails + 1 \in Nat /\ h.until \in {"null", "future", "past"}
  BY DEF Health
<1> QED
  BY <1>1 DEF Observed, Health

LEMMA FlushTyped ==
    ASSUME NEW row \in Health, NEW seen \in Health, NEW new \in Health
    PROVE  Flush(row, seen, new) \in Health
BY DEF Flush, Health

\* One worker moves.
LEMMA WorkerMoves ==
    ASSUME ProxyInv, NEW w \in Workers, NEW r \in WorkerType, OnCourse(r),
           worker' = [worker EXCEPT ![w] = r]
    PROVE  worker' \in [Workers -> WorkerType] /\ \A v \in Workers : OnCourse(worker'[v])
<1>1. worker'[w] = r /\ \A v \in Workers \ {w} : worker'[v] = worker[v]
  BY DEF ProxyInv, TypeOK
<1> QED
  BY <1>1 DEF ProxyInv, TypeOK, WorkerType

\* A step that leaves the schedule alone and keeps the workers on their course.
LEMMA RequestStep ==
    ASSUME ProxyInv, worker' \in [Workers -> WorkerType], \A v \in Workers : OnCourse(worker'[v]),
           health' \in [Proxies -> Health], newest' \in [Proxies -> News],
           rows' \subseteq Proxies, enabled' \subseteq rows', binding' \in rows' \cup {Direct},
           UNCHANGED schedule, failures' \in Nat, changes' \in Nat
    PROVE  ProxyInv'
<1>1. TypeOK'
  BY DEF ProxyInv, TypeOK, WorkerType, schedule, Job!JobTypeOK
<1> QED
  BY <1>1 DEF ProxyInv, schedule

LEMMA LockedTyped ==
    ASSUME ProxyInv, NEW w \in Workers, NEW p \in Proxies PROVE Locked(w, p) \in Health
BY DEF ProxyInv, TypeOK, Locked

LEMMA UseMoves ==
    ASSUME ProxyInv, NEW w \in Workers, NEW via \in Proxies \cup {Direct}, Use(w, via),
           worker[w].retry => via # worker[w].failed, worker[w].pc = "rebind"
    PROVE  worker' \in [Workers -> WorkerType] /\ \A v \in Workers : OnCourse(worker'[v])
<1> DEFINE r == [Idle EXCEPT !.pc = "use", !.retry = worker[w].retry, !.failed = worker[w].failed, !.via = via]
<1>1. /\ worker[w].retry \in BOOLEAN /\ worker[w].failed \in Proxies \cup {Direct}
      /\ worker[w].retry => worker[w].failed \in Proxies
  BY DEF ProxyInv, TypeOK, OnCourse
<1>2. /\ r \in WorkerType /\ r.pc = "use" /\ r.via = via /\ r.failed = worker[w].failed
      /\ r.retry = worker[w].retry
  BY <1>1, IdleTyped DEF WorkerType
<1>3. worker' = [worker EXCEPT ![w] = r]
  BY DEF Use
<1> HIDE DEF r
<1>4. OnCourse(r)
  BY <1>1, <1>2 DEF OnCourse
<1> QED
  BY <1>2, <1>3, <1>4, WorkerMoves

LEMMA ResolveStep ==
    ASSUME ProxyInv, NEW w \in Workers, Resolve(w) PROVE ProxyInv'
<1> DEFINE me == worker[w]
           a == [me EXCEPT !.pc = "use", !.via = binding]
           seen == IF binding = Direct THEN Fresh ELSE health[binding]
           cs == Ranked \ {me.failed}
           b == [me EXCEPT !.pc = "rebind", !.bound = binding, !.on = binding \in enabled,
                           !.seen = seen, !.candidates = cs]
<1>0. /\ me \in WorkerType /\ binding \in Proxies \cup {Direct} /\ seen \in Health /\ cs \in SUBSET Proxies
      /\ (binding \in enabled) \in BOOLEAN
  BY FreshTyped DEF ProxyInv, TypeOK, WorkerType, Ranked
<1>1. me.pc \in {"idle", "failover"} /\ OnCourse(me)
  BY DEF Resolve, ProxyInv
<1>2. \/ ~me.retry /\ worker' = [worker EXCEPT ![w] = a]
      \/ worker' = [worker EXCEPT ![w] = b]
  BY DEF Resolve
<1> HIDE DEF me, seen, cs
<1>3. CASE ~me.retry /\ worker' = [worker EXCEPT ![w] = a]
  <2>1. a \in WorkerType /\ a.pc = "use" /\ a.retry = me.retry
    BY <1>0 DEF WorkerType
  <2> HIDE DEF a
  <2>2. OnCourse(a)
    BY <1>3, <2>1 DEF OnCourse
  <2> QED
    BY <1>3, <2>1, <2>2, WorkerMoves, RequestStep DEF Resolve, table, ProxyInv, TypeOK
<1>4. CASE worker' = [worker EXCEPT ![w] = b]
  <2>1. b \in WorkerType /\ b.pc = "rebind" /\ b.retry = me.retry /\ b.failed = me.failed /\ b.candidates = cs
    BY <1>0 DEF WorkerType
  <2>2. me.failed \notin cs
    BY DEF cs
  <2> HIDE DEF b
  <2>3. OnCourse(b)
    BY <1>1, <2>1, <2>2 DEF OnCourse
  <2> QED
    BY <1>4, <2>1, <2>3, WorkerMoves, RequestStep DEF Resolve, table, ProxyInv, TypeOK
<1> QED
  BY <1>2, <1>3, <1>4

LEMMA RebindStep ==
    ASSUME ProxyInv, NEW w \in Workers,
           RebindSticky(w) \/ RebindNone(w) \/ \E p \in Proxies : RebindTo(w, p)
    PROVE  ProxyInv'
<1>0. worker[w] \in WorkerType /\ OnCourse(worker[w])
  BY DEF ProxyInv, TypeOK, WorkerType
<1>1. CASE RebindSticky(w)
  <2>1. worker[w].bound \in Proxies \cup {Direct} /\ ~worker[w].retry
    BY <1>0, <1>1 DEF RebindSticky, StillSticky, WorkerType
  <2> QED
    BY <1>1, <2>1, UseMoves, RequestStep DEF RebindSticky, table, ProxyInv, TypeOK
<1>2. CASE RebindNone(w)
  <2>1. CASE UpdateBinding(w, Direct) /\ Use(w, Direct)
    <3>1. worker[w].retry => Direct # worker[w].failed
      BY <1>0, <1>2, ProxyAssumption DEF RebindNone, OnCourse
    <3>2. worker' \in [Workers -> WorkerType] /\ \A v \in Workers : OnCourse(worker'[v])
      BY <1>2, <2>1, <3>1, UseMoves DEF RebindNone
    <3>3. binding' \in rows \cup {Direct}
      BY <2>1 DEF UpdateBinding, ProxyInv, TypeOK
    <3> QED
      BY <1>2, <3>2, <3>3, RequestStep DEF RebindNone, table, ProxyInv, TypeOK
  <2>2. CASE worker' = [worker EXCEPT ![w] = Idle] /\ UNCHANGED binding
    BY <1>2, <2>2, IdleTyped, WorkerMoves, RequestStep DEF RebindNone, table, ProxyInv, TypeOK
  <2> QED
    BY <1>2, <2>1, <2>2 DEF RebindNone
<1>3. ASSUME NEW p \in Proxies, RebindTo(w, p) PROVE ProxyInv'
  <2> DEFINE seen == Locked(w, p)
             new == IF seen.status = "cooldown" THEN [seen EXCEPT !.status = "unknown", !.until = "null"] ELSE seen
  <2>1. seen \in Health
    BY LockedTyped
  <2> HIDE DEF seen
  <2>2. new \in Health
    BY <2>1 DEF Health
  <2> HIDE DEF new
  <2>3. health' = [health EXCEPT ![p] = Flush(health[p], seen, new)]
    BY <1>3 DEF RebindTo, seen, new
  <2>4. health' \in [Proxies -> Health]
    BY <2>1, <2>2, <2>3, FlushTyped DEF ProxyInv, TypeOK
  <2>5. p \in worker[w].candidates /\ p \in rows /\ worker[w].pc = "rebind"
    BY <1>3 DEF RebindTo, Selectable
  <2>6. worker[w].retry => p # worker[w].failed
    BY <1>0, <2>5 DEF OnCourse
  <2>7. worker' \in [Workers -> WorkerType] /\ \A v \in Workers : OnCourse(worker'[v])
    BY <1>3, <2>5, <2>6, UseMoves DEF RebindTo
  <2>8. binding' \in rows \cup {Direct}
    BY <1>3, <2>5 DEF RebindTo, UpdateBinding, ProxyInv, TypeOK
  <2> QED
    BY <1>3, <2>4, <2>7, <2>8, RequestStep DEF RebindTo, ProxyInv, TypeOK
<1> QED
  BY <1>1, <1>2, <1>3

LEMMA ObserveTyped ==
    ASSUME ProxyInv, NEW w \in Workers, NEW ok \in BOOLEAN, worker[w].via \in Proxies
    PROVE  Observe(w, ok) \in WorkerType /\ OnCourse(Observe(w, ok))
<1> DEFINE ah == {v \in Workers : worker[v].pc = "record" /\ worker[v].via = worker[w].via}
           r == [worker[w] EXCEPT !.pc = "record", !.ok = ok, !.ahead = ah]
<1>1. worker[w] \in WorkerType /\ ah \in SUBSET Workers
  BY DEF ProxyInv, TypeOK, WorkerType
<1>2. Observe(w, ok) = r
  BY DEF Observe
<1> HIDE DEF ah
<1>3. r \in WorkerType /\ r.pc = "record" /\ r.via = worker[w].via
  BY <1>1 DEF WorkerType
<1> HIDE DEF r
<1>4. OnCourse(r)
  BY <1>3 DEF OnCourse
<1> QED
  BY <1>2, <1>3, <1>4

LEMMA UseStep ==
    ASSUME ProxyInv, NEW w \in Workers, Succeeds(w) \/ TransportFails(w) \/ Errs(w) PROVE ProxyInv'
<1>0. worker[w].via \in Proxies \cup {Direct} /\ failures \in Nat /\ worker \in [Workers -> WorkerType]
  BY DEF ProxyInv, TypeOK, WorkerType
<1>1. PICK r \in WorkerType : OnCourse(r) /\ worker' = [worker EXCEPT ![w] = r]
  <2>1. \/ worker' = [worker EXCEPT ![w] = Idle]
        \/ worker[w].via \in Proxies /\ \E ok \in BOOLEAN : worker' = [worker EXCEPT ![w] = Observe(w, ok)]
    BY <1>0 DEF Succeeds, TransportFails, Errs
  <2> QED
    BY <2>1, IdleTyped, ObserveTyped
<1>2. failures' \in Nat
  <2>1. failures' \in {failures, failures + 1}
    BY DEF Succeeds, TransportFails, Errs
  <2> QED
    BY <1>0, <2>1
<1> QED
  BY <1>1, <1>2, WorkerMoves, RequestStep DEF Succeeds, TransportFails, Errs, table, ProxyInv, TypeOK

LEMMA RecordStep ==
    ASSUME ProxyInv, NEW w \in Workers, Record(w) PROVE ProxyInv'
<1> DEFINE me == worker[w]
           last == me.via \in rows /\ ~me.late
           after == IF me.ok THEN Idle ELSE [Idle EXCEPT !.pc = "failover", !.retry = TRUE, !.failed = me.via]
<1>0. /\ me \in WorkerType /\ me.via \in Proxies /\ me.ok \in BOOLEAN
      /\ worker \in [Workers -> WorkerType] /\ health \in [Proxies -> Health] /\ newest \in [Proxies -> News]
  BY DEF Record, ProxyInv, TypeOK, WorkerType, OnCourse
<1>1. health' \in [Proxies -> Health]
  <2>1. \A h \in Health : (IF Applies(w) THEN Observed(h, me.ok) ELSE h) \in Health
    BY <1>0, ObservedTyped
  <2>2. health' = [health EXCEPT ![me.via] = IF Applies(w) THEN Observed(health[me.via], me.ok) ELSE health[me.via]]
    BY DEF Record
  <2> QED
    BY <1>0, <2>1, <2>2
<1>2. newest' \in [Proxies -> News]
  <2>1. newest' = [newest EXCEPT ![me.via] = IF ~last THEN newest[me.via]
                                            ELSE IF me.ok THEN "success" ELSE "failure"]
    BY DEF Record
  <2>2. (IF ~last THEN newest[me.via] ELSE IF me.ok THEN "success" ELSE "failure") \in News
    BY <1>0 DEF News
  <2> QED
    BY <1>0, <2>1, <2>2, Zenon
<1>3. after \in WorkerType /\ OnCourse(after)
  <2>1. CASE me.ok
    BY <2>1, IdleTyped
  <2>2. CASE ~me.ok
    <3> DEFINE r == [Idle EXCEPT !.pc = "failover", !.retry = TRUE, !.failed = me.via]
    <3>1. r \in WorkerType /\ r.pc = "failover" /\ r.failed = me.via
      BY <1>0, IdleTyped DEF WorkerType
    <3>2. after = r
      BY <2>2
    <3> HIDE DEF r, after
    <3>3. OnCourse(r)
      BY <1>0, <3>1 DEF OnCourse
    <3> QED
      BY <3>1, <3>2, <3>3
  <2> QED
    BY <2>1, <2>2
<1>4. /\ DOMAIN worker' = Workers /\ worker'[w] = after
      /\ \A v \in Workers \ {w} :
            worker'[v] = [worker[v] EXCEPT !.ahead = worker[v].ahead \ {w}, !.late = worker[v].late \/ (last /\ v \in me.ahead)]
  <2>1. \A v \in Workers : DOMAIN worker[v] = DOMAIN Idle /\ worker[v] \in WorkerType
    BY <1>0, IdleTyped DEF WorkerType
  <2>2. worker' = [v \in Workers |->
              IF v # w THEN [worker[v] EXCEPT !.ahead = @ \ {w}, !.late = @ \/ (last /\ v \in me.ahead)]
              ELSE after]
    BY DEF Record
  <2> HIDE DEF after, last, me
  <2> QED
    BY <2>1, <2>2 DEF WorkerType
<1>5. ASSUME NEW v \in Workers PROVE worker'[v] \in WorkerType /\ OnCourse(worker'[v])
  <2>1. CASE v = w
    BY <1>3, <1>4, <2>1
  <2>2. CASE v # w
    <3> DEFINE ah == worker[v].ahead \ {w}
               la == worker[v].late \/ (last /\ v \in me.ahead)
               r == [worker[v] EXCEPT !.ahead = ah, !.late = la]
    <3>1. ah \in SUBSET Workers /\ la \in BOOLEAN /\ worker[v] \in WorkerType /\ OnCourse(worker[v])
      BY <1>0 DEF WorkerType, ProxyInv
    <3>2. worker'[v] = r
      BY <1>4, <2>2
    <3> HIDE DEF ah, la
    <3>3. /\ r \in WorkerType /\ r.pc = worker[v].pc /\ r.retry = worker[v].retry /\ r.via = worker[v].via
          /\ r.failed = worker[v].failed /\ r.candidates = worker[v].candidates
      BY <3>1 DEF WorkerType
    <3> HIDE DEF r
    <3>4. OnCourse(r)
      BY <3>1, <3>3 DEF OnCourse
    <3> QED
      BY <3>2, <3>3, <3>4
  <2> QED
    BY <2>1, <2>2
<1>6. worker' = [v \in Workers |-> worker'[v]]
  BY DEF Record
<1> HIDE DEF me, last, after
<1>7. worker' \in [Workers -> WorkerType] /\ \A v \in Workers : OnCourse(worker'[v])
  BY <1>5, <1>6
<1> QED
  BY <1>1, <1>2, <1>7, RequestStep DEF Record, ProxyInv, TypeOK

\* Changes to what workers have seen or whether they are late keep them on their course.
LEMMA Retouched ==
    ASSUME ProxyInv, NEW f, worker' = [w \in Workers |-> f[w]],
           \A w \in Workers : \/ f[w] = worker[w]
                              \/ \E h \in Health : f[w] = [worker[w] EXCEPT !.seen = h]
                              \/ f[w] = [worker[w] EXCEPT !.late = TRUE]
    PROVE  worker' \in [Workers -> WorkerType] /\ \A v \in Workers : OnCourse(worker'[v])
<1>1. ASSUME NEW w \in Workers PROVE f[w] \in WorkerType /\ OnCourse(f[w])
  <2>0. worker[w] \in WorkerType /\ OnCourse(worker[w])
    BY DEF ProxyInv, TypeOK, WorkerType
  <2>1. /\ f[w] \in WorkerType
        /\ f[w].pc = worker[w].pc /\ f[w].retry = worker[w].retry /\ f[w].via = worker[w].via
        /\ f[w].failed = worker[w].failed /\ f[w].candidates = worker[w].candidates
    <3>1. CASE f[w] = worker[w]
      BY <2>0, <3>1
    <3>2. CASE \E h \in Health : f[w] = [worker[w] EXCEPT !.seen = h]
      BY <2>0, <3>2 DEF WorkerType
    <3>3. CASE f[w] = [worker[w] EXCEPT !.late = TRUE]
      BY <2>0, <3>3 DEF WorkerType
    <3> QED
      BY <3>1, <3>2, <3>3
  <2> QED
    BY <2>0, <2>1 DEF OnCourse
<1> QED
  BY <1>1

LEMMA AdminStep ==
    ASSUME ProxyInv, NEW p \in Proxies \cup {Direct}, (p \in Proxies /\ Admin(p)) \/ AdminBind(p) PROVE ProxyInv'
<1>0. /\ worker' = worker /\ UNCHANGED schedule /\ failures' \in Nat /\ changes' \in Nat /\ newest' = newest
      /\ worker \in [Workers -> WorkerType] /\ newest \in [Proxies -> News]
      /\ \A v \in Workers : OnCourse(worker[v])
  BY DEF ProxyInv, TypeOK, WorkerType, Admin, SetEnabled, Recover, Delete, AdminBind, Change, table
<1>1. health' \in [Proxies -> Health]
  BY FreshTyped DEF ProxyInv, TypeOK, Admin, SetEnabled, Recover, Delete, AdminBind, table
<1>2. rows' \subseteq Proxies /\ enabled' \subseteq rows' /\ binding' \in rows' \cup {Direct}
  BY DEF ProxyInv, TypeOK, Admin, SetEnabled, Recover, Delete, AdminBind, table, Available
<1> QED
  BY <1>0, <1>1, <1>2, RequestStep

LEMMA CooldownStep ==
    ASSUME ProxyInv, NEW p \in Proxies, CooldownElapses(p) PROVE ProxyInv'
<1> DEFINE past(h) == [h EXCEPT !.until = IF h.until = "future" THEN "past" ELSE h.until]
           f == [w \in Workers |-> IF worker[w].bound = p THEN [worker[w] EXCEPT !.seen = past(worker[w].seen)]
                                   ELSE worker[w]]
           g == [r \in Runners |-> IF batch[r].at = p THEN [batch[r] EXCEPT !.seen = past(batch[r].seen)]
                                   ELSE batch[r]]
<1>0. /\ health \in [Proxies -> Health] /\ batch \in [Runners -> BatchType] /\ worker \in [Workers -> WorkerType]
  BY DEF ProxyInv, TypeOK, BatchType, WorkerType
<1>1. ASSUME NEW h \in Health PROVE past(h) \in Health
  BY DEF Health
<1>2. health' = [health EXCEPT ![p] = past(health[p])]
  BY DEF CooldownElapses
<1>3. worker' = f
  BY <1>0 DEF CooldownElapses, WorkerType
<1>4. batch' = g
  BY <1>0 DEF CooldownElapses, BatchType
<1> HIDE DEF past
<1>5. health' \in [Proxies -> Health]
  BY <1>0, <1>1, <1>2
<1>6. worker' \in [Workers -> WorkerType] /\ \A v \in Workers : OnCourse(worker'[v])
  <2>1. \A w \in Workers : worker[w].seen \in Health
    BY <1>0 DEF WorkerType
  <2>2. \A w \in Workers : \/ f[w] = worker[w]
                           \/ \E h \in Health : f[w] = [worker[w] EXCEPT !.seen = h]
                           \/ f[w] = [worker[w] EXCEPT !.late = TRUE]
    BY <1>1, <2>1
  <2>3. worker' = [w \in Workers |-> f[w]]
    BY <1>3
  <2> HIDE DEF f
  <2> QED
    BY <2>2, <2>3, Retouched
<1>7. /\ batch' \in [Runners -> BatchType]
      /\ \A r \in Runners : batch'[r].pc = "handshake" => batch'[r].at \in Proxies
  <2>1. ASSUME NEW r \in Runners
        PROVE  g[r] \in BatchType /\ g[r].pc = batch[r].pc /\ g[r].at = batch[r].at
    <3>1. batch[r] \in BatchType /\ past(batch[r].seen) \in Health
      BY <1>0, <1>1 DEF BatchType
    <3> QED
      BY <3>1 DEF BatchType
  <2> HIDE DEF g
  <2>2. DOMAIN batch' = Runners
    BY <1>4 DEF g
  <2>3. batch' \in [Runners -> BatchType]
    BY <1>4, <2>1 DEF g
  <2> QED
    BY <1>4, <2>1, <2>3 DEF ProxyInv
<1> HIDE DEF f, g
<1>8. TypeOK'
  BY <1>5, <1>6, <1>7 DEF CooldownElapses, ProxyInv, TypeOK, WorkerType, BatchType, Job!JobTypeOK
<1> QED
  BY <1>6, <1>7, <1>8 DEF ProxyInv

\* A step of the scheduler.
LEMMA BatchMoves ==
    ASSUME ProxyInv, NEW r \in Runners, NEW b \in BatchType, batch' = [batch EXCEPT ![r] = b],
           b.pc = "handshake" => b.at \in Proxies,
           worker' \in [Workers -> WorkerType], \A v \in Workers : OnCourse(worker'[v]),
           health' \in [Proxies -> Health], newest' \in [Proxies -> News], Job!JobTypeOK',
           UNCHANGED <<rows, enabled, binding, changes>>, failures' \in Nat
    PROVE  ProxyInv'
<1>1. batch'[r] = b /\ \A s \in Runners \ {r} : batch'[s] = batch[s]
  BY DEF ProxyInv, TypeOK
<1>2. TypeOK'
  BY DEF ProxyInv, TypeOK, WorkerType, BatchType
<1> QED
  BY <1>1, <1>2 DEF ProxyInv

LEMMA SchedulerStep ==
    ASSUME ProxyInv, Job!JobTypeOK', NEW r \in Runners, StartBatch(r) \/ Probe(r) \/ Dies(r) PROVE ProxyInv'
<1>0. /\ batch[r] \in BatchType /\ failures \in Nat /\ enabled \in SUBSET Proxies
      /\ health \in [Proxies -> Health] /\ newest \in [Proxies -> News]
      /\ worker \in [Workers -> WorkerType] /\ \A v \in Workers : OnCourse(worker[v])
      /\ batch \in [Runners -> BatchType]
  BY DEF ProxyInv, TypeOK, WorkerType, BatchType
<1>1. CASE StartBatch(r)
  <2> DEFINE b == [batch[r] EXCEPT !.pc = "next", !.todo = FirstEnabled]
  <2>1. FirstEnabled \in SUBSET Proxies
    BY <1>0 DEF FirstEnabled
  <2>2. b \in BatchType /\ b.pc = "next"
    BY <1>0, <2>1 DEF BatchType
  <2>3. batch' = [batch EXCEPT ![r] = b]
    BY <1>0, <1>1 DEF StartBatch
  <2> HIDE DEF b
  <2> QED
    BY <1>0, <1>1, <2>2, <2>3, BatchMoves DEF StartBatch, table
<1>2. ASSUME NEW p \in Proxies, Load(r, p) PROVE ProxyInv'
  <2> DEFINE t == batch[r].todo \ {p}
             h == health[p]
             b1 == [pc |-> "handshake", todo |-> t, at |-> p, seen |-> h]
             b2 == [batch[r] EXCEPT !.todo = t]
  <2>1. t \in SUBSET Proxies /\ h \in Health
    BY <1>0 DEF BatchType
  <2>2. batch' = [batch EXCEPT ![r] = b1] \/ batch' = [batch EXCEPT ![r] = b2]
    <3>1. CASE p \in rows
      BY <1>2, <3>1 DEF Load
    <3>2. CASE p \notin rows
      BY <1>2, <3>2 DEF Load
    <3> QED
      BY <3>1, <3>2
  <2> HIDE DEF t, h
  <2>3. b1 \in BatchType /\ b1.at = p /\ b2 \in BatchType /\ b2.pc = batch[r].pc /\ b2.at = batch[r].at
    BY <1>0, <2>1 DEF BatchType
  <2>4. batch[r].pc = "next"
    BY <1>2 DEF Load
  <2> HIDE DEF b1, b2
  <2> QED
    BY <1>0, <1>2, <2>2, <2>3, <2>4, BatchMoves DEF Load, table
<1>3. ASSUME NEW ok \in BOOLEAN, RecordProbe(r, ok) PROVE ProxyInv'
  <2> DEFINE p == batch[r].at
             seen == batch[r].seen
             b == [Resting EXCEPT !.pc = "next", !.todo = batch[r].todo]
             f == [w \in Workers |-> IF worker[w].pc = "record" /\ worker[w].via = p /\ p \in rows
                                     THEN [worker[w] EXCEPT !.late = TRUE] ELSE worker[w]]
  <2>1. seen \in Health /\ batch[r].todo \in SUBSET Proxies /\ p \in Proxies
    BY <1>0, <1>3 DEF BatchType, RecordProbe, ProxyInv
  <2>2. b \in BatchType /\ b.pc = "next"
    BY <2>1, RestingTyped DEF BatchType
  <2>3. /\ batch' = [batch EXCEPT ![r] = b] /\ worker' = f /\ newest' = [newest EXCEPT ![p] = IF ok THEN "success" ELSE "probe_failure"]
        /\ health' = [health EXCEPT ![p] = IF p \in rows THEN Flush(health[p], seen, Observed(seen, ok)) ELSE health[p]]
        /\ failures' \in {failures, failures + 1} /\ UNCHANGED <<rows, enabled, binding, changes>>
    BY <1>3 DEF RecordProbe
  <2>4. health' \in [Proxies -> Health]
    <3>1. Flush(health[p], seen, Observed(seen, ok)) \in Health
      BY <1>0, <2>1, ObservedTyped, FlushTyped
    <3> QED
      BY <1>0, <2>1, <2>3, <3>1
  <2>5. worker' \in [Workers -> WorkerType] /\ \A v \in Workers : OnCourse(worker'[v])
    <3>1. \A w \in Workers : \/ f[w] = worker[w]
                             \/ \E h \in Health : f[w] = [worker[w] EXCEPT !.seen = h]
                             \/ f[w] = [worker[w] EXCEPT !.late = TRUE]
      <4>1. \A w \in Workers : f[w] = worker[w] \/ f[w] = [worker[w] EXCEPT !.late = TRUE]
        OBVIOUS
      <4> HIDE DEF f
      <4> QED
        BY <4>1, Zenon
    <3>2. worker' = [w \in Workers |-> f[w]]
      BY <2>3
    <3> HIDE DEF f
    <3> QED
      BY <3>1, <3>2, Retouched
  <2>6. newest' \in [Proxies -> News]
    <3>1. (IF ok THEN "success" ELSE "probe_failure") \in News
      BY DEF News
    <3> QED
      BY <1>0, <2>3, <3>1, Zenon
  <2>7. failures' \in Nat
    BY <1>0, <2>3
  <2> HIDE DEF b, f, p, seen
  <2> QED
    BY <2>2, <2>3, <2>4, <2>5, <2>6, <2>7, BatchMoves
<1>4. CASE Finish(r)
  BY <1>0, <1>4, RestingTyped, BatchMoves DEF Finish, table
<1>5. CASE Dies(r)
  <2> DEFINE b == [Resting EXCEPT !.pc = "dead"]
  <2>1. b \in BatchType /\ b.pc = "dead"
    BY RestingTyped DEF BatchType
  <2>2. batch' = [batch EXCEPT ![r] = b]
    BY <1>5 DEF Dies
  <2> HIDE DEF b
  <2> QED
    BY <1>0, <1>5, <2>1, <2>2, BatchMoves DEF Dies, table
<1> QED
  BY <1>1, <1>2, <1>3, <1>4, <1>5 DEF Probe

LEMMA LapsesStep ==
    ASSUME ProxyInv, Job!JobTypeOK', JobLeaseLapses PROVE ProxyInv'
BY DEF ProxyInv, TypeOK, JobLeaseLapses, table

LEMMA InitProxyInv == Init => ProxyInv
<1> SUFFICES ASSUME Init PROVE ProxyInv
  OBVIOUS
<1>1. worker \in [Workers -> WorkerType] /\ \A w \in Workers : OnCourse(worker[w])
  BY IdleTyped DEF Init
<1>2. batch \in [Runners -> BatchType] /\ \A r \in Runners : batch[r].pc = "idle"
  BY RestingTyped DEF Init
<1>3. TypeOK
  BY <1>1, <1>2, FreshTyped, JobInitTyped DEF Init, TypeOK, WorkerType, BatchType, News
<1> QED
  BY <1>1, <1>2, <1>3 DEF ProxyInv

LEMMA NextProxyInv == ProxyInv /\ Job!OneBatchPerToken /\ [Next]_vars => ProxyInv'
<1> SUFFICES ASSUME ProxyInv, Job!OneBatchPerToken, [Next]_vars PROVE ProxyInv'
  OBVIOUS
<1>1. Job!JobTypeOK'
  BY JobSteps, JobStepKeeps DEF ProxyInv, TypeOK
<1>2. CASE UNCHANGED vars
  BY <1>2 DEF vars, table, schedule, ProxyInv, TypeOK, OnCourse, Job!JobTypeOK
<1>3. ASSUME NEW w \in Workers, Request(w) PROVE ProxyInv'
  BY <1>3, ResolveStep, RebindStep, UseStep, RecordStep DEF Request
<1> QED
  BY <1>1, <1>2, <1>3, SchedulerStep, CooldownStep, AdminStep, LapsesStep DEF Next

LEMMA AlwaysProxyInv == Spec => []ProxyInv
BY InitProxyInv, NextProxyInv, AlwaysJobInv, PTL DEF Spec

\* Every reachable state of the proxies is well typed: in particular, the mailbox is never
\* bound to a proxy whose row was deleted.
THEOREM ProxyTypes == Spec => []TypeOK
<1>1. ProxyInv => TypeOK
  BY DEF ProxyInv
<1> QED
  BY <1>1, AlwaysProxyInv, PTL

\* A failover never goes out through the proxy that failed, however bindings and health change
\* under it.
THEOREM FailoverAvoidsFailed == Spec => []FailoverSwitches
<1>1. ProxyInv => FailoverSwitches
  BY DEF ProxyInv, OnCourse, FailoverSwitches
<1> QED
  BY <1>1, AlwaysProxyInv, PTL

-----------------------------------------------------------------------------
(* Health *)

LEMMA FlushKeepsNews ==
    ASSUME NEW row \in Health, NEW seen \in Health,
           NEW new, new = IF seen.status = "cooldown" THEN [seen EXCEPT !.status = "unknown", !.until = "null"] ELSE seen
    PROVE  Flush(row, seen, new).status \in {"unknown", row.status}
BY DEF Flush, Health

LEMMA NewsKept ==
    ASSUME ProxyInv, HealthyIsNews, [Next]_vars PROVE HealthyIsNews'
<1>0. rows \subseteq Proxies /\ health \in [Proxies -> Health] /\ newest \in [Proxies -> News]
  BY DEF ProxyInv, TypeOK
<1>1. CASE UNCHANGED <<health, newest>> /\ rows' \subseteq rows
  BY <1>1 DEF HealthyIsNews
<1>2. ASSUME NEW w \in Workers, Request(w) PROVE HealthyIsNews'
  <2>1. CASE Resolve(w) \/ RebindSticky(w) \/ RebindNone(w) \/ Succeeds(w) \/ TransportFails(w) \/ Errs(w)
    BY <1>1, <2>1 DEF Resolve, RebindSticky, RebindNone, Succeeds, TransportFails, Errs, table
  <2>2. ASSUME NEW p \in Proxies, RebindTo(w, p) PROVE HealthyIsNews'
    <3> DEFINE seen == Locked(w, p)
               new == IF seen.status = "cooldown" THEN [seen EXCEPT !.status = "unknown", !.until = "null"] ELSE seen
    <3>1. health' = [health EXCEPT ![p] = Flush(health[p], seen, new)] /\ newest' = newest /\ rows' = rows
      BY <2>2 DEF RebindTo
    <3>2. Flush(health[p], seen, new).status \in {"unknown", health[p].status}
      BY <1>0, LockedTyped, FlushKeepsNews
    <3> HIDE DEF new, seen
    <3> QED
      BY <1>0, <3>1, <3>2 DEF HealthyIsNews
  <2>3. CASE Record(w)
    <3> DEFINE via == worker[w].via
               ok == worker[w].ok
               last == via \in rows /\ ~worker[w].late
    <3>0. via \in Proxies /\ ok \in BOOLEAN
      BY <2>3 DEF Record, ProxyInv, OnCourse, TypeOK
    <3>1. /\ health' = [health EXCEPT ![via] = IF last THEN Observed(health[via], ok) ELSE health[via]]
          /\ newest' = [newest EXCEPT ![via] = IF ~last THEN newest[via]
                                                ELSE IF ok THEN "success" ELSE "failure"]
          /\ rows' = rows
      BY <2>3 DEF Record, Applies
    <3>2. Observed(health[via], ok).status = "healthy" => ok
      BY <1>0, <3>0 DEF Observed
    <3> HIDE DEF last, via, ok
    <3>3. CASE last
      BY <1>0, <3>0, <3>1, <3>2, <3>3 DEF HealthyIsNews
    <3>4. CASE ~last
      BY <1>0, <3>0, <3>1, <3>4 DEF HealthyIsNews
    <3> QED
      BY <3>3, <3>4
  <2> QED
    BY <1>2, <2>1, <2>2, <2>3 DEF Request
<1>3. ASSUME NEW p \in Proxies, CooldownElapses(p) PROVE HealthyIsNews'
  <2>1. health'[p].status = health[p].status /\ \A q \in Proxies \ {p} : health'[q] = health[q]
    BY <1>0, <1>3 DEF CooldownElapses, Health
  <2> QED
    BY <1>0, <1>3, <2>1 DEF CooldownElapses, HealthyIsNews
<1>4. ASSUME NEW p \in Proxies, Admin(p) PROVE HealthyIsNews'
  BY <1>0, <1>1, <1>4 DEF Admin, SetEnabled, Recover, Delete, HealthyIsNews, Fresh
<1>5. ASSUME NEW p, AdminBind(p) PROVE HealthyIsNews'
  BY <1>1, <1>5 DEF AdminBind, table
<1>6. CASE JobLeaseLapses
  BY <1>1, <1>6 DEF JobLeaseLapses, table
<1>7. CASE UNCHANGED vars
  BY <1>1, <1>7 DEF vars, table
<1>8. ASSUME NEW r \in Runners, StartBatch(r) \/ Probe(r) \/ Dies(r) PROVE HealthyIsNews'
  <2>1. CASE StartBatch(r) \/ Finish(r) \/ Dies(r) \/ \E p \in Proxies : Load(r, p)
    BY <1>1, <2>1 DEF StartBatch, Finish, Dies, Load, table
  <2>2. ASSUME NEW ok \in BOOLEAN, RecordProbe(r, ok) PROVE HealthyIsNews'
    <3> DEFINE p == batch[r].at
    <3>1. /\ p \in Proxies /\ newest'[p] # "failure" /\ rows' = rows
          /\ \A q \in Proxies \ {p} : health'[q] = health[q] /\ newest'[q] = newest[q]
      BY <1>0, <2>2 DEF RecordProbe, ProxyInv
    <3> QED
      BY <1>0, <3>1 DEF HealthyIsNews
  <2> QED
    BY <1>8, <2>1, <2>2 DEF Probe
<1> QED
  BY <1>2, <1>3, <1>4, <1>5, <1>6, <1>7, <1>8 DEF Next

\* In whatever order requests record what they met, and with any number of probes and
\* administrative changes between them, a proxy whose newest observation is the failure of a
\* request is not called healthy.
THEOREM NoStaleHealth == Spec => []HealthyIsNews
<1>1. Init => HealthyIsNews
  BY DEF Init, HealthyIsNews, Fresh
<1>2. ProxyInv /\ HealthyIsNews /\ [Next]_vars => HealthyIsNews'
  BY NewsKept
<1> QED
  BY <1>1, <1>2, AlwaysProxyInv, PTL DEF Spec
=============================================================================
