------------------------------ MODULE JobLease ------------------------------
(***************************************************************************)
(* The row of scheduled_job_leases that lets one process of a cluster run  *)
(* a scheduled job (scheduler_lease_repository.py).  Every operation locks *)
(* the row and is one transaction.  renew has no caller: a job that        *)
(* outlives its lease goes on without it.                                  *)
(***************************************************************************)
EXTENDS Naturals

CONSTANTS
    Runners,   \* the processes (owner_id)
    None       \* no owner: the row has not been inserted

VARIABLES
    job,      \* the row; live: lease_until has not passed
    handle    \* per runner: the fencing token of the handle it runs under, 0 without one

jobVars == <<job, handle>>

JobTypeOK ==
    /\ job \in [owner : Runners \cup {None}, fence : Nat, live : BOOLEAN]
    /\ handle \in [Runners -> Nat]

JobInit ==
    /\ job = [owner |-> None, fence |-> 0, live |-> FALSE]
    /\ handle = [r \in Runners |-> 0]

\* Mutant: only the first owner is given a token of its own.
TokenForSame(r) == IF job.owner = None THEN 1 ELSE job.fence

\* A change of owner counts the fencing token up.
TokenFor(r) == IF job.owner = r THEN job.fence ELSE job.fence + 1

\* The lease of another owner is respected while it is live.
Acquirable(r) == job.owner = r \/ ~job.live

TryAcquire(r) ==
    /\ handle[r] = 0 /\ Acquirable(r)
    /\ job' = [owner |-> r, fence |-> TokenFor(r), live |-> TRUE]
    /\ handle' = [handle EXCEPT ![r] = TokenFor(r)]

\* Mutant: the handle is not compared with the row.
ReleaseUnfenced(r) ==
    /\ handle[r] # 0
    /\ job' = [job EXCEPT !.live = FALSE]
    /\ handle' = [handle EXCEPT ![r] = 0]

\* The row is compared with the handle: a late release changes nothing.
Release(r) ==
    /\ handle[r] # 0
    /\ job' = IF job.owner = r /\ job.fence = handle[r] THEN [job EXCEPT !.live = FALSE] ELSE job
    /\ handle' = [handle EXCEPT ![r] = 0]

\* The process stops, or its release fails: run_once gives up the handle, the row keeps it.
Abandon(r) ==
    /\ handle[r] # 0
    /\ handle' = [handle EXCEPT ![r] = 0]
    /\ UNCHANGED job

LeaseLapses ==
    /\ job.live
    /\ job' = [job EXCEPT !.live = FALSE]
    /\ UNCHANGED handle

-----------------------------------------------------------------------------
(* Properties *)

\* Two batches never run under one fencing token, even when the first outlived its lease,
\* and the newest token belongs to the owner the row names.
OneBatchPerToken ==
    \A r \in Runners : handle[r] # 0 =>
        /\ handle[r] <= job.fence
        /\ handle[r] = job.fence => job.owner = r

\* Nobody but its owner, finishing, and time end a live lease: the release of a batch that
\* was overtaken leaves the lease of its successor alone.
LateReleaseHarmless ==
    [][job.live /\ ~job'.live /\ handle' # handle =>
          job.owner # None /\ handle[job.owner] = job.fence /\ handle'[job.owner] = 0]_jobVars
=============================================================================
