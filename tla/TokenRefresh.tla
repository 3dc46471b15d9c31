---------------------------- MODULE TokenRefresh ----------------------------
(***************************************************************************)
(* The Microsoft tokens of one mailbox: the refresh token (RT) with its    *)
(* token_version, the cached access token (AT), and the claim that makes   *)
(* refreshing exclusive (token_service.py, token_repository.py).  Workers  *)
(* are requests for an access token from any source: a client's lease, a   *)
(* verification-code poll, the keepalive job, an administrator's batch.    *)
(* Each runs short transactions with network calls between them:           *)
(*   Phase A installs a claim, Phase B exchanges the RT at Microsoft,      *)
(*   Phase C writes the answer if claim and version still match, and a     *)
(*   capability probe may exchange the RT once more.                       *)
(* A client with a refresh_token lease updates the RT itself, and an       *)
(* administrator's import replaces it.                                     *)
(*                                                                         *)
(* A token is the number of the exchange that issued it.  An AT is named   *)
(* after the RT revision it was issued with.  ClaimExpires is the passing  *)
(* of a claim's time; an AT may have expired whenever it is looked at.     *)
(***************************************************************************)
EXTENDS Naturals

CONSTANTS
    Workers,     \* threads that ask for an access token
    Requests,    \* the kinds of request the workers make
    MaxStarts,   \* bound: requests made
    MaxChanges   \* bound: updates by a client and imports

Channels == {"any", "imap", "graph"}

\* skip is skip_active_rt_lease_check, channel is preferred_channel.
RequestType == [force : BOOLEAN, skip : BOOLEAN, channel : Channels]

ASSUME TokenAssumption == Requests \subseteq RequestType /\ MaxStarts \in Nat /\ MaxChanges \in Nat

\* The requests the code makes.
ClientRequest == [force |-> FALSE, skip |-> TRUE, channel |-> "any"]
PollRequest(c, f) == [force |-> f, skip |-> TRUE, channel |-> c]
BatchRequest == [force |-> TRUE, skip |-> TRUE, channel |-> "any"]
KeepaliveRequest == [force |-> TRUE, skip |-> FALSE, channel |-> "any"]

VARIABLES
    mailbox,   \* the row
    leased,    \* a client has an active refresh_token lease
    job,       \* per worker: the request it serves
    import,    \* an import's view of the row between its SELECT and its UPDATE
    issued,    \* the last token Microsoft issued
    rejected,  \* the tokens Microsoft answered with invalid_grant
    claims,    \* the last claim id (a uuid in the code)
    starts, changes   \* counters for the bounds

vars == <<mailbox, leased, job, import, issued, rejected, claims, starts, changes>>

Capabilities == {"none", "imap", "graph", "failed"}

MailboxType ==
    [status : {"active", "invalid"}, rt : Nat, version : Nat, at : Nat, src : Nat,
     scope : {"outlook", "graph"}, capability : Capabilities,
     claim : Nat, live : BOOLEAN]

\* What the probe's and the import's ORM session remember of the row they loaded.
ViewType ==
    [rt : Nat, version : Nat, src : Nat, scope : {"outlook", "graph"}, capability : Capabilities]
View(m) ==
    [rt |-> m.rt, version |-> m.version, src |-> m.src, scope |-> m.scope, capability |-> m.capability]
ImportViewType ==
    [status : {"active", "invalid"}, at : BOOLEAN, src : BOOLEAN,
     scope : {"outlook", "graph"}, capability : Capabilities]
ImportView(m) ==
    [status |-> m.status, at |-> m.at # 0, src |-> m.src # 0, scope |-> m.scope,
     capability |-> m.capability]

Steps == {"idle", "cache", "claim", "exchange", "fail", "release", "finish", "winner",
          "probe", "probing", "apply"}

\* What the capability probe brought back: new = 0 for no rotated RT.
ProbeType == [replaced : BOOLEAN, new : Nat, capability : Capabilities]
NoProbe == [replaced |-> FALSE, new |-> 0, capability |-> "none"]

JobType ==
    [pc : Steps, req : RequestType, target : Channels, retry : BOOLEAN,
     claim : Nat, rt : Nat, version : Nat, new : Nat, view : ViewType, probe : ProbeType]

TypeOK ==
    /\ mailbox \in MailboxType
    /\ leased \in BOOLEAN
    /\ job \in [Workers -> JobType]
    /\ import \in [on : BOOLEAN, force : BOOLEAN, view : ImportViewType]
    /\ issued \in Nat /\ rejected \subseteq Nat /\ claims \in Nat
    /\ starts \in Nat /\ changes \in Nat

\* A freshly imported mailbox: no AT, never probed.
NewMailbox ==
    [status |-> "active", rt |-> 1, version |-> 1, at |-> 0, src |-> 0,
     scope |-> "outlook", capability |-> "none", claim |-> 0, live |-> FALSE]

Idle ==
    [pc |-> "idle", req |-> ClientRequest, target |-> "any", retry |-> FALSE,
     claim |-> 0, rt |-> 0, version |-> 0, new |-> 0, view |-> View(NewMailbox), probe |-> NoProbe]

NoImport == [on |-> FALSE, force |-> FALSE, view |-> ImportView(NewMailbox)]

Init ==
    /\ mailbox = NewMailbox
    /\ leased = FALSE
    /\ job = [w \in Workers |-> Idle]
    /\ import = NoImport
    /\ issued = 1 /\ rejected = {} /\ claims = 0
    /\ starts = 0 /\ changes = 0

-----------------------------------------------------------------------------
(* The row *)

\* _has_usable_cached_access_token, but for the AT's own expiry
Usable(m) == m.at # 0 /\ m.src = m.version

\* Mutant: any capability label is taken for a channel.
TargetUnproven(m, channel) == IF channel = "any" THEN m.capability ELSE channel

\* _resolve_preferred_mail_channel
Target(m, channel) ==
    IF channel = "any" /\ m.capability \in {"imap", "graph"} THEN m.capability ELSE channel

\* cached_token_matches_mail_channel: an AT serves one of the two audiences.
Matches(m, target) ==
    target = "any" \/ (target = "graph") = (m.scope = "graph")

\* _cache_hit, and the same test at the start of Phase A
CacheHit(m, r) == ~r.force /\ Usable(m) /\ Matches(m, Target(m, r.channel))

\* Mutant: only the claim is compared.
CASMatchesClaim(m, j) == m.claim = j.claim

\* The WHERE of every Phase C update.
CASMatches(m, j) == m.version = j.version /\ m.claim = j.claim

\* complete_token_refresh: the values of the two UPDATEs.
Refreshed(m, j) ==
    LET current == IF j.new = 0 THEN j.rt ELSE j.new
        revision == IF j.new = 0 THEN j.version ELSE j.version + 1
    IN  [m EXCEPT !.rt = IF j.new = 0 THEN m.rt ELSE j.new,
                  !.version = revision,
                  !.at = current, !.src = revision,
                  !.scope = IF j.target = "graph" THEN "graph" ELSE "outlook",
                  !.claim = 0, !.live = FALSE]

\* _confirm_completed_token_version, after an UPDATE that changed no row
Confirms(m, j) ==
    LET revision == IF j.new = 0 THEN j.version ELSE j.version + 1
    IN  m.version = revision /\ m.src = revision /\ m.claim = 0 /\ m.at # 0

\* Mutant: the probe stores a rotated RT under the version that is there.
ApplyProbeSameVersion(m, v, p) ==
    IF ~p.replaced THEN [m EXCEPT !.capability = p.capability]
    ELSE [m EXCEPT !.at = IF p.new = 0 THEN v.rt ELSE p.new, !.scope = "graph",
                   !.rt = IF p.new = 0 THEN m.rt ELSE p.new, !.src = m.version]

\* _apply_access_token_replacement and apply_capability_probe_result.  The ORM writes
\* the attributes that differ from the view it loaded before the network calls, and
\* nothing else: no version or claim is compared.  After a rotation it refreshes the object,
\* so that the capability is then compared with the row.
ApplyProbe(m, v, p) ==
    LET probed == [m EXCEPT !.capability =
                      IF p.new # 0 \/ p.capability # v.capability THEN p.capability ELSE m.capability]
    IN  IF ~p.replaced THEN probed
        ELSE IF p.new = 0
        THEN [probed EXCEPT !.at = v.rt, !.scope = "graph",
                            !.src = IF v.src # v.version THEN v.version ELSE m.src]
        ELSE [probed EXCEPT !.at = p.new, !.scope = "graph",
                            !.rt = p.new, !.version = m.version + 1, !.src = m.version + 1]

\* probe_mailbox_capability: one of the channels answers, or none does.  The Graph probe
\* may exchange the RT for a token of the Graph audience, unless the scope says that the
\* AT is one already; what it got is kept only when Graph then answers.
ProbeAnswers(v, next) ==
    [replaced : {FALSE}, new : {0}, capability : {"imap", "graph", "failed"}]
        \cup IF v.scope = "graph" THEN {}
             ELSE [replaced : {TRUE}, new : {0, next}, capability : {"graph"}]

-----------------------------------------------------------------------------
(* A worker *)

\* The worker returns to its caller, with a token or an error.
Return(w) == job' = [job EXCEPT ![w] = Idle]

Goto(w, pc) == job' = [job EXCEPT ![w].pc = pc]

\* The claim is behind it: what remains of the job.
Forget(w, pc) ==
    job' = [job EXCEPT ![w] = [Idle EXCEPT !.pc = pc, !.req = job[w].req,
                                           !.target = job[w].target, !.retry = job[w].retry]]

rest == <<leased, import, starts, changes>>
network == <<issued, rejected>>

\* ensure_access_token.  The keepalive job lists active mailboxes without a lease.
Start(w, r) ==
    /\ job[w].pc = "idle" /\ starts < MaxStarts
    /\ r = KeepaliveRequest => mailbox.status = "active" /\ ~leased
    /\ job' = [job EXCEPT ![w] = [Idle EXCEPT !.pc = IF r.force THEN "claim" ELSE "cache",
                                              !.req = r, !.retry = TRUE]]
    /\ starts' = starts + 1
    /\ UNCHANGED <<mailbox, leased, import, network, claims, changes>>

\* The cache path: a short transaction that holds the row's lock, which it keeps while it
\* probes a mailbox that was never probed: the probe is one step here.
CacheHitReturns(w) ==
    /\ job[w].pc = "cache" /\ CacheHit(mailbox, job[w].req)
    /\ \/ /\ mailbox.capability # "none"
          /\ UNCHANGED <<mailbox, issued>>
       \/ /\ mailbox.capability = "none"
          /\ \E p \in ProbeAnswers(mailbox, issued + 1) :
                /\ mailbox' = ApplyProbe(mailbox, mailbox, p)
                /\ issued' = IF p.new = 0 THEN issued ELSE p.new
       \/ /\ mailbox.capability = "none"    \* the probe raised: rollback
          /\ UNCHANGED <<mailbox, issued>>
    /\ Return(w)
    /\ UNCHANGED <<rest, rejected, claims>>

\* No cached token, or one that has expired or is for the other channel.
CacheMisses(w) ==
    /\ job[w].pc = "cache"
    /\ Goto(w, "claim")
    /\ UNCHANGED <<mailbox, rest, network, claims>>

\* claim_token_refresh refuses
Refused(w) ==
    \/ mailbox.status = "invalid"
    \/ mailbox.claim # 0 /\ mailbox.live
    \/ ~job[w].req.skip /\ leased

\* Phase A finds a usable token after all, or no claim can be installed.
PhaseARefused(w) ==
    /\ job[w].pc = "claim"
    /\ CacheHit(mailbox, job[w].req) \/ Refused(w)
    /\ Return(w)
    /\ UNCHANGED <<mailbox, rest, network, claims>>

PhaseA(w) ==
    /\ job[w].pc = "claim" /\ ~Refused(w)
    /\ claims' = claims + 1
    /\ mailbox' = [mailbox EXCEPT !.claim = claims + 1, !.live = TRUE]
    /\ job' = [job EXCEPT ![w].pc = "exchange", ![w].target = Target(mailbox, job[w].req.channel),
                          ![w].claim = claims + 1, ![w].rt = mailbox.rt,
                          ![w].version = mailbox.version, ![w].new = 0]
    /\ UNCHANGED <<rest, network>>

\* Phase B: Microsoft answers with a token and perhaps a rotated RT, ...
Granted(w) ==
    /\ job[w].pc = "exchange" /\ job[w].rt \notin rejected
    /\ \E rotated \in BOOLEAN :
          /\ issued' = IF rotated THEN issued + 1 ELSE issued
          /\ job' = [job EXCEPT ![w].pc = "finish", ![w].new = IF rotated THEN issued + 1 ELSE 0]
    /\ UNCHANGED <<mailbox, rest, rejected, claims>>

\* ... with invalid_grant, ...
InvalidGrant(w) ==
    /\ job[w].pc = "exchange"
    /\ rejected' = rejected \cup {job[w].rt}
    /\ Goto(w, "fail")
    /\ UNCHANGED <<mailbox, rest, issued, claims>>

\* ... or not at all.
ExchangeFails(w) ==
    /\ job[w].pc = "exchange"
    /\ Goto(w, "release")
    /\ UNCHANGED <<mailbox, rest, network, claims>>

\* Mutant: the claim alone decides.
FailInvalidGrantUnversioned(w) ==
    /\ job[w].pc = "fail"
    /\ mailbox' = IF mailbox.claim = job[w].claim
                  THEN [mailbox EXCEPT !.status = "invalid", !.claim = 0, !.live = FALSE]
                  ELSE mailbox
    /\ Return(w)
    /\ UNCHANGED <<rest, network, claims>>

\* fail_token_refresh_invalid_grant
FailInvalidGrant(w) ==
    /\ job[w].pc = "fail"
    /\ mailbox' = IF CASMatches(mailbox, job[w])
                  THEN [mailbox EXCEPT !.status = "invalid", !.claim = 0, !.live = FALSE]
                  ELSE mailbox
    /\ Return(w)
    /\ UNCHANGED <<rest, network, claims>>

\* release_token_refresh_claim
ReleaseClaim(w) ==
    /\ job[w].pc = "release"
    /\ mailbox' = IF mailbox.claim = job[w].claim
                  THEN [mailbox EXCEPT !.claim = 0, !.live = FALSE]
                  ELSE mailbox
    /\ Return(w)
    /\ UNCHANGED <<rest, network, claims>>

\* Phase C, complete_token_refresh
PhaseC(w) ==
    /\ job[w].pc = "finish"
    /\ \/ /\ CASMatches(mailbox, job[w])
          /\ mailbox' = Refreshed(mailbox, job[w])
          /\ Forget(w, "probe")
       \/ /\ ~CASMatches(mailbox, job[w])
          /\ Forget(w, IF Confirms(mailbox, job[w]) THEN "probe" ELSE "winner")
          /\ UNCHANGED mailbox
    /\ UNCHANGED <<rest, network, claims>>

\* The CAS was lost: _read_winner_access_token_if_usable, then one retry, which is forced.
\* It reads on the caller's session, whose snapshot of the row may be as old as the request:
\* it may see a usable token or none.
ReadWinner(w) ==
    /\ job[w].pc = "winner"
    /\ \E usable \in BOOLEAN :
          IF usable \/ ~job[w].retry
          THEN Return(w)
          ELSE job' = [job EXCEPT ![w].pc = "claim", ![w].retry = FALSE, ![w].req.force = TRUE]
    /\ UNCHANGED <<mailbox, rest, network, claims>>

\* should_run_probe of _post_refresh_probe_and_reload
ShouldProbe(m, j) ==
    \/ m.capability = "none"
    \/ j.req.force /\ ~(j.target = "graph" /\ m.scope = "graph" /\ j.req.channel # "any")

\* _post_refresh_probe_and_reload loads the row without a lock, ...
LoadForProbe(w) ==
    /\ job[w].pc = "probe"
    /\ IF ShouldProbe(mailbox, job[w])
       THEN job' = [job EXCEPT ![w] = [Idle EXCEPT !.pc = "probing", !.view = View(mailbox)]]
       ELSE Return(w)
    /\ UNCHANGED <<mailbox, rest, network, claims>>

\* ... asks Microsoft, ...
Probe(w) ==
    /\ job[w].pc = "probing"
    /\ \E p \in ProbeAnswers(job[w].view, issued + 1) :
          /\ p.replaced => job[w].view.rt \notin rejected
          /\ job' = [job EXCEPT ![w].pc = "apply", ![w].probe = p]
          /\ issued' = IF p.new = 0 THEN issued ELSE p.new
    /\ UNCHANGED <<mailbox, rest, rejected, claims>>

\* ... and writes.
ProbeApply(w) ==
    /\ job[w].pc = "apply"
    /\ mailbox' = ApplyProbe(mailbox, job[w].view, job[w].probe)
    /\ Return(w)
    /\ UNCHANGED <<rest, network, claims>>

\* The process stops, or a transaction raises, anywhere: what was committed stays.
Crash(w) ==
    /\ job[w].pc # "idle"
    /\ Return(w)
    /\ UNCHANGED <<mailbox, rest, network, claims>>

-----------------------------------------------------------------------------
(* Around the workers *)

\* token_refresh_claim_ttl_seconds pass.
ClaimExpires ==
    /\ mailbox.live
    /\ mailbox' = [mailbox EXCEPT !.live = FALSE]
    /\ UNCHANGED <<job, rest, network, claims>>

\* A client acquires a refresh_token lease and is given the RT and its version.
AcquireRefreshTokenLease ==
    /\ ~leased /\ mailbox.status = "active"
    /\ leased' = TRUE
    /\ UNCHANGED <<mailbox, job, import, network, claims, starts, changes>>

EndRefreshTokenLease ==
    /\ leased
    /\ leased' = FALSE
    /\ UNCHANGED <<mailbox, job, import, network, claims, starts, changes>>

\* update_refresh_token: the holder exchanged the RT itself and stores the new one.
\* An expected version that is not the row's, or an unchanged RT, changes nothing.  The
\* source version of the AT it clears is left.
UpdateRefreshToken ==
    /\ leased /\ mailbox.status = "active" /\ changes < MaxChanges
    /\ issued' = issued + 1
    /\ mailbox' = [mailbox EXCEPT !.rt = issued + 1, !.version = @ + 1, !.at = 0]
    /\ changes' = changes + 1
    /\ UNCHANGED <<leased, job, import, rejected, claims, starts>>

\* import_mailboxes with replace_token loads the row without a lock ...
ImportLoad ==
    /\ ~import.on /\ changes < MaxChanges
    /\ import' = [on |-> TRUE, force |-> leased, view |-> ImportView(mailbox)]
    /\ changes' = changes + 1
    /\ UNCHANGED <<mailbox, leased, job, network, claims, starts>>

\* Mutant: the import activates the mailbox without a new version.
ImportReplaceSameVersion ==
    /\ import.on
    /\ issued' = issued + 1
    /\ mailbox' = [mailbox EXCEPT !.status = "active", !.rt = issued + 1, !.at = 0, !.src = 0]
    /\ import' = NoImport
    /\ UNCHANGED <<leased, job, rejected, claims, starts, changes>>

\* ... and writes what differs from what it loaded, then the next version.  The RT may be
\* a new one or the one imported first.  Active lease claims were released if forced.
ImportReplace ==
    /\ import.on
    /\ \E t \in {1, issued + 1} :
          /\ issued' = IF t > issued THEN t ELSE issued
          /\ mailbox' = [mailbox EXCEPT
                !.status = IF import.view.status # "active" THEN "active" ELSE @,
                !.rt = t,    \* a new ciphertext, whatever the token
                !.version = @ + 1,
                !.at = IF import.view.at THEN 0 ELSE @,
                !.src = IF import.view.src THEN 0 ELSE @,
                !.scope = IF import.view.scope # "outlook" THEN "outlook" ELSE @,
                !.capability = IF import.view.capability # "none" THEN "none" ELSE @]
    /\ leased' = (leased /\ ~import.force)
    /\ import' = NoImport
    /\ UNCHANGED <<job, rejected, claims, starts, changes>>

-----------------------------------------------------------------------------

Worker(w) ==
    \/ CacheHitReturns(w) \/ CacheMisses(w) \/ PhaseARefused(w) \/ PhaseA(w)
    \/ Granted(w) \/ InvalidGrant(w) \/ ExchangeFails(w)
    \/ FailInvalidGrant(w) \/ ReleaseClaim(w) \/ PhaseC(w) \/ ReadWinner(w)
    \/ LoadForProbe(w) \/ Probe(w) \/ ProbeApply(w)

Around ==
    \/ ClaimExpires
    \/ AcquireRefreshTokenLease \/ EndRefreshTokenLease \/ UpdateRefreshToken
    \/ ImportLoad \/ ImportReplace

Next ==
    \/ \E w \in Workers : (\E r \in Requests : Start(w, r)) \/ Worker(w) \/ Crash(w)
    \/ Around

Spec == Init /\ [][Next]_vars

-----------------------------------------------------------------------------
(* Properties *)

\* A version names one token: whoever compares a version it read earlier with the row's
\* (the CAS of Phase C and of update_refresh_token) compares the token it read too.
VersionNamesToken ==
    \A w \in Workers : job[w].pc \in {"exchange", "fail", "release", "finish"} =>
        /\ job[w].version <= mailbox.version
        /\ job[w].version = mailbox.version => job[w].rt = mailbox.rt

\* invalid_grant makes a mailbox invalid only while its token is the one that Microsoft
\* rejected: a late answer never disables a mailbox that got a new token meanwhile.
InvalidatesRejectedToken ==
    [][mailbox.status = "active" /\ mailbox'.status = "invalid" => mailbox'.rt \in rejected']_vars

\* The AT that _has_usable_cached_access_token takes for one of the current revision was
\* issued with the current RT.
AccessTokenFresh == mailbox.at # 0 /\ mailbox.src = mailbox.version => mailbox.at = mailbox.rt

\* Only the probe's write can break that: the CAS of Phase C, a client's update, an import
\* and every loss of a claim keep it, whatever is in flight.
BoundExceptByProbe ==
    [][~(\E w \in Workers : ProbeApply(w)) /\ AccessTokenFresh => AccessTokenFresh']_vars

\* The row implements the versioned token.
Register == INSTANCE VersionedToken
    WITH token <- mailbox.rt, version <- mailbox.version, valid <- mailbox.status = "active"
RegisterSpec == Register!Spec
=============================================================================
