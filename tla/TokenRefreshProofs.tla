------------------------- MODULE TokenRefreshProofs -------------------------
(***************************************************************************)
(* Proofs about TokenRefresh, for any number of workers and requests.      *)
(***************************************************************************)
EXTENDS TokenRefresh, TLAPS

Claiming == {"exchange", "fail", "release", "finish"}

\* What a job that is about to make the mailbox invalid has seen.
RejectionSeen == \A w \in Workers : job[w].pc = "fail" => job[w].rt \in rejected

\* No revision that anybody remembers is newer than the row's.
NothingAhead ==
    /\ mailbox.src <= mailbox.version
    /\ \A w \in Workers : job[w].pc \in {"probing", "apply"} => job[w].view.version <= mailbox.version

\* VersionNamesToken says nothing of the source version of the AT or of the views of
\* probes, which decide whether an AT looks current: NothingAhead adds them.
TokenInv == TypeOK /\ VersionNamesToken /\ RejectionSeen /\ NothingAhead

-----------------------------------------------------------------------------
(* The operators on the row *)

LEMMA ViewTyped ==
    ASSUME NEW m \in MailboxType PROVE View(m) \in ViewType
BY DEF View, ViewType, MailboxType

LEMMA ImportViewTyped ==
    ASSUME NEW m \in MailboxType PROVE ImportView(m) \in ImportViewType
BY DEF ImportView, ImportViewType, MailboxType

LEMMA NewMailboxTyped == NewMailbox \in MailboxType
BY DEF NewMailbox, MailboxType, Capabilities

LEMMA ClientRequestTyped == ClientRequest \in RequestType
BY DEF ClientRequest, RequestType, Channels

LEMMA NoProbeTyped == NoProbe \in ProbeType
BY DEF NoProbe, ProbeType, Capabilities

LEMMA IdleTyped == Idle \in JobType
<1>1. View(NewMailbox) \in ViewType
  BY ViewTyped, NewMailboxTyped
<1> QED
  BY <1>1, ClientRequestTyped, NoProbeTyped DEF Idle, JobType, Steps, Channels

LEMMA NoImportTyped == NoImport \in [on : BOOLEAN, force : BOOLEAN, view : ImportViewType]
BY ImportViewTyped, NewMailboxTyped DEF NoImport

LEMMA TargetTyped ==
    ASSUME NEW m \in MailboxType, NEW c \in Channels PROVE Target(m, c) \in Channels
BY DEF Target, Channels, MailboxType

LEMMA RefreshedTyped ==
    ASSUME NEW m \in MailboxType, NEW j \in JobType PROVE Refreshed(m, j) \in MailboxType
<1>1. m.rt \in Nat /\ j.rt \in Nat /\ j.new \in Nat /\ j.version \in Nat /\ j.version + 1 \in Nat
  BY DEF MailboxType, JobType
<1>2. CASE j.new = 0
  BY <1>1, <1>2 DEF Refreshed, MailboxType
<1>3. CASE j.new # 0
  BY <1>1, <1>3 DEF Refreshed, MailboxType
<1> QED
  BY <1>2, <1>3

\* What complete_token_refresh writes.
LEMMA RefreshedRow ==
    ASSUME NEW m \in MailboxType, NEW j \in JobType, CASMatches(m, j), j.rt = m.rt
    PROVE  LET n == Refreshed(m, j)
           IN  /\ n.src = n.version /\ n.at = n.rt /\ n.status = m.status
               /\ \/ n.rt = m.rt /\ n.version = m.version
                  \/ n.version = m.version + 1
BY DEF Refreshed, MailboxType, JobType, CASMatches

LEMMA ApplyProbeTyped ==
    ASSUME NEW m \in MailboxType, NEW v, v.rt \in Nat, v.version \in Nat, v.src \in Nat,
           v.capability \in Capabilities, NEW p \in ProbeType
    PROVE  ApplyProbe(m, v, p) \in MailboxType
<1> DEFINE c == IF p.new # 0 \/ p.capability # v.capability THEN p.capability ELSE m.capability
           probed == [m EXCEPT !.capability = c]
<1>1. c \in Capabilities /\ p.new \in Nat /\ m.src \in Nat /\ m.version + 1 \in Nat
  BY DEF MailboxType, ProbeType
<1>2. probed \in MailboxType
  BY <1>1 DEF MailboxType
<1> HIDE DEF c, probed
<1>3. CASE ~p.replaced
  BY <1>2, <1>3 DEF ApplyProbe, probed, c
<1>4. CASE p.replaced /\ p.new = 0
  <2>1. ApplyProbe(m, v, p) = [probed EXCEPT !.at = v.rt, !.scope = "graph",
                            !.src = IF v.src # v.version THEN v.version ELSE m.src]
    BY <1>4 DEF ApplyProbe, probed, c
  <2> QED
    BY <2>1, <1>1, <1>2 DEF MailboxType
<1>5. CASE p.replaced /\ p.new # 0
  <2>1. ApplyProbe(m, v, p) = [probed EXCEPT !.at = p.new, !.scope = "graph",
                            !.rt = p.new, !.version = m.version + 1, !.src = m.version + 1]
    BY <1>5 DEF ApplyProbe, probed, c
  <2> QED
    BY <2>1, <1>1, <1>2 DEF MailboxType
<1> QED
  BY <1>3, <1>4, <1>5

\* What a probe writes.
LEMMA ApplyProbeRow ==
    ASSUME NEW m \in MailboxType, NEW v, v.rt \in Nat, v.version \in Nat, v.src \in Nat,
           v.capability \in Capabilities, NEW p \in ProbeType
    PROVE  LET n == ApplyProbe(m, v, p)
           IN  /\ n.status = m.status
               /\ \/ n.rt = m.rt /\ n.version = m.version
                  \/ n.version = m.version + 1
               /\ n.src \in {m.src, v.version, n.version}
BY DEF ApplyProbe, MailboxType, ProbeType

\* A probe that holds the row's lock keeps the AT bound to the RT.
LEMMA ProbeUnderLock ==
    ASSUME NEW m \in MailboxType, NEW p \in ProbeType, m.at # 0 /\ m.src = m.version => m.at = m.rt
    PROVE  LET n == ApplyProbe(m, m, p) IN n.at # 0 /\ n.src = n.version => n.at = n.rt
BY DEF ApplyProbe, MailboxType, ProbeType

LEMMA ProbeAnswersTyped ==
    ASSUME NEW v, NEW n \in Nat, NEW p \in ProbeAnswers(v, n) PROVE p \in ProbeType /\ p.new \in {0, n}
<1>1. CASE p \in [replaced : {FALSE}, new : {0}, capability : {"imap", "graph", "failed"}]
  <2>1. PICK x \in {0}, c \in {"imap", "graph", "failed"} : p = [replaced |-> FALSE, new |-> x, capability |-> c]
    BY <1>1, Zenon
  <2>2. x \in Nat /\ c \in Capabilities
    BY DEF Capabilities
  <2>3. [replaced |-> FALSE, new |-> x, capability |-> c] \in [replaced : BOOLEAN, new : Nat, capability : Capabilities]
    BY <2>2, Zenon
  <2> QED
    BY <2>1, <2>3 DEF ProbeType
<1>2. CASE p \in [replaced : {TRUE}, new : {0, n}, capability : {"graph"}]
  <2>1. PICK x \in {0, n}, c \in {"graph"} : p = [replaced |-> TRUE, new |-> x, capability |-> c]
    BY <1>2, Zenon
  <2>2. x \in Nat /\ c \in Capabilities
    BY DEF Capabilities
  <2>3. [replaced |-> TRUE, new |-> x, capability |-> c] \in [replaced : BOOLEAN, new : Nat, capability : Capabilities]
    BY <2>2, Zenon
  <2> QED
    BY <2>1, <2>3 DEF ProbeType
<1> QED
  BY <1>1, <1>2 DEF ProbeAnswers

-----------------------------------------------------------------------------
(* Type correctness *)

LEMMA JobReplaced ==
    ASSUME TypeOK, NEW w \in Workers, NEW j \in JobType, job' = [job EXCEPT ![w] = j]
    PROVE  job' \in [Workers -> JobType]
BY DEF TypeOK

LEMMA ReturnTyped ==
    ASSUME TypeOK, NEW w \in Workers, Return(w) PROVE job' \in [Workers -> JobType]
BY JobReplaced, IdleTyped DEF Return

LEMMA GotoTyped ==
    ASSUME TypeOK, NEW w \in Workers, NEW pc \in Steps, Goto(w, pc)
    PROVE  job' \in [Workers -> JobType]
<1>1. job[w] \in JobType
  BY DEF TypeOK
<1>2. [job[w] EXCEPT !.pc = pc] \in JobType
  BY <1>1 DEF JobType
<1>3. job' = [job EXCEPT ![w] = [job[w] EXCEPT !.pc = pc]]
  BY DEF Goto, TypeOK
<1> QED
  BY <1>2, <1>3, JobReplaced

LEMMA ForgetTyped ==
    ASSUME TypeOK, NEW w \in Workers, NEW pc \in Steps, Forget(w, pc)
    PROVE  job' \in [Workers -> JobType]
<1> DEFINE j == [Idle EXCEPT !.pc = pc, !.req = job[w].req, !.target = job[w].target, !.retry = job[w].retry]
<1>1. job[w] \in JobType
  BY DEF TypeOK
<1>2. job[w].req \in RequestType /\ job[w].target \in Channels /\ job[w].retry \in BOOLEAN
  BY <1>1, Zenon DEF JobType
<1>3. j \in JobType
  BY <1>2, IdleTyped DEF JobType
<1> QED
  BY <1>3, JobReplaced DEF Forget

LEMMA WorkerTyped ==
    ASSUME TypeOK, NEW w \in Workers, Worker(w) PROVE TypeOK'
<1>0. job[w] \in JobType /\ mailbox \in MailboxType /\ issued \in Nat /\ claims \in Nat
  BY DEF TypeOK
<1>r. job[w].req \in RequestType /\ job[w].req.channel \in Channels /\ job[w].view \in ViewType
      /\ job[w].probe \in ProbeType
  BY <1>0 DEF JobType, RequestType
<1>s. {"claim", "fail", "release", "finish", "probe", "winner", "apply", "exchange", "probing"} \subseteq Steps
  BY DEF Steps
<1>1. CASE CacheHitReturns(w)
  <2>1. job' \in [Workers -> JobType]
    BY <1>1, ReturnTyped DEF CacheHitReturns
  <2>2. CASE UNCHANGED <<mailbox, issued>>
    BY <1>1, <2>1, <2>2 DEF CacheHitReturns, TypeOK, rest
  <2>3. CASE \E p \in ProbeAnswers(mailbox, issued + 1) :
                /\ mailbox' = ApplyProbe(mailbox, mailbox, p)
                /\ issued' = IF p.new = 0 THEN issued ELSE p.new
    <3>1. PICK p \in ProbeAnswers(mailbox, issued + 1) :
                /\ mailbox' = ApplyProbe(mailbox, mailbox, p)
                /\ issued' = IF p.new = 0 THEN issued ELSE p.new
      BY <2>3
    <3>2. p \in ProbeType /\ issued' \in Nat
      BY <1>0, <3>1, ProbeAnswersTyped
    <3>3. mailbox' \in MailboxType
      BY <1>0, <3>1, <3>2, ApplyProbeTyped DEF MailboxType
    <3> QED
      BY <1>1, <2>1, <3>2, <3>3 DEF CacheHitReturns, TypeOK, rest
  <2> QED
    BY <1>1, <2>2, <2>3 DEF CacheHitReturns
<1>2. CASE CacheMisses(w) \/ ExchangeFails(w)
  <2>1. job' \in [Workers -> JobType]
    BY <1>2, <1>s, GotoTyped DEF CacheMisses, ExchangeFails
  <2> QED
    BY <1>2, <2>1 DEF CacheMisses, ExchangeFails, TypeOK, rest, network
<1>3. CASE PhaseARefused(w)
  <2>1. job' \in [Workers -> JobType]
    BY <1>3, ReturnTyped DEF PhaseARefused
  <2> QED
    BY <1>3, <2>1 DEF PhaseARefused, TypeOK, rest, network
<1>4. CASE PhaseA(w)
  <2> DEFINE t == Target(mailbox, job[w].req.channel)
             j == [job[w] EXCEPT !.pc = "exchange", !.target = t, !.claim = claims + 1,
                                 !.rt = mailbox.rt, !.version = mailbox.version, !.new = 0]
  <2>1. t \in Channels /\ claims + 1 \in Nat /\ mailbox.rt \in Nat /\ mailbox.version \in Nat
    BY <1>0, <1>r, TargetTyped DEF MailboxType
  <2> HIDE DEF t
  <2>2. j \in JobType
    BY <1>0, <1>s, <2>1 DEF JobType
  <2>3. job' = [job EXCEPT ![w] = j]
    BY <1>4 DEF PhaseA, TypeOK, t
  <2>4. job' \in [Workers -> JobType]
    BY <2>2, <2>3, JobReplaced
  <2>5. mailbox' \in MailboxType
    BY <1>0, <1>4, <2>1 DEF PhaseA, MailboxType
  <2> QED
    BY <1>4, <2>1, <2>4, <2>5 DEF PhaseA, TypeOK, rest, network
<1>5. CASE Granted(w)
  <2>1. PICK rotated \in BOOLEAN :
          /\ issued' = IF rotated THEN issued + 1 ELSE issued
          /\ job' = [job EXCEPT ![w].pc = "finish", ![w].new = IF rotated THEN issued + 1 ELSE 0]
    BY <1>5 DEF Granted
  <2> DEFINE n == IF rotated THEN issued + 1 ELSE 0
             j == [job[w] EXCEPT !.pc = "finish", !.new = n]
  <2>2. issued' \in Nat /\ n \in Nat
    BY <1>0, <2>1
  <2>3. job' = [job EXCEPT ![w] = j]
    BY <2>1 DEF TypeOK
  <2> HIDE DEF n
  <2>4. j \in JobType
    BY <1>0, <1>s, <2>2 DEF JobType
  <2>5. job' \in [Workers -> JobType]
    BY <2>3, <2>4, JobReplaced
  <2> QED
    BY <1>5, <2>2, <2>5 DEF Granted, TypeOK, rest
<1>6. CASE InvalidGrant(w)
  <2>1. job' \in [Workers -> JobType]
    BY <1>6, <1>s, GotoTyped DEF InvalidGrant
  <2>2. rejected' \subseteq Nat
    BY <1>0, <1>6 DEF InvalidGrant, TypeOK, JobType
  <2> QED
    BY <1>6, <2>1, <2>2 DEF InvalidGrant, TypeOK, rest
<1>7. CASE FailInvalidGrant(w) \/ ReleaseClaim(w)
  <2>1. job' \in [Workers -> JobType]
    BY <1>7, ReturnTyped DEF FailInvalidGrant, ReleaseClaim
  <2>2. mailbox' \in MailboxType
    <3>1. /\ [mailbox EXCEPT !.status = "invalid", !.claim = 0, !.live = FALSE] \in MailboxType
          /\ [mailbox EXCEPT !.claim = 0, !.live = FALSE] \in MailboxType
      BY <1>0 DEF MailboxType
    <3> QED
      BY <1>0, <1>7, <3>1 DEF FailInvalidGrant, ReleaseClaim
  <2> QED
    BY <1>7, <2>1, <2>2 DEF FailInvalidGrant, ReleaseClaim, TypeOK, rest, network
<1>8. CASE PhaseC(w)
  <2>1. mailbox' \in MailboxType
    BY <1>0, <1>8, RefreshedTyped DEF PhaseC
  <2>2. job' \in [Workers -> JobType]
    <3>1. (IF Confirms(mailbox, job[w]) THEN "probe" ELSE "winner") \in Steps
      BY <1>s
    <3> QED
      BY <1>8, <3>1, <1>s, ForgetTyped DEF PhaseC
  <2> QED
    BY <1>8, <2>1, <2>2 DEF PhaseC, TypeOK, rest, network
<1>9. CASE ReadWinner(w)
  <2>1. CASE Return(w)
    BY <1>9, <2>1, ReturnTyped DEF ReadWinner, TypeOK, rest, network
  <2>2. CASE job' = [job EXCEPT ![w].pc = "claim", ![w].retry = FALSE, ![w].req.force = TRUE]
    <3> DEFINE q == [job[w].req EXCEPT !.force = TRUE]
               j == [job[w] EXCEPT !.pc = "claim", !.retry = FALSE, !.req = q]
    <3>1. q \in RequestType
      BY <1>r DEF RequestType
    <3>2. job' = [job EXCEPT ![w] = j]
      BY <2>2 DEF TypeOK
    <3> HIDE DEF q
    <3>3. j \in JobType
      BY <1>0, <1>s, <3>1 DEF JobType
    <3>4. job' \in [Workers -> JobType]
      BY <3>2, <3>3, JobReplaced
    <3> QED
      BY <1>9, <3>4 DEF ReadWinner, TypeOK, rest, network
  <2> QED
    BY <1>9, <2>1, <2>2 DEF ReadWinner
<1>10. CASE LoadForProbe(w)
  <2>1. CASE Return(w)
    BY <1>10, <2>1, ReturnTyped DEF LoadForProbe, TypeOK, rest, network
  <2>2. CASE job' = [job EXCEPT ![w] = [Idle EXCEPT !.pc = "probing", !.view = View(mailbox)]]
    <3>1. View(mailbox) \in ViewType
      BY <1>0, ViewTyped
    <3>2. [Idle EXCEPT !.pc = "probing", !.view = View(mailbox)] \in JobType
      BY <1>s, <3>1, IdleTyped DEF JobType
    <3>3. job' \in [Workers -> JobType]
      BY <2>2, <3>2, JobReplaced
    <3> QED
      BY <1>10, <3>3 DEF LoadForProbe, TypeOK, rest, network
  <2> QED
    BY <1>10, <2>1, <2>2 DEF LoadForProbe
<1>11. CASE Probe(w)
  <2>1. PICK p \in ProbeAnswers(job[w].view, issued + 1) :
          /\ job' = [job EXCEPT ![w].pc = "apply", ![w].probe = p]
          /\ issued' = IF p.new = 0 THEN issued ELSE p.new
    BY <1>11 DEF Probe
  <2> DEFINE j == [job[w] EXCEPT !.pc = "apply", !.probe = p]
  <2>2. p \in ProbeType /\ issued' \in Nat
    BY <1>0, <2>1, ProbeAnswersTyped
  <2>3. j \in JobType
    BY <1>0, <1>s, <2>2 DEF JobType
  <2>4. job' = [job EXCEPT ![w] = j]
    BY <2>1 DEF TypeOK
  <2>5. job' \in [Workers -> JobType]
    BY <2>3, <2>4, JobReplaced
  <2> QED
    BY <1>11, <2>2, <2>5 DEF Probe, TypeOK, rest
<1>12. CASE ProbeApply(w)
  <2>1. job' \in [Workers -> JobType]
    BY <1>12, ReturnTyped DEF ProbeApply
  <2>2. mailbox' \in MailboxType
    BY <1>0, <1>r, <1>12, ApplyProbeTyped DEF ProbeApply, ViewType
  <2> QED
    BY <1>12, <2>1, <2>2 DEF ProbeApply, TypeOK, rest, network
<1> QED
  BY <1>1, <1>2, <1>3, <1>4, <1>5, <1>6, <1>7, <1>8, <1>9, <1>10, <1>11, <1>12 DEF Worker

LEMMA AroundTyped ==
    ASSUME TypeOK, Around PROVE TypeOK'
<1>0. mailbox \in MailboxType /\ issued \in Nat /\ changes \in Nat
      /\ import \in [on : BOOLEAN, force : BOOLEAN, view : ImportViewType]
  BY DEF TypeOK
<1>1. CASE ClaimExpires
  <2>1. mailbox' \in MailboxType
    BY <1>0, <1>1 DEF ClaimExpires, MailboxType
  <2> QED
    BY <1>1, <2>1 DEF ClaimExpires, TypeOK, rest, network
<1>2. CASE AcquireRefreshTokenLease \/ EndRefreshTokenLease
  BY <1>2 DEF AcquireRefreshTokenLease, EndRefreshTokenLease, TypeOK, network
<1>3. CASE UpdateRefreshToken
  <2>1. mailbox' \in MailboxType
    <3>1. mailbox.version \in Nat /\ mailbox.version + 1 \in Nat /\ issued + 1 \in Nat
      BY <1>0 DEF MailboxType
    <3>2. mailbox' = [mailbox EXCEPT !.rt = issued + 1, !.version = mailbox.version + 1, !.at = 0]
      BY <1>0, <1>3 DEF UpdateRefreshToken, MailboxType
    <3> QED
      BY <1>0, <3>1, <3>2 DEF MailboxType
  <2> QED
    BY <1>0, <1>3, <2>1 DEF UpdateRefreshToken, TypeOK
<1>4. CASE ImportLoad
  <2>1. ImportView(mailbox) \in ImportViewType /\ leased \in BOOLEAN
    BY <1>0, ImportViewTyped DEF TypeOK
  <2>2. [on |-> TRUE, force |-> leased, view |-> ImportView(mailbox)]
           \in [on : BOOLEAN, force : BOOLEAN, view : ImportViewType]
    BY <2>1, Zenon
  <2> QED
    BY <1>0, <1>4, <2>2 DEF ImportLoad, TypeOK, network
<1>5. CASE ImportReplace
  <2>1. PICK t \in {1, issued + 1} :
          /\ issued' = IF t > issued THEN t ELSE issued
          /\ mailbox' = [mailbox EXCEPT
                !.status = IF import.view.status # "active" THEN "active" ELSE @,
                !.rt = t,
                !.version = @ + 1,
                !.at = IF import.view.at THEN 0 ELSE @,
                !.src = IF import.view.src THEN 0 ELSE @,
                !.scope = IF import.view.scope # "outlook" THEN "outlook" ELSE @,
                !.capability = IF import.view.capability # "none" THEN "none" ELSE @]
    BY <1>5 DEF ImportReplace
  <2>2. mailbox' \in MailboxType
    <3> DEFINE st == IF import.view.status # "active" THEN "active" ELSE mailbox.status
               at == IF import.view.at THEN 0 ELSE mailbox.at
               src == IF import.view.src THEN 0 ELSE mailbox.src
               sc == IF import.view.scope # "outlook" THEN "outlook" ELSE mailbox.scope
               cap == IF import.view.capability # "none" THEN "none" ELSE mailbox.capability
               ver == mailbox.version + 1
    <3>1. st \in {"active", "invalid"} /\ at \in Nat /\ src \in Nat /\ sc \in {"outlook", "graph"}
          /\ cap \in Capabilities /\ ver \in Nat /\ t \in Nat
      BY <1>0 DEF MailboxType, Capabilities
    <3>2. mailbox' = [mailbox EXCEPT !.status = st, !.rt = t, !.version = ver, !.at = at, !.src = src,
                                     !.scope = sc, !.capability = cap]
      BY <1>0, <2>1 DEF MailboxType
    <3> HIDE DEF st, at, src, sc, cap, ver
    <3> QED
      BY <1>0, <3>1, <3>2 DEF MailboxType
  <2>3. issued' \in Nat /\ leased' \in BOOLEAN
    BY <1>0, <1>5, <2>1 DEF ImportReplace, TypeOK
  <2> QED
    BY <1>5, <2>2, <2>3, NoImportTyped DEF ImportReplace, TypeOK
<1> QED
  BY <1>1, <1>2, <1>3, <1>4, <1>5 DEF Around

LEMMA StartTyped ==
    ASSUME TypeOK, NEW w \in Workers, NEW r \in Requests, Start(w, r) PROVE TypeOK'
<1> DEFINE pc == IF r.force THEN "claim" ELSE "cache"
           j == [Idle EXCEPT !.pc = pc, !.req = r, !.retry = TRUE]
<1>1. pc \in Steps /\ r \in RequestType
  BY TokenAssumption DEF Steps
<1>2. job' = [job EXCEPT ![w] = j]
  BY DEF Start
<1> HIDE DEF pc
<1>3. j \in JobType
  BY <1>1, IdleTyped DEF JobType
<1>4. job' \in [Workers -> JobType]
  BY <1>2, <1>3, JobReplaced
<1> QED
  BY <1>4 DEF Start, TypeOK, network

LEMMA InitTyped == Init => TypeOK
<1> SUFFICES ASSUME Init PROVE TypeOK
  OBVIOUS
<1>1. job \in [Workers -> JobType]
  BY IdleTyped DEF Init
<1>2. leased \in BOOLEAN /\ rejected \subseteq Nat
  BY DEF Init
<1> QED
  BY <1>1, <1>2, NewMailboxTyped, NoImportTyped DEF Init, TypeOK

LEMMA NextTyped == TypeOK /\ [Next]_vars => TypeOK'
<1> SUFFICES ASSUME TypeOK, [Next]_vars PROVE TypeOK'
  OBVIOUS
<1>1. CASE UNCHANGED vars
  BY <1>1 DEF vars, TypeOK
<1>2. ASSUME NEW w \in Workers, Crash(w) PROVE TypeOK'
  BY <1>2, ReturnTyped DEF Crash, TypeOK, rest, network
<1> QED
  BY <1>1, <1>2, StartTyped, WorkerTyped, AroundTyped DEF Next

-----------------------------------------------------------------------------
(* What the steps do to the row, and what the jobs remember of it *)

RowStep ==
    /\ \/ mailbox'.rt = mailbox.rt /\ mailbox'.version = mailbox.version
       \/ mailbox'.version = mailbox.version + 1
    /\ mailbox'.src <= mailbox'.version

\* A worker remembers what it remembered, or learns it from the row.
Remembers(v) ==
    /\ job'[v].pc \in Claiming =>
          \/ job[v].pc \in Claiming /\ job'[v].version = job[v].version /\ job'[v].rt = job[v].rt
          \/ job'[v].version = mailbox'.version /\ job'[v].rt = mailbox'.rt
    /\ job'[v].pc = "fail" =>
          \/ job[v].pc = "fail" /\ job'[v].rt = job[v].rt
          \/ job'[v].rt \in rejected'
    /\ job'[v].pc \in {"probing", "apply"} =>
          \/ job[v].pc \in {"probing", "apply"} /\ job'[v].view = job[v].view
          \/ job'[v].view.version = mailbox'.version

LEMMA MemoryKept ==
    ASSUME TokenInv, TypeOK', RowStep, rejected \subseteq rejected',
           \A v \in Workers : Remembers(v)
    PROVE  TokenInv'
<1>1. mailbox.version \in Nat /\ mailbox'.version \in Nat
  BY DEF TokenInv, TypeOK, MailboxType
<1>2. \A v \in Workers : job[v].version \in Nat /\ job[v].view.version \in Nat
  BY DEF TokenInv, TypeOK, JobType, ViewType
<1>3. VersionNamesToken'
  <2> SUFFICES ASSUME NEW v \in Workers, job'[v].pc \in Claiming
               PROVE  /\ job'[v].version <= mailbox'.version
                      /\ job'[v].version = mailbox'.version => job'[v].rt = mailbox'.rt
    BY DEF VersionNamesToken, Claiming
  <2>1. CASE job[v].pc \in Claiming /\ job'[v].version = job[v].version /\ job'[v].rt = job[v].rt
    <3>1. /\ job[v].version <= mailbox.version
          /\ job[v].version = mailbox.version => job[v].rt = mailbox.rt
      BY <2>1 DEF TokenInv, VersionNamesToken, Claiming
    <3> QED
      BY <1>1, <1>2, <2>1, <3>1 DEF RowStep
  <2>2. CASE job'[v].version = mailbox'.version /\ job'[v].rt = mailbox'.rt
    BY <1>1, <2>2
  <2> QED
    BY <2>1, <2>2 DEF Remembers
<1>4. RejectionSeen'
  BY DEF Remembers, RejectionSeen, TokenInv
<1>5. NothingAhead'
  <2> SUFFICES ASSUME NEW v \in Workers, job'[v].pc \in {"probing", "apply"}
               PROVE  job'[v].view.version <= mailbox'.version
    BY DEF NothingAhead, RowStep
  <2>1. CASE job[v].pc \in {"probing", "apply"} /\ job'[v].view = job[v].view
    <3>1. job[v].view.version <= mailbox.version
      BY <2>1 DEF TokenInv, NothingAhead
    <3> QED
      BY <1>1, <1>2, <2>1, <3>1 DEF RowStep
  <2>2. CASE job'[v].view.version = mailbox'.version
    BY <1>1, <2>2
  <2> QED
    BY <2>1, <2>2 DEF Remembers
<1> QED
  BY <1>3, <1>4, <1>5 DEF TokenInv

LEMMA RowKept ==
    ASSUME TokenInv, mailbox'.rt = mailbox.rt, mailbox'.version = mailbox.version, mailbox'.src = mailbox.src
    PROVE  RowStep
BY DEF RowStep, TokenInv, NothingAhead

LEMMA OthersRemember ==
    ASSUME TypeOK, NEW w \in Workers, NEW j, job' = [job EXCEPT ![w] = j], Remembers(w)
    PROVE  \A v \in Workers : Remembers(v)
<1> SUFFICES ASSUME NEW v \in Workers, v # w PROVE Remembers(v)
  OBVIOUS
<1>1. job'[v] = job[v]
  BY DEF TypeOK
<1> QED
  BY <1>1 DEF Remembers

\* A worker that has left the claim and the probe behind it has nothing to remember.
LEMMA NothingToRemember ==
    ASSUME TypeOK, NEW w \in Workers, NEW j, job' = [job EXCEPT ![w] = j],
           j.pc \notin Claiming \cup {"probing", "apply"}
    PROVE  \A v \in Workers : Remembers(v)
<1>1. job'[w] = j
  BY DEF TypeOK
<1>2. Remembers(w)
  BY <1>1 DEF Remembers, Claiming
<1> QED
  BY <1>2, OthersRemember

LEMMA IdlePc == Idle.pc = "idle"
BY DEF Idle

LEMMA ReturnRemembers ==
    ASSUME TypeOK, NEW w \in Workers, Return(w) PROVE \A v \in Workers : Remembers(v)
BY IdlePc, NothingToRemember DEF Return, Claiming

\* A worker that goes on in the same part of its job.
LEMMA StillRemembers ==
    ASSUME TypeOK, NEW w \in Workers, NEW j, job' = [job EXCEPT ![w] = j],
           j.version = job[w].version, j.rt = job[w].rt, j.view = job[w].view,
           \/ job[w].pc \in Claiming /\ j.pc \in Claiming
           \/ job[w].pc \in {"probing", "apply"} /\ j.pc \in {"probing", "apply"},
           j.pc = "fail" => j.rt \in rejected'
    PROVE  \A v \in Workers : Remembers(v)
<1>1. job'[w] = j
  BY DEF TypeOK
<1>2. Remembers(w)
  BY <1>1 DEF Remembers, Claiming
<1> QED
  BY <1>2, OthersRemember

\* Every step of a worker.
LEMMA WorkerKeeps ==
    ASSUME TokenInv, NEW w \in Workers, Worker(w)
    PROVE  RowStep /\ rejected \subseteq rejected' /\ \A v \in Workers : Remembers(v)
<1> USE DEF Claiming
<1>0. TypeOK /\ job[w] \in JobType /\ mailbox \in MailboxType /\ issued \in Nat
      /\ job[w].view \in ViewType /\ job[w].probe \in ProbeType
  BY DEF TokenInv, TypeOK, JobType
<1>g. ASSUME NEW pc, Goto(w, pc)
      PROVE  \E j : /\ job' = [job EXCEPT ![w] = j] /\ j.pc = pc
                    /\ j.version = job[w].version /\ j.rt = job[w].rt /\ j.view = job[w].view
  <2> DEFINE j == [job[w] EXCEPT !.pc = pc]
  <2>1. job' = [job EXCEPT ![w] = j]
    BY <1>0, <1>g DEF Goto, TypeOK
  <2>2. j.pc = pc /\ j.version = job[w].version /\ j.rt = job[w].rt /\ j.view = job[w].view
    BY <1>0 DEF JobType
  <2> HIDE DEF j
  <2> QED
    BY <2>1, <2>2
<1>1. CASE CacheHitReturns(w)
  <2>1. RowStep
    <3>1. CASE UNCHANGED mailbox
      BY <3>1, RowKept
    <3>2. CASE \E p \in ProbeAnswers(mailbox, issued + 1) : mailbox' = ApplyProbe(mailbox, mailbox, p)
      <4>1. PICK p \in ProbeAnswers(mailbox, issued + 1) : mailbox' = ApplyProbe(mailbox, mailbox, p)
        BY <3>2
      <4>2. p \in ProbeType
        BY <1>0, ProbeAnswersTyped
      <4>3. /\ \/ mailbox'.rt = mailbox.rt /\ mailbox'.version = mailbox.version
               \/ mailbox'.version = mailbox.version + 1
            /\ mailbox'.src \in {mailbox.src, mailbox.version, mailbox'.version}
        BY <1>0, <4>1, <4>2, ApplyProbeRow DEF MailboxType
      <4> QED
        BY <1>0, <4>3 DEF RowStep, TokenInv, NothingAhead, MailboxType
    <3> QED
      BY <1>1, <3>1, <3>2 DEF CacheHitReturns
  <2> QED
    BY <1>0, <1>1, <2>1, ReturnRemembers DEF CacheHitReturns
<1>2. CASE CacheMisses(w)
  <2>1. \A v \in Workers : Remembers(v)
    <3>1. PICK j : /\ job' = [job EXCEPT ![w] = j] /\ j.pc = "claim"
                   /\ j.version = job[w].version /\ j.rt = job[w].rt /\ j.view = job[w].view
      BY <1>2, <1>g DEF CacheMisses
    <3> QED
      BY <1>0, <3>1, NothingToRemember
  <2> QED
    BY <1>2, <2>1, RowKept DEF CacheMisses, network
<1>3. CASE PhaseARefused(w)
  BY <1>0, <1>3, RowKept, ReturnRemembers DEF PhaseARefused, network
<1>4. CASE PhaseA(w)
  <2> DEFINE j == [job[w] EXCEPT !.pc = "exchange", !.target = Target(mailbox, job[w].req.channel),
                                 !.claim = claims + 1, !.rt = mailbox.rt,
                                 !.version = mailbox.version, !.new = 0]
  <2>1. job' = [job EXCEPT ![w] = j]
    BY <1>4 DEF PhaseA, TokenInv, TypeOK
  <2>2. j.pc = "exchange" /\ j.rt = mailbox.rt /\ j.version = mailbox.version
    BY <1>0 DEF JobType
  <2>3. mailbox'.rt = mailbox.rt /\ mailbox'.version = mailbox.version /\ mailbox'.src = mailbox.src
    BY <1>0, <1>4 DEF PhaseA, MailboxType
  <2>4. job'[w] = j
    BY <1>0, <2>1 DEF TypeOK
  <2> HIDE DEF j
  <2>5. Remembers(w)
    BY <2>2, <2>3, <2>4 DEF Remembers
  <2>6. \A v \in Workers : Remembers(v)
    BY <1>0, <2>1, <2>5, OthersRemember
  <2> QED
    BY <1>4, <2>3, <2>6, RowKept DEF PhaseA, network
<1>5. CASE Granted(w)
  <2>1. PICK n : job' = [job EXCEPT ![w].pc = "finish", ![w].new = n]
    BY <1>5 DEF Granted
  <2> DEFINE j == [job[w] EXCEPT !.pc = "finish", !.new = n]
  <2>2. job' = [job EXCEPT ![w] = j]
    BY <2>1 DEF TokenInv, TypeOK
  <2>3. j.pc = "finish" /\ j.version = job[w].version /\ j.rt = job[w].rt /\ j.view = job[w].view
    BY <1>0 DEF JobType
  <2>4. job[w].pc \in Claiming
    BY <1>5 DEF Granted
  <2> HIDE DEF j
  <2>5. \A v \in Workers : Remembers(v)
    BY <1>0, <2>2, <2>3, <2>4, StillRemembers
  <2> QED
    BY <1>5, <2>5, RowKept DEF Granted
<1>6. CASE InvalidGrant(w)
  <2>1. job[w].pc \in Claiming /\ job[w].rt \in rejected'
    BY <1>6 DEF InvalidGrant
  <2>2. \A v \in Workers : Remembers(v)
    <3>1. PICK j : /\ job' = [job EXCEPT ![w] = j] /\ j.pc = "fail"
                   /\ j.version = job[w].version /\ j.rt = job[w].rt /\ j.view = job[w].view
      BY <1>6, <1>g DEF InvalidGrant
    <3> QED
      BY <1>0, <2>1, <3>1, StillRemembers
  <2> QED
    BY <1>6, <2>2, RowKept DEF InvalidGrant
<1>7. CASE ExchangeFails(w)
  <2>1. \A v \in Workers : Remembers(v)
    <3>1. PICK j : /\ job' = [job EXCEPT ![w] = j] /\ j.pc = "release"
                   /\ j.version = job[w].version /\ j.rt = job[w].rt /\ j.view = job[w].view
      BY <1>7, <1>g DEF ExchangeFails
    <3>2. job[w].pc \in Claiming
      BY <1>7 DEF ExchangeFails
    <3> QED
      BY <1>0, <3>1, <3>2, StillRemembers
  <2> QED
    BY <1>7, <2>1, RowKept DEF ExchangeFails, network
<1>8. CASE FailInvalidGrant(w) \/ ReleaseClaim(w)
  <2>1. mailbox'.rt = mailbox.rt /\ mailbox'.version = mailbox.version /\ mailbox'.src = mailbox.src
    BY <1>0, <1>8 DEF FailInvalidGrant, ReleaseClaim, MailboxType
  <2> QED
    BY <1>0, <1>8, <2>1, RowKept, ReturnRemembers DEF FailInvalidGrant, ReleaseClaim, network
<1>9. CASE PhaseC(w)
  <2>1. RowStep
    <3>1. CASE UNCHANGED mailbox
      BY <3>1, RowKept
    <3>2. CASE CASMatches(mailbox, job[w]) /\ mailbox' = Refreshed(mailbox, job[w])
      <4>1. job[w].rt = mailbox.rt
        BY <1>9, <3>2 DEF PhaseC, CASMatches, TokenInv, VersionNamesToken
      <4>2. mailbox' \in MailboxType
        BY <1>0, <3>2, RefreshedTyped
      <4> QED
        BY <1>0, <3>2, <4>1, <4>2, RefreshedRow DEF RowStep, MailboxType
    <3> QED
      BY <1>9, <3>1, <3>2 DEF PhaseC
  <2>2. ASSUME NEW pc \in {"probe", "winner"}, Forget(w, pc) PROVE \A v \in Workers : Remembers(v)
    <3> DEFINE j == [Idle EXCEPT !.pc = pc, !.req = job[w].req, !.target = job[w].target,
                                 !.retry = job[w].retry]
    <3>1. j.pc = pc
      BY IdleTyped DEF JobType
    <3>2. job' = [job EXCEPT ![w] = j]
      BY <2>2 DEF Forget
    <3> HIDE DEF j
    <3> QED
      BY <1>0, <3>1, <3>2, NothingToRemember
  <2>3. \A v \in Workers : Remembers(v)
    BY <1>9, <2>2 DEF PhaseC
  <2> QED
    BY <1>9, <2>1, <2>3 DEF PhaseC, network
<1>10. CASE ReadWinner(w)
  <2>1. CASE Return(w)
    BY <1>0, <1>10, <2>1, RowKept, ReturnRemembers DEF ReadWinner, network
  <2>2. CASE job' = [job EXCEPT ![w].pc = "claim", ![w].retry = FALSE, ![w].req.force = TRUE]
    <3> DEFINE j == [job[w] EXCEPT !.pc = "claim", !.retry = FALSE, !.req.force = TRUE]
    <3>1. job' = [job EXCEPT ![w] = j]
      BY <2>2 DEF TokenInv, TypeOK
    <3>2. j.pc = "claim"
      BY <1>0 DEF JobType
    <3> HIDE DEF j
    <3>3. \A v \in Workers : Remembers(v)
      BY <1>0, <3>1, <3>2, NothingToRemember
    <3> QED
      BY <1>10, <3>3, RowKept DEF ReadWinner, network
  <2> QED
    BY <1>10, <2>1, <2>2 DEF ReadWinner
<1>11. CASE LoadForProbe(w)
  <2>1. CASE Return(w)
    BY <1>0, <1>11, <2>1, RowKept, ReturnRemembers DEF LoadForProbe, network
  <2>2. CASE job' = [job EXCEPT ![w] = [Idle EXCEPT !.pc = "probing", !.view = View(mailbox)]]
    <3> DEFINE j == [Idle EXCEPT !.pc = "probing", !.view = View(mailbox)]
    <3>1. j.pc = "probing" /\ j.view.version = mailbox.version
      BY IdleTyped DEF JobType, View
    <3>2. job'[w] = j
      BY <1>0, <2>2 DEF TypeOK
    <3>3. mailbox' = mailbox
      BY <1>11 DEF LoadForProbe
    <3> HIDE DEF j
    <3>4. Remembers(w)
      BY <3>1, <3>2, <3>3 DEF Remembers
    <3>5. \A v \in Workers : Remembers(v)
      BY <1>0, <2>2, <3>4, OthersRemember
    <3> QED
      BY <1>11, <3>5, RowKept DEF LoadForProbe, network
  <2> QED
    BY <1>11, <2>1, <2>2 DEF LoadForProbe
<1>12. CASE Probe(w)
  <2>1. PICK p : job' = [job EXCEPT ![w].pc = "apply", ![w].probe = p]
    BY <1>12 DEF Probe
  <2> DEFINE j == [job[w] EXCEPT !.pc = "apply", !.probe = p]
  <2>2. job' = [job EXCEPT ![w] = j]
    BY <2>1 DEF TokenInv, TypeOK
  <2>3. j.pc = "apply" /\ j.version = job[w].version /\ j.rt = job[w].rt /\ j.view = job[w].view
    BY <1>0 DEF JobType
  <2>4. job[w].pc = "probing"
    BY <1>12 DEF Probe
  <2> HIDE DEF j
  <2>5. \A v \in Workers : Remembers(v)
    BY <1>0, <2>2, <2>3, <2>4, StillRemembers
  <2> QED
    BY <1>12, <2>5, RowKept DEF Probe
<1>13. CASE ProbeApply(w)
  <2>1. /\ \/ mailbox'.rt = mailbox.rt /\ mailbox'.version = mailbox.version
           \/ mailbox'.version = mailbox.version + 1
        /\ mailbox'.src \in {mailbox.src, job[w].view.version, mailbox'.version}
    BY <1>0, <1>13, ApplyProbeRow DEF ProbeApply, ViewType
  <2>2. mailbox.src <= mailbox.version /\ job[w].view.version <= mailbox.version
    BY <1>13 DEF ProbeApply, TokenInv, NothingAhead
  <2>3. mailbox.version \in Nat /\ mailbox.src \in Nat /\ job[w].view.version \in Nat
    BY <1>0 DEF MailboxType, ViewType
  <2>4. RowStep
    BY <2>1, <2>2, <2>3 DEF RowStep
  <2> QED
    BY <1>0, <1>13, <2>4, ReturnRemembers DEF ProbeApply, network
<1> QED
  BY <1>1, <1>2, <1>3, <1>4, <1>5, <1>6, <1>7, <1>8, <1>9, <1>10, <1>11, <1>12, <1>13 DEF Worker

LEMMA AroundKeeps ==
    ASSUME TokenInv, Around
    PROVE  RowStep /\ rejected \subseteq rejected' /\ \A v \in Workers : Remembers(v)
<1>0. mailbox \in MailboxType /\ mailbox.src <= mailbox.version /\ mailbox.version \in Nat /\ mailbox.src \in Nat
  BY DEF TokenInv, TypeOK, MailboxType, NothingAhead
<1>1. job' = job /\ rejected' = rejected
  BY DEF Around, ClaimExpires, AcquireRefreshTokenLease, EndRefreshTokenLease, UpdateRefreshToken,
         ImportLoad, ImportReplace, network
<1>2. \A v \in Workers : Remembers(v)
  BY <1>1 DEF Remembers
<1>3. RowStep
  <2>1. CASE ClaimExpires \/ AcquireRefreshTokenLease \/ EndRefreshTokenLease \/ ImportLoad
    <3>1. mailbox'.rt = mailbox.rt /\ mailbox'.version = mailbox.version /\ mailbox'.src = mailbox.src
      BY <1>0, <2>1 DEF ClaimExpires, AcquireRefreshTokenLease, EndRefreshTokenLease, ImportLoad, MailboxType
    <3> QED
      BY <3>1, RowKept
  <2>2. CASE UpdateRefreshToken
    <3>1. mailbox'.version = mailbox.version + 1 /\ mailbox'.src = mailbox.src
      BY <1>0, <2>2 DEF UpdateRefreshToken, MailboxType
    <3> QED
      BY <1>0, <3>1 DEF RowStep
  <2>3. CASE ImportReplace
    <3>1. mailbox'.version = mailbox.version + 1 /\ mailbox'.src \in {0, mailbox.src}
      BY <1>0, <2>3 DEF ImportReplace, MailboxType
    <3> QED
      BY <1>0, <3>1 DEF RowStep
  <2> QED
    BY <2>1, <2>2, <2>3 DEF Around
<1> QED
  BY <1>1, <1>2, <1>3

LEMMA StartKeeps ==
    ASSUME TokenInv, NEW w \in Workers, NEW r \in Requests, Start(w, r)
    PROVE  RowStep /\ rejected \subseteq rejected' /\ \A v \in Workers : Remembers(v)
<1> DEFINE pc == IF r.force THEN "claim" ELSE "cache"
           j == [Idle EXCEPT !.pc = pc, !.req = r, !.retry = TRUE]
<1>1. job' = [job EXCEPT ![w] = j]
  BY DEF Start
<1>2. j.pc \in {"claim", "cache"}
  BY IdleTyped DEF JobType
<1> HIDE DEF j
<1>3. \A v \in Workers : Remembers(v)
  BY <1>1, <1>2, NothingToRemember DEF TokenInv, Claiming
<1> QED
  BY <1>3, RowKept DEF Start, network

LEMMA InitInv == Init => TokenInv
<1> SUFFICES ASSUME Init PROVE TokenInv
  OBVIOUS
<1>1. \A w \in Workers : job[w].pc = "idle"
  BY IdlePc DEF Init
<1>2. mailbox.src <= mailbox.version
  BY DEF Init, NewMailbox
<1> QED
  BY <1>1, <1>2, InitTyped DEF TokenInv, VersionNamesToken, RejectionSeen, NothingAhead

LEMMA NextInv == TokenInv /\ [Next]_vars => TokenInv'
<1> SUFFICES ASSUME TokenInv, [Next]_vars PROVE TokenInv'
  OBVIOUS
<1>1. TypeOK'
  BY NextTyped DEF TokenInv
<1>2. RowStep /\ rejected \subseteq rejected' /\ \A v \in Workers : Remembers(v)
  <2>1. CASE UNCHANGED vars
    BY <2>1, RowKept DEF vars, Remembers
  <2>2. ASSUME NEW w \in Workers, Crash(w)
        PROVE  RowStep /\ rejected \subseteq rejected' /\ \A v \in Workers : Remembers(v)
    BY <2>2, RowKept, ReturnRemembers DEF Crash, TokenInv, network
  <2> QED
    BY <2>1, <2>2, StartKeeps, WorkerKeeps, AroundKeeps DEF Next
<1> QED
  BY <1>1, <1>2, MemoryKept

LEMMA AlwaysTokenInv == Spec => []TokenInv
BY InitInv, NextInv, PTL DEF Spec

\* Every reachable state of the token refresh is well typed.
THEOREM TokenTypes == Spec => []TypeOK
<1>1. TokenInv => TypeOK
  BY DEF TokenInv
<1> QED
  BY <1>1, AlwaysTokenInv, PTL

\* Whoever holds a version of a mailbox that is still the row's holds the token of the row:
\* the compare-and-set of Phase C compares the token by comparing the version.
THEOREM VersionIsToken == Spec => []VersionNamesToken
<1>1. TokenInv => VersionNamesToken
  BY DEF TokenInv
<1> QED
  BY <1>1, AlwaysTokenInv, PTL

-----------------------------------------------------------------------------
(* The status of the mailbox *)

StatusStep ==
    \/ mailbox'.status = mailbox.status
    \/ mailbox'.status = "active" /\ mailbox'.version = mailbox.version + 1
    \/ /\ mailbox'.status = "invalid"
       /\ mailbox'.rt = mailbox.rt /\ mailbox'.version = mailbox.version
       /\ mailbox'.rt \in rejected'

LEMMA StatusMoves ==
    ASSUME TokenInv, [Next]_vars PROVE StatusStep
<1>0. mailbox \in MailboxType /\ issued \in Nat
  BY DEF TokenInv, TypeOK
<1>1. CASE UNCHANGED mailbox
  BY <1>1 DEF StatusStep
<1>2. ASSUME NEW w \in Workers, CacheHitReturns(w) PROVE StatusStep
  <2>1. ASSUME NEW p \in ProbeAnswers(mailbox, issued + 1), mailbox' = ApplyProbe(mailbox, mailbox, p)
        PROVE  StatusStep
    <3>1. p \in ProbeType
      BY <1>0, ProbeAnswersTyped
    <3>2. mailbox'.status = mailbox.status
      BY <1>0, <2>1, <3>1, ApplyProbeRow DEF MailboxType
    <3> QED
      BY <3>2 DEF StatusStep
  <2> QED
    BY <1>1, <1>2, <2>1 DEF CacheHitReturns
<1>3. ASSUME NEW w \in Workers, PhaseA(w) \/ ReleaseClaim(w) PROVE StatusStep
  <2>1. mailbox'.status = mailbox.status
    BY <1>0, <1>3 DEF PhaseA, ReleaseClaim, MailboxType
  <2> QED
    BY <2>1 DEF StatusStep
<1>4. ASSUME NEW w \in Workers, FailInvalidGrant(w) PROVE StatusStep
  <2>1. CASE CASMatches(mailbox, job[w])
    <3>1. job[w].rt = mailbox.rt /\ job[w].rt \in rejected
      BY <1>4, <2>1 DEF FailInvalidGrant, CASMatches, TokenInv, VersionNamesToken, RejectionSeen
    <3>2. mailbox' = [mailbox EXCEPT !.status = "invalid", !.claim = 0, !.live = FALSE] /\ rejected' = rejected
      BY <1>4, <2>1 DEF FailInvalidGrant, network
    <3>3. mailbox'.status = "invalid" /\ mailbox'.rt = mailbox.rt /\ mailbox'.version = mailbox.version
      BY <1>0, <3>2 DEF MailboxType
    <3> QED
      BY <3>1, <3>2, <3>3 DEF StatusStep
  <2> QED
    BY <1>1, <1>4, <2>1 DEF FailInvalidGrant
<1>5. ASSUME NEW w \in Workers, PhaseC(w) PROVE StatusStep
  <2>1. CASE mailbox' = Refreshed(mailbox, job[w])
    BY <1>0, <2>1 DEF Refreshed, MailboxType, StatusStep
  <2> QED
    BY <1>1, <1>5, <2>1 DEF PhaseC
<1>6. ASSUME NEW w \in Workers, ProbeApply(w) PROVE StatusStep
  <2>1. job[w].view \in ViewType /\ job[w].probe \in ProbeType
    BY DEF TokenInv, TypeOK, JobType
  <2>2. mailbox'.status = mailbox.status
    BY <1>0, <1>6, <2>1, ApplyProbeRow DEF ProbeApply, ViewType
  <2> QED
    BY <2>2 DEF StatusStep
<1>7. ASSUME Around PROVE StatusStep
  <2>1. CASE ClaimExpires \/ UpdateRefreshToken
    <3>1. mailbox'.status = mailbox.status
      BY <1>0, <2>1 DEF ClaimExpires, UpdateRefreshToken, MailboxType
    <3> QED
      BY <3>1 DEF StatusStep
  <2>2. CASE ImportReplace
    <3>1. mailbox'.version = mailbox.version + 1 /\ mailbox'.status \in {"active", mailbox.status}
      BY <1>0, <2>2 DEF ImportReplace, MailboxType
    <3> QED
      BY <3>1 DEF StatusStep
  <2> QED
    BY <1>1, <1>7, <2>1, <2>2 DEF Around, AcquireRefreshTokenLease, EndRefreshTokenLease, ImportLoad
<1>8. ASSUME NEW w \in Workers, Worker(w) PROVE StatusStep
  BY <1>1, <1>2, <1>3, <1>4, <1>5, <1>6, <1>8
     DEF Worker, CacheMisses, PhaseARefused, Granted, InvalidGrant, ExchangeFails, ReadWinner, LoadForProbe, Probe
<1> QED
  BY <1>1, <1>7, <1>8 DEF Next, Start, Crash, vars

\* A late invalid_grant never disables a mailbox whose token has been replaced meanwhile.
THEOREM LateRejectionHarmless == Spec => InvalidatesRejectedToken
<1>1. TokenInv /\ [Next]_vars =>
        [mailbox.status = "active" /\ mailbox'.status = "invalid" => mailbox'.rt \in rejected']_vars
  <2> SUFFICES ASSUME TokenInv, [Next]_vars, mailbox.status = "active", mailbox'.status = "invalid"
               PROVE  mailbox'.rt \in rejected'
    OBVIOUS
  <2> QED
    BY StatusMoves DEF StatusStep
<1> QED
  BY <1>1, AlwaysTokenInv, PTL DEF Spec, InvalidatesRejectedToken

-----------------------------------------------------------------------------
(* Refinement *)

\* Every step of the tokens is a step of the versioned token: the refresh token changes only
\* with its version, and a mailbox that invalid_grant disabled comes back only with a new one.
THEOREM TokenRefinesRegister == Spec => RegisterSpec
<1>1. Init => Register!Init
  BY DEF Init, Register!Init, NewMailbox
<1>2. TokenInv /\ TokenInv' /\ [Next]_vars =>
        [Register!Next]_<<mailbox.rt, mailbox.version, mailbox.status = "active">>
  <2> SUFFICES ASSUME TokenInv, TokenInv', [Next]_vars
               PROVE  [Register!Next]_<<mailbox.rt, mailbox.version, mailbox.status = "active">>
    OBVIOUS
  <2>1. StatusStep
    BY StatusMoves
  <2>2. RowStep
    <3>1. CASE UNCHANGED vars
      BY <3>1, RowKept DEF vars
    <3>2. ASSUME NEW w \in Workers, Crash(w) PROVE RowStep
      BY <3>2, RowKept DEF Crash
    <3> QED
      BY <3>1, <3>2, StartKeeps, WorkerKeeps, AroundKeeps DEF Next
  <2>3. /\ mailbox.version \in Nat /\ mailbox'.rt \in Nat
        /\ mailbox.status \in {"active", "invalid"} /\ mailbox'.status \in {"active", "invalid"}
    BY DEF TokenInv, TypeOK, MailboxType
  <2>4. CASE mailbox'.version = mailbox.version + 1
    <3>1. mailbox.status = "active" => mailbox'.status = "active"
      BY <2>1, <2>3, <2>4 DEF StatusStep
    <3>2. Register!Revise
      BY <2>3, <2>4, <3>1 DEF Register!Revise
    <3> QED
      BY <3>2 DEF Register!Next
  <2>5. CASE mailbox'.rt = mailbox.rt /\ mailbox'.version = mailbox.version
    <3>1. CASE mailbox'.status = mailbox.status
      BY <2>5, <3>1
    <3>2. CASE mailbox'.status # mailbox.status
      <4>1. mailbox'.status = "invalid" /\ mailbox.status = "active"
        BY <2>1, <2>3, <2>5, <3>2 DEF StatusStep
      <4>2. Register!Invalidate
        BY <2>5, <4>1 DEF Register!Invalidate
      <4> QED
        BY <4>2 DEF Register!Next
    <3> QED
      BY <3>1, <3>2
  <2> QED
    BY <2>2, <2>4, <2>5 DEF RowStep
<1> QED
  BY <1>1, <1>2, AlwaysTokenInv, PTL DEF Spec, RegisterSpec, Register!Spec

-----------------------------------------------------------------------------
(* The access token *)

LEMMA WorkerKeepsFresh ==
    ASSUME TokenInv, AccessTokenFresh, NEW w \in Workers, Worker(w), ~ProbeApply(w)
    PROVE  AccessTokenFresh'
<1>0. mailbox \in MailboxType /\ job[w] \in JobType /\ issued \in Nat
  BY DEF TokenInv, TypeOK
<1>1. CASE UNCHANGED mailbox
  BY <1>1 DEF AccessTokenFresh
<1>2. CASE CacheHitReturns(w)
  <2>1. ASSUME NEW p \in ProbeAnswers(mailbox, issued + 1), mailbox' = ApplyProbe(mailbox, mailbox, p)
        PROVE  AccessTokenFresh'
    <3>1. p \in ProbeType
      BY <1>0, ProbeAnswersTyped
    <3> QED
      BY <1>0, <2>1, <3>1, ProbeUnderLock DEF AccessTokenFresh
  <2> QED
    BY <1>1, <1>2, <2>1 DEF CacheHitReturns
<1>3. CASE PhaseA(w) \/ FailInvalidGrant(w) \/ ReleaseClaim(w)
  <2>1. /\ mailbox'.rt = mailbox.rt /\ mailbox'.version = mailbox.version
        /\ mailbox'.at = mailbox.at /\ mailbox'.src = mailbox.src
    BY <1>0, <1>3 DEF PhaseA, FailInvalidGrant, ReleaseClaim, MailboxType
  <2> QED
    BY <2>1 DEF AccessTokenFresh
<1>4. CASE PhaseC(w)
  <2>1. CASE CASMatches(mailbox, job[w]) /\ mailbox' = Refreshed(mailbox, job[w])
    <3>1. job[w].rt = mailbox.rt
      BY <1>4, <2>1 DEF PhaseC, CASMatches, TokenInv, VersionNamesToken
    <3> QED
      BY <1>0, <2>1, <3>1, RefreshedRow DEF AccessTokenFresh
  <2> QED
    BY <1>1, <1>4, <2>1 DEF PhaseC
<1> QED
  BY <1>1, <1>2, <1>3, <1>4
     DEF Worker, CacheMisses, PhaseARefused, Granted, InvalidGrant, ExchangeFails, ReadWinner, LoadForProbe, Probe

LEMMA AroundKeepsFresh ==
    ASSUME TokenInv, AccessTokenFresh, Around PROVE AccessTokenFresh'
<1>0. /\ mailbox \in MailboxType /\ mailbox.version \in Nat /\ mailbox.src \in Nat
      /\ mailbox.src <= mailbox.version
  BY DEF TokenInv, TypeOK, MailboxType, NothingAhead
<1>1. CASE ClaimExpires \/ AcquireRefreshTokenLease \/ EndRefreshTokenLease \/ ImportLoad
  <2>1. /\ mailbox'.rt = mailbox.rt /\ mailbox'.version = mailbox.version
        /\ mailbox'.at = mailbox.at /\ mailbox'.src = mailbox.src
    BY <1>0, <1>1 DEF ClaimExpires, AcquireRefreshTokenLease, EndRefreshTokenLease, ImportLoad, MailboxType
  <2> QED
    BY <2>1 DEF AccessTokenFresh
<1>2. CASE UpdateRefreshToken
  BY <1>0, <1>2 DEF UpdateRefreshToken, MailboxType, AccessTokenFresh
<1>3. CASE ImportReplace
  <2>1. mailbox'.version = mailbox.version + 1 /\ mailbox'.src \in {0, mailbox.src}
    BY <1>0, <1>3 DEF ImportReplace, MailboxType
  <2>2. mailbox'.src # mailbox'.version
    BY <1>0, <2>1
  <2> QED
    BY <2>2 DEF AccessTokenFresh
<1> QED
  BY <1>1, <1>2, <1>3 DEF Around

\* The AT that passes for one of the current revision was issued with the current RT, unless
\* a probe that held no lock wrote it: the compare-and-set alone would keep it so.
THEOREM OnlyProbesUnbind == Spec => BoundExceptByProbe
<1>1. TokenInv /\ [Next]_vars =>
        [~(\E w \in Workers : ProbeApply(w)) /\ AccessTokenFresh => AccessTokenFresh']_vars
  <2> SUFFICES ASSUME TokenInv, [Next]_vars, ~(\E w \in Workers : ProbeApply(w)), AccessTokenFresh
               PROVE  AccessTokenFresh'
    OBVIOUS
  <2>1. CASE UNCHANGED mailbox
    BY <2>1 DEF AccessTokenFresh
  <2> QED
    BY <2>1, WorkerKeepsFresh, AroundKeepsFresh DEF Next, Start, Crash, vars
<1> QED
  BY <1>1, AlwaysTokenInv, PTL DEF Spec, BoundExceptByProbe
=============================================================================
