--------------------------- MODULE MCLeaseClaims ---------------------------
(* Small instances of LeaseClaims for TLC. *)
EXTENDS LeaseClaimsInv, TLC

CONSTANTS m1, m2, a1, a2, a3

\* One mailbox with one plus alias.
OnePrimary == m1 :> a1
OneAlias == m1 :> {a2}

\* Two mailboxes; the alias of the first is the primary address of the second.
TwoPrimaries == m1 :> a1 @@ m2 :> a2
CrossedAlias == m1 :> {a2} @@ m2 :> {}

\* Two mailboxes, the second without aliases.
SeparatePrimaries == m1 :> a1 @@ m2 :> a3

Token(mode) == [op : {"acquire"}, client : Clients, mode : {mode}, plus : {FALSE},
                site : {NoSite}, multi : {FALSE}]
Primary(multi) == [op : {"acquire"}, client : Clients, mode : {"mail_read"}, plus : {FALSE},
                   site : Sites, multi : multi]
Plus(codes) == [op : {"acquire"}, client : Clients, mode : {"mail_read"}, plus : {TRUE},
                site : codes, multi : {FALSE}]
Ops(names) == [op : names]

\* Clients acquire, reacquire and release; the administrator deletes mailboxes.
LeaseWork == Primary({FALSE}) \cup Plus({NoSite}) \cup ReacquireRequests
             \cup Ops({"release", "delete_mailbox"})

\* Imports, deletions and token failures beside leasing of the first mailbox: its alias is
\* acquired, its primary address is reacquired and renewed.
AdminWork == Plus({NoSite}) \cup DeletionRequests
             \cup {r \in ReacquireRequests : r.mailbox = m1 /\ r.address = a1}
             \cup {r \in ImportRequests : r.mailbox = m1}
             \cup Ops({"release", "token_refresh"})

\* Exclusive leases of all kinds, with fallback to other provider types, and the
\* administration of sites.
MultiWork == Token("access_token") \cup Primary({TRUE}) \cup Plus(Sites)
             \cup ReacquireRequests \cup SiteRequests
             \cup Ops({"release", "revoke_usage", "put_site", "import_new"})

TokenWork == Token("access_token") \cup Token("refresh_token") \cup Ops({"release"})

Symmetric == Permutations(LeaseIds) \cup Permutations(Sessions) \cup Permutations(Clients)
=============================================================================
