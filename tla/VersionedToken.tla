--------------------------- MODULE VersionedToken ---------------------------
(***************************************************************************)
(* What token_version promises to everyone who holds one: the refresh      *)
(* token of a mailbox changes only together with its version, the version  *)
(* only ever grows, by one, and a mailbox that Microsoft's invalid_grant   *)
(* made invalid becomes active again only with a new revision.             *)
(***************************************************************************)
EXTENDS Naturals

VARIABLES
    token,     \* the refresh token
    version,   \* token_version
    valid      \* status = active

\* A first token, imported.
Init == token \in Nat /\ version = 1 /\ valid = TRUE

\* A new revision of the token: a rotation, a client's update or an import.
Revise ==
    /\ token' \in Nat
    /\ version' = version + 1
    /\ valid' \in BOOLEAN
    /\ valid => valid'

\* invalid_grant: the token stays where it is.
Invalidate ==
    /\ valid /\ ~valid'
    /\ UNCHANGED <<token, version>>

Next == Revise \/ Invalidate

Spec == Init /\ [][Next]_<<token, version, valid>>
=============================================================================
