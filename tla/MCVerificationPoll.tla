------------------------ MODULE MCVerificationPoll ------------------------
(* A small instance of VerificationPoll for TLC. *)
EXTENDS VerificationPoll, TLC

CONSTANTS c1, c2, l1, l2, l3

\* Two leases of one client and one of another, one of each kind.
ThreeOwners == l1 :> c1 @@ l2 :> c1 @@ l3 :> c2
EachKind == l1 :> "microsoft" @@ l2 :> "on_demand" @@ l3 :> "smsbower_gmail"
TwoForMicrosoft == l1 :> 2 @@ l2 :> 1 @@ l3 :> 1
=============================================================================
