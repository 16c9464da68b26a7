------------------------------ MODULE MCTransfer ----------------------------
(***************************************************************************)
(* Transfer at the code's own sizes: a length of one datagram, one that    *)
(* two fragments hold, one that they do not, one of three fragments, one   *)
(* over the limit, and one of more fragments than a byte counts.           *)
(***************************************************************************)
EXTENDS Transfer

MCLengths == {1200, 2376, 2400, 2401, 3601, 306001}
=============================================================================
