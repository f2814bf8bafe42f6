--------------------------- MODULE MCTransaction ---------------------------
(***************************************************************************)
(* Small instances of Transaction.                                         *)
(***************************************************************************)
EXTENDS Transaction

CONSTANTS d1, d2, s1

OneData == {d1}
TwoAndSchema == {d1, d2, s1}
OneSchema == {s1}
============================================================================
