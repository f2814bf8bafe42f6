------------------------------ MODULE MCLookup ------------------------------
(* An instance of Lookup in which unameit_item's metadata may be changed. *)
EXTENDS Lookup
=============================================================================
