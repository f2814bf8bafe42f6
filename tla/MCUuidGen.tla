----------------------------- MODULE MCUuidGen -----------------------------
(***************************************************************************)
(* Instances of UuidGen: the configurations give the bounds.               *)
(***************************************************************************)
EXTENDS UuidGen
============================================================================
