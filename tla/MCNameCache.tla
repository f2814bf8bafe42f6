---------------------------- MODULE MCNameCache ----------------------------
(***************************************************************************)
(* Instances of NameCache.  Strengths as in the collision rules of the     *)
(* shipped schema (schema/dump/unameit_data_collision_rule.dat).           *)
(***************************************************************************)
EXTENDS NameCache

CONSTANTS rc, c1, c2, g, h, p, n1, xo

NoRule == <<"none", "none", "none", "none">>

\* A name that is strong where it is defined and in its organization.
StrongOrg == <<"strong", "none", "strong", "weak">>

\* A name that is normal where it is defined and weak in its cell.
NormalCell == <<"normal", "weak", "none", "none">>

\* The rule of most classes.
StrongLocal == <<"strong", "none", "none", "none">>

MCRule == [o \in Item |-> CASE o = h -> StrongOrg
                            [] o = p -> NormalCell
                            [] OTHER -> NoRule]

LocalRule == [o \in Item |-> IF o \in Leaf THEN StrongLocal ELSE NoRule]
============================================================================
