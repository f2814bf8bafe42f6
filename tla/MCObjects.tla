----------------------------- MODULE MCObjects -----------------------------
(***************************************************************************)
(* What a commit checks of the objects, in three instances of which a      *)
(* behaviour is one: names while regions move between two cells, names     *)
(* while cells belong to organizations (NameCache), and a Block pointer    *)
(* that may not form loops, the parent role of a role (References).        *)
(***************************************************************************)
EXTENDS MCNameCache

CONSTANTS o1, o2, o3

VARIABLES part,
    st, to, rel, head, free, checks, loops, stack, before, made

pointers == <<st, to, rel, head, free, checks, loops, stack, before, made>>

OrgCells == {rc, c1, c2}
OrgLeaves == {h, p}
Orgs == {xo}
OrgRule == [o \in OrgCells \cup OrgLeaves |->
              CASE o = h -> StrongOrg
                [] o = p -> NormalCell
                [] OTHER -> NoRule]

\* Clients do not undelete here what they deleted while it was referred to.
O == INSTANCE NameCache WITH
    Cell <- OrgCells, Region <- {}, Leaf <- OrgLeaves, Org <- Orgs,
    Rule <- OrgRule, Revive <- FALSE, MaxCalls <- 2

Roles == {o1, o2, o3}
Parent == {"parent"}
BlockAction == [a \in Parent |-> "Block"]

B == INSTANCE References WITH
    Obj <- Roles, Attr <- Parent, Action <- BlockAction, Vector <- {},
    Loop <- Parent, MaxCalls <- 3, val <- to, refs <- checks,
    saved <- before, calls <- made

ASSUME B!ConstantsFit

NoNames == /\ db = 0 /\ bucket = 0 /\ uniq = 0 /\ refs = 0 /\ fresh = 0
           /\ saved = 0 /\ calls = 0
NoPointers == /\ st = 0 /\ to = 0 /\ rel = 0 /\ head = 0 /\ free = 0
              /\ checks = 0 /\ loops = 0 /\ stack = 0 /\ before = 0
              /\ made = 0

MCInit == \/ part = "domains" /\ Init /\ NoPointers
          \/ part = "orgs" /\ O!Init /\ NoPointers
          \/ part = "block" /\ B!Init /\ NoNames

MCNext == /\ UNCHANGED part
          /\ \/ part = "domains" /\ Next /\ UNCHANGED pointers
             \/ part = "orgs" /\ O!Next /\ UNCHANGED pointers
             \/ part = "block" /\ B!Next /\ UNCHANGED vars

MCSpec == MCInit /\ [][MCNext]_<<part, vars, pointers>>

----------------------------------------------------------------------------
\* What is committed has exactly the cache entries that its names, owners and
\* organizations ask for, although update.c, create.c and delete.c only ever
\* change the entries of the object they are given.
CachesExact == CASE part = "domains" -> CommittedExact
                 [] part = "orgs" -> O!CommittedExact
                 [] OTHER -> TRUE

\* No two committed objects collide under any collision rule: the checks that
\* Grow_Cache_Entry leaves out are never the ones that matter, and a bucket
\* with a collision is in uniqTable until the commit checks it.
NamesUnique == part = "domains" => CommittedUnique /\ PendingCovers

\* Within a transaction, the keys that a call computes from the ancestors of
\* an object are those it is entered under, save below an object that was
\* deleted while referred to and then undeleted (Update_Uniqueness_Caches).
KeysCurrent == CASE part = "domains" -> CachedInCall
                 [] part = "orgs" -> O!CachedInCall
                 [] OTHER -> TRUE

\* "Objects may not be moved to another cell" (update.c), of the transactions
\* that undelete nothing they deleted while it was referred to.
ObjectsStay == part = "domains" => StaysPutPlain

\* The doubly linked lists of backpointers and the free lists of relation.c
\* hold exactly the relations they should, and every back link undoes a
\* forward link.
WellLinked == part = "block" => B!WellLinked

\* No pointer of a committed object leads to an object that is not live: until
\* then only a Block pointer dangles, between calls, and the commit will look at
\* it (Udb_Do_Reference_Checks).
NoDangling == part = "block" => B!NoDangling /\ B!DanglingIsPending

\* No loop of parents is committed, although new and undeleted objects are
\* never searched from (Udb_Do_Loop_Checks).
Acyclic == part = "block" => B!Acyclic
============================================================================
