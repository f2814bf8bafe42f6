----------------------------- MODULE NameCache -----------------------------
(***************************************************************************)
(* The uniqueness caches of libudb (name_cache.c): for every collision     *)
(* rule an object is entered under <<name, owner>>, and under the same     *)
(* name with the owner promoted to its cell, its organization or the root  *)
(* cell, in buckets that hold the objects of a key by strength.  A bucket  *)
(* that may hold a collision is checked when the transaction commits.      *)
(*                                                                         *)
(* The promoted keys of an object depend on its ancestors, so the model    *)
(* also has the ownership tree and the four calls that change it           *)
(* (create.c, update.c, delete.c), with the Block pointers that "owner"    *)
(* pointers are.  Names are abstract, there is one collision table, and    *)
(* organizations are plain values that cells point at.                     *)
(*                                                                         *)
(* An operator named Mutant_... is a plausible fault of the one after it,  *)
(* for testing the properties; the specification does not use it.          *)
(***************************************************************************)
EXTENDS Naturals, FiniteSets, SequencesExt

CONSTANTS Cell, Region, Leaf,  \* objects by class; regions and cells own
          Root,                \* the root cell
          Org,                 \* organizations
          Name,                \* values of the name attribute, maybe Null
          Null,
          Rule,                \* collision strengths of each object's class
          Revive,              \* clients undelete objects that the same
                               \* transaction deleted while referred to
          MaxCalls             \* bound: calls in one transaction

Item == Cell \cup Region \cup Leaf
Domain == Cell \cup Region
Strength == {"strong", "normal", "weak"}
Level == 1..4                  \* local, cell, organization, global

ASSUME RootAssumption == Root \in Cell
ASSUME NullAssumption == Null \notin Item \cup Org
ASSUME DisjointAssumption == /\ Cell \cap Region = {}
                             /\ Domain \cap Leaf = {}
                             /\ Org \cap Item = {}
ASSUME RuleAssumption == Rule \in [Item -> [Level -> Strength \cup {"none"}]]
ASSUME ReviveAssumption == Revive \in BOOLEAN
ASSUME FiniteAssumption == IsFiniteSet(Item)

VARIABLES db,     \* the objects: status, name, owner, cellorg
          bucket, \* the cache objects in use, by key
          uniq,   \* uniqTable: keys of the buckets to check at commit
          refs,   \* refTable: deleted objects with Block backpointers
          fresh,  \* objects created or undeleted in this transaction
          saved,  \* db and bucket as committed
          calls   \* calls made in this transaction

vars == <<db, bucket, uniq, refs, fresh, saved, calls>>

Attr == [name : Name \cup {Null}, owner : Domain \cup {Null},
         org : Org \cup {Null}]
Object == [st : {"absent", "live", "deleted"}, a : Attr]
Key == (Name \ {Null}) \X (Domain \cup Org)
Bucket == [Strength -> SUBSET Item]
NoKey == <<>>

Live(d) == {o \in Item : d[o].st = "live"}

(***************************************************************************)
(* lookup.c: walk the owners of object x up to a cell.  The walk gives up  *)
(* when it meets loopobj.                                                  *)
(***************************************************************************)
Udb_Get_Cell(d, x, loopobj) ==
    LET up[n \in Nat] ==
          IF n = 0 THEN x
          ELSE LET y == up[n - 1]
               IN  IF y = Null \/ y \in Cell THEN y
                   ELSE IF y = loopobj THEN Null
                   ELSE d[y].a.owner
    IN  up[Cardinality(Region) + 2]

\* The same walk with get_org: a cell without an organization is its own.
OrgOf(d, x) ==
    LET c == Udb_Get_Cell(d, x, Null)
    IN  IF c # Null /\ d[c].a.org # Null THEN d[c].a.org ELSE c

(***************************************************************************)
(* The key of object o at each level, NoKey where it has none: a level is  *)
(* skipped if its strength is none or if its owner is that of a lower one. *)
(***************************************************************************)
Udb_Populate_Caches(d, o) ==
    LET a == d[o].a
        Used(l) == Rule[o][l] # "none"
        owner == IF Used(1) THEN a.owner ELSE Null
        base == IF owner # Null THEN owner ELSE o
        cell == IF Used(2) THEN Udb_Get_Cell(d, base, Null) ELSE Null
        org == IF Used(3) THEN OrgOf(d, IF cell # Null THEN cell ELSE base)
                          ELSE Null
        promoted == <<owner, cell, org, Root>>
        KeyAt(l) == IF /\ Used(l) /\ a.name # Null /\ a.owner # Null
                       /\ promoted[l] \notin {promoted[m] : m \in 1..(l - 1)}
                      THEN <<a.name, promoted[l]>>
                      ELSE NoKey
    IN  <<KeyAt(1), KeyAt(2), KeyAt(3), KeyAt(4)>>

NoKeys == <<NoKey, NoKey, NoKey, NoKey>>
Holding(s, o) == [t \in Strength |-> IF t = s THEN {o} ELSE {}]
EmptyBucket(b) == \A s \in Strength : b[s] = {}

(***************************************************************************)
(* A cache is [bucket, uniq, ok]; ok turns FALSE when a check() fails, and *)
(* the process then panics.                                                *)
(***************************************************************************)

\* Drop object o from the bucket of its old key at level l; free the bucket
\* and forget its check if it is now empty.  db_set_drop is taken to report an
\* object that is not in the set.
Drop(c, o, l, old, new) ==
    LET k == old[l]
        s == Rule[o][l]
        b == [c.bucket[k] EXCEPT ![s] = @ \ {o}]
    IN  IF k = NoKey \/ k = new[l] THEN c
        ELSE IF k \notin DOMAIN c.bucket THEN [c EXCEPT !.ok = FALSE]
        ELSE IF o \notin c.bucket[k][s] THEN [c EXCEPT !.ok = FALSE]
        ELSE IF EmptyBucket(b)
               THEN [c EXCEPT !.uniq = @ \ {k},
                              !.bucket = [j \in DOMAIN @ \ {k} |-> @[j]]]
               ELSE [c EXCEPT !.bucket[k] = b]

\* Whether adding an object of strength s to bucket b calls for a check.
NeedsCheck(b, s) ==
    CASE s = "strong" -> TRUE
      [] s = "normal" -> b["normal"] # {} \/ b["strong"] # {}
      [] s = "weak"   -> b["strong"] # {}

\* Enter object o in the bucket of its new key at level l.
Grow(c, o, l, old, new) ==
    LET k == new[l]
        s == Rule[o][l]
    IN  IF k = NoKey \/ k = old[l] \/ ~ c.ok THEN c
        ELSE IF k \notin DOMAIN c.bucket
               THEN [c EXCEPT !.bucket =
                       [j \in DOMAIN @ \cup {k} |->
                          IF j = k THEN Holding(s, o) ELSE @[j]]]
               ELSE [c EXCEPT !.bucket[k][s] = @ \cup {o},
                              !.uniq = IF NeedsCheck(c.bucket[k], s)
                                         THEN @ \cup {k} ELSE @]

Cache == [bucket |-> bucket, uniq |-> uniq, ok |-> TRUE]

\* "We must do deletions before creations".
Mutant_LevelByLevel(o, old, new) ==
    LET D(c, l) == Drop(c, o, l, old, new)
        G(c, l) == Grow(D(c, l), o, l, old, new)
    IN  G(G(G(G(Cache, 1), 2), 3), 4)
Update_Uniqueness_Caches(o, old, new) ==
    LET D(c, l) == Drop(c, o, l, old, new)
        G(c, l) == Grow(c, o, l, old, new)
        dropped == D(D(D(D(Cache, 1), 2), 3), 4)
    IN  G(G(G(G(dropped, 1), 2), 3), 4)

(***************************************************************************)
(* Calls.                                                                  *)
(***************************************************************************)

\* Every rollback, forced or asked for, and every restart after a panic or
\* a crash, comes back to what was committed, with no checks pending.
Restore ==
    /\ db' = saved.db
    /\ bucket' = saved.bucket
    /\ uniq' = {} /\ refs' = {} /\ fresh' = {}
    /\ calls' = 0
    /\ UNCHANGED saved

Apply(d, c) ==
    /\ db' = d
    /\ bucket' = c.bucket
    /\ uniq' = c.uniq
    /\ calls' = calls + 1
    /\ UNCHANGED saved

\* Udb_Set_Attribute accepts only undeleted objects as pointer values.  The
\* name of an object whose class has no rule plays no part here.
Acceptable(o, a) ==
    /\ a.owner \in Live(db)
    /\ o \notin Cell => a.org = Null
    /\ \/ a.name \in Name /\ \E l \in Level : Rule[o][l] # "none"
       \/ a.name = Null /\ \A l \in Level : Rule[o][l] = "none"

\* The objects that point at o with a Block pointer.
Backpointers(d, o) == {p \in Live(d) : d[p].a.owner = o}

\* The server derives the owner of a region from its name, so that no region
\* is put below itself.
Enter(o, a) ==
    LET d == [db EXCEPT ![o] = [st |-> "live", a |-> a]]
        c == Update_Uniqueness_Caches(o, NoKeys, Udb_Populate_Caches(d, o))
    IN  /\ Acceptable(o, a)
        /\ Udb_Get_Cell(db, a.owner, o) # Null
        /\ Apply(d, c)
        /\ fresh' = fresh \cup {o}
        /\ UNCHANGED refs

MayCall == calls < MaxCalls

Udb_Create(o) == MayCall /\ db[o].st = "absent" /\ \E a \in Attr : Enter(o, a)

Udb_Undelete(o) == /\ MayCall /\ db[o].st = "deleted"
                   /\ Revive \/ o \notin refs
                   /\ \E a \in Attr : Enter(o, a)

\* "Objects may not be moved to another cell."  The owner of a cell is
\* unconstrained.
Mutant_AnyOwner(o, owner) == Udb_Get_Cell(db, owner, o) # Null
Check_Owner(o, owner) ==
    o \in Cell \/ Udb_Get_Cell(db, owner, o) = Udb_Get_Cell(db, o, Null)

\* "Cells may not be moved to another organization."
Check_Organization(o, org) ==
    (IF org = Null THEN o ELSE org) = OrgOf(db, o)

Change(o, a) ==
    LET d == [db EXCEPT ![o].a = a]
        c == Update_Uniqueness_Caches(o, Udb_Populate_Caches(db, o),
                                         Udb_Populate_Caches(d, o))
    IN  /\ a # db[o].a
        /\ Acceptable(o, a)
        /\ Check_Owner(o, a.owner)
        /\ o \in Cell => Check_Organization(o, a.org)
        /\ IF c.ok THEN Apply(d, c) /\ UNCHANGED <<refs, fresh>> ELSE Restore

Udb_Update(o) == /\ MayCall /\ db[o].st = "live" /\ o # Root
                 /\ \E a \in Attr : Change(o, a)

\* The keys are dropped first; the attributes of a deleted object are kept.
Udb_Delete(o) ==
    LET d == [db EXCEPT ![o].st = "deleted"]
        c == Update_Uniqueness_Caches(o, Udb_Populate_Caches(db, o), NoKeys)
    IN  /\ MayCall
        /\ db[o].st = "live" /\ o # Root
        /\ IF c.ok
             THEN /\ Apply(d, c)
                  /\ refs' = IF Backpointers(d, o) # {} THEN refs \cup {o}
                                                        ELSE refs
                  /\ UNCHANGED fresh
             ELSE Restore

Clash(b) ==
    \/ Cardinality(b["strong"]) > 1
    \/ Cardinality(b["normal"]) > 1
    \/ b["strong"] # {} /\ b["normal"] # {}
    \/ b["strong"] # {} /\ b["weak"] # {}

Mutant_NoUniqueChecks == TRUE
Udb_Do_Unique_Checks == \A k \in uniq : ~ Clash(bucket[k])

Mutant_OnlyDeleted ==
    \A o \in refs : db[o].st = "deleted" => Backpointers(db, o) = {}
Udb_Do_Reference_Checks == \A o \in refs : Backpointers(db, o) = {}

Udb_Commit ==
    /\ Udb_Do_Unique_Checks
    /\ Udb_Do_Reference_Checks
    /\ saved' = [db |-> db, bucket |-> bucket]
    /\ uniq' = {} /\ refs' = {} /\ fresh' = {}
    /\ calls' = 0
    /\ UNCHANGED <<db, bucket>>

\* Udb_Rollback, a commit that fails, a crash.
Udb_Rollback == calls > 0 /\ Restore

NoAttr == [name |-> Null, owner |-> Null, org |-> Null]

Init ==
    /\ db = [o \in Item |-> [st |-> IF o = Root THEN "live" ELSE "absent",
                             a |-> NoAttr]]
    /\ bucket = << >>
    /\ uniq = {} /\ refs = {} /\ fresh = {}
    /\ saved = [db |-> db, bucket |-> bucket]
    /\ calls = 0

Next ==
    \/ \E o \in Item : Udb_Create(o)
    \/ \E o \in Item : Udb_Undelete(o)
    \/ \E o \in Item : Udb_Update(o)
    \/ \E o \in Item : Udb_Delete(o)
    \/ Udb_Commit
    \/ Udb_Rollback

Spec == Init /\ [][Next]_vars

(***************************************************************************)
(* Properties.                                                             *)
(***************************************************************************)

TypeOK ==
    /\ db \in [Item -> Object]
    /\ DOMAIN bucket \subseteq Key
    /\ \A k \in DOMAIN bucket : bucket[k] \in Bucket
    /\ uniq \subseteq DOMAIN bucket
    /\ refs \subseteq Item /\ fresh \subseteq Item
    /\ calls \in 0..MaxCalls

\* What the caches of a database should be, computed from its objects alone.
Entered(d, k, s) ==
    {o \in Live(d) : \E l \in Level : /\ Rule[o][l] = s
                                      /\ Udb_Populate_Caches(d, o)[l] = k}
Projection(d) ==
    [k \in {j \in Key : \E s \in Strength : Entered(d, j, s) # {}} |->
       [s \in Strength |-> Entered(d, k, s)]]

\* When a transaction has committed, the caches are exactly the keys of the
\* objects, under their present cells and organizations: the updates made by
\* Update_Uniqueness_Caches, only ever for the object that a call changes,
\* leave no key behind that a change to an ancestor made wrong, and no empty
\* bucket in use.
CommittedExact == calls = 0 => bucket = Projection(db)

Conflict(s, t) == "strong" \in {s, t} \/ (s = "normal" /\ t = "normal")

\* No two committed objects have the same key at strengths that collide: the
\* checks that Grow_Cache_Entry leaves out are never the ones that matter.
CommittedUnique ==
    calls = 0 =>
      \A o, p \in Live(db) : o # p =>
        LET ko == Udb_Populate_Caches(db, o)
            kp == Udb_Populate_Caches(db, p)
        IN  \A l, m \in Level : ko[l] # NoKey /\ ko[l] = kp[m]
              => ~ Conflict(Rule[o][l], Rule[p][m])

\* Between calls, a bucket that holds a collision is always due for a check.
PendingCovers == \A k \in DOMAIN bucket : Clash(bucket[k]) => k \in uniq

Committable == Udb_Do_Unique_Checks /\ Udb_Do_Reference_Checks

Moved == {o \in (Live(saved.db) \cap Live(db)) \ fresh :
            \/ Udb_Get_Cell(saved.db, o, Null) # Udb_Get_Cell(db, o, Null)
            \/ OrgOf(saved.db, o) # OrgOf(db, o)}

\* "Objects may not be moved to another cell", "Cells may not be moved to
\* another organization" (update.c): what a transaction may commit has every
\* object that it did not create or undelete in the cell and organization
\* where it was, whatever happened to its ancestors.
StaysPut == Committable => Moved = {}

\* The same of the transactions that undelete nothing they deleted while it
\* was referred to.
StaysPutPlain == refs \cap fresh = {} /\ Committable => Moved = {}

\* The domains above object o, up to and including its cell.
Above(d, o) ==
    {x \in Domain : \E n \in 1..(Cardinality(Region) + 1) :
       LET up[m \in Nat] == IF m = 0 THEN o
                            ELSE IF up[m - 1] \in Cell \cup {Null} THEN Null
                            ELSE d[up[m - 1]].a.owner
       IN  up[n] = x}

Cached(o) ==
    LET keys == Udb_Populate_Caches(db, o)
    IN  \A l \in Level : keys[l] # NoKey =>
          keys[l] \in DOMAIN bucket /\ o \in bucket[keys[l]][Rule[o][l]]

\* Within a transaction every live object is in the buckets of its keys, save
\* below an object that was deleted while referred to and then undeleted.
CachedInCall ==
    \A o \in Live(db) : Above(db, o) \cap refs \cap fresh = {} => Cached(o)
============================================================================
