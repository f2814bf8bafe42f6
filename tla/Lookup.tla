------------------------------- MODULE Lookup -------------------------------
(***************************************************************************)
(* The in-memory caches of libudb/lookup.c across requests, commits, roll- *)
(* backs, schema changes and restarts of the server: which objects a uuid  *)
(* names, which of them are new, the root object, the classes and what     *)
(* hangs on them, and the current principal.                               *)
(*                                                                         *)
(* A DB_OBJECT pointer is a member of Pointer.  A pointer that an aborted  *)
(* transaction or a dropped class has left dangling may come to name       *)
(* another object, so a stale cache entry may mislead in either way.       *)
(*                                                                         *)
(* An operator named Mutant_... is a plausible fault of the one after it,  *)
(* for testing the properties; the specification does not use it.          *)
(***************************************************************************)
EXTENDS Integers, FiniteSets, FiniteSetsExt

CONSTANTS Uuid,       \* items of a class that has a root object
          ClassName,  \* data classes, which the schema may gain and lose
          Kind,       \* what the metadata may say of a class's attribute
          Pointer,    \* addresses of objects and classes
          Null,       \* no object; no class; no such metadata
          Absent,     \* no hash table entry
          BaseChanges \* the metadata of unameit_item may be changed too

\* Enough pointers for every object, and one that nothing needs.
ConstantsFit ==
    /\ {Null, Absent} \cap Pointer = {} /\ {Null, Absent} \cap Kind = {}
    /\ Null # Absent
    /\ Cardinality(Pointer) > Cardinality(Uuid) + Cardinality(ClassName)

VARIABLES work,      \* the database as this process sees it
          saved,     \* the database as committed
          vars_of,   \* the UNAMEIT_ variables of the udb interpreter
          updated,   \* tx_db_updated
          force,     \* force_rollback
          schMod,    \* schema_modified
          ctmpl,     \* a class template is open (libudb/schema.c)
          up,        \* the server has not panicked
          itemCache, newobjCache, rootCache, rootCacheDirty,
          classCache, domainCache, refintCache,
          principal  \* current_principal

tx == <<updated, force, schMod>>
itemCaches == <<itemCache, newobjCache>>
rootCaches == <<rootCache, rootCacheDirty>>
schemaCaches == <<classCache, domainCache, refintCache>>
vars == <<work, saved, vars_of, tx, ctmpl, up, itemCaches, rootCaches,
          schemaCaches, principal>>

Unborn == [object |-> Null, deleted |-> FALSE]
NoClass == [object |-> Null, kind |-> Null]

\* Pointers the database does not use, before or after the transaction.
Unused(db) == {p \in Pointer :
    /\ \A u \in Uuid : p \notin {work.item[u].object, saved.item[u].object,
                                 db.item[u].object}
    /\ \A n \in ClassName : p \notin {work.class[n].object,
                                      saved.class[n].object,
                                      db.class[n].object}}

NoItems == [u \in Uuid |-> Absent]
NoNames == [n \in ClassName |-> Absent]
NoPointers == [p \in Pointer |-> Absent]

----------------------------------------------------------------------------
(***************************************************************************)
(* Reading through the caches.                                             *)
(***************************************************************************)

\* The item cache once u has been looked up.
Find_Any(u) ==
    IF itemCache[u] = Absent /\ work.item[u].object # Null
    THEN [itemCache EXCEPT ![u] = work.item[u]]
    ELSE itemCache

\* The object u names; Null if there is none or it is deleted.
Udb_Find_Object(u) ==
    LET c == Find_Any(u)[u] IN
    IF c = Absent \/ c.deleted THEN Null ELSE c.object

Udb_Get_Root == IF rootCache = Absent THEN work.root ELSE rootCache

\* A query, a fetch or an unameit_... call reads an item.
Fetch(u) ==
    /\ itemCache' = Find_Any(u)
    /\ UNCHANGED <<work, saved, vars_of, tx, ctmpl, up, newobjCache,
                   rootCaches, schemaCaches, principal>>

Udb_Get_RootCmd ==
    /\ rootCache' = Udb_Get_Root
    /\ UNCHANGED <<work, saved, vars_of, tx, ctmpl, up, itemCaches,
                   rootCacheDirty, schemaCaches, principal>>

\* The class of a name: only classes that exist are cached.
Get_Class(n) ==
    IF classCache[n] # Absent THEN classCache[n] ELSE work.class[n].object

\* What the database has for the attribute of the class at p.
KindAt(p) ==
    IF \E n \in ClassName : work.class[n].object = p
    THEN work.class[CHOOSE n \in ClassName : work.class[n].object = p].kind
    ELSE Null

\* A call that needs the class, its attribute's domain and its integrity rule.
Udb_Get_Relaction(n) ==
    LET p == Get_Class(n) IN
    /\ p # Null
    /\ classCache' = [classCache EXCEPT ![n] = p]
    /\ domainCache' = [domainCache EXCEPT ![p] =
                         IF @ = Absent THEN KindAt(p) ELSE @]
    /\ refintCache' = [refintCache EXCEPT ![p] =
                         IF @ = Absent THEN vars_of[n] ELSE @]
    /\ up' = (refintCache'[p] # Null)
    /\ UNCHANGED <<work, saved, vars_of, tx, ctmpl, itemCaches, rootCaches,
                   principal>>

(***************************************************************************)
(* Dropping the caches.                                                    *)
(***************************************************************************)
Mutant_KeepItems(rollback, shutdown) ==
    /\ itemCache' = IF shutdown THEN NoItems ELSE itemCache
    /\ newobjCache' = {}
    /\ rootCache' = IF (rollback /\ rootCacheDirty) \/ shutdown
                    THEN Absent ELSE rootCache
    /\ rootCacheDirty' = FALSE
Udb_Uncache_Items(rollback, shutdown) ==
    /\ itemCache' = NoItems
    /\ newobjCache' = {}
    /\ rootCache' = IF (rollback /\ rootCacheDirty) \/ shutdown
                    THEN Absent ELSE rootCache
    /\ rootCacheDirty' = FALSE

Mutant_KeepIntegrity ==
    /\ classCache' = NoNames
    /\ domainCache' = NoPointers
    /\ UNCHANGED refintCache
Udb_Uncache_Schema ==
    /\ classCache' = NoNames
    /\ domainCache' = NoPointers
    /\ refintCache' = NoPointers

\* Udb_Do_Rollback: without an update or a rollback owed nothing is aborted.
Abort ==
    /\ work' = IF force \/ updated THEN saved ELSE work
    /\ schMod' = IF force \/ updated THEN FALSE ELSE schMod
    /\ force' = FALSE
    /\ UNCHANGED <<saved, vars_of, updated, ctmpl, schemaCaches>>

Udb_Do_Rollback == Udb_Uncache_Items(TRUE, FALSE) /\ Abort

Udb_Rollback == Udb_Do_Rollback /\ UNCHANGED <<up, principal>>

\* unameit_begin: udb_transaction, then udb_principal for the client's uuid,
\* which is looked up again; a request whose principal is gone is refused.
Udb_Transaction(u) ==
    LET i == IF force \/ updated THEN saved.item[u] ELSE work.item[u] IN
    /\ Abort
    /\ principal' = IF i.deleted THEN Null ELSE i.object
    /\ itemCache' = IF i.object = Null THEN NoItems
                    ELSE [NoItems EXCEPT ![u] = i]
    /\ newobjCache' = {}
    /\ rootCache' = IF rootCacheDirty THEN Absent ELSE rootCache
    /\ rootCacheDirty' = FALSE
    /\ UNCHANGED up

\* The same for the superuser, who has no uuid.
Udb_Server_Principal ==
    /\ Udb_Do_Rollback
    /\ principal' = Null
    /\ UNCHANGED up

----------------------------------------------------------------------------
(***************************************************************************)
(* Changing items.                                                         *)
(***************************************************************************)
Udb_New_Object(u, o) ==
    /\ newobjCache' = newobjCache \cup {o}
    /\ itemCache' = [itemCache EXCEPT ![u] = [object |-> o, deleted |-> FALSE]]

\* The part of Udb_Set_Root that is not in the database.
Udb_Set_Root(o) == rootCache' = o /\ rootCacheDirty' = TRUE

\* Without an owner the item can only be the root of its class.
Udb_Create(u, owned) ==
    LET root == Udb_Get_Root IN
    /\ work.item[u].object = Null
    /\ owned \/ root = Null
    /\ \E o \in Unused(work) :
         /\ work' = [work EXCEPT !.item[u] = [object |-> o, deleted |-> FALSE],
                                 !.root = IF owned THEN @ ELSE o]
         /\ Udb_New_Object(u, o)
         /\ IF owned THEN UNCHANGED rootCaches ELSE Udb_Set_Root(o)
    /\ updated' = TRUE
    /\ UNCHANGED <<saved, vars_of, force, schMod, ctmpl, up, schemaCaches,
                   principal>>

\* The object was made, but its name collides: Udb_Force_Rollback.
Udb_Create_Collides(u) ==
    /\ work.item[u].object = Null
    /\ \E o \in Unused(work) :
         work' = [work EXCEPT !.item[u] = [object |-> o, deleted |-> FALSE]]
    /\ updated' = TRUE
    /\ force' = TRUE
    /\ UNCHANGED <<saved, vars_of, schMod, ctmpl, up, itemCaches, rootCaches,
                   schemaCaches, principal>>

\* Root objects are protected items, which unameit_delete refuses.
Udb_Delete(u) ==
    LET o == Udb_Find_Object(u) IN
    /\ o # Null /\ o # work.root
    /\ work' = [work EXCEPT !.item[u].deleted = TRUE]
    /\ itemCache' = [itemCache EXCEPT ![u] = [object |-> o, deleted |-> TRUE]]
    /\ updated' = TRUE
    /\ UNCHANGED <<saved, vars_of, force, schMod, ctmpl, up, newobjCache,
                   rootCaches, schemaCaches, principal>>

Udb_Undelete(u) ==
    LET c == Find_Any(u)[u] IN
    /\ c # Absent /\ Udb_Find_Object(u) = Null
    /\ work' = [work EXCEPT !.item[u].deleted = FALSE]
    /\ Udb_New_Object(u, c.object)
    /\ updated' = TRUE
    /\ UNCHANGED <<saved, vars_of, force, schMod, ctmpl, up, rootCaches,
                   schemaCaches, principal>>

Udb_Set_RootCmd(u) ==
    LET o == Udb_Find_Object(u) IN
    /\ Udb_Get_Root = Null /\ o # Null
    /\ work' = [work EXCEPT !.root = o]
    /\ itemCache' = Find_Any(u)
    /\ Udb_Set_Root(o)
    /\ updated' = TRUE
    /\ UNCHANGED <<saved, vars_of, force, schMod, ctmpl, up, newobjCache,
                   schemaCaches, principal>>

----------------------------------------------------------------------------
(***************************************************************************)
(* Changing the schema: metadata items first, the classes at commit.       *)
(***************************************************************************)
ChangeMetadata(n, k) ==
    /\ k # work.meta[n]
    /\ work' = [work EXCEPT !.meta[n] = k]
    /\ updated' = TRUE
    /\ schMod' = TRUE
    /\ UNCHANGED <<saved, vars_of, force, ctmpl, up, itemCaches, rootCaches,
                   schemaCaches, principal>>

\* An attribute is added to the metadata of unameit_item.
ChangeBase ==
    /\ BaseChanges /\ ~work.base
    /\ work' = [work EXCEPT !.base = TRUE]
    /\ updated' = TRUE
    /\ schMod' = TRUE
    /\ UNCHANGED <<saved, vars_of, force, ctmpl, up, itemCaches, rootCaches,
                   schemaCaches, principal>>

\* A class template: umeta_create_class or umeta_edit_class opens it,
\* umeta_finish_class stores it.
Create_Class(p) == [object |-> p, kind |-> Null]
Edit_Class(db, n) == db.class[n]
Drop_Attribute(t) == [t EXCEPT !.kind = Null]
Add_Attribute(t, k) == [t EXCEPT !.kind = k]
Finish_Class(db, n, t) == [db EXCEPT !.class[n] = t]
Drop_Class(db, n) == [db EXCEPT !.class[n] = NoClass]

Changed(db) == {n \in ClassName : db.meta[n] # db.class[n].kind}
Created(db) == {n \in Changed(db) : db.class[n].object = Null}

\* unameit_change_schema for one class: drop it, or create it at at[n] if it is
\* new, and replace its attribute.
ChangeClass(db, n, at) ==
    LET made == IF n \in Created(db)
                THEN Finish_Class(db, n, Create_Class(at[n])) ELSE db
        t == Drop_Attribute(Edit_Class(made, n))
    IN IF db.meta[n] = Null THEN Drop_Class(db, n)
       ELSE Finish_Class(made, n, Add_Attribute(t, db.meta[n]))

\* The databases that unameit_change_schema may leave behind.
ChangeSchema(db) ==
    {FoldSet(LAMBDA n, d : ChangeClass(d, n, at), db, Changed(db)) :
        at \in {f \in [Created(db) -> Unused(db)] :
                  \A m, n \in Created(db) : m # n => f[m] # f[n]}}

----------------------------------------------------------------------------
(***************************************************************************)
(* Udb_Do_Commit.                                                          *)
(***************************************************************************)
Fails == Udb_Do_Rollback /\ UNCHANGED <<up, principal>>

\* A rollback is owed, or a check refuses the changes.
Refused == /\ force \/ updated
           /\ Fails

\* unameit_change_schema refuses the metadata before it changes a class.
Invalid == /\ ~force /\ updated /\ schMod
           /\ Fails

\* EFIXEDSCHEMA is raised between umeta_edit_class and umeta_finish_class.
FixedSchema == /\ ~force /\ updated /\ schMod /\ work.base /\ ~ctmpl
               /\ Udb_Uncache_Items(TRUE, FALSE)
               /\ work' = saved
               /\ schMod' = FALSE
               /\ ctmpl' = TRUE
               /\ UNCHANGED <<saved, vars_of, updated, force, up, schemaCaches,
                              principal>>

\* check(ctmpl == NULL) fails in umeta_edit_class.
Panics == /\ ~force /\ updated /\ schMod /\ ctmpl
          /\ work.base \/ Changed(work) # {}
          /\ up' = FALSE
          /\ UNCHANGED <<work, saved, vars_of, tx, ctmpl, itemCaches,
                         rootCaches, schemaCaches, principal>>

Nothing == ~force /\ ~updated /\ UNCHANGED vars

CommitData ==
    /\ ~force /\ updated /\ ~schMod
    /\ Udb_Uncache_Items(FALSE, FALSE)
    /\ saved' = work
    /\ updated' = FALSE
    /\ UNCHANGED <<work, vars_of, force, schMod, ctmpl, up, schemaCaches,
                   principal>>

\* The classes are changed and the schema caches dropped, the transaction is
\* committed, and the UNAMEIT_ variables are loaded again.
CommitSchema ==
    /\ ~force /\ updated /\ schMod /\ ~work.base
    /\ ctmpl => Changed(work) = {}
    /\ work' \in ChangeSchema(work)
    /\ saved' = work'
    /\ Udb_Uncache_Schema
    /\ itemCache' = NoItems /\ newobjCache' = {}
    /\ rootCache' = Absent /\ rootCacheDirty' = FALSE
    /\ updated' = FALSE /\ schMod' = FALSE
    /\ vars_of' = work'.meta
    /\ UNCHANGED <<force, ctmpl, up, principal>>

Udb_Do_Commit == Refused \/ Invalid \/ FixedSchema \/ Panics \/ Nothing
                 \/ CommitData \/ CommitSchema

\* Shutdown, and another server process on the same database.
Restart ==
    /\ work' = saved
    /\ vars_of' = saved.meta
    /\ updated' = FALSE /\ force' = FALSE /\ schMod' = FALSE
    /\ ctmpl' = FALSE
    /\ Udb_Uncache_Items(TRUE, TRUE)
    /\ classCache' = NoNames
    /\ domainCache' = NoPointers
    /\ refintCache' = NoPointers
    /\ principal' = Null
    /\ UNCHANGED <<saved, up>>

Init ==
    /\ work = [item |-> [u \in Uuid |-> Unborn], root |-> Null,
               class |-> [n \in ClassName |-> NoClass],
               meta |-> [n \in ClassName |-> Null], base |-> FALSE]
    /\ saved = work
    /\ vars_of = work.meta
    /\ updated = FALSE /\ force = FALSE /\ schMod = FALSE
    /\ ctmpl = FALSE /\ up = TRUE
    /\ itemCache = NoItems /\ newobjCache = {}
    /\ rootCache = Absent /\ rootCacheDirty = FALSE
    /\ classCache = NoNames
    /\ domainCache = NoPointers /\ refintCache = NoPointers
    /\ principal = Null

Next ==
    /\ up
    /\ \/ \E u \in Uuid :
            \/ Udb_Transaction(u) \/ Fetch(u) \/ Udb_Create_Collides(u)
            \/ \E owned \in BOOLEAN : Udb_Create(u, owned)
            \/ Udb_Delete(u) \/ Udb_Undelete(u) \/ Udb_Set_RootCmd(u)
       \/ Udb_Get_RootCmd
       \/ \E n \in ClassName :
            \/ Udb_Get_Relaction(n)
            \/ \E k \in Kind \cup {Null} : ChangeMetadata(n, k)
       \/ ChangeBase
       \/ Udb_Server_Principal \/ Udb_Rollback \/ Udb_Do_Commit \/ Restart

Spec == Init /\ [][Next]_vars

----------------------------------------------------------------------------
\* The item cache says of every uuid what the database says: which object it
\* names and whether that is deleted (_Udb_Find_Object,
\* Udb_Cache_Object).
ItemsCurrent == \A u \in Uuid : itemCache[u] \in {Absent, work.item[u]}

\* udb_is_new: whatever this transaction has made live is new, unless a
\* rollback is owed, and nothing is new once it has ended.
NewExact ==
    LET Live(db) == {db.item[u].object : u \in
                       {v \in Uuid : ~db.item[v].deleted}} \ {Null}
    IN /\ newobjCache # {} => updated
       /\ force \/ Live(work) \ Live(saved) \subseteq newobjCache

\* The root object that owners and promotions fall back on is the one in the
\* database, after a rollback too (Udb_Get_Root, Udb_Set_Root).
RootCurrent == rootCache \in {Absent, work.root}

\* A class found by name is the class of that name, and what is cached with it
\* is its domain in the database and its integrity rule in the metadata.
SchemaCurrent ==
    /\ vars_of = saved.meta
    /\ \A n \in ClassName : classCache[n] \in {Absent, work.class[n].object}
    /\ \A n \in ClassName : LET p == work.class[n].object IN
         p # Null => /\ domainCache[p] \in {Absent, work.class[n].kind}
                     /\ refintCache[p] \in {Absent, saved.meta[n]}

\* The object that updates are stamped with as their author is in the database.
PrincipalKnown ==
    principal # Null => \E u \in Uuid : saved.item[u].object = principal

\* check(ctmpl == NULL): a class is edited when no template is open.
NoPanic == up
============================================================================
