---------------------------- MODULE Transaction ----------------------------
(***************************************************************************)
(* The transaction layer of the UName*It server (libudb/transaction.c),    *)
(* driven the way the server drives it: Conn_Execute (libconn/server.c)    *)
(* brackets each client script by unameit_begin and unameit_commit or      *)
(* unameit_abort, and the script makes update calls (unameit_create,       *)
(* unameit_update, unameit_delete, unameit_undelete in                     *)
(* library/unameit_server.tcl), each inside a udb_syscall frame.           *)
(*                                                                         *)
(* The process is a serving one: Udb_Restore_Mode is NORESTORE.            *)
(*                                                                         *)
(* An operator named Mutant_... is a plausible fault of the one after it,  *)
(* for testing the properties; the specification does not use it.          *)
(***************************************************************************)
EXTENDS Integers, FiniteSets

CONSTANTS Item,        \* uuids
          SchemaItem,  \* those of schema classes; the others are data items
          Content,     \* what an object may hold
          Limit,       \* licensed units
          Logging,     \* the server was given a log directory
          Retargeted,  \* bound: families given new major or minor numbers
          MaxDepth,    \* bound: nesting of cascading deletes
          MaxMinor,    \* bound: minor and major version numbers
          MaxMicro,    \* bound: micro version number
          Malformed    \* operators may pass a malformed version to udb_commit

ASSUME SchemaAssumption == SchemaItem \subseteq Item
ASSUME FiniteAssumption == IsFiniteSet(Item)
ASSUME LimitAssumption == Limit \in Nat
ASSUME FlagAssumption == Logging \in BOOLEAN /\ Malformed \in BOOLEAN
ASSUME ContentAssumption == Content # {}
ASSUME BoundAssumption == /\ Retargeted \subseteq {"data", "schema"}
                          /\ MaxDepth \in Nat \ {0}
                          /\ MaxMinor \in Nat
                          /\ MaxMicro \in Nat

VARIABLES phase,    \* what Conn_Execute is doing
          work,     \* the database as this process sees it
          disk,     \* the database as committed
          txUpd,    \* tx_db_updated
          sysUpd,   \* syscall_db_updated
          force,    \* force_rollback
          schMod,   \* schema_modified
          loaded,   \* tx_class # NULL: the version numbers are cached
          ver,      \* the cached tx_dmajor ... tx_smicro
          newMicro, \* new_tx_dmicro, new_tx_smicro
          cur,      \* current_item_units
          delta,    \* delta_item_units
          log,      \* the last entry of the transaction log
          depth,    \* number of active udb_syscall frames
          frames,   \* those frames
          tainted   \* history: a failed call left changes behind in work

txVars == <<txUpd, sysUpd, force, schMod, loaded, ver, newMicro>>
vars == <<phase, work, disk, txVars, cur, delta, log, depth, frames, tainted>>

Family == {"data", "schema"}
FamilyOf(i) == IF i \in SchemaItem THEN "schema" ELSE "data"
Version == Nat \X Nat \X Nat
Zero == <<0, 0, 0>>
NoFamily == [f \in Family |-> FALSE]
NoVersions == [f \in Family |-> Zero]

\* Versions are ordered by major, then minor, then micro number.
Less(v, w) ==
    \/ v[1] < w[1]
    \/ v[1] = w[1] /\ v[2] < w[2]
    \/ v[1] = w[1] /\ v[2] = w[2] /\ v[3] < w[3]

\* An object: its deletion status, its contents and its "mtran" stamp.
Status == {"absent", "live", "deleted"}
Object == [st : Status, val : Content, mtran : Version]
NoContent == CHOOSE c \in Content : TRUE
Unborn == [st |-> "absent", val |-> NoContent, mtran |-> Zero]
Database == [items : [Item -> Object], ver : [Family -> Version],
             prot : SUBSET Item]

Op == {"create", "update", "delete"}
Frame == [op : Op, done : BOOLEAN, failed : BOOLEAN, saved : BOOLEAN,
          base : [Item -> Object]]

NoFrames == [k \in 1..MaxDepth |->
               [op |-> "update", done |-> FALSE, failed |-> FALSE,
                saved |-> FALSE,
                base |-> [i \in Item |-> Unborn]]]

Live(items) == {i \in Item \ SchemaItem : items[i].st = "live"}

(***************************************************************************)
(* Version numbers, license counters.                                      *)
(***************************************************************************)

\* Load_Tran_Versions is called whenever tx_class is NULL.
CurVer == IF loaded THEN ver ELSE work.ver

Load == loaded' = TRUE /\ ver' = CurVer

Mutant_CountCommitted == cur > Limit
Udb_Over_License_Count == cur + delta > Limit

Udb_Adjust_License_Count(i, n) ==
    delta' = IF i \in SchemaItem THEN delta ELSE delta + n

Mutant_ForgetDelta == cur' = cur /\ delta' = 0
Udb_Update_License_Limits == cur' = cur + delta /\ delta' = 0

Mutant_NoLicenseRollback == delta' = delta
Udb_Rollback_License_Limits == delta' = 0

(***************************************************************************)
(* Udb_Finish_Object.                                                      *)
(***************************************************************************)

Mutant_NoNewMicro(i) ==
    /\ Load
    /\ UNCHANGED newMicro
    /\ schMod' = (schMod \/ i \in SchemaItem)
\* What happens before dbt_finish_object can fail.
Stamp(i) ==
    /\ Load
    /\ newMicro' = [newMicro EXCEPT ![FamilyOf(i)] = TRUE]
    /\ schMod' = (schMod \/ i \in SchemaItem)

Udb_Finish_Object(i, st, val) ==
    /\ Stamp(i)
    /\ work' = [work EXCEPT !.items[i] =
                  [st |-> st, val |-> val, mtran |-> CurVer[FamilyOf(i)]]]
    /\ txUpd' = TRUE
    /\ sysUpd' = TRUE

(***************************************************************************)
(* Udb_Do_Rollback, given tx_db_updated and the workspace as the caller    *)
(* leaves them.  The cached numbers are cleared here because nothing reads *)
(* them again before Load_Tran_Versions sets them.                         *)
(***************************************************************************)
Unload ==
    /\ loaded' = FALSE
    /\ ver' = NoVersions
    /\ newMicro' = NoFamily

Rollback(updated, w) ==
    /\ Unload
    /\ txUpd' = updated
    /\ IF force \/ updated
         THEN /\ schMod' = FALSE
              /\ force' = FALSE
              /\ Udb_Rollback_License_Limits
              /\ work' = disk
              /\ tainted' = FALSE
         ELSE /\ work' = w
              /\ UNCHANGED <<schMod, force, delta, tainted>>
    /\ UNCHANGED <<disk, sysUpd, cur, log, depth, frames>>

Udb_Do_Rollback == Rollback(txUpd, work)

(***************************************************************************)
(* Process life cycle: Login, Shutdown, and a crash at any point (an exit  *)
(* after a failed log write or a failed check() is one).                   *)
(***************************************************************************)
Fresh(d) ==
    /\ work' = d
    /\ txUpd' = FALSE
    /\ sysUpd' = FALSE
    /\ force' = FALSE
    /\ schMod' = FALSE
    /\ newMicro' = NoFamily
    /\ delta' = 0
    /\ depth' = 0
    /\ frames' = NoFrames
    /\ tainted' = FALSE

Login ==
    /\ phase = "down"
    /\ phase' = "idle"
    /\ Fresh(disk)
    /\ cur' = Cardinality(Live(disk.items))
    /\ loaded' = Logging
    /\ ver' = IF Logging THEN disk.ver ELSE NoVersions
    /\ UNCHANGED <<disk, log>>

Stop ==
    /\ phase' = "down"
    /\ Fresh(disk)
    /\ cur' = 0
    /\ loaded' = FALSE
    /\ ver' = NoVersions
    /\ UNCHANGED <<disk, log>>

Crash == phase # "down" /\ Stop

Shutdown ==
    /\ phase = "script"
    /\ depth = 0
    /\ \/ force /\ Udb_Do_Rollback /\ UNCHANGED phase
       \/ ~force /\ Stop

(***************************************************************************)
(* Conn_Execute: begin, then the script, then commit or abort.             *)
(***************************************************************************)

\* unameit_begin calls Udb_Transaction; had it failed, the client would
\* have been dropped.
Udb_Transaction ==
    /\ phase = "idle"
    /\ phase' = IF force THEN "idle" ELSE "script"
    /\ Udb_Do_Rollback

\* The script failed, and Conn_Execute calls unameit_abort.
EndAbort ==
    /\ phase = "script"
    /\ depth = 0
    /\ phase' = "idle"
    /\ Udb_Do_Rollback

\* The script calls unameit_abort itself and goes on.
Udb_Rollback ==
    /\ phase = "script"
    /\ depth = 0
    /\ Udb_Do_Rollback
    /\ UNCHANGED phase

\* unameit_data_version, unameit_schema_version
Udb_Version ==
    /\ phase = "script"
    /\ depth = 0
    /\ Load
    /\ UNCHANGED <<phase, work, disk, txUpd, sysUpd, force, schMod, newMicro,
                   cur, delta, log, depth, frames, tainted>>

(***************************************************************************)
(* Udb_Commit and Udb_Do_Commit.  A super user may ask for a new minor or  *)
(* major version of either family: how[f] is "keep", "minor" or "major".   *)
(***************************************************************************)
How == {how \in [Family -> {"keep", "minor", "major"}] :
          \A f \in Family \ Retargeted : how[f] = "keep"}
Keep == [f \in Family |-> "keep"]

\* The numbers cached for f once the options have been processed.
Target(f, h, micro) ==
    LET v == CurVer[f] IN
    CASE h = "keep"  -> v
      [] h = "minor" -> <<v[1], v[2] + 1, micro>>
      [] h = "major" -> <<v[1] + 1, 0, micro>>

\* Bounds on the version numbers.
InBounds(v) == v[1] <= MaxMinor /\ v[2] <= MaxMinor /\ v[3] <= MaxMicro

Fresher(how) == [f \in Family |-> newMicro[f] \/ how[f] # "keep"]

\* The numbers cached once the commit has incremented the micro numbers.
Next_Version(how) ==
    [f \in Family |->
       LET v == Target(f, how[f], -1)
       IN  IF Fresher(how)[f] THEN <<v[1], v[2], v[3] + 1>> ELSE v]

\* Which of numbers v are put into the database.
Put(f, h, v, micro) ==
    <<IF h = "major" THEN v[1] ELSE work.ver[f][1],
      IF h # "keep" THEN v[2] ELSE work.ver[f][2],
      IF micro THEN v[3] ELSE work.ver[f][3]>>

Mutant_EarlyLog(v, w) == [ver |-> CurVer, items |-> w.items]
WriteLog(v, w) == [ver |-> v, items |-> w.items]

\* Up to and including WriteLog.
Log_Commit(how, next) ==
    LET v == Next_Version(how)
        w == [work EXCEPT !.ver =
                [f \in Family |-> Put(f, how[f], v[f], Fresher(how)[f])]]
    IN  /\ \A f \in Family : InBounds(v[f])
        /\ work' = w
        /\ ver' = v
        /\ loaded' = TRUE
        /\ newMicro' = NoFamily
        /\ txUpd' = TRUE
        /\ log' = IF Logging THEN WriteLog(v, w) ELSE log
        /\ phase' = next
        /\ UNCHANGED <<disk, sysUpd, force, schMod, cur, delta, depth, frames,
                       tainted>>

Mutant_CommitAnyway(updated) == updated
Committable(updated) == ~force /\ updated

\* next is the phase after a commit that fails or has nothing to do, logged
\* the one in which its log entry is written.  The integrity checks may
\* reject what the script did; they are the subject of other modules.
Udb_Commit(how, next, logged) ==
    LET updated == txUpd \/ how # Keep IN
    \/ /\ force \/ updated
       /\ Rollback(updated, work)
       /\ phase' = next
    \/ /\ ~force
       /\ ~updated
       /\ Load
       /\ phase' = next
       /\ UNCHANGED <<work, disk, txUpd, sysUpd, force, schMod, newMicro, cur,
                      delta, log, depth, frames, tainted>>
    \/ /\ Committable(updated)
       /\ Log_Commit(how, logged)

\* The script commits and goes on.
Script_Commit ==
    /\ phase = "script"
    /\ depth = 0
    /\ \E how \in How : Udb_Commit(how, "script", "logged")

\* The script succeeded, and Conn_Execute commits.
End_Commit ==
    /\ phase = "script"
    /\ depth = 0
    /\ Udb_Commit(Keep, "idle", "loggedEnd")

\* db_commit_transaction and the cleanup after it.
Db_Commit ==
    /\ phase \in {"logged", "loggedEnd"}
    /\ phase' = IF phase = "logged" THEN "script" ELSE "idle"
    /\ disk' = work
    /\ Udb_Update_License_Limits
    /\ txUpd' = FALSE
    /\ schMod' = FALSE
    /\ UNCHANGED <<work, sysUpd, force, loaded, ver, newMicro, log, depth,
                   frames, tainted>>

\* udb_commit -noCommit: the new numbers take effect, the commit is left to
\* a later call.
No_Commit ==
    /\ phase = "script"
    /\ depth = 0
    /\ \E how \in How \ {Keep} :
         LET v == [f \in Family |-> Target(f, how[f], 0)] IN
         /\ \A f \in Family : InBounds(v[f])
         /\ ver' = v
         /\ work' = [work EXCEPT !.ver =
                       [f \in Family |-> Put(f, how[f], v[f], FALSE)]]
         /\ newMicro' = Fresher(how)
    /\ loaded' = TRUE
    /\ txUpd' = TRUE
    /\ UNCHANGED <<phase, disk, sysUpd, force, schMod, cur, delta, log, depth,
                   frames, tainted>>

\* A new major number with a malformed minor number: the major number is
\* put before the minor number is looked at.
Bad_Commit ==
    /\ Malformed
    /\ phase = "script"
    /\ depth = 0
    /\ \E f \in Retargeted :
         /\ CurVer[f][1] < MaxMinor
         /\ Rollback(txUpd, [work EXCEPT !.ver[f] =
                                <<CurVer[f][1] + 1, @[2], @[3]>>])
    /\ UNCHANGED phase

(***************************************************************************)
(* udb_syscall frames.  unameit_create and its siblings run triggers,      *)
(* check authorization, call udb_create, udb_update, udb_delete or         *)
(* udb_undelete, and run more triggers; each of these may raise an error.  *)
(***************************************************************************)
Top == frames[depth]

SetTop(fr) == frames' = [frames EXCEPT ![depth] = fr]

Mutant_SaveNothing == FALSE
Saved == sysUpd

Push(op) ==
    /\ ~force
    /\ depth < MaxDepth
    /\ depth' = depth + 1
    /\ frames' = [frames EXCEPT ![depth + 1] =
                    [op |-> op, done |-> FALSE, failed |-> FALSE,
                     saved |-> Saved, base |-> work.items]]
    /\ sysUpd' = FALSE
    /\ UNCHANGED <<phase, work, disk, txUpd, force, schMod, loaded, ver,
                   newMicro, cur, delta, log, tainted>>

\* A client script makes an update call.
Udb_Syscall ==
    /\ phase = "script"
    /\ depth = 0
    /\ \E op \in Op : Push(op)

\* Process_Rhs_Relations, in the middle of udb_delete, calls unameit_delete
\* for an object that refers to the deleted one.  With force_rollback set,
\* udb_syscall fails at once, and so does the enclosing udb_delete.
Cascade ==
    /\ depth > 0
    /\ Top.op = "delete"
    /\ Top.done
    /\ ~Top.failed
    /\ \/ Push("delete")
       \/ /\ force
          /\ SetTop([Top EXCEPT !.failed = TRUE])
          /\ UNCHANGED <<phase, work, disk, txVars, cur, delta, log, depth,
                         tainted>>

Running == depth > 0 /\ ~Top.failed

\* udb_create of a new uuid, udb_undelete of a deleted one.  When the name
\* caches reject the object it has already been stored, and its license
\* unit is not counted.
Udb_Create ==
    /\ Running
    /\ Top.op = "create"
    /\ ~Top.done
    /\ ~Udb_Over_License_Count
    /\ \E i \in Item, val \in Content :
         /\ work.items[i].st # "live"
         /\ Udb_Finish_Object(i, "live", val)
         /\ \/ /\ Udb_Adjust_License_Count(i, 1)
               /\ SetTop([Top EXCEPT !.done = TRUE])
               /\ UNCHANGED force
            \/ /\ force' = TRUE
               /\ SetTop([Top EXCEPT !.done = TRUE, !.failed = TRUE])
               /\ UNCHANGED delta
    /\ UNCHANGED <<phase, disk, cur, log, depth, tainted>>

\* udb_create of a uuid that exists: dbt_finish_object fails.
Udb_Create_Used ==
    /\ Running
    /\ Top.op = "create"
    /\ ~Top.done
    /\ ~Udb_Over_License_Count
    /\ \E i \in Item : work.items[i].st # "absent" /\ Stamp(i)
    /\ SetTop([Top EXCEPT !.failed = TRUE])
    /\ UNCHANGED <<phase, work, disk, txUpd, sysUpd, force, cur, delta, log,
                   depth, tainted>>

\* udb_update: the update call's own, a trigger's, or the nullification of a
\* reference to a deleted object.
Store(i) ==
    /\ work.items[i].st = "live"
    /\ \E val \in Content : Udb_Finish_Object(i, "live", val)

Udb_Update ==
    /\ Running
    /\ \E i \in Item : Store(i)
    /\ \/ SetTop([Top EXCEPT !.done = Top.done \/ Top.op = "update"])
          /\ UNCHANGED force
       \/ SetTop([Top EXCEPT !.failed = TRUE]) /\ force' = TRUE
    /\ UNCHANGED <<phase, disk, cur, delta, log, depth, tainted>>

Udb_Delete ==
    /\ Running
    /\ Top.op = "delete"
    /\ ~Top.done
    /\ \E i \in Item :
         /\ work.items[i].st = "live"
         /\ Udb_Finish_Object(i, "deleted", work.items[i].val)
         /\ Udb_Adjust_License_Count(i, -1)
    /\ SetTop([Top EXCEPT !.done = TRUE])
    /\ UNCHANGED <<phase, disk, force, cur, log, depth, tainted>>

\* An error raised by anything else in the frame.
Script_Error ==
    /\ Running
    /\ SetTop([Top EXCEPT !.failed = TRUE])
    /\ UNCHANGED <<phase, work, disk, txVars, cur, delta, log, depth, tainted>>

\* The frame ends.  An error also fails the enclosing frame.
Syscall_Return ==
    /\ depth > 0
    /\ Top.done \/ Top.failed
    /\ force' = (force \/ (Top.failed /\ sysUpd))
    /\ sysUpd' = Top.saved
    /\ tainted' = (tainted \/ (Top.failed /\ work.items # Top.base))
    /\ depth' = depth - 1
    /\ frames' = [k \in 1..MaxDepth |->
                    IF k = depth THEN NoFrames[k]
                    ELSE IF k = depth - 1 /\ Top.failed
                      THEN [frames[k] EXCEPT !.failed = TRUE]
                      ELSE frames[k]]
    /\ UNCHANGED <<phase, work, disk, txUpd, schMod, loaded, ver, newMicro,
                   cur, delta, log>>

\* unameit_change_password and unameit_change_shell call udb_update without
\* a frame.
Direct_Update ==
    /\ phase = "script"
    /\ depth = 0
    /\ \E i \in Item \ SchemaItem : Store(i)
    /\ force' \in {force, TRUE}
    /\ UNCHANGED <<phase, disk, cur, delta, log, depth, frames, tainted>>

\* unameit_protect
Udb_Protect_Items ==
    /\ phase = "script"
    /\ depth = 0
    /\ \E i \in Item \ work.prot :
         /\ work.items[i].st = "live"
         /\ work' = [work EXCEPT !.prot = @ \cup {i}]
    /\ txUpd' = TRUE
    /\ sysUpd' = TRUE
    /\ UNCHANGED <<phase, disk, force, schMod, loaded, ver, newMicro, cur,
                   delta, log, depth, frames, tainted>>

----------------------------------------------------------------------------
Init ==
    /\ phase = "down"
    /\ disk = [items |-> [i \in Item |-> Unborn], ver |-> NoVersions,
               prot |-> {}]
    /\ work = disk
    /\ txUpd = FALSE
    /\ sysUpd = FALSE
    /\ force = FALSE
    /\ schMod = FALSE
    /\ loaded = FALSE
    /\ ver = NoVersions
    /\ newMicro = NoFamily
    /\ cur = 0
    /\ delta = 0
    /\ log = [ver |-> NoVersions, items |-> disk.items]
    /\ depth = 0
    /\ frames = NoFrames
    /\ tainted = FALSE

Process == Login \/ Crash \/ Shutdown
Request == Udb_Transaction \/ EndAbort \/ Udb_Rollback \/ Udb_Version
Committing == Script_Commit \/ End_Commit \/ Db_Commit \/ No_Commit
              \/ Bad_Commit
Framing == Udb_Syscall \/ Cascade \/ Script_Error \/ Syscall_Return
Updating == Udb_Create \/ Udb_Create_Used \/ Udb_Update \/ Udb_Delete
            \/ Direct_Update \/ Udb_Protect_Items

Next == Process \/ Request \/ Committing \/ Framing \/ Updating

Spec == Init /\ [][Next]_vars

----------------------------------------------------------------------------
Phase == {"down", "idle", "script", "logged", "loggedEnd"}

TypeOK ==
    /\ phase \in Phase
    /\ work \in Database
    /\ disk \in Database
    /\ txUpd \in BOOLEAN
    /\ sysUpd \in BOOLEAN
    /\ force \in BOOLEAN
    /\ schMod \in BOOLEAN
    /\ loaded \in BOOLEAN
    /\ ver \in [Family -> Version]
    /\ newMicro \in [Family -> BOOLEAN]
    /\ cur \in Int
    /\ delta \in Int
    /\ log \in [ver : [Family -> Version], items : [Item -> Object]]
    /\ depth \in 0..MaxDepth
    /\ frames \in [1..MaxDepth -> Frame]
    /\ tainted \in BOOLEAN

\* "Do all updates atomically" (unameit_server.tcl): when an update call
\* fails after changing the database, however deep the cascade of calls in
\* which it failed, force_rollback stays set until the changes are undone.
NoPartialCall == tainted => force

\* "Roll back any uncommitted transactions.  (Should be none)"
\* (Udb_Transaction): between two requests the server's view of the database
\* is the committed one, no rollback is owed, and no license unit is
\* tentative, so that a client never commits or pays for another's changes.
IdleClean ==
    phase = "idle" => work = disk /\ ~force /\ delta = 0 /\ depth = 0

\* Unless a rollback is owed, the license counters agree with the number of
\* live data items, although they are never recounted after Login: "Failed
\* deletes, always force rollback.  So we can adjust license limits
\* unconditionally" (Udb_Delete).
LicenseExact ==
    phase # "down" /\ ~force => cur + delta = Cardinality(Live(work.items))

\* Udb_Over_License_Count lets the committed population exceed the licensed
\* number by at most one.
LicenseBound == Cardinality(Live(disk.items)) <= Limit + 1

\* A commit that changes an item increases the version of its family, and
\* the item's new mtran stamp lies between the two versions: mtran tells
\* which items changed since a given version.
VersionsAdvance ==
    [][\A i \in Item :
         LET f == FamilyOf(i) IN
         disk'.items[i] # disk.items[i] =>
            /\ Less(disk.ver[f], disk'.ver[f])
            /\ ~Less(disk'.items[i].mtran, disk.ver[f])
            /\ Less(disk'.items[i].mtran, disk'.ver[f])]_vars

\* WriteLog precedes db_commit_transaction: whenever the committed items
\* change, the last log entry already describes the new state under its new
\* version, whatever crash or failure intervenes.
WriteAhead ==
    [][Logging /\ disk'.items # disk.items
         => log = [ver |-> disk'.ver, items |-> disk'.items]]_vars

----------------------------------------------------------------------------
\* The server implements the atomic store: what clients see committed is the
\* result of whole calls of whole transactions.
Atomic == INSTANCE AtomicStore
    WITH Value <- Object,
         store <- disk.items,
         doomed <- force,
         pending <- IF force THEN disk.items
                    ELSE IF depth > 0 THEN frames[1].base
                    ELSE work.items

\* A transaction in which a call failed midway is never committed, and a
\* commit publishes exactly what the calls completed before it stored.
AtomicCalls == Atomic!Spec
============================================================================
