----------------------- MODULE TransactionAccounting -----------------------
(***************************************************************************)
(* Proofs that nothing uncommitted survives a request, that the license    *)
(* counters always agree with the database and keep it within the licensed *)
(* number, that a commit advances the versions of what it changes, and     *)
(* that it logs what it writes first.                                      *)
(***************************************************************************)
EXTENDS TransactionProofs

(***************************************************************************)
(* Nothing uncommitted survives a request.  Udb_Do_Rollback returns early  *)
(* when tx_db_updated is FALSE, so the argument is that the flag is set    *)
(* whenever there is something to undo.  This fails if an operator passes  *)
(* a malformed version number.                                             *)
(***************************************************************************)
CleanInv ==
    /\ work # disk \/ delta # 0 => txUpd
    /\ phase = "idle" => work = disk /\ delta = 0

LEMMA CleanOutside ==
    ASSUME work' = disk', delta' = 0
    PROVE  CleanInv'
BY DEF CleanInv

LEMMA CleanInside ==
    ASSUME phase' # "idle", txUpd'
    PROVE  CleanInv'
BY DEF CleanInv

LEMMA RollbackClean ==
    ASSUME TypeOK, CleanInv, NEW u \in BOOLEAN, txUpd => u, Rollback(u, work)
    PROVE  CleanInv'
<1>1. disk' = disk
  BY DEF Rollback
<1>2. \/ work' = disk /\ delta' = 0
      \/ ~u /\ work' = work /\ delta' = delta
  BY RollbackEffect
<1>3. work' = disk' /\ delta' = 0
  BY <1>1, <1>2 DEF CleanInv
<1>4. QED
  BY <1>3, CleanOutside

LEMMA CommitClean ==
    ASSUME TypeOK, CleanInv, NEW how \in How, NEW next,
           NEW logged \in {"logged", "loggedEnd"},
           Udb_Commit(how, next, logged)
    PROVE  CleanInv'
<1> DEFINE u == txUpd \/ how # Keep
<1>1. CASE Rollback(u, work)
  <2>1. u \in BOOLEAN /\ (txUpd => u)
    BY DEF TypeOK
  <2> HIDE DEF u
  <2>2. QED
    BY <1>1, <2>1, RollbackClean
<1>2. CASE ~u /\ UNCHANGED <<work, disk, delta>>
  <2>1. work' = disk' /\ delta' = 0
    BY <1>2 DEF CleanInv
  <2>2. QED
    BY <2>1, CleanOutside
<1>3. CASE Log_Commit(how, logged)
  BY <1>3, CleanInside DEF Log_Commit
<1>4. QED
  BY <1>1, <1>2, <1>3 DEF Udb_Commit

LEMMA CleanStep ==
    ASSUME ~Malformed, AtomicInv, CleanInv, Next
    PROVE  CleanInv'
<1> TypeOK
  BY DEF AtomicInv
<1>1. CASE Login \/ Stop
  BY <1>1, CleanOutside DEF Login, Stop, Fresh
<1>2. CASE Udb_Do_Rollback
  BY <1>2, RollbackClean DEF Udb_Do_Rollback, TypeOK
<1>3. CASE Script_Commit \/ End_Commit
  BY <1>3, CommitClean, KeepIsHow DEF Script_Commit, End_Commit
<1>4. CASE Db_Commit
  BY <1>4, CleanOutside DEF Db_Commit, Udb_Update_License_Limits
<1>5. CASE No_Commit \/ Direct_Update \/ Udb_Protect_Items
  BY <1>5, CleanInside
     DEF No_Commit, Direct_Update, Udb_Protect_Items, Store, Udb_Finish_Object
<1>6. CASE Udb_Create \/ Udb_Update \/ Udb_Delete
  <2>1. phase' = "script"
    BY <1>6 DEF Udb_Create, Udb_Update, Udb_Delete, Running, AtomicInv,
                FrameInv
  <2>2. txUpd'
    BY <1>6 DEF Udb_Create, Udb_Update, Udb_Delete, Store, Udb_Finish_Object
  <2>3. QED
    BY <2>1, <2>2, CleanInside
<1>7. CASE UNCHANGED <<work, disk, delta, txUpd, phase>>
  BY <1>7 DEF CleanInv
<1>8. CASE Udb_Create_Used \/ Framing \/ Udb_Version
  BY <1>7, <1>8 DEF Udb_Create_Used, Framing, Udb_Syscall, Cascade,
     Script_Error, Syscall_Return, Push, Udb_Version, txVars
<1>9. ~Bad_Commit
  BY DEF Bad_Commit
<1>10. QED
  BY <1>1, <1>2, <1>3, <1>4, <1>5, <1>6, <1>8, <1>9
     DEF Next, Process, Request, Committing, Updating, Crash, Shutdown,
         EndAbort, Udb_Rollback, Udb_Transaction

\* "Roll back any uncommitted transactions.  (Should be none)": when every
\* version number operators pass is well formed, a request starts from the
\* committed database and owes nothing.
THEOREM NothingLeftOver == ~Malformed => (Spec => []IdleClean)
<1> SUFFICES ASSUME ~Malformed PROVE Spec => []IdleClean
  OBVIOUS
<1>1. Init => CleanInv
  BY DEF Init, CleanInv
<1>2. ASSUME AtomicInv, CleanInv, [Next]_vars
      PROVE  CleanInv'
  <2>1. CASE UNCHANGED vars
    BY <1>2, <2>1 DEF CleanInv, vars, txVars
  <2>2. QED
    BY <1>2, <2>1, CleanStep
<1>3. AtomicInv /\ CleanInv => IdleClean
  <2> SUFFICES ASSUME AtomicInv, CleanInv, phase = "idle"
               PROVE  work = disk /\ ~force /\ delta = 0 /\ depth = 0
    BY DEF IdleClean
  <2>1. QED
    BY DEF AtomicInv, FrameInv, TypeOK, CleanInv
<1>4. QED
  BY <1>1, <1>2, <1>3, AtomicInvariance, PTL DEF Spec

----------------------------------------------------------------------------
(***************************************************************************)
(* The license counters.  current_item_units is the committed population,  *)
(* and together with delta_item_units it is the population of the          *)
(* workspace.  The only step that breaks the second equation is a create   *)
(* whose object was stored and then rejected, and that step owes a         *)
(* rollback.                                                               *)
(***************************************************************************)
Count(items) == Cardinality(Live(items))

LicenseInv ==
    phase # "down" =>
      /\ cur = Count(disk.items)
      /\ ~force => cur + delta = Count(work.items)

LEMMA CountType == \A items : Count(items) \in Nat
<1> TAKE items
<1>1. Live(items) \subseteq Item
  BY DEF Live
<1>2. QED
  BY <1>1, FiniteAssumption, FS_Subset, FS_CardinalityType DEF Count

\* What storing one object does to the number of live data items.
LEMMA CountStore ==
    ASSUME NEW old \in [Item -> Object], NEW i \in Item, NEW o,
           NEW new, new = [old EXCEPT ![i] = o]
    PROVE  /\ i \in SchemaItem => Count(new) = Count(old)
           /\ old[i].st = "live" /\ o.st = "live" => Count(new) = Count(old)
           /\ i \notin SchemaItem /\ old[i].st # "live" /\ o.st = "live"
                => Count(new) = Count(old) + 1
           /\ i \notin SchemaItem /\ old[i].st = "live" /\ o.st # "live"
                => Count(new) = Count(old) - 1
<1>1. IsFiniteSet(Live(old))
  <2>1. Live(old) \subseteq Item
    BY DEF Live
  <2>2. QED
    BY <2>1, FiniteAssumption, FS_Subset
<1>2. ASSUME i \in SchemaItem
      PROVE  Count(new) = Count(old)
  <2>1. Live(new) = Live(old)
    BY <1>2 DEF Live
  <2>2. QED
    BY <2>1 DEF Count
<1>3. ASSUME old[i].st = "live", o.st = "live"
      PROVE  Count(new) = Count(old)
  <2>1. Live(new) = Live(old)
    BY <1>3 DEF Live
  <2>2. QED
    BY <2>1 DEF Count
<1>4. ASSUME i \notin SchemaItem, old[i].st # "live", o.st = "live"
      PROVE  Count(new) = Count(old) + 1
  <2>1. Live(new) = Live(old) \cup {i} /\ i \notin Live(old)
    BY <1>4 DEF Live
  <2>2. QED
    BY <1>1, <2>1, FS_AddElement DEF Count
<1>5. ASSUME i \notin SchemaItem, old[i].st = "live", o.st # "live"
      PROVE  Count(new) = Count(old) - 1
  <2>1. Live(new) = Live(old) \ {i} /\ i \in Live(old)
    BY <1>5 DEF Live
  <2>2. QED
    BY <1>1, <2>1, FS_RemoveElement DEF Count
<1>6. QED
  BY <1>2, <1>3, <1>4, <1>5

\* Steps that leave the population alone.
LEMMA LicenseSame ==
    ASSUME LicenseInv, work'.items = work.items,
           UNCHANGED <<disk, cur, delta>>,
           phase' # "down" => phase # "down",
           force => force'
    PROVE  LicenseInv'
BY DEF LicenseInv

LEMMA RollbackLicense ==
    ASSUME TypeOK, LicenseInv, phase # "down", NEW u \in BOOLEAN, NEW w,
           w.items = work.items, Rollback(u, w)
    PROVE  LicenseInv'
<1>1. disk' = disk /\ cur' = cur
  BY RollbackEffect
<1>2. \/ work' = disk /\ delta' = 0
      \/ ~force /\ work'.items = work.items /\ delta' = delta
  BY RollbackEffect
<1>3. cur \in Int
  BY DEF TypeOK
<1>4. QED
  BY <1>1, <1>2, <1>3 DEF LicenseInv

LEMMA CommitLicense ==
    ASSUME TypeOK, LicenseInv, phase # "down", NEW how \in How, NEW next,
           NEW logged, Udb_Commit(how, next, logged)
    PROVE  LicenseInv'
<1> DEFINE u == txUpd \/ how # Keep
<1>1. CASE Rollback(u, work)
  <2>1. u \in BOOLEAN
    BY DEF TypeOK
  <2> HIDE DEF u
  <2>2. QED
    BY <1>1, <2>1, RollbackLicense
<1>2. CASE UNCHANGED <<work, disk, cur, delta, force>>
  BY <1>2, LicenseSame
<1>3. CASE Log_Commit(how, logged)
  <2>1. work'.items = work.items
    BY <1>3 DEF Log_Commit, TypeOK, Database
  <2>2. QED
    BY <1>3, <2>1, LicenseSame DEF Log_Commit
<1>4. QED
  BY <1>1, <1>2, <1>3 DEF Udb_Commit

LEMMA FinishCount ==
    ASSUME TypeOK, NEW i \in Item, NEW st, NEW val,
           Udb_Finish_Object(i, st, val)
    PROVE  LET old == work.items[i].st = "live"
           IN  /\ i \in SchemaItem => Count(work'.items) = Count(work.items)
               /\ old /\ st = "live"
                    => Count(work'.items) = Count(work.items)
               /\ i \notin SchemaItem /\ ~old /\ st = "live"
                    => Count(work'.items) = Count(work.items) + 1
               /\ i \notin SchemaItem /\ old /\ st = "deleted"
                    => Count(work'.items) = Count(work.items) - 1
<1> DEFINE o == [st |-> st, val |-> val, mtran |-> CurVer[FamilyOf(i)]]
<1>1. o.st = st
  OBVIOUS
<1>2. work'.items = [work.items EXCEPT ![i] = o]
  BY DEF Udb_Finish_Object, TypeOK, Database
<1>3. work.items \in [Item -> Object]
  BY DEF TypeOK, Database
<1> HIDE DEF o
<1>4. QED
  BY <1>1, <1>2, <1>3, CountStore

LEMMA UpdatingLicense ==
    ASSUME AtomicInv, LicenseInv, Updating
    PROVE  LicenseInv'
<1> TypeOK
  BY DEF AtomicInv
<1>a. cur \in Int /\ delta \in Int /\ Count(work.items) \in Nat
  BY CountType DEF TypeOK
<1>b. disk' = disk /\ cur' = cur /\ phase' = phase /\ (force => force')
  <2>1. UNCHANGED <<disk, cur, phase>>
    BY DEF Updating, Udb_Create, Udb_Create_Used, Udb_Update, Udb_Delete,
           Direct_Update, Udb_Protect_Items
  <2>2. force' = force \/ force' = TRUE
    BY DEF Updating, Udb_Create, Udb_Create_Used, Udb_Update, Udb_Delete,
           Direct_Update, Udb_Protect_Items
  <2>3. QED
    BY <2>1, <2>2
<1>1. CASE Udb_Create
  <2>1. PICK i \in Item, val \in Content :
          /\ work.items[i].st # "live"
          /\ Udb_Finish_Object(i, "live", val)
          /\ \/ Udb_Adjust_License_Count(i, 1)
             \/ force' = TRUE
    BY <1>1 DEF Udb_Create
  <2>2. CASE force'
    BY <2>2, <1>b DEF LicenseInv
  <2>3. CASE ~force'
    <3>1. delta' = IF i \in SchemaItem THEN delta ELSE delta + 1
      BY <2>1, <2>3 DEF Udb_Adjust_License_Count
    <3>2. Count(work'.items) = IF i \in SchemaItem THEN Count(work.items)
                               ELSE Count(work.items) + 1
      BY <2>1, FinishCount
    <3>3. QED
      BY <1>a, <1>b, <2>3, <3>1, <3>2 DEF LicenseInv
  <2>4. QED
    BY <2>2, <2>3
<1>2. CASE Udb_Delete
  <2>1. PICK i \in Item :
          /\ work.items[i].st = "live"
          /\ Udb_Finish_Object(i, "deleted", work.items[i].val)
          /\ Udb_Adjust_License_Count(i, -1)
    BY <1>2 DEF Udb_Delete
  <2>2. delta' = IF i \in SchemaItem THEN delta ELSE delta - 1
    BY <2>1, <1>a DEF Udb_Adjust_License_Count
  <2>3. Count(work'.items) = IF i \in SchemaItem THEN Count(work.items)
                             ELSE Count(work.items) - 1
    BY <2>1, FinishCount
  <2>4. QED
    BY <1>a, <1>b, <2>2, <2>3 DEF LicenseInv
<1>3. CASE Udb_Update \/ Direct_Update
  <2>1. PICK i \in Item, val \in Content :
          /\ work.items[i].st = "live"
          /\ Udb_Finish_Object(i, "live", val)
    BY <1>3 DEF Udb_Update, Direct_Update, Store
  <2>2. Count(work'.items) = Count(work.items)
    BY <2>1, FinishCount
  <2>3. delta' = delta
    BY <1>3 DEF Udb_Update, Direct_Update
  <2>4. QED
    BY <1>b, <2>2, <2>3 DEF LicenseInv
<1>4. CASE Udb_Create_Used \/ Udb_Protect_Items
  <2>1. work'.items = work.items /\ delta' = delta
    BY <1>4 DEF Udb_Create_Used, Udb_Protect_Items, TypeOK, Database
  <2>2. QED
    BY <1>b, <2>1 DEF LicenseInv
<1>5. QED
  BY <1>1, <1>2, <1>3, <1>4 DEF Updating

LEMMA OtherLicense ==
    ASSUME AtomicInv, LicenseInv, Process \/ Request \/ Committing \/ Framing
    PROVE  LicenseInv'
<1> TypeOK
  BY DEF AtomicInv
<1>1. CASE Stop
  BY <1>1 DEF Stop, LicenseInv
<1>2. CASE Login
  <2>1. cur' = Count(disk.items) /\ delta' = 0 /\ work' = disk /\ disk' = disk
    BY <1>2 DEF Login, Fresh, Count
  <2>2. QED
    BY <2>1, CountType DEF LicenseInv
<1>3. CASE Udb_Do_Rollback /\ phase # "down"
  BY <1>3, RollbackLicense DEF Udb_Do_Rollback, TypeOK
<1>4. CASE Script_Commit \/ End_Commit
  BY <1>4, CommitLicense, KeepIsHow DEF Script_Commit, End_Commit
<1>5. CASE Db_Commit
  <2>1. ~force /\ phase # "down"
    BY <1>5 DEF Db_Commit, AtomicInv, FrameInv
  <2>2. disk' = work /\ work' = work /\ cur' = cur + delta /\ delta' = 0
    BY <1>5 DEF Db_Commit, Udb_Update_License_Limits
  <2>3. QED
    BY <2>1, <2>2, CountType DEF LicenseInv
<1>6. CASE No_Commit
  <2>1. work'.items = work.items
    BY <1>6 DEF No_Commit, TypeOK, Database
  <2>2. QED
    BY <1>6, <2>1, LicenseSame DEF No_Commit
<1>7. CASE Bad_Commit
  <2>1. PICK f \in Family :
          Rollback(txUpd, [work EXCEPT !.ver[f] =
                             <<CurVer[f][1] + 1, @[2], @[3]>>])
    BY <1>7, BoundAssumption DEF Bad_Commit, Family
  <2> DEFINE w == [work EXCEPT !.ver[f] = <<CurVer[f][1] + 1, @[2], @[3]>>]
  <2>2. w.items = work.items
    BY DEF TypeOK, Database
  <2> HIDE DEF w
  <2>3. Rollback(txUpd, w)
    BY <2>1 DEF w
  <2>4. txUpd \in BOOLEAN /\ phase # "down"
    BY <1>7 DEF Bad_Commit, TypeOK
  <2>5. QED
    BY <2>2, <2>3, <2>4, RollbackLicense
<1>8. CASE Udb_Version \/ Framing
  <2>1. UNCHANGED <<work, disk, cur, delta, phase>>
    BY <1>8 DEF Udb_Version, Framing, Udb_Syscall, Cascade, Script_Error,
                Syscall_Return, Push, txVars
  <2>2. force => force'
    BY <1>8 DEF Udb_Version, Framing, Udb_Syscall, Cascade, Script_Error,
                Syscall_Return, Push, txVars
  <2>3. QED
    BY <2>1, <2>2, LicenseSame
<1>9. QED
  BY <1>1, <1>2, <1>3, <1>4, <1>5, <1>6, <1>7, <1>8
     DEF Process, Request, Committing, Crash, Shutdown, EndAbort,
         Udb_Rollback, Udb_Transaction

\* The incremental license counters are exact in every state of every
\* execution in which no rollback is owed, however calls fail and cascade.
THEOREM LicenseCounted == Spec => []LicenseExact
<1>1. Init => LicenseInv
  BY DEF Init, LicenseInv
<1>2. ASSUME AtomicInv, LicenseInv, [Next]_vars
      PROVE  LicenseInv'
  <2>1. CASE UNCHANGED vars
    BY <1>2, <2>1 DEF LicenseInv, vars, txVars
  <2>2. QED
    BY <1>2, <2>1, UpdatingLicense, OtherLicense DEF Next
<1>3. LicenseInv => LicenseExact
  BY DEF LicenseInv, LicenseExact, Count
<1>4. QED
  BY <1>1, <1>2, <1>3, AtomicInvariance, PTL DEF Spec

----------------------------------------------------------------------------
(***************************************************************************)
(* The licensed number.  A create is refused when the counters are over    *)
(* it, so they may be over it by one, in the workspace and once that is    *)
(* committed.  A workspace that owes a rollback may hold more.             *)
(***************************************************************************)
BoundInv ==
    /\ Count(disk.items) <= Limit + 1
    /\ phase # "down" /\ ~force => Count(work.items) <= Limit + 1

LEMMA BoundKept ==
    ASSUME BoundInv, disk' = disk,
           \/ work' = disk \/ force' \/ phase' = "down"
           \/ phase # "down" /\ ~force /\ work'.items = work.items
    PROVE  BoundInv'
BY DEF BoundInv

LEMMA RollbackBound ==
    ASSUME TypeOK, BoundInv, phase # "down", NEW u \in BOOLEAN, NEW w,
           w.items = work.items, Rollback(u, w)
    PROVE  BoundInv'
<1>1. disk' = disk
  BY RollbackEffect
<1>2. work' = disk \/ (~force /\ work'.items = work.items)
  BY RollbackEffect
<1>3. QED
  BY <1>1, <1>2, BoundKept

LEMMA CommitBound ==
    ASSUME TypeOK, BoundInv, phase # "down", NEW how \in How, NEW next,
           NEW logged, Udb_Commit(how, next, logged)
    PROVE  BoundInv'
<1> DEFINE u == txUpd \/ how # Keep
<1>1. CASE Rollback(u, work)
  <2>1. u \in BOOLEAN
    BY DEF TypeOK
  <2> HIDE DEF u
  <2>2. QED
    BY <1>1, <2>1, RollbackBound
<1>2. CASE ~force /\ UNCHANGED <<work, disk>>
  BY <1>2, BoundKept
<1>3. CASE Committable(u) /\ Log_Commit(how, logged)
  <2>1. work'.items = work.items /\ disk' = disk /\ ~force
    BY <1>3 DEF Log_Commit, TypeOK, Database, Committable
  <2>2. QED
    BY <2>1, BoundKept
<1>4. QED
  BY <1>1, <1>2, <1>3 DEF Udb_Commit

LEMMA UpdatingBound ==
    ASSUME AtomicInv, LicenseInv, BoundInv, Updating
    PROVE  BoundInv'
<1> TypeOK
  BY DEF AtomicInv
<1>1. UNCHANGED <<disk, phase>> /\ (~force' => ~force) /\ phase # "down"
  <2>1. UNCHANGED <<disk, phase>> /\ (force' = force \/ force' = TRUE)
    BY DEF Updating, Udb_Create, Udb_Create_Used, Udb_Update, Udb_Delete,
           Direct_Update, Udb_Protect_Items
  <2>2. phase # "down"
    BY DEF Updating, Udb_Create, Udb_Create_Used, Udb_Update, Udb_Delete,
           Direct_Update, Udb_Protect_Items, Running, AtomicInv, FrameInv
  <2>3. QED
    BY <2>1, <2>2
<1>2. ASSUME ~force' PROVE Count(work'.items) <= Limit + 1
  <2>1. /\ Count(work.items) \in Nat /\ Count(work.items) <= Limit + 1
        /\ cur + delta = Count(work.items) /\ Limit \in Nat
    BY <1>1, <1>2, CountType, LimitAssumption DEF BoundInv, LicenseInv
  <2>2. CASE Udb_Create
    <3>1. PICK i \in Item, val \in Content :
            work.items[i].st # "live" /\ Udb_Finish_Object(i, "live", val)
      BY <2>2 DEF Udb_Create
    <3>2. Count(work'.items) \in {Count(work.items), Count(work.items) + 1}
      BY <3>1, FinishCount
    <3>3. Count(work.items) <= Limit
      BY <2>1, <2>2 DEF Udb_Create, Udb_Over_License_Count
    <3>4. QED
      BY <2>1, <3>2, <3>3
  <2>3. CASE Udb_Delete
    <3>1. PICK i \in Item :
            /\ work.items[i].st = "live"
            /\ Udb_Finish_Object(i, "deleted", work.items[i].val)
      BY <2>3 DEF Udb_Delete
    <3>2. Count(work'.items) \in {Count(work.items), Count(work.items) - 1}
      BY <3>1, FinishCount
    <3>3. QED
      BY <2>1, <3>2
  <2>4. CASE Udb_Update \/ Direct_Update
    <3>1. PICK i \in Item, val \in Content :
            work.items[i].st = "live" /\ Udb_Finish_Object(i, "live", val)
      BY <2>4 DEF Udb_Update, Direct_Update, Store
    <3>2. QED
      BY <2>1, <3>1, FinishCount
  <2>5. CASE Udb_Create_Used \/ Udb_Protect_Items
    <3>1. work'.items = work.items
      BY <2>5 DEF Udb_Create_Used, Udb_Protect_Items, TypeOK, Database
    <3>2. QED
      BY <2>1, <3>1
  <2>6. QED
    BY <2>2, <2>3, <2>4, <2>5 DEF Updating
<1>3. QED
  BY <1>1, <1>2 DEF BoundInv

LEMMA OtherBound ==
    ASSUME AtomicInv, BoundInv, Process \/ Request \/ Committing \/ Framing
    PROVE  BoundInv'
<1> TypeOK
  BY DEF AtomicInv
<1>1. CASE Stop \/ Login
  BY <1>1, BoundKept DEF Stop, Login, Fresh
<1>2. CASE Udb_Do_Rollback /\ phase # "down"
  BY <1>2, RollbackBound DEF Udb_Do_Rollback, TypeOK
<1>3. CASE Script_Commit \/ End_Commit
  BY <1>3, CommitBound, KeepIsHow DEF Script_Commit, End_Commit
<1>4. CASE Db_Commit
  <2>1. ~force /\ phase # "down" /\ disk' = work /\ work' = work
    BY <1>4 DEF Db_Commit, AtomicInv, FrameInv
  <2>2. QED
    BY <2>1 DEF BoundInv
<1>5. CASE No_Commit
  <2>1. work'.items = work.items
    BY <1>5 DEF No_Commit, TypeOK, Database
  <2>2. UNCHANGED <<disk, force, phase>>
    BY <1>5 DEF No_Commit
  <2>3. QED
    BY <2>1, <2>2 DEF BoundInv
<1>6. CASE Bad_Commit
  <2>1. PICK f \in Family :
          Rollback(txUpd, [work EXCEPT !.ver[f] =
                             <<CurVer[f][1] + 1, @[2], @[3]>>])
    BY <1>6, BoundAssumption DEF Bad_Commit, Family
  <2> DEFINE w == [work EXCEPT !.ver[f] = <<CurVer[f][1] + 1, @[2], @[3]>>]
  <2>2. w.items = work.items
    BY DEF TypeOK, Database
  <2> HIDE DEF w
  <2>3. Rollback(txUpd, w) /\ txUpd \in BOOLEAN /\ phase # "down"
    BY <1>6, <2>1 DEF w, Bad_Commit, TypeOK
  <2>4. QED
    BY <2>2, <2>3, RollbackBound
<1>7. CASE Udb_Version \/ Framing
  <2>1. UNCHANGED <<work, disk, phase>>
    BY <1>7 DEF Udb_Version, Framing, Udb_Syscall, Cascade, Script_Error,
                Syscall_Return, Push, txVars
  <2>2. force => force'
    BY <1>7 DEF Udb_Version, Framing, Udb_Syscall, Cascade, Script_Error,
                Syscall_Return, Push, txVars
  <2>3. QED
    BY <2>1, <2>2 DEF BoundInv
<1>8. QED
  BY <1>1, <1>2, <1>3, <1>4, <1>5, <1>6, <1>7
     DEF Process, Request, Committing, Crash, Shutdown, EndAbort,
         Udb_Rollback, Udb_Transaction

\* However requests fail, are rolled back or are cut off by a crash, the
\* committed population never exceeds the licensed number by more than one
\* (Udb_Over_License_Count).
THEOREM LicenseKept == Spec => []LicenseBound
<1>1. Init => LicenseInv /\ BoundInv
  <2> SUFFICES ASSUME Init PROVE LicenseInv /\ BoundInv
    OBVIOUS
  <2>1. phase = "down" /\ Live(disk.items) = {}
    BY DEF Init, Live, Unborn
  <2>2. Count(disk.items) = 0
    BY <2>1, FS_EmptySet DEF Count
  <2>3. QED
    BY <2>1, <2>2, LimitAssumption DEF LicenseInv, BoundInv
<1>2. ASSUME AtomicInv, LicenseInv, BoundInv, [Next]_vars
      PROVE  LicenseInv' /\ BoundInv'
  <2>1. CASE UNCHANGED vars
    BY <1>2, <2>1 DEF LicenseInv, BoundInv, vars, txVars
  <2>2. QED
    BY <1>2, <2>1, UpdatingLicense, OtherLicense, UpdatingBound, OtherBound
       DEF Next
<1>3. BoundInv => LicenseBound
  BY DEF BoundInv, LicenseBound, Count
<1>4. QED
  BY <1>1, <1>2, <1>3, AtomicInvariance, PTL DEF Spec

----------------------------------------------------------------------------
(***************************************************************************)
(* Version numbers and the transaction log.  The cached numbers are those  *)
(* of the workspace, except that a micro number that is to be incremented  *)
(* by the commit may be ahead of it.  An object that differs from the      *)
(* committed one was stamped with numbers between the committed and the    *)
(* cached ones, and the micro number of its family is to be incremented.   *)
(***************************************************************************)
Logged == phase \in {"logged", "loggedEnd"}

Cached(f) ==
    /\ loaded => /\ ver[f][1] = work.ver[f][1] /\ ver[f][2] = work.ver[f][2]
                 /\ ~newMicro[f] => ver[f] = work.ver[f]
    /\ ~Less(CurVer[f], disk.ver[f])
    /\ ~Less(work.ver[f], disk.ver[f])

Stamped(i) ==
    LET f == FamilyOf(i)
        mtran == work.items[i].mtran
    IN  /\ loaded /\ txUpd
        /\ ~Less(mtran, disk.ver[f])
        /\ Logged => Less(disk.ver[f], work.ver[f]) /\ Less(mtran, work.ver[f])
        /\ ~Logged => newMicro[f] /\ ~Less(ver[f], mtran)

VersionInv ==
    /\ \A f \in Family : Cached(f)
    /\ \A i \in Item : work.items[i] # disk.items[i] => Stamped(i)
    /\ Logged => /\ loaded /\ newMicro = NoFamily
                 /\ Logging => log = [ver |-> work.ver, items |-> work.items]

LEMMA LessOrder ==
    \A u, v, w \in Version :
      /\ ~Less(u, u)
      /\ ~Less(v, u) /\ ~Less(w, v) => ~Less(w, u)
      /\ ~Less(v, u) /\ Less(v, w) => Less(u, w) /\ ~Less(w, u)
      /\ Less(u, v) => ~Less(v, u)
BY DEF Less, Version

\* The workspace is the committed database, and so are the cached numbers.
LEMMA VersionsReset ==
    ASSUME TypeOK', work' = disk', newMicro' = NoFamily, ~Logged',
           loaded' => ver' = disk'.ver
    PROVE  VersionInv'
<1>1. ASSUME NEW f \in Family PROVE Cached(f)'
  <2>1. disk'.ver[f] \in Version
    BY DEF TypeOK, Database
  <2>2. CurVer' = disk'.ver
    BY DEF CurVer
  <2>3. QED
    BY <2>1, <2>2, LessOrder DEF Cached
<1>2. QED
  BY <1>1 DEF VersionInv

LEMMA RollbackVersions ==
    ASSUME TypeOK, TypeOK', VersionInv, phase = "script" \/ phase = "idle",
           phase' = "script" \/ phase' = "idle",
           NEW u \in BOOLEAN, txUpd => u, NEW w, w.items = work.items,
           \A f \in Family : ~Less(w.ver[f], disk.ver[f]),
           Rollback(u, w)
    PROVE  VersionInv'
<1>1. disk' = disk /\ ~loaded' /\ newMicro' = NoFamily /\ ~Logged'
  BY DEF Rollback, Unload, Logged
<1>2. CASE work' = disk
  BY <1>1, <1>2, VersionsReset
<1>3. CASE ~u /\ work' = w
  <2>1. \A i \in Item : work'.items[i] = disk'.items[i]
    BY <1>1, <1>3 DEF VersionInv, Stamped
  <2>2. \A f \in Family : Cached(f)'
    BY <1>1, <1>3 DEF Cached, CurVer
  <2>3. QED
    BY <1>1, <2>1, <2>2 DEF VersionInv
<1>4. QED
  BY <1>2, <1>3, RollbackEffect

\* The numbers are read into the cache, if they are not in it.
LEMMA LoadVersions ==
    ASSUME TypeOK, VersionInv, Load, UNCHANGED <<work, disk, txUpd>>,
           ~Logged, ~Logged',
           \A f \in Family : newMicro[f] => newMicro'[f]
    PROVE  VersionInv'
<1>1. CurVer' = CurVer /\ ver' = CurVer /\ loaded'
  BY DEF Load, CurVer
<1>2. ASSUME NEW f \in Family PROVE Cached(f)'
  BY <1>1, <1>2 DEF VersionInv, Cached, CurVer
<1>3. ASSUME NEW i \in Item, work'.items[i] # disk'.items[i] PROVE Stamped(i)'
  BY <1>1, <1>3, FamilyOfType DEF VersionInv, Stamped, CurVer
<1>4. QED
  BY <1>2, <1>3 DEF VersionInv

LEMMA FinishVersions ==
    ASSUME TypeOK, VersionInv, ~Logged, ~Logged', disk' = disk,
           NEW i \in Item, NEW st, NEW val, Udb_Finish_Object(i, st, val)
    PROVE  VersionInv'
<1>1. CurVer' = CurVer /\ ver' = CurVer /\ loaded' /\ txUpd'
  BY DEF Udb_Finish_Object, Stamp, Load, CurVer
<1>2. /\ work'.ver = work.ver
      /\ work'.items[i].mtran = CurVer[FamilyOf(i)]
      /\ \A j \in Item : j # i => work'.items[j] = work.items[j]
  BY DEF Udb_Finish_Object, TypeOK, Database
<1>3. /\ newMicro'[FamilyOf(i)]
      /\ \A f \in Family : newMicro[f] => newMicro'[f]
  BY FamilyOfType DEF Udb_Finish_Object, Stamp, TypeOK
<1>4. ASSUME NEW f \in Family PROVE Cached(f)'
  BY <1>1, <1>2, <1>3, <1>4 DEF VersionInv, Cached, CurVer
<1>5. ASSUME NEW j \in Item, work'.items[j] # disk'.items[j] PROVE Stamped(j)'
  <2>1. CASE j = i
    <3>1. FamilyOf(i) \in Family /\ CurVer[FamilyOf(i)] \in Version
      BY FamilyOfType, CurVerType
    <3>2. ~Less(CurVer[FamilyOf(i)], disk.ver[FamilyOf(i)])
      BY <3>1 DEF VersionInv, Cached
    <3>3. QED
      BY <1>1, <1>2, <1>3, <2>1, <3>1, <3>2, LessOrder DEF Stamped
  <2>2. CASE j # i
    BY <1>1, <1>2, <1>3, <1>5, <2>2, FamilyOfType
       DEF VersionInv, Stamped, CurVer
  <2>3. QED
    BY <2>1, <2>2
<1>6. QED
  BY <1>4, <1>5 DEF VersionInv

\* The numbers a commit puts into the database are the ones it caches, and are
\* new for a family that has to have new ones.
LEMMA CommitNumbers ==
    ASSUME TypeOK, VersionInv, NEW how \in How, NEW f \in Family,
           NEW v, v = Next_Version(how)[f]
    PROVE  /\ Put(f, how[f], v, Fresher(how)[f]) = v
           /\ ~Less(v, CurVer[f])
           /\ newMicro[f] => Less(CurVer[f], v)
<1> DEFINE c == CurVer[f]
           h == how[f]
           t == Target(f, h, -1)
<1>1. c \in Version /\ work.ver[f] \in Version
  BY CurVerType DEF TypeOK, Database
<1>2. /\ c[1] = work.ver[f][1] /\ c[2] = work.ver[f][2]
      /\ ~newMicro[f] => c = work.ver[f]
  BY DEF VersionInv, Cached, CurVer
<1>3. h \in {"keep", "minor", "major"}
  BY DEF How
<1>4. /\ h = "keep" => t = c
      /\ h = "minor" => t = <<c[1], c[2] + 1, -1>>
      /\ h = "major" => t = <<c[1] + 1, 0, -1>>
  BY DEF Target
<1>5. Fresher(how)[f] <=> newMicro[f] \/ h # "keep"
  BY DEF Fresher
<1>6. v = IF Fresher(how)[f] THEN <<t[1], t[2], t[3] + 1>> ELSE t
  BY DEF Next_Version
<1>7. Put(f, h, v, Fresher(how)[f]) =
        <<IF h = "major" THEN v[1] ELSE work.ver[f][1],
          IF h # "keep" THEN v[2] ELSE work.ver[f][2],
          IF Fresher(how)[f] THEN v[3] ELSE work.ver[f][3]>>
  BY DEF Put
<1> HIDE DEF c, h, t
<1>8. CASE h = "keep"
  <2>1. CASE newMicro[f]
    <3>1. v = <<c[1], c[2], c[3] + 1>>
      BY <1>4, <1>5, <1>6, <1>8, <2>1
    <3>2. Put(f, h, v, Fresher(how)[f]) = v
      BY <1>2, <1>5, <1>7, <1>8, <2>1, <3>1
    <3>3. QED
      BY <1>1, <3>1, <3>2 DEF Less, Version, c, h
  <2>2. CASE ~newMicro[f]
    <3>1. v = c /\ c = work.ver[f] /\ c = <<c[1], c[2], c[3]>>
      BY <1>1, <1>2, <1>4, <1>5, <1>6, <1>8, <2>2 DEF Version
    <3>2. Put(f, h, v, Fresher(how)[f]) = v
      BY <1>5, <1>7, <1>8, <2>2, <3>1
    <3>3. QED
      BY <1>1, <2>2, <3>1, <3>2, LessOrder DEF c, h
  <2>3. QED
    BY <2>1, <2>2
<1>9. CASE h = "minor" \/ h = "major"
  <2>1. v = IF h = "minor" THEN <<c[1], c[2] + 1, 0>> ELSE <<c[1] + 1, 0, 0>>
    BY <1>4, <1>5, <1>6, <1>9
  <2>2. Put(f, h, v, Fresher(how)[f]) = v
    BY <1>2, <1>5, <1>7, <1>9, <2>1
  <2>3. Less(c, v) /\ ~Less(v, c)
    BY <1>1, <1>9, <2>1 DEF Less, Version
  <2>4. QED
    BY <2>2, <2>3 DEF c, h
<1>10. QED
  BY <1>3, <1>8, <1>9

LEMMA LogVersions ==
    ASSUME TypeOK, VersionInv, ~Logged, NEW how \in How,
           NEW logged \in {"logged", "loggedEnd"}, Log_Commit(how, logged)
    PROVE  VersionInv'
<1> DEFINE v == Next_Version(how)
<1>1. v \in [Family -> Version]
  BY NextVersionType
<1>2. /\ work'.items = work.items
      /\ work'.ver = [f \in Family |-> Put(f, how[f], v[f], Fresher(how)[f])]
  BY DEF Log_Commit, TypeOK, Database
<1>3. /\ ver' = v /\ loaded' /\ newMicro' = NoFamily /\ txUpd' /\ disk' = disk
      /\ log' = IF Logging THEN [ver |-> v, items |-> work'.items] ELSE log
      /\ Logged'
  BY DEF Log_Commit, WriteLog, Logged
<1>4. \A f \in Family : /\ Put(f, how[f], v[f], Fresher(how)[f]) = v[f]
                        /\ ~Less(v[f], CurVer[f])
                        /\ newMicro[f] => Less(CurVer[f], v[f])
  BY CommitNumbers
<1> HIDE DEF v
<1>5. work'.ver = v
  BY <1>1, <1>2, <1>4
<1>6. CurVer \in [Family -> Version] /\ disk.ver \in [Family -> Version]
  BY CurVerType DEF TypeOK, Database
<1>7. ASSUME NEW f \in Family PROVE Cached(f)'
  <2>1. ~Less(v[f], disk.ver[f])
    BY <1>1, <1>4, <1>6, LessOrder DEF VersionInv, Cached
  <2>2. QED
    BY <1>3, <1>5, <2>1 DEF Cached, CurVer
<1>8. ASSUME NEW i \in Item, work'.items[i] # disk'.items[i] PROVE Stamped(i)'
  <2>1. PICK f \in Family : f = FamilyOf(i)
    BY FamilyOfType
  <2>2. PICK m \in Version : m = work.items[i].mtran
    BY DEF TypeOK, Database, Object
  <2>3. loaded /\ newMicro[f] /\ ~Less(ver[f], m) /\ ~Less(m, disk.ver[f])
    BY <1>2, <1>3, <1>8, <2>1, <2>2 DEF VersionInv, Stamped
  <2>4. Less(ver[f], v[f]) /\ ~Less(ver[f], disk.ver[f]) /\ ver[f] \in Version
    BY <1>4, <1>6, <2>3 DEF CurVer, VersionInv, Cached
  <2>5. Less(m, v[f]) /\ Less(disk.ver[f], v[f])
    BY <1>1, <1>6, <2>3, <2>4, LessOrder
  <2>6. QED
    BY <1>2, <1>3, <1>5, <2>1, <2>2, <2>3, <2>5 DEF Stamped
<1>9. QED
  BY <1>3, <1>5, <1>7, <1>8 DEF VersionInv

LEMMA CommitVersions ==
    ASSUME TypeOK, TypeOK', VersionInv, phase = "script", NEW how \in How,
           NEW next \in {"script", "idle"}, NEW logged \in {"logged", "loggedEnd"},
           Udb_Commit(how, next, logged)
    PROVE  VersionInv'
<1> DEFINE u == txUpd \/ how # Keep
<1>1. CASE Rollback(u, work) /\ phase' = next
  <2>1. u \in BOOLEAN /\ (txUpd => u)
    BY DEF TypeOK
  <2> HIDE DEF u
  <2>2. \A f \in Family : ~Less(work.ver[f], disk.ver[f])
    BY DEF VersionInv, Cached
  <2>3. QED
    BY <1>1, <2>1, <2>2, RollbackVersions
<1>2. CASE /\ Load /\ phase' = next
           /\ UNCHANGED <<work, disk, txUpd, sysUpd, force, schMod, newMicro, cur,
                          delta, log, depth, frames, tainted>>
  BY <1>2, LoadVersions DEF Logged
<1>3. CASE Log_Commit(how, logged)
  BY <1>3, LogVersions DEF Logged
<1>4. QED
  BY <1>1, <1>2, <1>3 DEF Udb_Commit

LEMMA NoCommitVersions ==
    ASSUME TypeOK, VersionInv, No_Commit
    PROVE  VersionInv'
<1>1. PICK how \in How :
        /\ ver' = [f \in Family |-> Target(f, how[f], 0)]
        /\ work' = [work EXCEPT !.ver =
                      [f \in Family |-> Put(f, how[f], Target(f, how[f], 0), FALSE)]]
        /\ newMicro' = Fresher(how)
  <2>1. PICK how \in How :
          LET v == [f \in Family |-> Target(f, how[f], 0)] IN
          /\ ver' = v
          /\ work' = [work EXCEPT !.ver =
                        [f \in Family |-> Put(f, how[f], v[f], FALSE)]]
          /\ newMicro' = Fresher(how)
    BY DEF No_Commit
  <2>2. QED
    BY <2>1
<1>2. loaded' /\ txUpd' /\ disk' = disk /\ ~Logged /\ ~Logged'
  BY DEF No_Commit, Logged
<1>3. /\ work'.items = work.items
      /\ work'.ver = [f \in Family |-> Put(f, how[f], Target(f, how[f], 0), FALSE)]
  BY <1>1 DEF TypeOK, Database
<1>4. ASSUME NEW f \in Family
      PROVE  Cached(f)' /\ ~Less(ver'[f], CurVer[f]) /\ ver'[f] \in Version
  <2> DEFINE c == CurVer[f]
             h == how[f]
             t == Target(f, h, 0)
             w == work.ver[f]
             p == Put(f, h, t, FALSE)
  <2>1. /\ c \in Version /\ w \in Version /\ disk.ver[f] \in Version
        /\ ~Less(c, disk.ver[f]) /\ ~Less(w, disk.ver[f])
    BY CurVerType DEF TypeOK, Database, VersionInv, Cached
  <2>2. c[1] = w[1] /\ c[2] = w[2] /\ (~newMicro[f] => c = w)
    BY DEF VersionInv, Cached, CurVer
  <2>3. h \in {"keep", "minor", "major"}
    BY DEF How
  <2>4. /\ h = "keep" => t = c
        /\ h = "minor" => t = <<c[1], c[2] + 1, 0>>
        /\ h = "major" => t = <<c[1] + 1, 0, 0>>
    BY DEF Target
  <2>5. newMicro'[f] <=> newMicro[f] \/ h # "keep"
    BY <1>1 DEF Fresher
  <2>6. p = <<IF h = "major" THEN t[1] ELSE w[1], IF h # "keep" THEN t[2] ELSE w[2], w[3]>>
    BY DEF Put
  <2>7. ver'[f] = t /\ work'.ver[f] = p /\ CurVer'[f] = t
    BY <1>1, <1>2, <1>3 DEF CurVer
  <2> HIDE DEF c, h, t, w, p
  <2>8. CASE h = "keep"
    <3>1. t = c /\ p = w
      BY <2>1, <2>4, <2>6, <2>8 DEF Version
    <3>2. Cached(f)'
      BY <1>2, <2>1, <2>2, <2>5, <2>7, <2>8, <3>1 DEF Cached
    <3>3. QED
      BY <2>1, <2>7, <3>1, <3>2, LessOrder DEF c
  <2>9. CASE h = "minor" \/ h = "major"
    <3>1. /\ t = IF h = "minor" THEN <<c[1], c[2] + 1, 0>> ELSE <<c[1] + 1, 0, 0>>
          /\ p = IF h = "minor" THEN <<c[1], c[2] + 1, w[3]>> ELSE <<c[1] + 1, 0, w[3]>>
      BY <2>2, <2>4, <2>6, <2>9
    <3>2. t \in Version /\ p \in Version /\ p[1] = t[1] /\ p[2] = t[2] /\ Less(c, t) /\ Less(w, p)
      BY <2>1, <2>2, <2>9, <3>1 DEF Less, Version
    <3>3. ~Less(t, disk.ver[f]) /\ ~Less(p, disk.ver[f]) /\ ~Less(t, c)
      BY <2>1, <3>2, LessOrder
    <3>4. Cached(f)'
      BY <1>2, <2>5, <2>7, <2>9, <3>2, <3>3 DEF Cached
    <3>5. QED
      BY <2>7, <3>2, <3>3, <3>4 DEF c
  <2>10. QED
    BY <2>3, <2>8, <2>9
<1>5. ASSUME NEW i \in Item, work'.items[i] # disk'.items[i] PROVE Stamped(i)'
  <2>1. PICK f \in Family : f = FamilyOf(i)
    BY FamilyOfType
  <2>2. PICK m \in Version : m = work.items[i].mtran
    BY DEF TypeOK, Database, Object
  <2>3. loaded /\ newMicro[f] /\ ~Less(ver[f], m) /\ ~Less(m, disk.ver[f]) /\ ver[f] \in Version
    BY <1>2, <1>3, <1>5, <2>1, <2>2 DEF VersionInv, Stamped, TypeOK
  <2>4. newMicro'[f] /\ ~Less(ver'[f], ver[f])
    BY <1>1, <1>4, <2>3 DEF Fresher, CurVer
  <2>5. ~Less(ver'[f], m)
    BY <1>4, <2>3, <2>4, LessOrder
  <2>6. QED
    BY <1>2, <1>3, <2>1, <2>2, <2>3, <2>4, <2>5 DEF Stamped
<1>6. QED
  BY <1>2, <1>4, <1>5 DEF VersionInv

LEMMA BadCommitVersions ==
    ASSUME TypeOK, TypeOK', VersionInv, Bad_Commit
    PROVE  VersionInv'
<1>1. PICK f \in Family :
        Rollback(txUpd, [work EXCEPT !.ver[f] = <<CurVer[f][1] + 1, @[2], @[3]>>])
  BY BoundAssumption DEF Bad_Commit, Family
<1> DEFINE w == [work EXCEPT !.ver[f] = <<CurVer[f][1] + 1, @[2], @[3]>>]
<1>2. /\ w.items = work.items
      /\ w.ver[f] = <<CurVer[f][1] + 1, work.ver[f][2], work.ver[f][3]>>
      /\ \A g \in Family : g # f => w.ver[g] = work.ver[g]
  BY DEF TypeOK, Database
<1>3. CurVer[f] \in Version /\ disk.ver[f] \in Version /\ ~Less(CurVer[f], disk.ver[f])
  BY CurVerType DEF TypeOK, Database, VersionInv, Cached
<1>4. ~Less(w.ver[f], disk.ver[f])
  BY <1>2, <1>3 DEF Less, Version
<1>5. Rollback(txUpd, w) /\ txUpd \in BOOLEAN /\ phase = "script" /\ phase' = "script"
  BY <1>1 DEF Bad_Commit, TypeOK
<1> HIDE DEF w
<1>6. \A g \in Family : ~Less(w.ver[g], disk.ver[g])
  BY <1>2, <1>4 DEF VersionInv, Cached
<1>7. QED
  BY <1>2, <1>5, <1>6, RollbackVersions

LEMMA VersionStep ==
    ASSUME AtomicInv, AtomicInv', VersionInv, Next
    PROVE  VersionInv'
<1>1. TypeOK /\ TypeOK' /\ FrameInv
  BY DEF AtomicInv
<1>2. CASE Stop \/ Login
  BY <1>1, <1>2, VersionsReset DEF Stop, Login, Fresh, Logged
<1>3. CASE Udb_Transaction \/ EndAbort \/ Udb_Rollback \/ (Shutdown /\ ~Stop)
  <2>1. /\ Rollback(txUpd, work) /\ txUpd \in BOOLEAN
        /\ phase = "script" \/ phase = "idle"
        /\ phase' = "script" \/ phase' = "idle"
    BY <1>1, <1>3
       DEF Udb_Transaction, EndAbort, Udb_Rollback, Shutdown, Udb_Do_Rollback, TypeOK
  <2>2. \A f \in Family : ~Less(work.ver[f], disk.ver[f])
    BY DEF VersionInv, Cached
  <2>3. QED
    BY <1>1, <2>1, <2>2, RollbackVersions
<1>4. CASE Udb_Version
  BY <1>1, <1>4, LoadVersions DEF Udb_Version, Logged
<1>5. CASE Script_Commit \/ End_Commit
  BY <1>1, <1>5, CommitVersions, KeepIsHow DEF Script_Commit, End_Commit
<1>6. CASE Db_Commit
  <2>1. Logged /\ ~Logged' /\ disk' = work /\ UNCHANGED <<work, loaded, ver, newMicro>>
    BY <1>6 DEF Db_Commit, Logged
  <2>2. newMicro = NoFamily /\ ver = work.ver
    <3>1. /\ loaded /\ newMicro = NoFamily
          /\ \A f \in Family : ver[f] = work.ver[f]
      BY <2>1 DEF VersionInv, Cached, NoFamily
    <3>2. QED
      BY <1>1, <3>1 DEF TypeOK, Database
  <2>3. QED
    BY <1>1, <2>1, <2>2, VersionsReset
<1>7. CASE No_Commit
  BY <1>1, <1>7, NoCommitVersions
<1>8. CASE Bad_Commit
  BY <1>1, <1>8, BadCommitVersions
<1>9. CASE Framing
  <2>1. UNCHANGED <<work, disk, txUpd, loaded, ver, newMicro, phase, log>>
    BY <1>9 DEF Framing, Udb_Syscall, Cascade, Script_Error, Syscall_Return, Push, txVars
  <2>2. QED
    BY <2>1 DEF VersionInv, Cached, Stamped, CurVer, Logged
<1>10. CASE Updating
  <2>1. phase = "script" /\ phase' = "script" /\ disk' = disk
    BY <1>1, <1>10 DEF Updating, Udb_Create, Udb_Create_Used, Udb_Update, Udb_Delete,
                       Direct_Update, Udb_Protect_Items, Running, FrameInv
  <2>2. CASE \E i \in Item : \E st, val : Udb_Finish_Object(i, st, val)
    BY <1>1, <2>1, <2>2, FinishVersions DEF Logged
  <2>3. CASE Udb_Create_Used
    <3>1. PICK i \in Item : Stamp(i)
      BY <2>3 DEF Udb_Create_Used
    <3>2. Load /\ \A f \in Family : newMicro[f] => newMicro'[f]
      BY <1>1, <3>1 DEF Stamp, TypeOK
    <3>3. UNCHANGED <<work, disk, txUpd>>
      BY <2>3 DEF Udb_Create_Used
    <3>4. QED
      BY <1>1, <2>1, <3>2, <3>3, LoadVersions DEF Logged
  <2>4. CASE Udb_Protect_Items
    <3>1. work'.items = work.items /\ work'.ver = work.ver
      BY <1>1, <2>4 DEF Udb_Protect_Items, TypeOK, Database
    <3>2. UNCHANGED <<disk, loaded, ver, newMicro>> /\ txUpd' = TRUE
      BY <2>4 DEF Udb_Protect_Items
    <3>3. QED
      BY <2>1, <3>1, <3>2 DEF VersionInv, Cached, Stamped, CurVer, Logged
  <2>5. QED
    BY <1>10, <2>2, <2>3, <2>4
       DEF Updating, Udb_Create, Udb_Update, Udb_Delete, Direct_Update, Store
<1>11. QED
  BY <1>2, <1>3, <1>4, <1>5, <1>6, <1>7, <1>8, <1>9, <1>10
     DEF Next, Process, Request, Committing, Crash, Shutdown

LEMMA VersionInvariance == Spec => [](AtomicInv /\ VersionInv)
<1>1. Init => VersionInv
  <2> SUFFICES ASSUME Init PROVE VersionInv
    OBVIOUS
  <2>1. /\ work = disk /\ ~loaded /\ ~Logged
        /\ \A f \in Family : disk.ver[f] = Zero
    BY DEF Init, Logged, NoVersions
  <2>2. ~Less(Zero, Zero)
    BY DEF Less, Zero
  <2>3. QED
    BY <2>1, <2>2 DEF VersionInv, Cached, CurVer
<1>2. ASSUME AtomicInv, AtomicInv', VersionInv, [Next]_vars PROVE VersionInv'
  <2>1. CASE UNCHANGED vars
    BY <1>2, <2>1 DEF VersionInv, Cached, Stamped, CurVer, Logged, vars, txVars
  <2>2. QED
    BY <1>2, <2>1, VersionStep
<1>3. QED
  BY <1>1, <1>2, AtomicInvariance, PTL DEF Spec

\* What is committed changes only when a logged transaction is.
LEMMA DiskStep ==
    ASSUME [Next]_vars, disk' # disk
    PROVE  disk' = work /\ Logged
<1>1. \/ Db_Commit
      \/ \E u, w : Rollback(u, w)
      \/ \E how, next, logged : Udb_Commit(how, next, logged)
      \/ disk' = disk
  BY DEF Next, Process, Login, Crash, Shutdown, Stop, Udb_Do_Rollback, Request,
     Udb_Transaction, EndAbort, Udb_Rollback, Udb_Version, Committing,
     Script_Commit, End_Commit, No_Commit, Bad_Commit, Framing, Udb_Syscall,
     Cascade, Script_Error, Syscall_Return, Push, Updating, Udb_Create,
     Udb_Create_Used, Udb_Update, Udb_Delete, Direct_Update,
     Udb_Protect_Items, vars, txVars
<1>2. \/ Db_Commit
      \/ disk' = disk
  BY <1>1 DEF Rollback, Udb_Commit, Log_Commit
<1>3. QED
  BY <1>2 DEF Db_Commit, Logged

\* However versions are given, kept, left uncommitted or rejected, a commit
\* that changes an item increases the version of its family and stamps the
\* item between the two versions (Udb_Finish_Object, Udb_Do_Commit).
THEOREM VersionsRiseAlways == Spec => VersionsAdvance
<1>1. ASSUME AtomicInv /\ VersionInv, [Next]_vars, NEW i \in Item,
             disk'.items[i] # disk.items[i]
      PROVE  /\ Less(disk.ver[FamilyOf(i)], disk'.ver[FamilyOf(i)])
             /\ ~Less(disk'.items[i].mtran, disk.ver[FamilyOf(i)])
             /\ Less(disk'.items[i].mtran, disk'.ver[FamilyOf(i)])
  <2>1. disk' = work /\ Logged
    BY <1>1, DiskStep
  <2>2. Stamped(i)
    BY <1>1, <2>1 DEF VersionInv
  <2>3. QED
    BY <2>1, <2>2 DEF Stamped
<1>2. ASSUME AtomicInv /\ VersionInv, [Next]_vars
      PROVE  [\A i \in Item :
                LET f == FamilyOf(i) IN
                disk'.items[i] # disk.items[i] =>
                   /\ Less(disk.ver[f], disk'.ver[f])
                   /\ ~Less(disk'.items[i].mtran, disk.ver[f])
                   /\ Less(disk'.items[i].mtran, disk'.ver[f])]_vars
  BY <1>1, <1>2
<1>3. QED
  BY <1>2, VersionInvariance, PTL DEF Spec, VersionsAdvance

\* The log is written ahead: whenever the committed items change, the last
\* entry of the transaction log already describes them under their new
\* version (WriteLog before db_commit_transaction in Udb_Do_Commit).
THEOREM LoggedAhead == Spec => WriteAhead
<1>1. ASSUME AtomicInv /\ VersionInv, [Next]_vars
      PROVE  [Logging /\ disk'.items # disk.items
                => log = [ver |-> disk'.ver, items |-> disk'.items]]_vars
  <2> SUFFICES ASSUME Logging, disk'.items # disk.items
               PROVE  log = [ver |-> disk'.ver, items |-> disk'.items]
    OBVIOUS
  <2>1. disk' = work /\ Logged
    BY <1>1, DiskStep
  <2>2. QED
    BY <1>1, <2>1 DEF VersionInv
<1>2. QED
  BY <1>1, VersionInvariance, PTL DEF Spec, WriteAhead

============================================================================
