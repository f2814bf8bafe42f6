------------------------- MODULE TransactionProofs -------------------------
(***************************************************************************)
(* Proofs about Transaction, for every set of items, contents and bounds.  *)
(***************************************************************************)
EXTENDS Transaction, FiniteSetTheorems, TLAPS

LEMMA FamilyOfType == \A i \in Item : FamilyOf(i) \in Family
BY DEF FamilyOf, Family

LEMMA UnbornType == Unborn \in Object
<1>1. NoContent \in Content
  BY ContentAssumption DEF NoContent
<1>2. QED
  BY <1>1 DEF Unborn, Object, Status, Version, Zero

LEMMA ConstantTypes ==
    /\ NoFamily \in [Family -> BOOLEAN]
    /\ NoVersions \in [Family -> Version]
    /\ NoFrames \in [1..MaxDepth -> Frame]
<1>1. NoFamily \in [Family -> BOOLEAN]
  BY DEF NoFamily
<1>2. NoVersions \in [Family -> Version]
  BY DEF NoVersions, Version, Zero
<1>3. NoFrames \in [1..MaxDepth -> Frame]
  BY UnbornType DEF NoFrames, Frame, Op
<1>4. QED
  BY <1>1, <1>2, <1>3

LEMMA CurVerType == TypeOK => CurVer \in [Family -> Version]
BY DEF TypeOK, CurVer, Database

LEMMA LoadType ==
    ASSUME TypeOK, Load
    PROVE  loaded' \in BOOLEAN /\ ver' \in [Family -> Version]
BY CurVerType DEF Load

\* Stamping and storing an object keeps the database well formed.
LEMMA StampType ==
    ASSUME TypeOK, NEW i \in Item, Stamp(i)
    PROVE  /\ loaded' \in BOOLEAN
           /\ ver' \in [Family -> Version]
           /\ newMicro' \in [Family -> BOOLEAN]
           /\ schMod' \in BOOLEAN
<1>1. newMicro' \in [Family -> BOOLEAN]
  BY FamilyOfType DEF Stamp, TypeOK
<1>2. schMod' \in BOOLEAN
  BY DEF Stamp, TypeOK
<1>3. QED
  BY <1>1, <1>2, LoadType DEF Stamp

LEMMA FinishType ==
    ASSUME TypeOK, NEW i \in Item, NEW st \in Status, NEW val \in Content,
           Udb_Finish_Object(i, st, val)
    PROVE  /\ work' \in Database
           /\ txUpd' \in BOOLEAN
           /\ sysUpd' \in BOOLEAN
           /\ loaded' \in BOOLEAN
           /\ ver' \in [Family -> Version]
           /\ newMicro' \in [Family -> BOOLEAN]
           /\ schMod' \in BOOLEAN
<1> DEFINE o == [st |-> st, val |-> val, mtran |-> CurVer[FamilyOf(i)]]
<1>1. o \in Object
  BY CurVerType, FamilyOfType DEF Object
<1>2. work' = [work EXCEPT !.items[i] = o]
  BY DEF Udb_Finish_Object
<1>3. work' \in Database
  BY <1>1, <1>2 DEF TypeOK, Database
<1>4. QED
  BY <1>3, StampType DEF Udb_Finish_Object

\* Rolling back keeps every variable well formed.
LEMMA RollbackType ==
    ASSUME TypeOK, phase' \in Phase,
           NEW u \in BOOLEAN, NEW w \in Database, Rollback(u, w)
    PROVE  TypeOK'
<1>1. /\ loaded' \in BOOLEAN
      /\ ver' \in [Family -> Version]
      /\ newMicro' \in [Family -> BOOLEAN]
      /\ txUpd' \in BOOLEAN
  BY ConstantTypes DEF Rollback, Unload, Udb_Rollback_License_Limits
<1>2. UNCHANGED <<disk, sysUpd, cur, log, depth, frames>>
  BY DEF Rollback
<1>3. /\ work' \in Database
      /\ schMod' \in BOOLEAN
      /\ force' \in BOOLEAN
      /\ delta' \in Int
      /\ tainted' \in BOOLEAN
  <2>1. CASE force \/ u
    <3>1. /\ schMod' = FALSE
          /\ force' = FALSE
          /\ delta' = 0
          /\ work' = disk
          /\ tainted' = FALSE
      BY <2>1 DEF Rollback, Udb_Rollback_License_Limits
    <3>2. schMod' \in BOOLEAN /\ force' \in BOOLEAN /\ tainted' \in BOOLEAN
      BY <3>1, Zenon
    <3>3. work' \in Database /\ delta' \in Int
      BY <3>1 DEF TypeOK
    <3>4. QED
      BY <3>2, <3>3
  <2>2. CASE ~(force \/ u)
    <3>1. work' = w /\ UNCHANGED <<schMod, force, delta, tainted>>
      BY <2>2 DEF Rollback
    <3>2. QED
      BY <3>1 DEF TypeOK
  <2>3. QED
    BY <2>1, <2>2
<1>4. QED
  BY <1>1, <1>2, <1>3 DEF TypeOK

LEMMA StopType ==
    ASSUME TypeOK, phase' \in Phase, Fresh(disk), disk' = disk, log' = log,
           cur' \in Int, loaded' \in BOOLEAN, ver' \in [Family -> Version]
    PROVE  TypeOK'
<1>1. 0 \in 0..MaxDepth
  BY BoundAssumption
<1>2. /\ txUpd' \in BOOLEAN /\ sysUpd' \in BOOLEAN /\ force' \in BOOLEAN
      /\ schMod' \in BOOLEAN /\ tainted' \in BOOLEAN
  BY Zenon DEF Fresh
<1>3. /\ work' \in Database /\ newMicro' \in [Family -> BOOLEAN]
      /\ delta' \in Int /\ depth' \in 0..MaxDepth
      /\ frames' \in [1..MaxDepth -> Frame]
  BY <1>1, ConstantTypes DEF TypeOK, Fresh
<1>4. QED
  BY <1>2, <1>3 DEF TypeOK

\* A commit puts well-formed version numbers.
LEMMA NextVersionType ==
    ASSUME TypeOK, NEW how \in How
    PROVE  Next_Version(how) \in [Family -> Version]
<1> SUFFICES ASSUME NEW f \in Family
             PROVE  LET v == Target(f, how[f], -1)
                    IN  (IF Fresher(how)[f] THEN <<v[1], v[2], v[3] + 1>>
                         ELSE v) \in Version
  BY DEF Next_Version
<1>1. CurVer[f] \in Nat \X Nat \X Nat
  BY CurVerType DEF Version
<1>2. how[f] \in {"keep", "minor", "major"}
  BY DEF How
<1>3. how[f] # "keep" => Fresher(how)[f]
  BY DEF Fresher
<1>4. QED
  BY <1>1, <1>2, <1>3 DEF Target, Version

LEMMA PutType ==
    ASSUME TypeOK, NEW how \in [Family -> {"keep", "minor", "major"}],
           NEW v \in [Family -> Version], NEW m \in [Family -> BOOLEAN]
    PROVE  [work EXCEPT !.ver = [f \in Family |-> Put(f, how[f], v[f], m[f])]]
              \in Database
<1>1. \A f \in Family : Put(f, how[f], v[f], m[f]) \in Version
  <2> TAKE f \in Family
  <2>1. v[f] \in Nat \X Nat \X Nat /\ work.ver[f] \in Nat \X Nat \X Nat
    BY DEF TypeOK, Database, Version
  <2>2. QED
    BY <2>1 DEF Put, Version
<1>2. [f \in Family |-> Put(f, how[f], v[f], m[f])] \in [Family -> Version]
  BY <1>1
<1>3. QED
  BY <1>2 DEF TypeOK, Database

LEMMA FresherType ==
    ASSUME TypeOK, NEW how \in How
    PROVE  Fresher(how) \in [Family -> BOOLEAN]
BY DEF Fresher, TypeOK

LEMMA KeepIsHow == Keep \in How
BY DEF Keep, How

LEMMA LogCommitType ==
    ASSUME TypeOK, NEW how \in How, NEW next \in Phase, Log_Commit(how, next)
    PROVE  TypeOK'
<1> DEFINE v == Next_Version(how)
           w == [work EXCEPT !.ver =
                   [f \in Family |-> Put(f, how[f], v[f], Fresher(how)[f])]]
<1>1. v \in [Family -> Version]
  BY NextVersionType
<1>2. how \in [Family -> {"keep", "minor", "major"}]
  BY DEF How
<1>3. w \in Database
  BY <1>1, <1>2, PutType, FresherType
<1>4. /\ work' = w /\ ver' = v /\ phase' = next /\ newMicro' = NoFamily
      /\ log' = IF Logging THEN [ver |-> v, items |-> w.items] ELSE log
      /\ UNCHANGED <<disk, sysUpd, force, schMod, cur, delta, depth, frames,
                     tainted>>
  BY DEF Log_Commit, WriteLog
<1>5. loaded' \in BOOLEAN /\ txUpd' \in BOOLEAN
  BY Zenon DEF Log_Commit
<1>6. log' \in [ver : [Family -> Version], items : [Item -> Object]]
  <2>1. w.items \in [Item -> Object]
    BY <1>3 DEF Database
  <2>2. QED
    BY <2>1, <1>1, <1>4 DEF TypeOK
<1> HIDE DEF v, w
<1>7. QED
  BY <1>1, <1>3, <1>4, <1>5, <1>6, ConstantTypes DEF TypeOK

LEMMA CommitType ==
    ASSUME TypeOK, NEW how \in How, NEW next \in Phase, NEW logged \in Phase,
           Udb_Commit(how, next, logged)
    PROVE  TypeOK'
<1> DEFINE u == txUpd \/ how # Keep
<1>1. CASE Rollback(u, work) /\ phase' = next
  <2>1. u \in BOOLEAN /\ work \in Database
    BY DEF TypeOK
  <2> HIDE DEF u
  <2>2. QED
    BY <1>1, <2>1, RollbackType
<1>2. CASE Load /\ phase' = next
           /\ UNCHANGED <<work, disk, txUpd, sysUpd, force, schMod, newMicro,
                          cur, delta, log, depth, frames, tainted>>
  BY <1>2, LoadType DEF TypeOK
<1>3. CASE Log_Commit(how, logged)
  BY <1>3, LogCommitType
<1>4. QED
  BY <1>1, <1>2, <1>3 DEF Udb_Commit

LEMMA PushType ==
    ASSUME TypeOK, NEW op \in Op, Push(op)
    PROVE  TypeOK'
<1> DEFINE fr == [op |-> op, done |-> FALSE, failed |-> FALSE,
                  saved |-> sysUpd, base |-> work.items]
<1>1. fr \in Frame
  BY DEF TypeOK, Frame, Database
<1>2. depth + 1 \in 1..MaxDepth /\ depth' = depth + 1
  BY BoundAssumption DEF Push, TypeOK
<1>3. frames' = [frames EXCEPT ![depth + 1] = fr]
  BY DEF Push, Saved
<1> HIDE DEF fr
<1>4. frames' \in [1..MaxDepth -> Frame] /\ depth' \in 0..MaxDepth
  BY <1>1, <1>2, <1>3, BoundAssumption DEF TypeOK
<1>5. sysUpd' \in BOOLEAN
  BY Zenon DEF Push
<1>6. QED
  BY <1>4, <1>5 DEF Push, TypeOK

LEMMA TopType ==
    ASSUME TypeOK, depth > 0
    PROVE  depth \in 1..MaxDepth /\ Top \in Frame
BY BoundAssumption DEF TypeOK, Top

LEMMA SetTopType ==
    ASSUME TypeOK, depth > 0, NEW d \in BOOLEAN, NEW e \in BOOLEAN,
           SetTop([Top EXCEPT !.done = d, !.failed = e])
    PROVE  frames' \in [1..MaxDepth -> Frame]
<1>1. [Top EXCEPT !.done = d, !.failed = e] \in Frame
  BY TopType DEF Frame
<1>2. QED
  BY <1>1, TopType DEF SetTop, TypeOK

LEMMA TopFields ==
    ASSUME TypeOK, depth > 0
    PROVE  /\ [Top EXCEPT !.failed = TRUE]
                = [Top EXCEPT !.done = Top.done, !.failed = TRUE]
           /\ \A d \in BOOLEAN :
                [Top EXCEPT !.done = d]
                  = [Top EXCEPT !.done = d, !.failed = Top.failed]
           /\ Top.done \in BOOLEAN
           /\ Top.failed \in BOOLEAN
BY TopType DEF Frame

LEMMA FramingType ==
    ASSUME TypeOK, Framing
    PROVE  TypeOK'
<1>1. CASE Udb_Syscall
  BY <1>1, PushType DEF Udb_Syscall
<1>2. CASE Cascade
  <2>1. CASE Push("delete")
    BY <2>1, PushType DEF Op
  <2>2. CASE /\ SetTop([Top EXCEPT !.failed = TRUE])
             /\ UNCHANGED <<phase, work, disk, txVars, cur, delta, log, depth,
                            tainted>>
    <3>1. frames' \in [1..MaxDepth -> Frame]
      BY <1>2, <2>2, TopFields, SetTopType DEF Cascade
    <3>2. QED
      BY <2>2, <3>1 DEF TypeOK, txVars
  <2>3. QED
    BY <1>2, <2>1, <2>2 DEF Cascade
<1>3. CASE Script_Error
  <2>1. frames' \in [1..MaxDepth -> Frame]
    BY <1>3, TopFields, SetTopType DEF Script_Error, Running
  <2>2. QED
    BY <1>3, <2>1 DEF TypeOK, txVars, Script_Error
<1>4. CASE Syscall_Return
  <2>1. depth' \in 0..MaxDepth
    BY <1>4, BoundAssumption DEF Syscall_Return, TypeOK
  <2>2. \A k \in 1..MaxDepth : [frames[k] EXCEPT !.failed = TRUE] \in Frame
    BY DEF TypeOK, Frame
  <2>3. frames' \in [1..MaxDepth -> Frame]
    BY <1>4, <2>2, ConstantTypes DEF Syscall_Return, TypeOK
  <2>4. Top.failed \in BOOLEAN /\ Top.saved \in BOOLEAN
    BY <1>4, TopType DEF Syscall_Return, Frame
  <2>5. force' \in BOOLEAN /\ sysUpd' \in BOOLEAN /\ tainted' \in BOOLEAN
    BY <1>4, <2>4 DEF Syscall_Return, TypeOK
  <2>6. QED
    BY <1>4, <2>1, <2>3, <2>5 DEF Syscall_Return, TypeOK
<1>5. QED
  BY <1>1, <1>2, <1>3, <1>4 DEF Framing

LEMMA StoreType ==
    ASSUME TypeOK, NEW i \in Item, Store(i)
    PROVE  /\ work' \in Database
           /\ txUpd' \in BOOLEAN
           /\ sysUpd' \in BOOLEAN
           /\ loaded' \in BOOLEAN
           /\ ver' \in [Family -> Version]
           /\ newMicro' \in [Family -> BOOLEAN]
           /\ schMod' \in BOOLEAN
<1>1. PICK val \in Content : Udb_Finish_Object(i, "live", val)
  BY DEF Store
<1>2. QED
  BY <1>1, FinishType DEF Status

LEMMA UpdatingType ==
    ASSUME TypeOK, Updating
    PROVE  TypeOK'
<1>1. CASE Udb_Create
  <2>1. PICK i \in Item, val \in Content :
          /\ Udb_Finish_Object(i, "live", val)
          /\ \/ /\ Udb_Adjust_License_Count(i, 1)
                /\ SetTop([Top EXCEPT !.done = TRUE])
                /\ UNCHANGED force
             \/ /\ force' = TRUE
                /\ SetTop([Top EXCEPT !.done = TRUE, !.failed = TRUE])
                /\ UNCHANGED delta
    BY <1>1 DEF Udb_Create
  <2>2. frames' \in [1..MaxDepth -> Frame]
    BY <1>1, <2>1, TopFields, SetTopType DEF Udb_Create, Running
  <2>3. delta' \in Int
    BY <2>1 DEF Udb_Adjust_License_Count, TypeOK
  <2>4. force' \in BOOLEAN
    BY <2>1 DEF TypeOK
  <2>5. QED
    BY <1>1, <2>1, <2>2, <2>3, <2>4, FinishType DEF Udb_Create, TypeOK, Status
<1>2. CASE Udb_Create_Used
  <2>1. frames' \in [1..MaxDepth -> Frame]
    BY <1>2, TopFields, SetTopType DEF Udb_Create_Used, Running
  <2>2. QED
    BY <1>2, <2>1, StampType DEF Udb_Create_Used, TypeOK
<1>3. CASE Udb_Update
  <2>1. \/ SetTop([Top EXCEPT !.done = Top.done \/ Top.op = "update"])
        \/ SetTop([Top EXCEPT !.failed = TRUE])
    BY <1>3 DEF Udb_Update
  <2>2. frames' \in [1..MaxDepth -> Frame]
    BY <1>3, <2>1, TopFields, SetTopType DEF Udb_Update, Running
  <2>3. force' \in BOOLEAN
    BY <1>3 DEF Udb_Update, TypeOK
  <2>4. QED
    BY <1>3, <2>2, <2>3, StoreType DEF Udb_Update, TypeOK
<1>4. CASE Udb_Delete
  <2>1. PICK i \in Item :
          /\ Udb_Finish_Object(i, "deleted", work.items[i].val)
          /\ Udb_Adjust_License_Count(i, -1)
    BY <1>4 DEF Udb_Delete
  <2>2. work.items[i].val \in Content
    BY DEF TypeOK, Database, Object
  <2>3. frames' \in [1..MaxDepth -> Frame]
    BY <1>4, TopFields, SetTopType DEF Udb_Delete, Running
  <2>4. delta' \in Int
    BY <2>1 DEF Udb_Adjust_License_Count, TypeOK
  <2>5. QED
    BY <1>4, <2>1, <2>2, <2>3, <2>4, FinishType DEF Udb_Delete, TypeOK, Status
<1>5. CASE Direct_Update
  <2>1. force' \in BOOLEAN
    BY <1>5 DEF Direct_Update, TypeOK
  <2>2. QED
    BY <1>5, <2>1, StoreType DEF Direct_Update, TypeOK
<1>6. CASE Udb_Protect_Items
  <2>1. PICK i \in Item : work' = [work EXCEPT !.prot = @ \cup {i}]
    BY <1>6 DEF Udb_Protect_Items
  <2>2. work' \in Database
    BY <2>1 DEF TypeOK, Database
  <2>3. txUpd' \in BOOLEAN /\ sysUpd' \in BOOLEAN
    BY <1>6, Zenon DEF Udb_Protect_Items
  <2>4. QED
    BY <1>6, <2>2, <2>3 DEF Udb_Protect_Items, TypeOK
<1>7. QED
  BY <1>1, <1>2, <1>3, <1>4, <1>5, <1>6 DEF Updating

LEMMA ProcessType ==
    ASSUME TypeOK, Process
    PROVE  TypeOK'
<1>1. \A s \in SUBSET Item : Cardinality(s) \in Int
  BY FiniteAssumption, FS_Subset, FS_CardinalityType
<1>2. CASE Login
  <2>1. Live(disk.items) \in SUBSET Item
    BY DEF Live
  <2>2. cur' \in Int
    BY <1>1, <1>2, <2>1 DEF Login
  <2>3. loaded' \in BOOLEAN /\ ver' \in [Family -> Version]
    BY <1>2, FlagAssumption, ConstantTypes DEF Login, TypeOK, Database
  <2>4. QED
    BY <1>2, <2>2, <2>3, StopType DEF Login, Phase
<1>3. CASE Stop
  <2>1. loaded' \in BOOLEAN
    BY <1>3, Zenon DEF Stop
  <2>2. QED
    BY <1>3, <2>1, StopType, ConstantTypes DEF Stop, Phase
<1>4. CASE Udb_Do_Rollback /\ UNCHANGED phase
  BY <1>4, RollbackType DEF Udb_Do_Rollback, TypeOK
<1>5. QED
  BY <1>2, <1>3, <1>4 DEF Process, Crash, Shutdown

LEMMA RequestType ==
    ASSUME TypeOK, Request
    PROVE  TypeOK'
<1>1. CASE Udb_Version
  BY <1>1, LoadType DEF Udb_Version, TypeOK
<1>2. CASE Udb_Do_Rollback /\ phase' \in Phase
  BY <1>2, RollbackType DEF Udb_Do_Rollback, TypeOK
<1>3. QED
  BY <1>1, <1>2 DEF Request, Udb_Transaction, EndAbort, Udb_Rollback, TypeOK,
     Phase

LEMMA CommittingType ==
    ASSUME TypeOK, Committing
    PROVE  TypeOK'
<1>1. CASE Script_Commit
  BY <1>1, CommitType DEF Script_Commit, Phase
<1>2. CASE End_Commit
  BY <1>2, CommitType, KeepIsHow DEF End_Commit, Phase
<1>3. CASE Db_Commit
  <2>1. txUpd' \in BOOLEAN /\ schMod' \in BOOLEAN
    BY <1>3, Zenon DEF Db_Commit
  <2>2. cur' \in Int /\ delta' \in Int /\ phase' \in Phase
    BY <1>3 DEF Db_Commit, TypeOK, Phase, Udb_Update_License_Limits
  <2>3. QED
    BY <1>3, <2>1, <2>2 DEF Db_Commit, TypeOK
<1>4. CASE No_Commit
  <2>1. PICK how \in How :
          LET v == [f \in Family |-> Target(f, how[f], 0)]
          IN  /\ ver' = v
              /\ work' = [work EXCEPT !.ver =
                            [f \in Family |-> Put(f, how[f], v[f], FALSE)]]
              /\ newMicro' = Fresher(how)
    BY <1>4 DEF No_Commit
  <2> DEFINE v == [f \in Family |-> Target(f, how[f], 0)]
             m == [f \in Family |-> FALSE]
  <2>2. v \in [Family -> Version]
    <3> SUFFICES ASSUME NEW f \in Family
                 PROVE  Target(f, how[f], 0) \in Version
      OBVIOUS
    <3>1. CurVer[f] \in Nat \X Nat \X Nat
      BY CurVerType DEF Version
    <3>2. how[f] \in {"keep", "minor", "major"}
      BY DEF How
    <3>3. QED
      BY <3>1, <3>2 DEF Target, Version
  <2>3. how \in [Family -> {"keep", "minor", "major"}]
    BY DEF How
  <2>4. m \in [Family -> BOOLEAN] /\ \A f \in Family : m[f] = FALSE
    OBVIOUS
  <2>5. [work EXCEPT !.ver = [f \in Family |-> Put(f, how[f], v[f], m[f])]]
          \in Database
    <3> HIDE DEF v, m
    <3> QED
      BY <2>2, <2>3, <2>4, PutType
  <2>6. work' \in Database
    BY <2>1, <2>5
  <2>7. loaded' \in BOOLEAN /\ txUpd' \in BOOLEAN
    BY <1>4, Zenon DEF No_Commit
  <2>8. ver' \in [Family -> Version] /\ newMicro' \in [Family -> BOOLEAN]
    BY <2>1, <2>2, FresherType
  <2>9. QED
    BY <1>4, <2>6, <2>7, <2>8 DEF No_Commit, TypeOK
<1>5. CASE Bad_Commit
  <2>1. PICK f \in Family :
          Rollback(txUpd, [work EXCEPT !.ver[f] =
                             <<CurVer[f][1] + 1, @[2], @[3]>>])
    BY <1>5, BoundAssumption DEF Bad_Commit, Family
  <2>2. CurVer[f] \in Nat \X Nat \X Nat /\ work.ver[f] \in Nat \X Nat \X Nat
    BY CurVerType DEF TypeOK, Database, Version
  <2>3. <<CurVer[f][1] + 1, work.ver[f][2], work.ver[f][3]>> \in Version
    BY <2>2 DEF Version
  <2>4. [work EXCEPT !.ver[f] = <<CurVer[f][1] + 1, @[2], @[3]>>] \in Database
    BY <2>3 DEF TypeOK, Database
  <2>5. txUpd \in BOOLEAN /\ phase' \in Phase
    BY <1>5 DEF Bad_Commit, TypeOK
  <2>6. QED
    BY <2>1, <2>4, <2>5, RollbackType
<1>6. QED
  BY <1>1, <1>2, <1>3, <1>4, <1>5 DEF Committing

LEMMA InitType == Init => TypeOK
<1> SUFFICES ASSUME Init PROVE TypeOK
  OBVIOUS
<1>1. disk \in Database /\ work \in Database
  BY UnbornType, ConstantTypes DEF Init, Database
<1>2. log \in [ver : [Family -> Version], items : [Item -> Object]]
  BY <1>1, ConstantTypes DEF Init, Database
<1>3. /\ txUpd \in BOOLEAN /\ sysUpd \in BOOLEAN /\ force \in BOOLEAN
      /\ schMod \in BOOLEAN /\ loaded \in BOOLEAN /\ tainted \in BOOLEAN
  BY Zenon DEF Init
<1>4. /\ phase \in Phase /\ cur \in Int /\ delta \in Int
      /\ depth \in 0..MaxDepth
  BY BoundAssumption DEF Init, Phase
<1>5. QED
  BY <1>1, <1>2, <1>3, <1>4, ConstantTypes DEF Init, TypeOK

LEMMA StutterType == ASSUME TypeOK, UNCHANGED vars PROVE TypeOK'
BY DEF TypeOK, vars, txVars

\* Every step of the transaction layer keeps its state well formed.
THEOREM TypeCorrect == Spec => []TypeOK
<1>1. TypeOK /\ [Next]_vars => TypeOK'
  BY ProcessType, RequestType, CommittingType, FramingType, UpdatingType,
     StutterType DEF Next
<1>2. QED
  BY InitType, <1>1, PTL DEF Spec

----------------------------------------------------------------------------
(***************************************************************************)
(* Update calls are atomic.  NoPartialCall is not inductive: a failing     *)
(* frame sets force_rollback only when syscall_db_updated says that the    *)
(* frame changed something, and that flag is overwritten by nested frames. *)
(* What saves it is that a cascade starts only after the enclosing         *)
(* udb_delete stored its object, so that every nested frame restores TRUE. *)
(***************************************************************************)
FrameInv ==
    /\ depth > 0 => phase = "script"
    /\ force => phase = "script"
    /\ \A k \in 2..depth : frames[k].saved
    /\ depth > 0 => force \/ sysUpd \/ work.items = Top.base
    /\ depth > 0 /\ Top.op = "delete" /\ Top.done => sysUpd
    /\ NoPartialCall

AtomicInv == TypeOK /\ FrameInv

LEMMA RollbackEffect ==
    ASSUME TypeOK, NEW u \in BOOLEAN, NEW w, Rollback(u, w)
    PROVE  /\ force' = FALSE
           /\ UNCHANGED <<disk, cur, depth, frames>>
           /\ \/ work' = disk /\ delta' = 0 /\ tainted' = FALSE
              \/ /\ ~force /\ ~u
                 /\ work' = w /\ delta' = delta /\ tainted' = tainted
<1>1. CASE force \/ u
  BY <1>1 DEF Rollback, Udb_Rollback_License_Limits
<1>2. CASE ~(force \/ u)
  <2>1. force' = force /\ force = FALSE
    BY <1>2 DEF Rollback, TypeOK
  <2>2. QED
    BY <1>2, <2>1 DEF Rollback
<1>3. QED
  BY <1>1, <1>2

\* A step that leaves the server outside every frame and owing no rollback.
LEMMA OutsideFrames ==
    ASSUME depth' = 0, force' = FALSE, tainted' = FALSE
    PROVE  FrameInv'
BY DEF FrameInv, NoPartialCall

LEMMA RollbackFrame ==
    ASSUME AtomicInv, depth = 0, NEW u \in BOOLEAN, NEW w, Rollback(u, w)
    PROVE  FrameInv'
<1>1. depth' = 0 /\ force' = FALSE
  BY RollbackEffect DEF AtomicInv
<1>2. tainted' = FALSE
  BY RollbackEffect DEF AtomicInv, FrameInv, NoPartialCall, TypeOK
<1>3. QED
  BY <1>1, <1>2, OutsideFrames

LEMMA SameFrames ==
    ASSUME AtomicInv, UNCHANGED <<depth, force, tainted, phase>>, depth = 0
    PROVE  FrameInv'
BY DEF AtomicInv, FrameInv, NoPartialCall

LEMMA CommitFrame ==
    ASSUME AtomicInv, depth = 0, NEW how \in How, NEW next, NEW logged,
           Udb_Commit(how, next, logged)
    PROVE  FrameInv'
<1> DEFINE u == txUpd \/ how # Keep
<1>1. CASE Rollback(u, work)
  <2>1. u \in BOOLEAN
    BY DEF AtomicInv, TypeOK
  <2> HIDE DEF u
  <2>2. QED
    BY <1>1, <2>1, RollbackFrame
<1>2. CASE ~force /\ UNCHANGED <<force, depth, tainted>>
  <2>1. depth' = 0 /\ force' = FALSE
    BY <1>2 DEF AtomicInv, TypeOK
  <2>2. tainted' = FALSE
    BY <1>2 DEF AtomicInv, TypeOK, FrameInv, NoPartialCall
  <2>3. QED
    BY <2>1, <2>2, OutsideFrames
<1>3. QED
  BY <1>1, <1>2 DEF Udb_Commit, Log_Commit, Committable

LEMMA PushFrame ==
    ASSUME AtomicInv, NEW op \in Op, Push(op), phase = "script",
           depth > 0 => sysUpd
    PROVE  FrameInv'
<1>1. depth \in 0..MaxDepth /\ depth + 1 \in 1..MaxDepth /\ depth' = depth + 1
  BY BoundAssumption DEF Push, AtomicInv, TypeOK
<1>2. /\ frames'[depth + 1].saved = sysUpd
      /\ frames'[depth + 1].base = work.items
      /\ frames'[depth + 1].done = FALSE
  BY <1>1 DEF Push, Saved, AtomicInv, TypeOK
<1>3. \A k \in 1..depth : frames'[k] = frames[k]
  BY <1>1 DEF Push, AtomicInv, TypeOK
<1>4. \A k \in 2..depth' : frames'[k].saved
  BY <1>1, <1>2, <1>3 DEF AtomicInv, FrameInv, TypeOK
<1>5. Top' = frames'[depth + 1]
  BY <1>1 DEF Top
<1>6. UNCHANGED <<phase, force, tainted, work>>
  BY DEF Push
<1>7. QED
  BY <1>2, <1>4, <1>5, <1>6 DEF AtomicInv, FrameInv, NoPartialCall

\* A step of the running call: it changes nothing below the top frame, and
\* it sets syscall_db_updated if it changes the database.
LEMMA TopStep ==
    ASSUME AtomicInv, depth > 0, NEW fr, SetTop(fr),
           fr.saved = Top.saved, fr.base = Top.base, fr.op = Top.op,
           UNCHANGED <<depth, phase, tainted>>,
           force => force',
           \/ sysUpd'
           \/ UNCHANGED <<sysUpd, work>> /\ (fr.done => Top.done)
    PROVE  FrameInv'
<1>1. depth \in 1..MaxDepth
  BY TopType DEF AtomicInv
<1>2. frames' = [frames EXCEPT ![depth] = fr]
  BY DEF SetTop
<1>3. frames'[depth] = fr /\ \A k \in 1..depth : k # depth => frames'[k] = frames[k]
  BY <1>1, <1>2 DEF AtomicInv, TypeOK
<1>4. Top' = fr
  BY <1>3 DEF Top
<1>5. \A k \in 2..depth' : frames'[k].saved
  BY <1>1, <1>3 DEF AtomicInv, FrameInv, Top
<1>6. force' => phase' = "script"
  BY DEF AtomicInv, FrameInv
<1>7. NoPartialCall'
  BY DEF AtomicInv, FrameInv, NoPartialCall
<1>8. force' \/ sysUpd' \/ work'.items = Top'.base
  BY <1>4 DEF AtomicInv, FrameInv
<1>9. Top'.op = "delete" /\ Top'.done => sysUpd'
  BY <1>4 DEF AtomicInv, FrameInv
<1>10. QED
  BY <1>5, <1>6, <1>7, <1>8, <1>9 DEF AtomicInv, FrameInv

LEMMA TopEdits ==
    ASSUME TypeOK, depth > 0, NEW d \in BOOLEAN, NEW e \in BOOLEAN,
           NEW fr, fr = [Top EXCEPT !.done = d, !.failed = e]
    PROVE  /\ fr.saved = Top.saved
           /\ fr.base = Top.base
           /\ fr.op = Top.op
           /\ fr.done = d
BY TopType DEF Frame

\* The running call fails without touching the database.
LEMMA FailStep ==
    ASSUME AtomicInv, depth > 0, SetTop([Top EXCEPT !.failed = TRUE]),
           UNCHANGED <<depth, phase, tainted, force, sysUpd, work>>
    PROVE  FrameInv'
<1> DEFINE fr == [Top EXCEPT !.failed = TRUE]
<1>1. /\ fr.saved = Top.saved
      /\ fr.base = Top.base
      /\ fr.op = Top.op
      /\ fr.done = Top.done
  BY TopFields, TopEdits DEF AtomicInv
<1> HIDE DEF fr
<1>2. SetTop(fr)
  BY DEF fr
<1>3. QED
  BY <1>1, <1>2, TopStep

\* The running call stores an object.
LEMMA StoreStep ==
    ASSUME AtomicInv, depth > 0, sysUpd' = TRUE, force => force',
           UNCHANGED <<depth, phase, tainted>>,
           NEW d \in BOOLEAN, NEW e \in BOOLEAN,
           SetTop([Top EXCEPT !.done = d, !.failed = e])
    PROVE  FrameInv'
<1> DEFINE fr == [Top EXCEPT !.done = d, !.failed = e]
<1>1. fr.saved = Top.saved /\ fr.base = Top.base /\ fr.op = Top.op
  BY TopEdits DEF AtomicInv
<1> HIDE DEF fr
<1>2. SetTop(fr)
  BY DEF fr
<1>3. QED
  BY <1>1, <1>2, TopStep

LEMMA ReturnFrame ==
    ASSUME AtomicInv, Syscall_Return
    PROVE  FrameInv'
<1>1. depth \in 1..MaxDepth /\ depth' = depth - 1
  BY TopType DEF AtomicInv, Syscall_Return
<1>2. Top = frames[depth]
  BY DEF Top
<1>3. \A k \in 1..depth' : /\ frames'[k].saved = frames[k].saved
                           /\ frames'[k].base = frames[k].base
  <2> TAKE k \in 1..depth'
  <2>1. k \in 1..MaxDepth /\ k # depth
    BY <1>1, BoundAssumption
  <2>2. frames[k] \in Frame
    BY <2>1 DEF AtomicInv, TypeOK
  <2>3. \/ frames'[k] = frames[k]
        \/ frames'[k] = [frames[k] EXCEPT !.failed = TRUE]
    BY <2>1, Zenon DEF Syscall_Return
  <2>4. QED
    BY <2>2, <2>3 DEF Frame
<1>4. \A k \in 2..depth' : frames'[k].saved
  BY <1>1, <1>3 DEF AtomicInv, FrameInv
<1>5. depth' > 0 => sysUpd'
  BY <1>1, <1>2 DEF Syscall_Return, AtomicInv, FrameInv
<1>6. phase' = "script"
  BY DEF Syscall_Return, AtomicInv, FrameInv
<1>7. NoPartialCall'
  <2>1. tainted => force
    BY DEF AtomicInv, FrameInv, NoPartialCall
  <2>2. force \/ sysUpd \/ work.items = Top.base
    BY <1>1 DEF AtomicInv, FrameInv
  <2>3. force' = (force \/ (Top.failed /\ sysUpd))
    BY DEF Syscall_Return
  <2>4. tainted' = (tainted \/ (Top.failed /\ work.items # Top.base))
    BY DEF Syscall_Return
  <2>5. QED
    BY <2>1, <2>2, <2>3, <2>4, Zenon DEF NoPartialCall
<1>8. QED
  BY <1>4, <1>5, <1>6, <1>7 DEF FrameInv

LEMMA FramingFrame ==
    ASSUME AtomicInv, Framing
    PROVE  FrameInv'
<1>1. CASE Udb_Syscall
  BY <1>1, PushFrame DEF Udb_Syscall
<1>2. CASE Cascade
  <2>1. CASE Push("delete")
    BY <1>2, <2>1, PushFrame DEF Cascade, Op, AtomicInv, FrameInv
  <2>2. CASE /\ SetTop([Top EXCEPT !.failed = TRUE])
             /\ UNCHANGED <<phase, work, disk, txVars, cur, delta, log, depth,
                            tainted>>
    BY <1>2, <2>2, FailStep DEF Cascade, txVars
  <2>3. QED
    BY <1>2, <2>1, <2>2 DEF Cascade
<1>3. CASE Script_Error
  BY <1>3, FailStep DEF Script_Error, Running, txVars
<1>4. CASE Syscall_Return
  BY <1>4, ReturnFrame
<1>5. QED
  BY <1>1, <1>2, <1>3, <1>4 DEF Framing

LEMMA UpdatingFrame ==
    ASSUME AtomicInv, Updating
    PROVE  FrameInv'
<1> TypeOK
  BY DEF AtomicInv
<1>1. CASE Udb_Create
  <2>1. /\ depth > 0 /\ sysUpd' = TRUE /\ (force => force')
        /\ UNCHANGED <<depth, phase, tainted>>
    BY <1>1 DEF Udb_Create, Running, Udb_Finish_Object
  <2>2. \E e \in BOOLEAN : SetTop([Top EXCEPT !.done = TRUE, !.failed = e])
    BY <1>1, <2>1, TopFields DEF Udb_Create
  <2>3. QED
    BY <2>1, <2>2, StoreStep
<1>2. CASE Udb_Create_Used
  BY <1>2, FailStep DEF Udb_Create_Used, Running
<1>3. CASE Udb_Update
  <2>1. /\ depth > 0 /\ sysUpd' = TRUE /\ (force => force')
        /\ UNCHANGED <<depth, phase, tainted>>
    BY <1>3 DEF Udb_Update, Running, Store, Udb_Finish_Object
  <2>2. \E d, e \in BOOLEAN : SetTop([Top EXCEPT !.done = d, !.failed = e])
    BY <1>3, <2>1, TopFields DEF Udb_Update
  <2>3. QED
    BY <2>1, <2>2, StoreStep
<1>4. CASE Udb_Delete
  <2>1. /\ depth > 0 /\ sysUpd' = TRUE /\ (force => force')
        /\ UNCHANGED <<depth, phase, tainted>>
    BY <1>4 DEF Udb_Delete, Running, Udb_Finish_Object
  <2>2. \E e \in BOOLEAN : SetTop([Top EXCEPT !.done = TRUE, !.failed = e])
    BY <1>4, <2>1, TopFields DEF Udb_Delete
  <2>3. QED
    BY <2>1, <2>2, StoreStep
<1>5. CASE Direct_Update
  <2>1. force => force'
    BY <1>5 DEF Direct_Update
  <2>2. QED
    BY <1>5, <2>1 DEF Direct_Update, AtomicInv, FrameInv, NoPartialCall
<1>6. CASE Udb_Protect_Items
  BY <1>6, SameFrames DEF Udb_Protect_Items
<1>7. QED
  BY <1>1, <1>2, <1>3, <1>4, <1>5, <1>6 DEF Updating

LEMMA OtherFrame ==
    ASSUME AtomicInv, Process \/ Request \/ Committing
    PROVE  FrameInv'
<1> TypeOK
  BY DEF AtomicInv
<1>1. CASE Login \/ Stop
  BY <1>1, OutsideFrames DEF Login, Stop, Fresh
<1>2. CASE Udb_Do_Rollback /\ depth = 0
  BY <1>2, RollbackFrame DEF Udb_Do_Rollback, TypeOK
<1>3. CASE Udb_Transaction
  BY <1>2, <1>3 DEF Udb_Transaction, AtomicInv, FrameInv, TypeOK
<1>4. CASE Udb_Version
  BY <1>4, SameFrames DEF Udb_Version
<1>5. CASE Script_Commit \/ End_Commit
  BY <1>5, CommitFrame, KeepIsHow DEF Script_Commit, End_Commit
<1>6. CASE Db_Commit
  <2>1. depth' = 0 /\ force' = FALSE
    BY <1>6 DEF Db_Commit, AtomicInv, FrameInv, TypeOK
  <2>2. tainted' = FALSE
    BY <1>6 DEF Db_Commit, AtomicInv, FrameInv, TypeOK, NoPartialCall
  <2>3. QED
    BY <2>1, <2>2, OutsideFrames
<1>7. CASE No_Commit
  BY <1>7, SameFrames DEF No_Commit
<1>8. CASE Bad_Commit
  BY <1>8, RollbackFrame DEF Bad_Commit, TypeOK
<1>9. QED
  BY <1>1, <1>2, <1>3, <1>4, <1>5, <1>6, <1>7, <1>8
     DEF Process, Request, Committing, Crash, Shutdown, EndAbort, Udb_Rollback

LEMMA AtomicInvariance == Spec => []AtomicInv
<1>1. Init => FrameInv
  BY DEF Init, FrameInv, NoPartialCall
<1>2. ASSUME AtomicInv, [Next]_vars
      PROVE  FrameInv'
  <2>1. CASE UNCHANGED vars
    BY <1>2, <2>1 DEF AtomicInv, FrameInv, NoPartialCall, Top, vars, txVars
  <2>2. CASE Next
    BY <1>2, <2>2, FramingFrame, UpdatingFrame, OtherFrame DEF Next
  <2>3. QED
    BY <1>2, <2>1, <2>2
<1>3. QED
  BY <1>1, <1>2, TypeCorrect, PTL DEF Spec, AtomicInv

\* "Do all updates atomically" (unameit_server.tcl), at any depth of
\* cascade: no failed call's changes are left behind unless a rollback is
\* owed, so Udb_Commit cannot publish them.
THEOREM CallsAreAtomic == Spec => []NoPartialCall
BY AtomicInvariance, PTL DEF AtomicInv, FrameInv

-----------------------------------------------------------------------------
(***************************************************************************)
(* The transaction layer implements AtomicStore.  The simulation needs the *)
(* invariant above: a log entry is only written when no rollback is owed   *)
(* and no frame is active.                                                 *)
(***************************************************************************)

\* The abstract pending state, as substituted by the instance Atomic.
Pending == IF force THEN disk.items
           ELSE IF depth > 0 THEN frames[1].base
           ELSE work.items

\* What a concrete step must look like to be a step of the atomic store.
LEMMA AtomicSteps ==
    ASSUME \/ UNCHANGED <<disk, force>> /\ Pending' = Pending
           \/ /\ ~force /\ UNCHANGED <<disk, force>>
              /\ Pending' \in [Item -> Object]
           \/ /\ ~force /\ force' = TRUE /\ Pending' = disk.items
              /\ disk' = disk
           \/ /\ ~force /\ disk'.items = Pending
              /\ Pending' = Pending /\ force' = force
           \/ force' = FALSE /\ Pending' = disk.items /\ disk' = disk
    PROVE  [Atomic!Next]_(Atomic!storeVars)
BY DEF Pending, Atomic!Next, Atomic!storeVars, Atomic!Call, Atomic!Spoil,
       Atomic!Commit, Atomic!Abort

\* Rolling back outside every frame is Abort, or nothing at all.
LEMMA RollbackSimulated ==
    ASSUME AtomicInv, depth = 0, NEW u \in BOOLEAN, NEW w, Rollback(u, w),
           w.items = work.items
    PROVE  [Atomic!Next]_(Atomic!storeVars)
<1>1. force' = FALSE /\ depth' = 0 /\ disk' = disk
  BY RollbackEffect DEF AtomicInv
<1>2. \/ Pending' = disk.items
      \/ force = FALSE /\ Pending' = Pending
  <2>1. CASE work' = disk
    BY <1>1, <2>1 DEF Pending
  <2>2. CASE ~force /\ work' = w
    <3>1. force = FALSE
      BY <2>2 DEF AtomicInv, TypeOK
    <3>2. Pending = work.items /\ Pending' = w.items
      BY <1>1, <2>2 DEF Pending
    <3>3. QED
      BY <3>1, <3>2
  <2>3. QED
    BY <2>1, <2>2, RollbackEffect DEF AtomicInv
<1>3. QED
  BY <1>1, <1>2, AtomicSteps

\* A step of the running call is invisible unless it dooms the transaction.
LEMMA InsideSimulated ==
    ASSUME AtomicInv, depth > 0, depth' > 0, frames'[1].base = frames[1].base,
           disk' = disk, force' \in {force, TRUE}
    PROVE  [Atomic!Next]_(Atomic!storeVars)
<1>1. force \in BOOLEAN
  BY DEF AtomicInv, TypeOK
<1>2. CASE force' = force
  <2>1. Pending' = Pending
    BY <1>2 DEF Pending
  <2>2. QED
    BY <1>2, <2>1, AtomicSteps
<1>3. CASE force = FALSE /\ force' = TRUE
  BY <1>3, AtomicSteps DEF Pending
<1>4. QED
  BY <1>1, <1>2, <1>3

LEMMA SetTopBase ==
    ASSUME TypeOK, depth > 0, NEW d \in BOOLEAN, NEW e \in BOOLEAN,
           SetTop([Top EXCEPT !.done = d, !.failed = e])
    PROVE  frames'[1].base = frames[1].base
<1>1. depth \in 1..MaxDepth /\ 1 \in 1..MaxDepth
  BY TopType, BoundAssumption
<1> DEFINE fr == [Top EXCEPT !.done = d, !.failed = e]
<1>2. fr.base = Top.base
  BY TopType DEF Frame
<1>3. frames' = [frames EXCEPT ![depth] = fr]
  BY DEF SetTop
<1> HIDE DEF fr
<1>4. QED
  BY <1>1, <1>2, <1>3 DEF Top, TypeOK

LEMMA UpdatingSimulated ==
    ASSUME AtomicInv, Updating, TypeOK'
    PROVE  [Atomic!Next]_(Atomic!storeVars)
<1> TypeOK
  BY DEF AtomicInv
<1>1. CASE Udb_Create \/ Udb_Create_Used \/ Udb_Update \/ Udb_Delete
  <2>1. depth > 0 /\ depth' = depth /\ disk' = disk
    BY <1>1 DEF Udb_Create, Udb_Create_Used, Udb_Update, Udb_Delete, Running
  <2>2. force' \in {force, TRUE}
    BY <1>1 DEF Udb_Create, Udb_Create_Used, Udb_Update, Udb_Delete
  <2>3. \E d, e \in BOOLEAN : SetTop([Top EXCEPT !.done = d, !.failed = e])
    BY <1>1, <2>1, TopFields
       DEF Udb_Create, Udb_Create_Used, Udb_Update, Udb_Delete
  <2>4. QED
    BY <2>1, <2>2, <2>3, SetTopBase, InsideSimulated
<1>2. CASE Direct_Update
  <2>1. depth = 0 /\ depth' = 0 /\ disk' = disk /\ force' \in {force, TRUE}
    BY <1>2 DEF Direct_Update
  <2>2. CASE force
    <3>1. force' = force /\ Pending' = Pending
      BY <2>1, <2>2 DEF Pending, TypeOK
    <3>2. QED
      BY <2>1, <3>1, AtomicSteps
  <2>3. CASE ~force /\ force' = force
    <3>1. Pending' = work'.items
      BY <2>1, <2>3 DEF Pending
    <3>2. work'.items \in [Item -> Object]
      BY DEF TypeOK, Database
    <3>3. QED
      BY <2>1, <2>3, <3>1, <3>2, AtomicSteps
  <2>4. CASE ~force /\ force' = TRUE
    BY <2>1, <2>4, AtomicSteps DEF Pending
  <2>5. QED
    BY <2>1, <2>2, <2>3, <2>4
<1>3. CASE Udb_Protect_Items
  <2>1. work'.items = work.items
    BY <1>3 DEF Udb_Protect_Items, TypeOK, Database
  <2>2. Pending' = Pending
    BY <1>3, <2>1 DEF Udb_Protect_Items, Pending
  <2>3. QED
    BY <1>3, <2>2, AtomicSteps DEF Udb_Protect_Items
<1>4. QED
  BY <1>1, <1>2, <1>3 DEF Updating

\* Entering a frame is invisible; leaving the outermost one is Call or Spoil.
LEMMA FramingSimulated ==
    ASSUME AtomicInv, Framing
    PROVE  [Atomic!Next]_(Atomic!storeVars)
<1> TypeOK
  BY DEF AtomicInv
<1>1. ASSUME NEW op, Push(op)
      PROVE  [Atomic!Next]_(Atomic!storeVars)
  <2>1. 1 \in 1..MaxDepth /\ depth + 1 \in 1..MaxDepth /\ depth \in Nat
    BY <1>1, BoundAssumption DEF Push, TypeOK
  <2>2. depth = 0 => frames'[1].base = work.items
    BY <1>1, <2>1 DEF Push, TypeOK
  <2>3. depth > 0 => frames'[1] = frames[1]
    BY <1>1, <2>1 DEF Push, TypeOK
  <2>4. depth' > 0 /\ UNCHANGED <<disk, force, work>>
    BY <1>1, <2>1 DEF Push
  <2>5. Pending' = Pending
    BY <2>1, <2>2, <2>3, <2>4 DEF Pending
  <2>6. QED
    BY <2>4, <2>5, AtomicSteps
<1>2. ASSUME depth > 0, SetTop([Top EXCEPT !.failed = TRUE]),
             UNCHANGED <<depth, disk, force>>
      PROVE  [Atomic!Next]_(Atomic!storeVars)
  BY <1>2, TopFields, SetTopBase, InsideSimulated
<1>3. CASE Syscall_Return
  <2>1. depth \in 1..MaxDepth /\ depth' = depth - 1
    BY <1>3, TopType DEF Syscall_Return
  <2>2. disk' = disk /\ work' = work /\ force' \in {force, TRUE}
    BY <1>3 DEF Syscall_Return, TypeOK
  <2>3. CASE depth > 1
    <3>1. 1 \in 1..MaxDepth /\ frames[1] \in Frame
      BY BoundAssumption DEF TypeOK
    <3>2. \/ frames'[1] = frames[1]
          \/ frames'[1] = [frames[1] EXCEPT !.failed = TRUE]
      BY <1>3, <2>3, <3>1 DEF Syscall_Return
    <3>3. frames'[1].base = frames[1].base
      BY <3>1, <3>2 DEF Frame
    <3>4. depth > 0 /\ depth' > 0
      BY <2>1, <2>3
    <3>5. QED
      BY <2>2, <3>3, <3>4, InsideSimulated
  <2>4. CASE depth = 1
    <3>1. depth' = 0
      BY <2>1, <2>4
    <3>2. CASE force
      <4>1. force' = force /\ Pending' = Pending
        BY <2>2, <3>2 DEF Pending, TypeOK
      <4>2. QED
        BY <2>2, <4>1, AtomicSteps
    <3>3. CASE ~force /\ force' = force
      <4>1. Pending' = work.items
        BY <2>2, <3>1, <3>3 DEF Pending
      <4>2. work.items \in [Item -> Object]
        BY DEF TypeOK, Database
      <4>3. QED
        BY <2>2, <3>3, <4>1, <4>2, AtomicSteps
    <3>4. CASE ~force /\ force' = TRUE
      BY <2>2, <3>4, AtomicSteps DEF Pending
    <3>5. QED
      BY <2>2, <3>2, <3>3, <3>4
  <2>5. QED
    BY <2>1, <2>3, <2>4
<1>4. QED
  BY <1>1, <1>2, <1>3
     DEF Framing, Udb_Syscall, Cascade, Script_Error, Running, txVars

\* Committing publishes the pending items; every other step outside a frame
\* is a rollback or leaves the items alone.
LEMMA CommitSimulated ==
    ASSUME AtomicInv, depth = 0, NEW how \in How, NEW next, NEW logged,
           Udb_Commit(how, next, logged)
    PROVE  [Atomic!Next]_(Atomic!storeVars)
<1> DEFINE u == txUpd \/ how # Keep
<1>1. CASE Rollback(u, work)
  <2>1. u \in BOOLEAN
    BY DEF AtomicInv, TypeOK
  <2> HIDE DEF u
  <2>2. QED
    BY <1>1, <2>1, RollbackSimulated
<1>2. CASE UNCHANGED <<disk, force, depth, frames, work>>
  BY <1>2, AtomicSteps DEF Pending
<1>3. CASE Log_Commit(how, logged)
  <2>1. work'.items = work.items
    BY <1>3 DEF Log_Commit, AtomicInv, TypeOK, Database
  <2>2. UNCHANGED <<disk, force, depth, frames>>
    BY <1>3 DEF Log_Commit
  <2>3. QED
    BY <2>1, <2>2, AtomicSteps DEF Pending
<1>4. QED
  BY <1>1, <1>2, <1>3 DEF Udb_Commit

LEMMA OtherSimulated ==
    ASSUME AtomicInv, Process \/ Request \/ Committing
    PROVE  [Atomic!Next]_(Atomic!storeVars)
<1> TypeOK
  BY DEF AtomicInv
<1>1. CASE Login \/ Stop
  <2>1. force' = FALSE /\ depth' = 0 /\ work' = disk /\ disk' = disk
    BY <1>1 DEF Login, Stop, Fresh
  <2>2. Pending' = disk.items
    BY <2>1 DEF Pending
  <2>3. QED
    BY <2>1, <2>2, AtomicSteps
<1>2. CASE Udb_Do_Rollback /\ depth = 0
  BY <1>2, RollbackSimulated DEF Udb_Do_Rollback, TypeOK
<1>3. CASE Udb_Transaction
  <2>1. depth = 0
    BY <1>3 DEF Udb_Transaction, AtomicInv, FrameInv, TypeOK
  <2>2. QED
    BY <1>2, <1>3, <2>1 DEF Udb_Transaction
<1>4. CASE Udb_Version
  BY <1>4, AtomicSteps DEF Udb_Version, Pending
<1>5. CASE Script_Commit \/ End_Commit
  BY <1>5, CommitSimulated, KeepIsHow DEF Script_Commit, End_Commit
<1>6. CASE Db_Commit
  <2>1. depth = 0 /\ ~force
    BY <1>6 DEF Db_Commit, AtomicInv, FrameInv, TypeOK
  <2>2. disk' = work /\ UNCHANGED <<work, force, depth>>
    BY <1>6 DEF Db_Commit
  <2>3. QED
    BY <2>1, <2>2, AtomicSteps DEF Pending
<1>7. CASE No_Commit
  <2>1. work'.items = work.items
    BY <1>7 DEF No_Commit, TypeOK, Database
  <2>2. QED
    BY <1>7, <2>1, AtomicSteps DEF No_Commit, Pending
<1>8. CASE Bad_Commit
  <2>1. PICK f \in Family :
          Rollback(txUpd, [work EXCEPT !.ver[f] =
                             <<CurVer[f][1] + 1, @[2], @[3]>>])
    BY <1>8, BoundAssumption DEF Bad_Commit, Family
  <2> DEFINE w == [work EXCEPT !.ver[f] = <<CurVer[f][1] + 1, @[2], @[3]>>]
  <2>2. w.items = work.items
    BY DEF TypeOK, Database
  <2> HIDE DEF w
  <2>3. Rollback(txUpd, w)
    BY <2>1 DEF w
  <2>4. txUpd \in BOOLEAN /\ depth = 0
    BY <1>8 DEF Bad_Commit, TypeOK
  <2>5. QED
    BY <2>2, <2>3, <2>4, RollbackSimulated
<1>9. QED
  BY <1>1, <1>2, <1>3, <1>4, <1>5, <1>6, <1>7, <1>8
     DEF Process, Request, Committing, Crash, Shutdown, EndAbort, Udb_Rollback

\* Clients see the committed objects change only by whole transactions made
\* of whole calls: the transaction layer implements the atomic store.
THEOREM ImplementsAtomicStore == Spec => AtomicCalls
<1>1. Init => Atomic!Init
  <2> SUFFICES ASSUME Init PROVE Atomic!Init
    OBVIOUS
  <2>1. TypeOK
    BY InitType
  <2>2. disk.items \in [Item -> Object] /\ work = disk /\ force = FALSE
        /\ depth = 0
    BY <2>1 DEF Init, TypeOK, Database
  <2>3. QED
    BY <2>2 DEF Atomic!Init
<1>2. ASSUME AtomicInv, AtomicInv', [Next]_vars
      PROVE  [Atomic!Next]_(Atomic!storeVars)
  <2>1. CASE UNCHANGED vars
    BY <2>1, AtomicSteps DEF vars, txVars, Pending
  <2>2. CASE Next
    <3>1. TypeOK'
      BY <1>2 DEF AtomicInv
    <3>2. QED
      BY <1>2, <2>2, <3>1, UpdatingSimulated, FramingSimulated,
         OtherSimulated DEF Next
  <2>3. QED
    BY <1>2, <2>1, <2>2
<1>3. QED
  BY <1>1, <1>2, AtomicInvariance, PTL DEF Spec, AtomicCalls, Atomic!Spec

============================================================================
