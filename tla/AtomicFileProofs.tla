-------------------------- MODULE AtomicFileProofs --------------------------
(* Proofs that a file replaced by way of library/atomic.tcl is always whole, and *)
(* that the library implements AtomicSlot, for any number of processes, inodes,  *)
(* pieces and works.                                                             *)
EXTENDS AtomicFile, TLAPS

(* PathWhole is not inductive: that the rename publishes a whole work depends on *)
(* the file being the one that the process locked, checked and truncated, which  *)
(* depends on the lock going with the inode and on only its owner removing the   *)
(* temporary name.                                                               *)
Begun == {"write", "rename", "unlink"}

ProcInv(p) ==
    /\ pc[p] = "idle" <=> fh[p] = 0
    /\ pc[p] \notin {"idle", "flock"} => lock[fh[p]] = p
    /\ pc[p] \in Holding \cup {"drop"} => tmp = fh[p]
    /\ pc[p] \in Holding => path # tmp
    /\ pc[p] \in Begun => /\ work[p] = session /\ session # 0
                          /\ text[tmp] \subseteq Whole(session)
    /\ pc[p] = "rename" => text[tmp] = Whole(session)

FileInv == TypeOK /\ PathWhole /\ \A p \in Procs : ProcInv(p)

LEMMA InitInv == ConstantsFit /\ Init => FileInv
BY DEF ConstantsFit, Init, FileInv, TypeOK, PathWhole, ProcInv, Holding, Begun

\* Two processes are never both between their checks and their rename or unlink:
\* each has the lock of the file that the temporary name stands for.
LEMMA Alone ==
    ASSUME FileInv, NEW p \in Procs, NEW q \in Procs,
           pc[p] \in Holding \cup {"drop"}, pc[q] \in Holding \cup {"drop"}
    PROVE  p = q
BY DEF FileInv, ProcInv, Holding

LEMMA OpenInv ==
    ASSUME ConstantsFit, FileInv, NEW p \in Procs, Open(p)
    PROVE  FileInv'
<1>1. TypeOK'
  BY DEF ConstantsFit, FileInv, TypeOK, ProcInv, Open, At, Close, Holding, Begun, Whole
<1>2. PathWhole'
  BY Alone DEF ConstantsFit, FileInv, TypeOK, PathWhole, ProcInv, Open, At, Close, Holding, Begun, Whole
<1>3. ASSUME NEW q \in Procs PROVE ProcInv(q)'
  BY Alone DEF ConstantsFit, FileInv, TypeOK, PathWhole, ProcInv, Open, At, Close, Holding, Begun, Whole
<1>4. QED
  BY <1>1, <1>2, <1>3 DEF FileInv

LEMMA FlockInv ==
    ASSUME ConstantsFit, FileInv, NEW p \in Procs, Flock(p)
    PROVE  FileInv'
<1>1. TypeOK'
  BY DEF ConstantsFit, FileInv, TypeOK, ProcInv, Flock, At, Close, Holding, Begun, Whole
<1>2. PathWhole'
  BY Alone DEF ConstantsFit, FileInv, TypeOK, PathWhole, ProcInv, Flock, At, Close, Holding, Begun, Whole
<1>3. ASSUME NEW q \in Procs PROVE ProcInv(q)'
  BY Alone DEF ConstantsFit, FileInv, TypeOK, PathWhole, ProcInv, Flock, At, Close, Holding, Begun, Whole
<1>4. QED
  BY <1>1, <1>2, <1>3 DEF FileInv

LEMMA LstatInv ==
    ASSUME ConstantsFit, FileInv, NEW p \in Procs, Lstat(p)
    PROVE  FileInv'
<1>1. TypeOK'
  BY DEF ConstantsFit, FileInv, TypeOK, ProcInv, Lstat, At, Close, Holding, Begun, Whole
<1>2. PathWhole'
  BY Alone DEF ConstantsFit, FileInv, TypeOK, PathWhole, ProcInv, Lstat, At, Close, Holding, Begun, Whole
<1>3. ASSUME NEW q \in Procs PROVE ProcInv(q)'
  BY Alone DEF ConstantsFit, FileInv, TypeOK, PathWhole, ProcInv, Lstat, At, Close, Holding, Begun, Whole
<1>4. QED
  BY <1>1, <1>2, <1>3 DEF FileInv

LEMMA DropInv ==
    ASSUME ConstantsFit, FileInv, NEW p \in Procs, Drop(p)
    PROVE  FileInv'
<1>1. TypeOK'
  BY DEF ConstantsFit, FileInv, TypeOK, ProcInv, Drop, At, Close, Holding, Begun, Whole
<1>2. PathWhole'
  BY Alone DEF ConstantsFit, FileInv, TypeOK, PathWhole, ProcInv, Drop, At, Close, Holding, Begun, Whole
<1>3. ASSUME NEW q \in Procs PROVE ProcInv(q)'
  BY Alone DEF ConstantsFit, FileInv, TypeOK, PathWhole, ProcInv, Drop, At, Close, Holding, Begun, Whole
<1>4. QED
  BY <1>1, <1>2, <1>3 DEF FileInv

LEMMA TruncateInv ==
    ASSUME ConstantsFit, FileInv, NEW p \in Procs, Truncate(p)
    PROVE  FileInv'
<1>1. TypeOK'
  BY DEF ConstantsFit, FileInv, TypeOK, ProcInv, Truncate, At, Close, Holding, Begun, Whole
<1>2. PathWhole'
  BY Alone DEF ConstantsFit, FileInv, TypeOK, PathWhole, ProcInv, Truncate, At, Close, Holding, Begun, Whole
<1>3. ASSUME NEW q \in Procs PROVE ProcInv(q)'
  BY Alone DEF ConstantsFit, FileInv, TypeOK, PathWhole, ProcInv, Truncate, At, Close, Holding, Begun, Whole
<1>4. QED
  BY <1>1, <1>2, <1>3 DEF FileInv

LEMMA WriteInv ==
    ASSUME ConstantsFit, FileInv, NEW p \in Procs, Write(p)
    PROVE  FileInv'
<1>1. TypeOK'
  BY DEF ConstantsFit, FileInv, TypeOK, ProcInv, Write, At, Close, Holding, Begun, Whole
<1>2. PathWhole'
  BY Alone DEF ConstantsFit, FileInv, TypeOK, PathWhole, ProcInv, Write, At, Close, Holding, Begun, Whole
<1>3. ASSUME NEW q \in Procs PROVE ProcInv(q)'
  BY Alone DEF ConstantsFit, FileInv, TypeOK, PathWhole, ProcInv, Write, At, Close, Holding, Begun, Whole
<1>4. QED
  BY <1>1, <1>2, <1>3 DEF FileInv

LEMMA FlushInv ==
    ASSUME ConstantsFit, FileInv, NEW p \in Procs, Flush(p)
    PROVE  FileInv'
<1>1. TypeOK'
  BY DEF ConstantsFit, FileInv, TypeOK, ProcInv, Flush, At, Close, Holding, Begun, Whole
<1>2. PathWhole'
  BY Alone DEF ConstantsFit, FileInv, TypeOK, PathWhole, ProcInv, Flush, At, Close, Holding, Begun, Whole
<1>3. ASSUME NEW q \in Procs PROVE ProcInv(q)'
  BY Alone DEF ConstantsFit, FileInv, TypeOK, PathWhole, ProcInv, Flush, At, Close, Holding, Begun, Whole
<1>4. QED
  BY <1>1, <1>2, <1>3 DEF FileInv

LEMMA RenameInv ==
    ASSUME ConstantsFit, FileInv, NEW p \in Procs, Rename(p)
    PROVE  FileInv'
<1>1. TypeOK'
  BY DEF ConstantsFit, FileInv, TypeOK, ProcInv, Rename, At, Close, Holding, Begun, Whole
<1>2. PathWhole'
  BY Alone DEF ConstantsFit, FileInv, TypeOK, PathWhole, ProcInv, Rename, At, Close, Holding, Begun, Whole
<1>3. ASSUME NEW q \in Procs PROVE ProcInv(q)'
  BY Alone DEF ConstantsFit, FileInv, TypeOK, PathWhole, ProcInv, Rename, At, Close, Holding, Begun, Whole
<1>4. QED
  BY <1>1, <1>2, <1>3 DEF FileInv

LEMMA CloseFileInv ==
    ASSUME ConstantsFit, FileInv, NEW p \in Procs, CloseFile(p)
    PROVE  FileInv'
<1>1. TypeOK'
  BY DEF ConstantsFit, FileInv, TypeOK, ProcInv, CloseFile, At, Close, Holding, Begun, Whole
<1>2. PathWhole'
  BY Alone DEF ConstantsFit, FileInv, TypeOK, PathWhole, ProcInv, CloseFile, At, Close, Holding, Begun, Whole
<1>3. ASSUME NEW q \in Procs PROVE ProcInv(q)'
  BY Alone DEF ConstantsFit, FileInv, TypeOK, PathWhole, ProcInv, CloseFile, At, Close, Holding, Begun, Whole
<1>4. QED
  BY <1>1, <1>2, <1>3 DEF FileInv

LEMMA AbortInv ==
    ASSUME ConstantsFit, FileInv, NEW p \in Procs, Abort(p)
    PROVE  FileInv'
<1>1. TypeOK'
  BY DEF ConstantsFit, FileInv, TypeOK, ProcInv, Abort, At, Close, Holding, Begun, Whole
<1>2. PathWhole'
  BY Alone DEF ConstantsFit, FileInv, TypeOK, PathWhole, ProcInv, Abort, At, Close, Holding, Begun, Whole
<1>3. ASSUME NEW q \in Procs PROVE ProcInv(q)'
  BY Alone DEF ConstantsFit, FileInv, TypeOK, PathWhole, ProcInv, Abort, At, Close, Holding, Begun, Whole
<1>4. QED
  BY <1>1, <1>2, <1>3 DEF FileInv

LEMMA DieInv ==
    ASSUME ConstantsFit, FileInv, NEW p \in Procs, Die(p)
    PROVE  FileInv'
<1>1. TypeOK'
  BY DEF ConstantsFit, FileInv, TypeOK, ProcInv, Die, At, Close, Holding, Begun, Whole
<1>2. PathWhole'
  BY Alone DEF ConstantsFit, FileInv, TypeOK, PathWhole, ProcInv, Die, At, Close, Holding, Begun, Whole
<1>3. ASSUME NEW q \in Procs PROVE ProcInv(q)'
  BY Alone DEF ConstantsFit, FileInv, TypeOK, PathWhole, ProcInv, Die, At, Close, Holding, Begun, Whole
<1>4. QED
  BY <1>1, <1>2, <1>3 DEF FileInv

LEMMA FailInRenameInv ==
    ASSUME ConstantsFit, FileInv, NEW p \in Procs, FailInRename(p)
    PROVE  FileInv'
<1>1. TypeOK'
  BY DEF ConstantsFit, FileInv, TypeOK, ProcInv, FailInRename, At, Close, Holding, Begun, Whole
<1>2. PathWhole'
  BY Alone DEF ConstantsFit, FileInv, TypeOK, PathWhole, ProcInv, FailInRename, At, Close, Holding, Begun, Whole
<1>3. ASSUME NEW q \in Procs PROVE ProcInv(q)'
  BY Alone DEF ConstantsFit, FileInv, TypeOK, PathWhole, ProcInv, FailInRename, At, Close, Holding, Begun, Whole
<1>4. QED
  BY <1>1, <1>2, <1>3 DEF FileInv

LEMMA StepInv == ConstantsFit /\ FileInv /\ [Next]_vars => FileInv'
<1> SUFFICES ASSUME ConstantsFit, FileInv, [Next]_vars PROVE FileInv'
  OBVIOUS
<1>1. CASE UNCHANGED vars
  BY <1>1 DEF FileInv, TypeOK, PathWhole, ProcInv, vars
<1>2. CASE Next
  BY <1>2, OpenInv, FlockInv, LstatInv, DropInv, TruncateInv, WriteInv, FlushInv, RenameInv, CloseFileInv, AbortInv, DieInv, FailInRenameInv DEF Next, Step
<1>3. QED
  BY <1>1, <1>2

\* The three facts that make FileInv an invariant, for constants that fit.
LEMMA Invariance == ConstantsFit => (Spec => []FileInv)
<1> SUFFICES ASSUME ConstantsFit PROVE Spec => []FileInv
  OBVIOUS
<1>1. Init => FileInv
  BY InitInv
<1>2. FileInv /\ [Next]_vars => FileInv'
  BY StepInv
<1>3. QED
  BY <1>1, <1>2, PTL DEF Spec

\* Whoever reads the file finds the whole of one work, at every moment of every
\* schedule of opens, locks, writes, renames and deaths (atomic_open, atomic_close,
\* atomic_abort).
THEOREM FileIsWhole == ConstantsFit => (Spec => []PathWhole)
<1>1. FileInv => PathWhole
  BY DEF FileInv
<1>2. QED
  BY <1>1, Invariance, PTL

\* The lock of flock and the checks of lstat together exclude: a process that may
\* truncate, write, rename or unlink is the only one, and on its own file.
THEOREM WritersAlone == ConstantsFit => (Spec => []Exclusive)
<1>1. FileInv => Exclusive
  BY Alone DEF FileInv, TypeOK, ProcInv, Exclusive, Holding
<1>2. QED
  BY <1>1, Invariance, PTL

-----------------------------------------------------------------------------
(* The refinement.  The two expressions that the instance Slot substitutes. *)
Holder == IF Working = {} THEN NoProc ELSE CHOOSE p \in Working : TRUE
Published == IF path = 0 THEN 0 ELSE CHOOSE s \in 0..session : text[path] = Whole(s)

LEMMA HolderIs ==
    ASSUME FileInv, NEW p \in Working
    PROVE  Working = {p} /\ Holder = p
<1>1. \A q \in Working : q = p
  BY Alone DEF Working, Holding
<1>2. QED
  BY <1>1 DEF Holder

LEMMA NoHolder == Working = {} => Holder = NoProc
BY DEF Holder

\* A work is known by its pieces.
LEMMA WholeInjective ==
    ASSUME ConstantsFit, NEW s, NEW t, Whole(s) = Whole(t)
    PROVE  s = t
<1>1. PICK k \in Pieces : TRUE
  BY DEF ConstantsFit
<1>2. <<s, k>> \in Whole(t)
  BY <1>1 DEF Whole
<1>3. QED
  BY <1>2 DEF Whole

LEMMA PublishedIs ==
    ASSUME ConstantsFit, session \in Nat, path # 0,
           NEW s \in 1..session, text[path] = Whole(s)
    PROVE  Published = s
<1>1. \A t \in 0..session : text[path] = Whole(t) => t = s
  BY WholeInjective
<1>2. s \in 0..session
  OBVIOUS
<1>3. QED
  BY <1>1, <1>2 DEF Published

\* As long as readers find the same text, they find the same work, although more
\* works have been begun.
LEMMA SamePublished ==
    ASSUME ConstantsFit, FileInv, session' \in Nat, session <= session', path' = path,
           path # 0 => text'[path] = text[path]
    PROVE  Published' = Published
<1>1. CASE path = 0
  BY <1>1 DEF Published
<1>2. CASE path # 0
  <2>1. PICK s \in 1..session : text[path] = Whole(s)
    BY <1>2 DEF FileInv, PathWhole
  <2>2. session \in Nat
    BY DEF ConstantsFit, FileInv, TypeOK
  <2>3. Published = s
    BY <1>2, <2>1, <2>2, PublishedIs
  <2>4. Whole(s)' = Whole(s) /\ s \in 1..session'
    BY <2>2 DEF Whole
  <2>5. \A t \in 0..session' : text'[path'] = Whole(t) => t = s
    BY <1>2, <2>1, WholeInjective
  <2>6. Published' = s
    BY <1>2, <2>1, <2>4, <2>5 DEF Published, Whole
  <2>7. QED
    BY <2>3, <2>6
<1>3. QED
  BY <1>1, <1>2

\* What a step of a process must look like to be a step of the slot.
LEMMA SlotSteps ==
    ASSUME \/ UNCHANGED <<Holder, session, Published>>
           \/ \E p \in Procs : /\ Holder = NoProc /\ Holder' = p
                               /\ session' = session + 1 /\ Published' = Published
           \/ /\ Holder # NoProc /\ Holder' = NoProc
              /\ session' = session /\ Published' \in {Published, session}
    PROVE  [Slot!Next]_(Slot!slot)
BY DEF Holder, Published, Slot!Next, Slot!slot, Slot!Begin, Slot!Publish, Slot!GiveUp

\* Steps by which nobody begins or ends a work.
LEMMA SameSlot ==
    ASSUME ConstantsFit, FileInv, session' = session, Working' = Working, path' = path,
           path # 0 => text'[path] = text[path]
    PROVE  [Slot!Next]_(Slot!slot)
<1>1. Holder' = Holder
  BY DEF Holder
<1>2. Published' = Published
  BY SamePublished DEF ConstantsFit, FileInv, TypeOK
<1>3. QED
  BY <1>1, <1>2, SlotSteps

\* Steps by which the one at work stops being at work; nothing is published, or
\* the work begun last.
LEMMA EndsWork ==
    ASSUME ConstantsFit, FileInv, FileInv', NEW p \in Working, Working' \subseteq Working \ {p},
           session' = session,
           \/ path' = path /\ text' = text
           \/ path' # 0 /\ text'[path'] = Whole(session)
    PROVE  [Slot!Next]_(Slot!slot)
<1>1. Holder = p /\ p # NoProc
  BY HolderIs DEF ConstantsFit, Working
<1>2. Working' = {}
  BY HolderIs
<1>3. Holder' = NoProc
  BY <1>2 DEF Holder
<1>4. session \in Nat /\ session # 0
  BY DEF ConstantsFit, FileInv, TypeOK, ProcInv, Working, Begun
<1>5. CASE path' = path /\ text' = text
  BY <1>1, <1>3, <1>4, <1>5, SamePublished, SlotSteps
<1>6. CASE path' # 0 /\ text'[path'] = Whole(session)
  <2>1. \A t \in 0..session' : text'[path'] = Whole(t) => t = session
    BY <1>6, WholeInjective
  <2>2. Published' = session
    BY <1>4, <1>6, <2>1 DEF Published, Whole
  <2>3. QED
    BY <1>1, <1>3, <2>2, SlotSteps
<1>7. QED
  BY <1>5, <1>6

\* ftruncate begins a work: nobody else is at work then.
LEMMA TruncateSimulated ==
    ASSUME ConstantsFit, FileInv, FileInv', NEW p \in Procs, Truncate(p)
    PROVE  [Slot!Next]_(Slot!slot)
<1>1. Working = {} /\ Working' = {p}
  BY Alone DEF Truncate, At, Working, Holding, FileInv, TypeOK
<1>2. Holder = NoProc /\ Holder' = p
  BY <1>1 DEF Holder
<1>3. path' = path /\ path # fh[p] /\ fh[p] \in Inodes /\ session' = session + 1
  BY DEF Truncate, At, FileInv, TypeOK, ProcInv, Holding
<1>4. path # 0 => text'[path] = text[path]
  BY <1>3 DEF Truncate, FileInv, TypeOK
<1>5. Published' = Published
  BY <1>3, <1>4, SamePublished DEF ConstantsFit, FileInv, TypeOK
<1>6. QED
  BY <1>2, <1>3, <1>5, SlotSteps

LEMMA StepSimulated ==
    ASSUME ConstantsFit, FileInv, FileInv', [Next]_vars
    PROVE  [Slot!Next]_(Slot!slot)
<1>1. CASE UNCHANGED vars
  BY <1>1, SameSlot DEF vars, Working
<1>2. ASSUME NEW p \in Procs, Open(p)
      PROVE  [Slot!Next]_(Slot!slot)
  <2>1. Working' = Working
    BY <1>2 DEF Open, At, Working, FileInv, TypeOK
  <2>2. path # 0 => text'[path] = text[path]
    BY <1>2 DEF Open, FileInv, TypeOK
  <2>3. QED
    BY <1>2, <2>1, <2>2, SameSlot DEF Open
<1>3. ASSUME NEW p \in Procs, Flock(p) \/ Lstat(p) \/ Drop(p) \/ Flush(p) \/ CloseFile(p)
      PROVE  [Slot!Next]_(Slot!slot)
  <2>1. Working' = Working
    BY <1>3 DEF Flock, Lstat, Drop, Flush, CloseFile, At, Working, FileInv, TypeOK
  <2>2. UNCHANGED <<path, text, session>>
    BY <1>3 DEF Flock, Lstat, Drop, Flush, CloseFile
  <2>3. QED
    BY <2>1, <2>2, SameSlot
<1>4. ASSUME NEW p \in Procs, Write(p)
      PROVE  [Slot!Next]_(Slot!slot)
  <2>1. fh[p] \in Inodes /\ path # fh[p]
    BY <1>4 DEF Write, FileInv, TypeOK, ProcInv, Holding
  <2>2. path # 0 => text'[path] = text[path]
    BY <1>4, <2>1 DEF Write, FileInv, TypeOK
  <2>3. QED
    BY <1>4, <2>2, SameSlot DEF Write, Working
<1>5. ASSUME NEW p \in Procs, Rename(p)
      PROVE  [Slot!Next]_(Slot!slot)
  <2>1. p \in Working /\ Working' \subseteq Working \ {p}
    BY <1>5 DEF Rename, At, Working, FileInv, TypeOK
  <2>2. \/ path' = path /\ text' = text
        \/ path' # 0 /\ text'[path'] = Whole(session)
    BY <1>5 DEF Rename, At, FileInv, ProcInv
  <2>3. QED
    BY <1>5, <2>1, <2>2, EndsWork DEF Rename
<1>6. ASSUME NEW p \in Procs, Abort(p)
      PROVE  [Slot!Next]_(Slot!slot)
  <2>1. \/ Working' = Working
        \/ p \in Working /\ Working' \subseteq Working \ {p}
    BY <1>6 DEF Abort, At, Working, FileInv, TypeOK
  <2>2. QED
    BY <1>6, <2>1, SameSlot, EndsWork DEF Abort
<1>7. ASSUME NEW p \in Procs, Die(p)
      PROVE  [Slot!Next]_(Slot!slot)
  <2>1. Working' = Working \ {p}
    BY <1>7 DEF Die, Working, FileInv, TypeOK
  <2>2. QED
    BY <1>7, <2>1, SameSlot, EndsWork DEF Die
<1>8. ASSUME NEW p \in Procs, FailInRename(p)
      PROVE  [Slot!Next]_(Slot!slot)
  <2>1. p \in Working /\ Working' = {}
    BY <1>8 DEF FailInRename, Working
  <2>2. path' # 0 /\ text'[path'] = Whole(session)
    BY <1>8 DEF FailInRename, FileInv, ProcInv
  <2>3. QED
    BY <1>8, <2>1, <2>2, EndsWork DEF FailInRename
<1>9. QED
  BY <1>1, <1>2, <1>3, <1>4, <1>5, <1>6, <1>7, <1>8, TruncateSimulated DEF Next, Step

\* library/atomic.tcl implements AtomicSlot: works are published one at a time, in
\* the order in which they were begun, each when it is finished or not at all.
THEOREM FilesImplementSlot == ConstantsFit => (Spec => ImplementsSlot)
<1> SUFFICES ASSUME ConstantsFit PROVE Spec => ImplementsSlot
  OBVIOUS
<1>1. Init => Slot!Init
  BY DEF Init, Working, Slot!Init
<1>2. FileInv /\ FileInv' /\ [Next]_vars => [Slot!Next]_(Slot!slot)
  BY StepSimulated
<1>3. QED
  BY <1>1, <1>2, Invariance, PTL DEF Spec, ImplementsSlot, Slot!Spec

=============================================================================
