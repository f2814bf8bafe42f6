------------------------------ MODULE MCStores -----------------------------
(***************************************************************************)
(* What is kept consistent by algorithms of its own, in instances of which *)
(* a behaviour is one: the integers in use (Ranges); deletes that go from  *)
(* object to object along a Cascade pointer and a set-valued Nullify       *)
(* pointer that may not form loops (References); the uuids that are issued *)
(* (UuidGen); files that are replaced as a whole (AtomicFile).             *)
(***************************************************************************)
EXTENDS Ranges

CONSTANTS o1, o2, o3, o4, p1, p2, nobody

VARIABLES part, st, to, rel, head, free, refs, loops, stack, saved, calls,
    clock, backs, time_last, time_adjust, clock_seq, got_no_time, upc, issued,
    path, tmp, text, lock, fpc, fh, fwork, session

pointers == <<st, to, rel, head, free, refs, loops, stack, saved, calls>>
uuids == <<clock, backs, time_last, time_adjust, clock_seq, got_no_time, upc,
           issued>>
files == <<path, tmp, text, lock, fpc, fh, fwork, session>>

Two == {o1, o2}
MasterMembers == {"master", "members"}
Members == {"members"}
PointerAction == [a \in MasterMembers |->
                    IF a = "master" THEN "Cascade" ELSE "Nullify"]

C == INSTANCE References WITH
    Obj <- Two, Attr <- MasterMembers, Action <- PointerAction,
    Vector <- Members, Loop <- Members, MaxCalls <- 1, val <- to

ASSUME C!ConstantsFit

\* Three uuids fit into a tick; the clock is set back twice.
U == INSTANCE UuidGen WITH
    Tick <- 3, MaxAdjust <- 2, SeqSpan <- 4, MaxTicks <- 3, MaxBacks <- 2,
    MaxCalls <- 5, pc <- upc

Writers == {p1, p2}
ThreeInodes == {1, 2, 3}
TwoPieces == {1, 2}
F == INSTANCE AtomicFile WITH
    Procs <- Writers, NoProc <- nobody, Inodes <- ThreeInodes,
    Pieces <- TwoPieces, MaxSessions <- 3, pc <- fpc, work <- fwork

ASSUME U!ConstantsFit /\ F!ConstantsFit

NoUuids == /\ clock = 0 /\ backs = 0 /\ time_last = 0 /\ time_adjust = 0
           /\ clock_seq = 0 /\ got_no_time = 0 /\ upc = 0 /\ issued = 0

NoPointers == /\ st = 0 /\ to = 0 /\ rel = 0 /\ head = 0 /\ free = 0
              /\ refs = 0 /\ loops = 0 /\ stack = <<>> /\ saved = 0
              /\ calls = 0

MCInit == /\ part \in {"ranges", "cascade", "uuids", "files"}
          /\ Init /\ F!Init
          /\ IF part = "cascade" THEN C!Init ELSE NoPointers
          /\ IF part = "uuids" THEN U!Init ELSE NoUuids

MCNext ==
    /\ UNCHANGED part
    /\ \/ part = "ranges" /\ Next /\ UNCHANGED <<pointers, uuids, files>>
       \/ part = "cascade" /\ C!Next /\ UNCHANGED <<vars, uuids, files>>
       \/ part = "uuids" /\ U!Next /\ UNCHANGED <<vars, pointers, files>>
       \/ part = "uuids" /\ U!Stopped /\ UNCHANGED <<vars, pointers, uuids, files>>
       \/ part = "files" /\ F!Next /\ UNCHANGED <<vars, pointers, uuids>>

\* The server is one thread: a call that has begun runs on to its end.
Running ==
    /\ UNCHANGED part
    /\ \/ part = "ranges" /\ Continue /\ UNCHANGED <<pointers, uuids, files>>
       \/ part = "cascade" /\ C!DeleteStep /\ UNCHANGED <<vars, uuids, files>>

MCSpec == /\ MCInit /\ [][MCNext]_<<part, vars, pointers, uuids, files>>
          /\ WF_<<part, vars, pointers, uuids, files>>(Running)

----------------------------------------------------------------------------
\* There is one relation for every value of every pointer attribute of a live
\* object, and no other: so what a delete finds on its lists is all that
\* points at the object.
Mirror == part = "cascade" => C!Mirror

\* No loop of a set-valued pointer is committed (Udb_Do_Loop_Checks).
Acyclic == part = "cascade" => C!Acyclic

\* A call that changes the integers in use comes to an end, whatever its
\* searches find (Add_Used, Del_Used), and so does a delete, however the
\* pointers it cascades along go (Process_Rhs_Relations).
CallsEnd == CallEnds /\ (stack # <<>> ~> stack = <<>>)

\* No uuid is issued twice, whether the clock stands, runs or is set back.
UuidsUnique == part = "uuids" => U!Unique

\* A reader of the name always finds the whole of one work, and who renames
\* publishes what they wrote themselves, alone on the file (atomic_open, atomic_close).
PathWhole == part = "files" => F!PathWhole /\ F!Exclusive

\* One process at a time is at work, from its checks to its rename or unlink,
\* and works are published in the order in which they were begun, or not at
\* all: library/atomic.tcl implements AtomicSlot.
ImplementsSlot == F!ImplementsSlot
============================================================================
