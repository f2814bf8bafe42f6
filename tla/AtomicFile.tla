----------------------------- MODULE AtomicFile -----------------------------
(* library/atomic.tcl: processes that replace the file path by way of path.tmp,  *)
(* system call by system call.  A process that dies leaves path.tmp as it is and *)
(* loses its lock.  A text is the set of the pieces written into an inode, and a *)
(* work is whole when all of its pieces and no others are there.                 *)
EXTENDS Naturals, FiniteSets

CONSTANTS
    Procs,           \* the processes that use atomic_open on this path
    NoProc,
    Inodes,          \* numbers of inodes; a free one may be used again
    Pieces,          \* the pieces of a work
    MaxSessions      \* bound: works begun

\* A work has something in it by which readers know it.
ConstantsFit ==
    NoProc \notin Procs /\ 0 \notin Inodes /\ Pieces # {} /\ MaxSessions \in Nat

VARIABLES
    path, tmp,       \* the inodes the two names stand for, 0 for none
    text,            \* text[i]: the pieces in inode i
    lock,            \* lock[i]: who has flock on inode i
    pc, fh,          \* where each process is, and the inode it has open
    work, session    \* the work of each process, and how many were begun

vars == <<path, tmp, text, lock, pc, fh, work, session>>

\* The places of a process between its successful checks and the rename or unlink.
Holding == {"truncate", "write", "rename", "unlink"}
Whole(s) == {s} \X Pieces

Init ==
    /\ path = 0 /\ tmp = 0
    /\ text = [i \in Inodes |-> {}] /\ lock = [i \in Inodes |-> NoProc]
    /\ pc = [p \in Procs |-> "idle"] /\ fh = [p \in Procs |-> 0]
    /\ work = [p \in Procs |-> 0] /\ session = 0

At(p, here, next) == pc[p] = here /\ pc' = [pc EXCEPT ![p] = next]

\* close: the lock of the process goes with its handle.
Close(p) ==
    /\ fh' = [fh EXCEPT ![p] = 0]
    /\ lock' = [i \in Inodes |-> IF lock[i] = p THEN NoProc ELSE lock[i]]

\* open path.tmp, or create it with an inode nothing refers to.
Open(p) ==
    /\ At(p, "idle", "flock")
    /\ IF tmp # 0 THEN fh' = [fh EXCEPT ![p] = tmp] /\ UNCHANGED <<tmp, text>>
       ELSE \E i \in Inodes \ ({path} \cup {fh[q] : q \in Procs}) :
              /\ tmp' = i /\ fh' = [fh EXCEPT ![p] = i]
              /\ text' = [text EXCEPT ![i] = {}]
    /\ UNCHANGED <<path, lock, work, session>>

\* flock -write -nowait: the file may be busy, or the call interrupted.
Flock(p) ==
    \/ /\ At(p, "flock", "lstat") /\ lock[fh[p]] = NoProc
       /\ lock' = [lock EXCEPT ![fh[p]] = p]
       /\ UNCHANGED <<path, tmp, text, fh, work, session>>
    \/ /\ At(p, "flock", "idle") /\ Close(p)
       /\ UNCHANGED <<path, tmp, text, work, session>>

\* Mutant: a temporary file that is also the final one is used.
LstatNoLinks(p) ==
    /\ \/ At(p, "lstat", "truncate") /\ tmp = fh[p] /\ UNCHANGED <<lock, fh>>
       \/ At(p, "lstat", "idle") /\ tmp # fh[p] /\ Close(p)
    /\ UNCHANGED <<path, tmp, text, work, session>>

\* lstat path.tmp: the file that was locked must still be the temporary file, and
\* must have no other name.
Lstat(p) ==
    /\ \/ At(p, "lstat", "truncate") /\ tmp = fh[p] /\ path # tmp /\ UNCHANGED <<lock, fh>>
       \/ At(p, "lstat", "drop") /\ tmp = fh[p] /\ path = tmp /\ UNCHANGED <<lock, fh>>
       \/ At(p, "lstat", "idle") /\ tmp # fh[p] /\ Close(p)
    /\ UNCHANGED <<path, tmp, text, work, session>>

\* "Just in case it is linked to the final file": remove that name, and start again.
Drop(p) ==
    /\ At(p, "drop", "close") /\ tmp' = 0
    /\ UNCHANGED <<path, text, lock, fh, work, session>>

\* ftruncate: a new work begins.
Truncate(p) ==
    /\ At(p, "truncate", "write") /\ session < MaxSessions
    /\ text' = [text EXCEPT ![fh[p]] = {}]
    /\ session' = session + 1 /\ work' = [work EXCEPT ![p] = session + 1]
    /\ UNCHANGED <<path, tmp, lock, fh>>

Write(p) ==
    /\ pc[p] = "write"
    /\ \E k \in Pieces : text' = [text EXCEPT ![fh[p]] = @ \cup {<<work[p], k>>}]
    /\ UNCHANGED <<path, tmp, lock, pc, fh, work, session>>

\* atomic_close: flush and sync what was written; a failure aborts.
Flush(p) ==
    /\ At(p, "write", "rename") /\ Whole(work[p]) \subseteq text[fh[p]]
    /\ UNCHANGED <<path, tmp, text, lock, fh, work, session>>

\* Mutant: the lock is given up before the rename.
RenameClosed(p) ==
    \/ /\ At(p, "rename", "unlocked") /\ Close(p)
       /\ UNCHANGED <<path, tmp, text, work, session>>
    \/ /\ At(p, "unlocked", "idle") /\ tmp # 0
       /\ path' = tmp /\ tmp' = 0
       /\ UNCHANGED <<text, lock, fh, work, session>>

\* rename path.tmp to path, whatever file has that name now.  When the rename fails
\* the handle stays open, and with it the lock.
Rename(p) ==
    \/ /\ At(p, "rename", "close") /\ tmp # 0
       /\ path' = tmp /\ tmp' = 0
       /\ UNCHANGED <<text, lock, fh, work, session>>
    \/ /\ At(p, "rename", "stuck")
       /\ UNCHANGED <<path, tmp, text, lock, fh, work, session>>

\* chmod and close, after the rename.
CloseFile(p) ==
    /\ At(p, "close", "idle") /\ Close(p)
    /\ UNCHANGED <<path, tmp, text, work, session>>

\* atomic_abort: unlink before the lock is given up.
Abort(p) ==
    \/ /\ At(p, "write", "unlink")
       /\ UNCHANGED <<path, tmp, text, lock, fh, work, session>>
    \/ /\ At(p, "unlink", "close") /\ tmp' = 0
       /\ UNCHANGED <<path, text, lock, fh, work, session>>

\* The process dies.
Die(p) ==
    /\ pc[p] # "idle" /\ pc' = [pc EXCEPT ![p] = "idle"] /\ Close(p)
    /\ UNCHANGED <<path, tmp, text, work, session>>

\* The system fails within a rename that has made the new name and still has the
\* old one, as where rename is a link and an unlink.
FailInRename(p) ==
    /\ pc[p] = "rename" /\ tmp # 0
    /\ path' = tmp
    /\ pc' = [q \in Procs |-> "idle"] /\ fh' = [q \in Procs |-> 0]
    /\ lock' = [i \in Inodes |-> NoProc]
    /\ UNCHANGED <<tmp, text, work, session>>

Step(p) ==
    \/ Open(p) \/ Flock(p) \/ Lstat(p) \/ Drop(p) \/ Truncate(p) \/ Write(p)
    \/ Flush(p) \/ Rename(p) \/ CloseFile(p) \/ Abort(p)

Next == \E p \in Procs : Step(p) \/ Die(p) \/ FailInRename(p)

Spec == Init /\ [][Next]_vars

-----------------------------------------------------------------------------
(* Properties. *)

\* Every part of the state has its type, and only a process that has an inode open
\* has its lock.
TypeOK ==
    /\ path \in Inodes \cup {0} /\ tmp \in Inodes \cup {0}
    /\ text \in [Inodes -> SUBSET ((1..MaxSessions) \X Pieces)]
    /\ lock \in [Inodes -> Procs \cup {NoProc}]
    /\ pc \in [Procs -> {"idle", "flock", "lstat", "drop", "truncate", "write", "rename", "unlink", "close",
                     "stuck"}]
    /\ fh \in [Procs -> Inodes \cup {0}]
    /\ work \in [Procs -> 0..MaxSessions] /\ session \in 0..MaxSessions
    /\ \A i \in Inodes : lock[i] # NoProc => fh[lock[i]] = i

\* A reader of path always finds the whole of one work: no truncation, write or
\* rename of any process, and no death of one, shows it a part or a mixture.
PathWhole == path # 0 => \E s \in 1..session : text[path] = Whole(s)

\* From its checks to its rename or unlink a process is alone, on the file that is
\* the temporary file all that time: the rename publishes what it wrote itself.
Exclusive ==
    \A p \in Procs : pc[p] \in Holding =>
        /\ tmp = fh[p] /\ tmp # 0 /\ lock[tmp] = p
        /\ \A q \in Procs \ {p} : pc[q] \notin Holding

\* All of this implements the slot that those who publish rely on.
Working == {p \in Procs : pc[p] \in {"write", "rename", "unlink"}}
Slot == INSTANCE AtomicSlot WITH
    holder <- IF Working = {} THEN NoProc ELSE CHOOSE p \in Working : TRUE,
    published <- IF path = 0 THEN 0 ELSE CHOOSE s \in 0..session : text[path] = Whole(s)

\* Works are published one at a time and in the order in which they were begun, or
\* not at all: a rename never brings back an older work.
ImplementsSlot == Slot!Spec

=============================================================================
