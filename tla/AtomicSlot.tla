----------------------------- MODULE AtomicSlot -----------------------------
(* What library/atomic.tcl promises to those who publish a file: one writer at a *)
(* time, and a name that only ever goes from one finished work to a later one.   *)
EXTENDS Naturals

CONSTANTS Procs, NoProc

VARIABLES
    holder,          \* who is at work, or NoProc
    session,         \* how many works have been begun
    published        \* the work that readers find under the name, 0 for none

slot == <<holder, session, published>>

Init == holder = NoProc /\ session = 0 /\ published = 0

Begin(p) == holder = NoProc /\ holder' = p /\ session' = session + 1 /\ UNCHANGED published

\* The work is published, and it is the one begun last.
Publish == holder # NoProc /\ holder' = NoProc /\ published' = session /\ UNCHANGED session

\* The work is given up, or its writer is gone.
GiveUp == holder # NoProc /\ holder' = NoProc /\ UNCHANGED <<session, published>>

Next == (\E p \in Procs : Begin(p)) \/ Publish \/ GiveUp

Spec == Init /\ [][Next]_slot

=============================================================================
