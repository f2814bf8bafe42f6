------------------------------ MODULE UuidGen ------------------------------
(***************************************************************************)
(* Identifiers generated by one process (libuuid/uuid.c): the time in      *)
(* 100ns clunks, moved on by time_adjust while the clock stands still, and *)
(* a clock sequence number that changes when the clock is seen to go back. *)
(* The hardware address is constant.  The clock runs, and is set back, at  *)
(* any time while a call goes through its loop.                            *)
(*                                                                         *)
(* An operator named Mutant_... is a plausible fault of the one after it,  *)
(* for testing the properties; the specification does not use it.          *)
(***************************************************************************)
EXTENDS Naturals, Sequences, Functions

CONSTANTS Tick,       \* clunks between two readings of the clock
          MaxAdjust,  \* MAX_TIME_ADJUST
          SeqSpan,     \* CLOCK_SEQ_LAST + 1: a uuid holds clock_seq % SeqSpan
          MaxTicks,   \* bound: readings of the clock
          MaxBacks,   \* bound: times the clock is set back
          MaxCalls    \* bound: uuids created

\* The fudge factor does not reach the next reading of the clock, and the
\* clock is not set back so often that clock_seq comes round.
ConstantsFit == /\ MaxAdjust \in Nat /\ Tick \in Nat /\ MaxAdjust < Tick
                /\ SeqSpan \in Nat /\ MaxBacks \in Nat /\ MaxBacks + 1 < SeqSpan

VARIABLES clock,        \* what uuid__get_os_time returns
          backs,        \* how often the clock was set back
          time_last, time_adjust, clock_seq,
          got_no_time,  \* local to Create_Uuid
          pc,           \* a call is in its loop, or none is active
          issued        \* the uuids created

vars == <<clock, backs, time_last, time_adjust, clock_seq, got_no_time, pc,
          issued>>

\* true_random returns 16 bits, two more than a uuid holds.
True_Random == 0 .. 4 * SeqSpan - 1

Mutant_NoBump(r) == clock_seq

New_Clock_Seq(r) ==
    LET seq == IF clock_seq = 0 THEN r ELSE clock_seq
        bumped == (seq + 1) % SeqSpan
    IN IF bumped = 0 THEN 1 ELSE bumped

Adjust == IF time_adjust = MaxAdjust THEN time_adjust ELSE time_adjust + 1

(***************************************************************************)
(* The end of Create_Uuid: the uuid is put together.                       *)
(***************************************************************************)
Issue == /\ time_last' = clock
         /\ pc' = "idle"
         /\ issued' = Append(issued, [time |-> clock + time_adjust',
                                      seq |-> clock_seq' % SeqSpan])

Enter == /\ pc = "idle"
         /\ Len(issued) < MaxCalls
         /\ pc' = "loop"
         /\ got_no_time' = FALSE
         /\ UNCHANGED <<clock, backs, time_last, time_adjust, clock_seq, issued>>

(***************************************************************************)
(* One iteration of the loop of Create_Uuid.                               *)
(***************************************************************************)
Create_Uuid ==
    /\ pc = "loop"
    /\ \/ /\ clock < time_last
          /\ \E r \in True_Random : clock_seq' = New_Clock_Seq(r)
          /\ time_adjust' = 0
          /\ UNCHANGED got_no_time
       \/ /\ clock > time_last
          /\ time_adjust' = 0
          /\ UNCHANGED <<clock_seq, got_no_time>>
       \/ /\ clock = time_last
          /\ time_adjust' = Adjust
          /\ got_no_time' = (got_no_time \/ time_adjust = MaxAdjust)
          /\ UNCHANGED clock_seq
    /\ IF got_no_time' THEN UNCHANGED <<time_last, pc, issued>> ELSE Issue
    /\ UNCHANGED <<clock, backs>>

ClockRuns == /\ clock + Tick <= MaxTicks * Tick
             /\ clock' = clock + Tick
             /\ UNCHANGED <<backs, time_last, time_adjust, clock_seq,
                            got_no_time, pc, issued>>

ClockSetBack == /\ backs < MaxBacks
                /\ \E t \in {i * Tick : i \in 0..MaxTicks} :
                      t < clock /\ clock' = t
                /\ backs' = backs + 1
                /\ UNCHANGED <<time_last, time_adjust, clock_seq,
                               got_no_time, pc, issued>>

Init == /\ clock \in {i * Tick : i \in 0..1}
        /\ backs = 0
        /\ time_last = clock
        /\ time_adjust = 0
        /\ clock_seq \in True_Random
        /\ got_no_time = FALSE
        /\ pc = "idle"
        /\ issued = <<>>

\* The bounds are reached and no call is active.
Stopped == pc = "idle" /\ Len(issued) = MaxCalls

Next == Enter \/ Create_Uuid \/ ClockRuns \/ ClockSetBack

Spec == Init /\ [][Next]_vars

-----------------------------------------------------------------------------
\* The type invariant.
TypeOK == /\ clock \in 0 .. MaxTicks * Tick
          /\ backs \in 0..MaxBacks
          /\ time_last \in 0 .. MaxTicks * Tick
          /\ time_adjust \in 0..MaxAdjust
          /\ clock_seq \in True_Random
          /\ got_no_time \in BOOLEAN
          /\ pc \in {"idle", "loop"}
          /\ issued \in Seq([time : Nat, seq : 0 .. SeqSpan - 1])

\* Create_Uuid never returns the same uuid twice, however often the clock
\* is read within one tick and whenever it is set back.
Unique == IsInjective(issued)

\* "spin your wheels while we wait for the clock to tick": once the clock
\* no longer shows the time of the last uuid, an iteration of the loop is
\* the last one.
TickEndsWait == [][Create_Uuid /\ clock # time_last => pc' = "idle"]_vars
=============================================================================
