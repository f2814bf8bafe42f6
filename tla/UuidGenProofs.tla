---------------------------- MODULE UuidGenProofs ----------------------------
(***************************************************************************)
(* No uuid is issued twice, for every resolution of the clock, every limit *)
(* of the fudge factor and every number of uuids.                          *)
(***************************************************************************)
EXTENDS UuidGen, TLAPS

Uuid == [time : Nat, seq : 0 .. SeqSpan - 1]
Reading == {i * Tick : i \in Nat}

Typed == /\ clock \in Reading /\ time_last \in Reading
         /\ backs \in 0..MaxBacks
         /\ time_adjust \in 0..MaxAdjust
         /\ clock_seq \in Nat
         /\ got_no_time \in BOOLEAN
         /\ pc \in {"idle", "loop"}
         /\ issued \in Seq(Uuid)

Seq_Now == clock_seq % SeqSpan

(***************************************************************************)
(* How many bumps ago the sequence number of a uuid was the current one.   *)
(* A bump skips 0, so that only a first sequence number is 0.              *)
(***************************************************************************)
Age(seq) == IF seq <= Seq_Now THEN Seq_Now - seq ELSE Seq_Now + SeqSpan - 1 - seq

(***************************************************************************)
(* A bump is made when the clock shows a time before that of the last      *)
(* uuid, and needs it to have been set back since the bump before.  A call *)
(* that has found no time in a tick issues nothing any more, so what it    *)
(* does to the sequence number does not matter.                            *)
(***************************************************************************)
Ages(seq) ==
    seq # 0 => Seq_Now # 0 /\ Age(seq) + (IF clock < time_last THEN 1 ELSE 0) <= backs

Behind(u) == /\ Ages(u.seq)
             /\ u.seq = Seq_Now => u.time <= time_last + time_adjust

UuidInv == /\ Typed
           /\ got_no_time => pc = "loop"
           /\ Unique
           /\ ~got_no_time => \A k \in DOMAIN issued : Behind(issued[k])

LEMMA ModSplit ==
    ASSUME NEW n \in Nat, n > 1, NEW x \in Nat
    PROVE  /\ x % n \in 0..n - 1
           /\ (x + 1) % n = IF x % n = n - 1 THEN 0 ELSE (x % n) + 1
<1>1. \A q \in Nat, r \in 0..n - 1 : (n * q + r) % n = r
  OBVIOUS
<1>2. x % n \in 0..n - 1 /\ x \div n \in Nat
  <2>1. x % n \in 0..n - 1
    OBVIOUS
  <2>2. x \div n \in Int /\ x \div n >= 0
    OBVIOUS
  <2>3. QED
    BY <2>1, <2>2
<1>3. PICK q \in Nat, r \in 0..n - 1 : x = n * q + r /\ x % n = r
  <2>1. PICK q \in Nat, r \in 0..n - 1 : q = x \div n /\ r = x % n
    BY <1>2
  <2>2. x = n * q + r
    BY <2>1, SMTT(30)
  <2>3. QED
    BY <2>1, <2>2
<1>4. CASE r = n - 1
  <2>1. x + 1 = n * (q + 1) + 0
    BY <1>3, <1>4
  <2>2. (x + 1) % n = 0
    <3>1. q + 1 \in Nat /\ 0 \in 0..n - 1
      OBVIOUS
    <3>2. (n * (q + 1) + 0) % n = 0
      BY <1>1, <3>1
    <3>3. QED
      BY <2>1, <3>2
  <2>3. QED
    BY <1>2, <1>3, <1>4, <2>2
<1>5. CASE r # n - 1
  <2>1. x + 1 = n * q + (r + 1) /\ r + 1 \in 0..n - 1
    BY <1>3, <1>5
  <2>2. (x + 1) % n = r + 1
    BY <1>1, <2>1
  <2>3. QED
    BY <1>2, <1>3, <1>5, <2>2
<1>6. QED
  BY <1>4, <1>5

\* Readings of the clock that differ do so by a tick at least.
LEMMA Ticks ==
    ASSUME ConstantsFit, NEW s \in Reading, NEW t \in Reading
    PROVE  /\ s \in Nat /\ t \in Nat /\ s + Tick \in Reading
           /\ s > t => s > t + MaxAdjust
<1>1. Tick \in Nat /\ MaxAdjust \in Nat /\ MaxAdjust < Tick
  BY DEF ConstantsFit
<1>2. PICK i \in Nat, j \in Nat : s = i * Tick /\ t = j * Tick
  BY DEF Reading
<1>3. s \in Nat /\ t \in Nat
  BY <1>1, <1>2
<1>4. s + Tick = (i + 1) * Tick /\ i + 1 \in Nat
  BY <1>1, <1>2
<1>5. s > t => s >= t + Tick
  BY <1>1, <1>2
<1>6. s + Tick \in Reading
  BY <1>4 DEF Reading
<1>7. QED
  BY <1>1, <1>3, <1>5, <1>6

LEMMA NowType ==
    ASSUME ConstantsFit, Typed
    PROVE  Seq_Now \in 0..SeqSpan - 1 /\ SeqSpan \in Nat /\ SeqSpan > 1 /\ backs \in Nat /\ backs < SeqSpan - 1
<1>1. SeqSpan \in Nat /\ MaxBacks \in Nat /\ backs \in 0..MaxBacks /\ MaxBacks + 1 < SeqSpan
  BY DEF ConstantsFit, Typed
<1>2. SeqSpan > 1 /\ backs \in Nat /\ backs < SeqSpan - 1
  BY <1>1
<1>3. QED
  BY <1>1, <1>2, ModSplit DEF Seq_Now, Typed

\* What a bump makes of the sequence number.
LEMMA Bump ==
    ASSUME ConstantsFit, Typed, NEW r \in True_Random, clock_seq' = New_Clock_Seq(r)
    PROVE  /\ clock_seq' \in Nat /\ Seq_Now' \in 1..SeqSpan - 1
           /\ Seq_Now # 0 => Seq_Now' = IF Seq_Now = SeqSpan - 1 THEN 1 ELSE Seq_Now + 1
<1> DEFINE seq == IF clock_seq = 0 THEN r ELSE clock_seq
<1>1. SeqSpan \in Nat /\ SeqSpan > 1 /\ Seq_Now \in 0..SeqSpan - 1
  BY NowType
<1>2. seq \in Nat
  BY <1>1 DEF Typed, True_Random
<1>3. clock_seq' = IF (seq + 1) % SeqSpan = 0 THEN 1 ELSE (seq + 1) % SeqSpan
  BY DEF New_Clock_Seq
<1>4. /\ seq % SeqSpan \in 0..SeqSpan - 1
      /\ (seq + 1) % SeqSpan = IF seq % SeqSpan = SeqSpan - 1 THEN 0 ELSE (seq % SeqSpan) + 1
  BY <1>1, <1>2, ModSplit
<1>5. Seq_Now # 0 => seq % SeqSpan = Seq_Now
  <2>1. 0 % SeqSpan = 0
    BY <1>1
  <2>2. QED
    BY <2>1 DEF Seq_Now
<1> HIDE DEF seq
<1>6. clock_seq' \in 1..SeqSpan - 1
  BY <1>1, <1>3, <1>4
<1>7. \A n \in 0..SeqSpan - 1 : n % SeqSpan = n
  BY <1>1
<1>8. Seq_Now' = clock_seq'
  BY <1>1, <1>6, <1>7 DEF Seq_Now
<1>9. QED
  BY <1>1, <1>3, <1>4, <1>5, <1>6, <1>8

\* A uuid unlike those before it.
LEMMA OneMore ==
    ASSUME Typed, Unique, NEW u \in Uuid, issued' = Append(issued, u),
           \A k \in DOMAIN issued : issued[k] # u
    PROVE  /\ issued' \in Seq(Uuid) /\ Unique'
           /\ \A k \in DOMAIN issued' :
                 issued'[k] = u \/ (k \in DOMAIN issued /\ issued'[k] = issued[k])
<1>1. issued \in Seq(Uuid)
  BY DEF Typed
<1>2. issued' \in Seq(Uuid)
  BY <1>1
<1>3. /\ DOMAIN issued = 1..Len(issued) /\ DOMAIN issued' = 1..Len(issued) + 1
      /\ Len(issued) \in Nat
  BY <1>1
<1>4. issued'[Len(issued) + 1] = u
  BY <1>1
<1>5. \A k \in DOMAIN issued : issued'[k] = issued[k]
  BY <1>1
<1>6. \A k \in DOMAIN issued' : k = Len(issued) + 1 \/ k \in DOMAIN issued
  BY <1>3
<1>7. \A a, b \in DOMAIN issued : issued[a] = issued[b] => a = b
  BY DEF Unique, IsInjective
<1>8. \A a, b \in DOMAIN issued' : issued'[a] = issued'[b] => a = b
  BY <1>4, <1>5, <1>6, <1>7
<1>9. QED
  BY <1>2, <1>4, <1>5, <1>6, <1>8 DEF Unique, IsInjective

\* What a uuid is behind, when an iteration of the loop issues the next one.
LEMMA IssueBehind ==
    ASSUME ConstantsFit, UuidInv, ~got_no_time, ~got_no_time', Create_Uuid,
           NEW u \in Uuid, Behind(u)
    PROVE  /\ Behind(u)'
           /\ u.seq = Seq_Now' => u.time < clock + time_adjust'
<1>1. /\ clock \in Nat /\ time_last \in Nat
      /\ clock > time_last => clock > time_last + MaxAdjust
      /\ time_adjust \in 0..MaxAdjust /\ MaxAdjust \in Nat /\ u.seq \in 0..SeqSpan - 1 /\ u.time \in Nat
  BY Ticks DEF UuidInv, Typed, Uuid, ConstantsFit
<1>2. Seq_Now \in 0..SeqSpan - 1 /\ SeqSpan \in Nat /\ SeqSpan > 1 /\ backs \in Nat /\ backs < SeqSpan - 1
  BY NowType DEF UuidInv
<1>3. clock' = clock /\ time_last' = clock /\ backs' = backs
  BY DEF Create_Uuid, Issue
<1>4. /\ u.seq # 0 => Seq_Now # 0 /\ Age(u.seq) + (IF clock < time_last THEN 1 ELSE 0) <= backs
      /\ u.seq = Seq_Now => u.time <= time_last + time_adjust
  BY DEF Behind, Ages
<1>5. CASE clock < time_last /\ \E r \in True_Random : clock_seq' = New_Clock_Seq(r)
  <2>1. /\ Seq_Now' \in 1..SeqSpan - 1
        /\ Seq_Now # 0 => Seq_Now' = IF Seq_Now = SeqSpan - 1 THEN 1 ELSE Seq_Now + 1
    BY <1>5, Bump DEF UuidInv
  <2>2. u.seq # 0 => Seq_Now # 0 /\ Age(u.seq) + 1 <= backs
    BY <1>4, <1>5
  <2>3. u.seq # 0 => Age(u.seq)' = Age(u.seq) + 1
    BY <1>1, <1>2, <2>1, <2>2 DEF Age
  <2>4. u.seq # Seq_Now'
    BY <1>1, <1>2, <2>1, <2>2 DEF Age
  <2>5. Ages(u.seq)'
    <3>1. ~(clock' < time_last')
      BY <1>1, <1>3
    <3>2. u.seq # 0 => Seq_Now' # 0 /\ Age(u.seq)' <= backs'
      BY <1>3, <2>1, <2>2, <2>3
    <3>3. Age(u.seq)' \in Int
      BY <1>1, <1>2, <2>1 DEF Age
    <3>4. QED
      BY <3>1, <3>2, <3>3 DEF Ages
  <2>6. QED
    BY <2>4, <2>5 DEF Behind
<1>6. CASE clock >= time_last /\ clock_seq' = clock_seq
  <2>1. Seq_Now' = Seq_Now
    BY <1>6 DEF Seq_Now
  <2>2. Ages(u.seq)'
    BY <1>1, <1>3, <1>4, <1>6, <2>1 DEF Ages, Age
  <2>3. u.seq = Seq_Now => u.time < clock + time_adjust'
    <3>1. CASE clock > time_last /\ time_adjust' = 0
      BY <1>1, <1>4, <3>1
    <3>2. CASE clock = time_last /\ time_adjust' = Adjust /\ time_adjust # MaxAdjust
      BY <1>1, <1>4, <3>2 DEF Adjust
    <3>3. /\ clock = time_last => time_adjust' = Adjust /\ got_no_time' = (got_no_time \/ time_adjust = MaxAdjust)
          /\ clock > time_last => time_adjust' = 0
      BY <1>1, <1>6 DEF Create_Uuid
    <3>4. clock = time_last => time_adjust # MaxAdjust
      BY <3>3
    <3>5. QED
      BY <1>1, <1>6, <3>1, <3>2, <3>3, <3>4
  <2>4. time_adjust' \in Nat
    BY <1>1, <1>6 DEF Create_Uuid, Adjust
  <2>5. u.seq = Seq_Now' => u.time <= time_last' + time_adjust'
    BY <1>1, <1>3, <2>1, <2>3, <2>4
  <2>6. QED
    BY <2>1, <2>2, <2>3, <2>5 DEF Behind
<1>7. QED
  BY <1>1, <1>5, <1>6 DEF Create_Uuid

LEMMA CreateStep ==
    ASSUME ConstantsFit, UuidInv, Create_Uuid
    PROVE  UuidInv'
<1>1. /\ clock \in Nat /\ clock' = clock /\ backs' = backs /\ pc = "loop" /\ Typed /\ Unique
      /\ time_adjust \in 0..MaxAdjust /\ MaxAdjust \in Nat
  BY Ticks DEF UuidInv, Typed, ConstantsFit, Create_Uuid
<1>2. clock_seq' \in Nat
  <2>1. CASE \E r \in True_Random : clock_seq' = New_Clock_Seq(r)
    BY <1>1, <2>1, Bump
  <2>2. CASE clock_seq' = clock_seq
    BY <1>1, <2>2 DEF Typed
  <2>3. QED
    BY <2>1, <2>2 DEF Create_Uuid
<1>3. time_adjust' \in 0..MaxAdjust
  BY <1>1 DEF Create_Uuid, Adjust
<1>4. got_no_time' \in BOOLEAN /\ (got_no_time => got_no_time')
  <2>1. got_no_time \in BOOLEAN
    BY <1>1 DEF Typed
  <2>2. CASE got_no_time' = got_no_time
    BY <2>1, <2>2
  <2>3. CASE got_no_time' = (got_no_time \/ time_adjust = MaxAdjust)
    BY <2>1, <2>3
  <2>4. QED
    BY <2>2, <2>3 DEF Create_Uuid
<1>5. CASE got_no_time'
  <2>1. time_last' = time_last /\ pc' = pc /\ issued' = issued
    BY <1>5 DEF Create_Uuid
  <2>2. Typed'
    BY <1>1, <1>2, <1>3, <1>4, <2>1 DEF Typed
  <2>3. QED
    BY <1>1, <1>5, <2>1, <2>2 DEF UuidInv, Unique
<1>6. CASE ~got_no_time'
  <2>1. /\ time_last' = clock /\ pc' = "idle"
        /\ issued' = Append(issued, [time |-> clock + time_adjust', seq |-> clock_seq' % SeqSpan])
    BY <1>6 DEF Create_Uuid, Issue
  <2>2. SeqSpan \in Nat /\ SeqSpan > 1
    BY <1>1, NowType
  <2>3. clock_seq' % SeqSpan \in 0..SeqSpan - 1 /\ clock + time_adjust' \in Nat
    <3>1. clock + time_adjust' \in Nat
      <4>1. PICK c \in Nat, a \in Nat : c = clock /\ a = time_adjust'
        BY <1>1, <1>3
      <4>2. c + a \in Nat
        OBVIOUS
      <4>3. QED
        BY <4>1, <4>2
    <3>2. \A x \in Nat : x % SeqSpan \in 0..SeqSpan - 1
      BY <2>2, ModSplit
    <3>3. QED
      BY <1>2, <3>1, <3>2
  <2>4. PICK u \in Uuid :
           issued' = Append(issued, u) /\ u.time = clock + time_adjust' /\ u.seq = Seq_Now'
    <3>1. PICK t \in Nat, q \in 0..SeqSpan - 1 : t = clock + time_adjust' /\ q = clock_seq' % SeqSpan
      BY <2>3
    <3>2. [time |-> t, seq |-> q] \in Uuid
      BY DEF Uuid
    <3>3. q = Seq_Now'
      BY <3>1 DEF Seq_Now
    <3>4. QED
      BY <2>1, <3>1, <3>2, <3>3
  <2>5. \A k \in DOMAIN issued : issued[k] \in Uuid /\ Behind(issued[k])
    BY <1>4, <1>6 DEF UuidInv, Typed
  <2>6. ~got_no_time
    BY <1>4, <1>6
  <2>7. ASSUME NEW v \in Uuid, Behind(v)
        PROVE  Behind(v)' /\ v # u
    <3>1. Behind(v)' /\ (v.seq = Seq_Now' => v.time < clock + time_adjust')
      BY <1>6, <2>6, <2>7, IssueBehind
    <3>2. v.time \in Nat
      BY DEF Uuid
    <3>3. QED
      BY <2>3, <2>4, <3>1, <3>2
  <2>8. \A k \in DOMAIN issued : issued[k] # u
    BY <2>5, <2>7
  <2>9. /\ issued' \in Seq(Uuid) /\ Unique'
        /\ \A k \in DOMAIN issued' :
              issued'[k] = u \/ (k \in DOMAIN issued /\ issued'[k] = issued[k])
    BY <1>1, <2>1, <2>4, <2>8, OneMore
  <2>10. Typed'
    BY <1>1, <1>2, <1>3, <1>4, <2>1, <2>9 DEF Typed
  <2>11. /\ u.seq # 0 => Seq_Now' # 0 /\ Age(u.seq)' = 0
         /\ u.time <= time_last' + time_adjust'
    <3>1. Seq_Now' \in Int /\ u.time <= time_last' + time_adjust'
      BY <2>1, <2>3, <2>4 DEF Seq_Now
    <3>2. Age(u.seq)' = IF u.seq <= Seq_Now' THEN Seq_Now' - u.seq ELSE Seq_Now' + SeqSpan - 1 - u.seq
      BY DEF Age
    <3>3. Age(u.seq)' = 0
      <4>1. PICK n \in Int : n = Seq_Now' /\ n = u.seq
        BY <2>4, <3>1
      <4>2. n <= n /\ n - n = 0
        OBVIOUS
      <4>3. QED
        BY <3>2, <4>1, <4>2
    <3>4. QED
      BY <2>4, <3>1, <3>3
  <2>12. ASSUME NEW k \in DOMAIN issued'
         PROVE  Behind(issued[k])'
    <3>1. Behind(u)'
      <4>1. ~(clock' < time_last') /\ backs' \in Nat
        BY <1>1, <2>1, NowType
      <4>2. QED
        BY <2>11, <4>1 DEF Behind, Ages
    <3>2. PICK v \in Uuid : v = issued'[k] /\ (v = u \/ Behind(v))
      BY <2>5, <2>9
    <3>3. Behind(v)'
      BY <2>7, <3>1, <3>2
    <3>4. QED
      BY <3>2, <3>3 DEF Behind, Ages, Age
  <2>13. QED
    BY <1>6, <2>9, <2>10, <2>12 DEF UuidInv
<1>7. QED
  BY <1>5, <1>6

\* The clock runs, or is set back, under a call and between two.
LEMMA ClockStep ==
    ASSUME ConstantsFit, UuidInv, ClockRuns \/ ClockSetBack
    PROVE  UuidInv'
<1>1. /\ time_last' = time_last /\ time_adjust' = time_adjust /\ clock_seq' = clock_seq
      /\ got_no_time' = got_no_time /\ pc' = pc /\ issued' = issued
  BY DEF ClockRuns, ClockSetBack
<1>2. clock \in Nat /\ clock \in Reading /\ time_last \in Nat /\ clock' \in Reading /\ clock' \in Nat
  <2>1. clock \in Nat /\ clock \in Reading /\ time_last \in Nat
    BY Ticks DEF UuidInv, Typed
  <2>2. CASE ClockRuns
    BY <2>1, <2>2, Ticks DEF ClockRuns
  <2>3. CASE ClockSetBack
    <3>1. PICK i \in 0..MaxTicks : clock' = i * Tick
      BY <2>3 DEF ClockSetBack
    <3>2. i \in Nat
      OBVIOUS
    <3>3. clock' \in Reading
      BY <3>1, <3>2 DEF Reading
    <3>4. QED
      BY <2>1, <3>3, Ticks
  <2>4. QED
    BY <2>2, <2>3
<1>3. backs \in Nat /\ backs' \in 0..MaxBacks
  BY DEF UuidInv, Typed, ClockRuns, ClockSetBack, ConstantsFit
<1>4. Typed'
  BY <1>1, <1>2, <1>3 DEF UuidInv, Typed
<1>5. clock' < time_last' => clock < time_last \/ backs' = backs + 1
  BY <1>1, <1>2 DEF ClockRuns, ClockSetBack, ConstantsFit
<1>6. backs' = backs \/ backs' = backs + 1
  BY DEF ClockRuns, ClockSetBack
<1>7. ASSUME NEW v \in Uuid, Behind(v)
      PROVE  Behind(v)'
  <2>1. Seq_Now' = Seq_Now /\ Age(v.seq)' = Age(v.seq)
    BY <1>1 DEF Seq_Now, Age
  <2>2. Seq_Now \in Int /\ SeqSpan \in Int /\ v.seq \in Int
    BY NowType DEF UuidInv, Uuid
  <2>3. Age(v.seq) \in Int
    BY <2>2 DEF Age
  <2>4. v.seq # 0 => Seq_Now # 0 /\ Age(v.seq) + (IF clock < time_last THEN 1 ELSE 0) <= backs
    BY <1>7 DEF Behind, Ages
  <2>5. v.seq # 0 => Age(v.seq) + (IF clock' < time_last' THEN 1 ELSE 0) <= backs'
    BY <1>3, <1>5, <1>6, <2>3, <2>4
  <2>6. Ages(v.seq)'
    BY <2>1, <2>4, <2>5 DEF Ages
  <2>7. QED
    BY <1>1, <1>7, <2>1, <2>6 DEF Behind
<1>8. ~got_no_time => \A k \in DOMAIN issued : issued[k] \in Uuid /\ Behind(issued[k])
  BY DEF UuidInv, Typed
<1>9. ASSUME ~got_no_time', NEW k \in DOMAIN issued'
      PROVE  Behind(issued[k])'
  <2>1. PICK v \in Uuid : v = issued[k] /\ v = issued'[k] /\ Behind(v)
    BY <1>1, <1>8, <1>9
  <2>2. Behind(v)'
    BY <1>7, <2>1
  <2>3. QED
    BY <2>1, <2>2 DEF Behind, Ages, Age
<1>10. QED
  BY <1>1, <1>4, <1>9 DEF UuidInv, Unique

LEMMA UuidStep ==
    ASSUME ConstantsFit, UuidInv, [Next]_vars
    PROVE  UuidInv'
<1> USE DEF UuidInv
<1>1. CASE Enter
  BY <1>1 DEF Enter, Typed, Unique, Behind, Ages, Age, Seq_Now
<1>2. CASE Create_Uuid
  BY <1>2, CreateStep
<1>3. CASE ClockRuns \/ ClockSetBack
  BY <1>3, ClockStep
<1>4. CASE UNCHANGED vars
  BY <1>4 DEF vars, Typed, Unique, Behind, Ages, Age, Seq_Now
<1>5. QED
  BY <1>1, <1>2, <1>3, <1>4 DEF Next

(***************************************************************************)
(* Create_Uuid never returns the same uuid twice, for any number of calls  *)
(* and however the clock is set back between and during them, as long as   *)
(* MAX_TIME_ADJUST does not reach the next reading of the clock and the    *)
(* clock is set back fewer times than there are clock sequence numbers.    *)
(***************************************************************************)
THEOREM UuidsNeverRepeat == ConstantsFit => (Spec => []Unique)
<1> SUFFICES ASSUME ConstantsFit PROVE Spec => []Unique
  OBVIOUS
<1>1. Init => UuidInv
  <2> SUFFICES ASSUME Init PROVE UuidInv
    OBVIOUS
  <2>1. issued = <<>> /\ got_no_time = FALSE /\ pc = "idle" /\ backs = 0 /\ time_adjust = 0
        /\ clock_seq \in True_Random /\ time_last = clock
    BY DEF Init
  <2>2. clock \in Reading
    <3>1. PICK i \in 0..1 : clock = i * Tick
      BY DEF Init
    <3>2. i \in Nat
      OBVIOUS
    <3>3. QED
      BY <3>1, <3>2 DEF Reading
  <2>3. clock_seq \in Nat /\ backs \in 0..MaxBacks /\ time_adjust \in 0..MaxAdjust
    BY <2>1 DEF True_Random, ConstantsFit
  <2>4. issued \in Seq(Uuid) /\ DOMAIN issued = {}
    BY <2>1
  <2>5. QED
    BY <2>1, <2>2, <2>3, <2>4 DEF UuidInv, Typed, Unique, IsInjective
<1>2. UuidInv /\ [Next]_vars => UuidInv'
  BY UuidStep
<1>3. UuidInv => Unique
  BY DEF UuidInv
<1>4. QED
  BY <1>1, <1>2, <1>3, PTL DEF Spec

=============================================================================
