---------------------------- MODULE RangesProofs ----------------------------
(***************************************************************************)
(* Proofs about Ranges: the blocks of used values are exact, however the   *)
(* half-interval searches run.  Between the steps of a call the blocks may *)
(* differ from the values in use by the one value being added or deleted,  *)
(* and the search keeps that value between its bounds; RInv says so.       *)
(*                                                                         *)
(* First, lemmas about sequences of blocks, for every sequence and every   *)
(* value: what each edit that Add_Used and Del_From_Range make does to the *)
(* values covered, and that the blocks stay apart.                         *)
(***************************************************************************)
EXTENDS Ranges, SequenceTheorems, TLAPS

(***************************************************************************)
(* What dropping and inserting an element of a collection does.            *)
(***************************************************************************)
LEMMA RemoveAtProperties ==
    ASSUME NEW S, NEW s \in Seq(S), NEW i \in 1..Len(s)
    PROVE  /\ RemoveAt(s, i) \in Seq(S)
           /\ Len(RemoveAt(s, i)) = Len(s) - 1
           /\ \A k \in 1..Len(s) - 1 :
                 RemoveAt(s, i)[k] = IF k < i THEN s[k] ELSE s[k + 1]
  <1> DEFINE a == SubSeq(s, 1, i - 1)
             b == SubSeq(s, i + 1, Len(s))
  <1>0. Len(s) \in Nat /\ \A k \in 1..Len(s) : s[k] \in S
    BY LenProperties
  <1>1. /\ a \in Seq(S)
        /\ Len(a) = i - 1
        /\ \A k \in 1..i - 1 : a[k] = s[k]
    <2>1. \A k \in 1..i - 1 : s[k] \in S
      BY <1>0
    <2>2. /\ a \in Seq(S)
          /\ Len(a) = IF 1 <= i - 1 THEN i - 1 - 1 + 1 ELSE 0
          /\ \A k \in 1..i - 1 - 1 + 1 : a[k] = s[1 + k - 1]
      BY <2>1, SubSeqProperties
    <2> QED  BY <2>2
  <1>2. /\ b \in Seq(S)
        /\ Len(b) = Len(s) - i
        /\ \A k \in 1..Len(s) - i : b[k] = s[i + k]
    <2>1. \A k \in i + 1..Len(s) : s[k] \in S
      BY <1>0
    <2>2. /\ b \in Seq(S)
          /\ Len(b) = IF i + 1 <= Len(s) THEN Len(s) - (i + 1) + 1 ELSE 0
          /\ \A k \in 1..Len(s) - (i + 1) + 1 : b[k] = s[i + 1 + k - 1]
      BY <1>0, <2>1, SubSeqProperties
    <2> QED  BY <1>0, <2>2
  <1> HIDE DEF a, b
  <1>3. /\ a \o b \in Seq(S)
        /\ Len(a \o b) = Len(a) + Len(b)
        /\ \A k \in 1..Len(a) + Len(b) :
              (a \o b)[k] = IF k <= Len(a) THEN a[k] ELSE b[k - Len(a)]
    BY <1>1, <1>2, ConcatProperties
  <1>4. RemoveAt(s, i) = a \o b
    BY DEF RemoveAt, a, b
  <1>5. ASSUME NEW k \in 1..Len(s) - 1
        PROVE  (a \o b)[k] = IF k < i THEN s[k] ELSE s[k + 1]
    <2>1. CASE k < i
      BY <1>0, <1>1, <1>2, <1>3, <2>1
    <2>2. CASE k >= i
      <3>1. k - (i - 1) \in 1..Len(s) - i /\ i + (k - (i - 1)) = k + 1
        BY <1>0, <2>2
      <3>2. (a \o b)[k] = b[k - (i - 1)]
        BY <1>0, <1>1, <1>2, <1>3, <2>2
      <3> QED  BY <1>2, <2>2, <3>1, <3>2
    <2>3. k < i \/ k >= i
      BY <1>0
    <2> QED  BY <2>1, <2>2, <2>3
  <1> QED  BY <1>0, <1>1, <1>2, <1>3, <1>4, <1>5

LEMMA InsertAtProperties ==
    ASSUME NEW S, NEW s \in Seq(S), NEW i \in 1..Len(s) + 1, NEW e \in S
    PROVE  /\ InsertAt(s, i, e) \in Seq(S)
           /\ Len(InsertAt(s, i, e)) = Len(s) + 1
           /\ \A k \in 1..Len(s) + 1 :
                 InsertAt(s, i, e)[k] = IF k < i THEN s[k]
                                        ELSE IF k = i THEN e ELSE s[k - 1]
  <1> DEFINE a == SubSeq(s, 1, i - 1)
             b == SubSeq(s, i, Len(s))
             c == a \o <<e>>
  <1>0. Len(s) \in Nat /\ \A k \in 1..Len(s) : s[k] \in S
    BY LenProperties
  <1>1. /\ a \in Seq(S)
        /\ Len(a) = i - 1
        /\ \A k \in 1..i - 1 : a[k] = s[k]
    <2>1. \A k \in 1..i - 1 : s[k] \in S
      BY <1>0
    <2>2. /\ a \in Seq(S)
          /\ Len(a) = IF 1 <= i - 1 THEN i - 1 - 1 + 1 ELSE 0
          /\ \A k \in 1..i - 1 - 1 + 1 : a[k] = s[1 + k - 1]
      BY <1>0, <2>1, SubSeqProperties
    <2> QED  BY <1>0, <2>2
  <1>2. /\ b \in Seq(S)
        /\ Len(b) = Len(s) - i + 1
        /\ \A k \in 1..Len(s) - i + 1 : b[k] = s[i + k - 1]
    <2>1. \A k \in i..Len(s) : s[k] \in S
      BY <1>0
    <2>2. /\ b \in Seq(S)
          /\ Len(b) = IF i <= Len(s) THEN Len(s) - i + 1 ELSE 0
          /\ \A k \in 1..Len(s) - i + 1 : b[k] = s[i + k - 1]
      BY <1>0, <2>1, SubSeqProperties
    <2> QED  BY <1>0, <2>2
  <1> HIDE DEF a, b
  <1>3. /\ c \in Seq(S)
        /\ Len(c) = i
        /\ \A k \in 1..i : c[k] = IF k < i THEN s[k] ELSE e
    <2>1. <<e>> \in Seq(S) /\ Len(<<e>>) = 1 /\ <<e>>[1] = e
      OBVIOUS
    <2>2. /\ c \in Seq(S)
          /\ Len(c) = Len(a) + 1
          /\ \A k \in 1..Len(a) + 1 :
                c[k] = IF k <= Len(a) THEN a[k] ELSE <<e>>[k - Len(a)]
      BY <1>1, <2>1, ConcatProperties
    <2> QED  BY <1>0, <1>1, <2>1, <2>2
  <1>4. InsertAt(s, i, e) = c \o b
    BY DEF InsertAt, a, b
  <1> HIDE DEF c
  <1>5. /\ c \o b \in Seq(S)
        /\ Len(c \o b) = Len(c) + Len(b)
        /\ \A k \in 1..Len(c) + Len(b) :
              (c \o b)[k] = IF k <= Len(c) THEN c[k] ELSE b[k - Len(c)]
    BY <1>2, <1>3, ConcatProperties
  <1> QED  BY <1>0, <1>2, <1>3, <1>4, <1>5

-----------------------------------------------------------------------------
(***************************************************************************)
(* Three edits of a block sequence: one block is replaced, removed or      *)
(* inserted.  Joining and splitting blocks are combinations of them.       *)
(***************************************************************************)
Vals(b) == b.start..b.end
PutBlock(s, i, b) == [s EXCEPT ![i] = b]
PutStart(s, i, v) == [s EXCEPT ![i].start = v]
PutEnd(s, i, v) == [s EXCEPT ![i].end = v]

LEMMA BlockType ==
    ASSUME NEW s \in Seq(Interval)
    PROVE  /\ Len(s) \in Nat /\ DOMAIN s = 1..Len(s)
           /\ \A k \in 1..Len(s) : s[k] \in Interval
           /\ \A k \in 1..Len(s) : s[k].start \in Int /\ s[k].end \in Int
           /\ \A k \in 1..Len(s) : Vals(s[k]) \subseteq Value
  <1>1. /\ Len(s) \in Nat /\ DOMAIN s = 1..Len(s)
        /\ \A k \in 1..Len(s) : s[k] \in Interval
    BY LenProperties
  <1>2. \A b \in Interval : /\ b.start \in Int /\ b.end \in Int
                             /\ Vals(b) \subseteq Value
    BY ValueAssumption DEF Interval, Value, Vals
  <1> QED  BY <1>1, <1>2

LEMMA CoveredIff ==
    ASSUME NEW s \in Seq(Interval), NEW w
    PROVE  w \in Covered(s) <=> \E k \in 1..Len(s) : w \in Vals(s[k])
  <1>1. /\ DOMAIN s = 1..Len(s)
        /\ \A k \in 1..Len(s) : Vals(s[k]) \subseteq Value
    BY BlockType
  <1>2. Covered(s) = {x \in Value : \E k \in 1..Len(s) : x \in Vals(s[k])}
    BY <1>1 DEF Covered, Vals
  <1> QED  BY <1>1, <1>2

LEMMA Ordered ==
    ASSUME NEW s \in Seq(Interval), Separate(s),
           NEW j \in 1..Len(s), NEW k \in 1..Len(s), j <= k
    PROVE  /\ s[j].start \in Int /\ s[j].end \in Int
           /\ s[k].start \in Int /\ s[k].end \in Int
           /\ s[j].start <= s[j].end /\ s[k].start <= s[k].end
           /\ s[j].start <= s[k].start /\ s[j].end <= s[k].end
           /\ j # k => s[j].end + 1 < s[k].start
  <1>1. /\ s[j].start \in Int /\ s[j].end \in Int
        /\ s[k].start \in Int /\ s[k].end \in Int
        /\ Len(s) \in Nat
    BY BlockType
  <1>2. /\ s[j].start <= s[j].end /\ s[k].start <= s[k].end
        /\ j < k => s[j].end + 1 < s[k].start
    BY BlockType DEF Separate
  <1>3. j = k \/ j < k
    BY <1>1
  <1> QED  BY <1>1, <1>2, <1>3

LEMMA BlocksDisjoint ==
    ASSUME NEW s \in Seq(Interval), Separate(s),
           NEW j \in 1..Len(s), NEW k \in 1..Len(s), j # k
    PROVE  Vals(s[j]) \cap Vals(s[k]) = {}
  <1>1. j <= k \/ k <= j
    BY BlockType
  <1>2. CASE j <= k
    <2>1. /\ s[j].end \in Int /\ s[k].start \in Int
          /\ s[j].end + 1 < s[k].start
      BY <1>2, Ordered
    <2> QED  BY <2>1 DEF Vals
  <1>3. CASE k <= j
    <2>1. /\ s[k].end \in Int /\ s[j].start \in Int
          /\ s[k].end + 1 < s[j].start
      BY <1>3, Ordered
    <2> QED  BY <2>1 DEF Vals
  <1> QED  BY <1>1, <1>2, <1>3

LEMMA ReplaceBlock ==
    ASSUME NEW s \in Seq(Interval), NEW i \in 1..Len(s), Separate(s),
           NEW b \in Interval, b.start <= b.end,
           i # 1 => s[i - 1].end + 1 < b.start,
           i # Len(s) => b.end + 1 < s[i + 1].start
    PROVE  LET t == PutBlock(s, i, b) IN
           /\ t \in Seq(Interval) /\ Len(t) = Len(s)
           /\ \A k \in 1..Len(s) : t[k] = IF k = i THEN b ELSE s[k]
           /\ Separate(t)
           /\ Covered(t) = (Covered(s) \ Vals(s[i])) \cup Vals(b)
  <1> DEFINE t == PutBlock(s, i, b)
  <1>1. /\ t \in Seq(Interval) /\ Len(t) = Len(s)
        /\ \A k \in 1..Len(s) : t[k] = IF k = i THEN b ELSE s[k]
    BY ExceptSeq DEF PutBlock
  <1> HIDE DEF t
  <1>2. b.start \in Int /\ b.end \in Int
    BY ValueAssumption DEF Interval, Value
  <1>3. Separate(t)
    <2>1. /\ DOMAIN t = 1..Len(s)
          /\ \A k \in 1..Len(s) : t[k].start <= t[k].end
      BY <1>1, BlockType DEF Separate
    <2>2. ASSUME NEW k \in 1..Len(s), NEW j \in 1..Len(s), k < j
          PROVE  t[k].end + 1 < t[j].start
      <3>1. CASE k # i /\ j # i
        BY <1>1, <2>2, <3>1, BlockType DEF Separate
      <3>2. CASE j = i
        <4>1. s[i - 1].end + 1 < b.start /\ i - 1 \in 1..Len(s)
          BY <2>2, <3>2, BlockType
        <4>2. k <= i - 1
          BY <2>2, <3>2, BlockType
        <4>3. /\ s[k].end <= s[i - 1].end
              /\ s[k].end \in Int /\ s[i - 1].end \in Int
          BY <4>1, <4>2, Ordered
        <4>4. t[k] = s[k] /\ t[j] = b
          BY <1>1, <2>2, <3>2
        <4> QED  BY <1>2, <4>1, <4>3, <4>4
      <3>3. CASE k = i
        <4>1. b.end + 1 < s[i + 1].start /\ i + 1 \in 1..Len(s)
          BY <2>2, <3>3, BlockType
        <4>2. i + 1 <= j
          BY <2>2, <3>3, BlockType
        <4>3. /\ s[i + 1].start <= s[j].start
              /\ s[i + 1].start \in Int /\ s[j].start \in Int
          BY <4>1, <4>2, Ordered
        <4>4. t[k] = b /\ t[j] = s[j]
          BY <1>1, <2>2, <3>3
        <4> QED  BY <1>2, <4>1, <4>3, <4>4
      <3> QED  BY <3>1, <3>2, <3>3
    <2> QED  BY <2>1, <2>2 DEF Separate
  <1>4. ASSUME NEW w
        PROVE  w \in Covered(t)
               <=> w \in (Covered(s) \ Vals(s[i])) \cup Vals(b)
    <2>1. w \in Covered(t) <=> \E k \in 1..Len(s) : w \in Vals(t[k])
      BY <1>1, CoveredIff
    <2>2. w \in Covered(s) <=> \E k \in 1..Len(s) : w \in Vals(s[k])
      BY CoveredIff
    <2>3. \A k \in 1..Len(s) : k # i => Vals(s[k]) \cap Vals(s[i]) = {}
      BY BlocksDisjoint
    <2> QED  BY <1>1, <2>1, <2>2, <2>3
  <1> QED  BY <1>1, <1>3, <1>4 DEF t

LEMMA RemoveBlock ==
    ASSUME NEW s \in Seq(Interval), NEW i \in 1..Len(s), Separate(s)
    PROVE  LET t == RemoveAt(s, i) IN
           /\ t \in Seq(Interval) /\ Len(t) = Len(s) - 1
           /\ \A k \in 1..Len(s) - 1 :
                 t[k] = IF k < i THEN s[k] ELSE s[k + 1]
           /\ Separate(t)
           /\ Covered(t) = Covered(s) \ Vals(s[i])
  <1> DEFINE t == RemoveAt(s, i)
  <1>1. /\ t \in Seq(Interval) /\ Len(t) = Len(s) - 1
        /\ \A k \in 1..Len(s) - 1 :
              t[k] = IF k < i THEN s[k] ELSE s[k + 1]
    BY RemoveAtProperties
  <1> HIDE DEF t
  <1>0. Len(s) \in Nat /\ DOMAIN t = 1..Len(s) - 1
    BY <1>1, BlockType
  <1> DEFINE at(k) == IF k < i THEN k ELSE k + 1
  <1>2. \A k \in 1..Len(s) - 1 : at(k) \in 1..Len(s) /\ t[k] = s[at(k)]
    BY <1>0, <1>1
  <1>3. Separate(t)
    <2>1. ASSUME NEW k \in 1..Len(s) - 1
          PROVE  t[k].start <= t[k].end
      <3>1. at(k) \in 1..Len(s) /\ at(k) <= at(k)
        BY <1>0, <1>2
      <3> QED  BY <1>2, <3>1, Ordered
    <2>2. ASSUME NEW k \in 1..Len(s) - 1, NEW j \in 1..Len(s) - 1, k < j
          PROVE  t[k].end + 1 < t[j].start
      <3>1. /\ at(k) \in 1..Len(s) /\ at(j) \in 1..Len(s)
            /\ at(k) <= at(j) /\ at(k) # at(j)
        BY <1>0, <2>2
      <3> QED  BY <1>2, <3>1, Ordered
    <2> QED  BY <1>0, <2>1, <2>2 DEF Separate
  <1>4. ASSUME NEW w
        PROVE  w \in Covered(t) <=> w \in Covered(s) \ Vals(s[i])
    <2>1. w \in Covered(t) <=> \E k \in 1..Len(s) - 1 : w \in Vals(t[k])
      BY <1>1, CoveredIff
    <2>2. w \in Covered(s) <=> \E k \in 1..Len(s) : w \in Vals(s[k])
      BY CoveredIff
    <2>3. \A k \in 1..Len(s) : k # i => Vals(s[k]) \cap Vals(s[i]) = {}
      BY BlocksDisjoint
    <2>4. \A k \in 1..Len(s) - 1 : at(k) # i
      BY <1>0
    <2>5. ASSUME NEW k \in 1..Len(s), k # i
          PROVE  \E j \in 1..Len(s) - 1 : at(j) = k
      <3>1. CASE k < i
        BY <1>0, <3>1
      <3>2. CASE k > i
        <4>1. k - 1 \in 1..Len(s) - 1 /\ at(k - 1) = k
          BY <1>0, <3>2
        <4> QED  BY <4>1
      <3>3. k < i \/ k > i
        BY <1>0, <2>5
      <3> QED  BY <3>1, <3>2, <3>3
    <2> HIDE DEF at
    <2> QED  BY <1>2, <2>1, <2>2, <2>3, <2>4, <2>5
  <1> QED  BY <1>1, <1>3, <1>4 DEF t

LEMMA InsertBlock ==
    ASSUME NEW s \in Seq(Interval), NEW i \in 1..Len(s) + 1, Separate(s),
           NEW a \in Value, NEW z \in Value, a <= z,
           i # 1 => s[i - 1].end + 1 < a,
           i # Len(s) + 1 => z + 1 < s[i].start
    PROVE  LET t == New_Block(s, i, a, z) IN
           /\ t \in Seq(Interval) /\ Len(t) = Len(s) + 1
           /\ Separate(t)
           /\ Covered(t) = Covered(s) \cup a..z
  <1> DEFINE t == New_Block(s, i, a, z)
             b == Block(a, z)
             at(k) == IF k < i THEN k ELSE k - 1
  <1>0. Len(s) \in Nat
    BY BlockType
  <1>1. /\ b \in Interval /\ b.start = a /\ b.end = z
        /\ a \in Int /\ z \in Int /\ Vals(b) = a..z
    BY ValueAssumption DEF Interval, Block, Value, Vals
  <1> HIDE DEF b
  <1>2. /\ t \in Seq(Interval) /\ Len(t) = Len(s) + 1
        /\ t[i] = b
        /\ \A k \in 1..Len(s) + 1 : k # i => t[k] = s[at(k)]
    <2>1. t = InsertAt(s, i, b)
      BY DEF New_Block, b
    <2> DEFINE u == InsertAt(s, i, b)
    <2>2. b \in Interval
      BY <1>1
    <2>3. /\ u \in Seq(Interval) /\ Len(u) = Len(s) + 1
          /\ \A k \in 1..Len(s) + 1 :
                u[k] = IF k < i THEN s[k] ELSE IF k = i THEN b ELSE s[k - 1]
      BY <2>2, InsertAtProperties
    <2>4. t = u
      BY <2>1
    <2> HIDE DEF u
    <2> QED  BY <1>0, <2>3, <2>4
  <1> HIDE DEF t
  <1>3. DOMAIN t = 1..Len(s) + 1
    BY <1>2, BlockType
  <1>4. \A k \in 1..Len(s) + 1 : k # i => at(k) \in 1..Len(s)
    BY <1>0
  <1>5. Separate(t)
    <2>1. ASSUME NEW k \in 1..Len(s) + 1
          PROVE  t[k].start <= t[k].end
      <3>1. CASE k = i
        BY <1>1, <1>2, <3>1
      <3>2. CASE k # i
        <4>1. at(k) \in 1..Len(s) /\ at(k) <= at(k)
          BY <1>0, <1>4, <3>2
        <4> QED  BY <1>2, <3>2, <4>1, Ordered
      <3> QED  BY <3>1, <3>2
    <2>2. ASSUME NEW k \in 1..Len(s) + 1, NEW j \in 1..Len(s) + 1, k < j
          PROVE  t[k].end + 1 < t[j].start
      <3>1. CASE k # i /\ j # i
        <4>1. /\ at(k) \in 1..Len(s) /\ at(j) \in 1..Len(s)
              /\ at(k) <= at(j) /\ at(k) # at(j)
          BY <1>0, <2>2, <3>1
        <4>2. s[at(k)].end + 1 < s[at(j)].start
          BY <4>1, Ordered
        <4> QED  BY <1>2, <3>1, <4>2
      <3>2. CASE j = i
        <4>1. /\ s[i - 1].end + 1 < a /\ k # i /\ at(k) = k
              /\ k \in 1..Len(s) /\ i - 1 \in 1..Len(s) /\ k <= i - 1
          BY <1>0, <2>2, <3>2
        <4>2. /\ s[k].end <= s[i - 1].end
              /\ s[k].end \in Int /\ s[i - 1].end \in Int
          BY <4>1, Ordered
        <4>3. t[k] = s[k] /\ t[j] = b
          BY <1>2, <3>2, <4>1
        <4> QED  BY <1>1, <4>1, <4>2, <4>3
      <3>3. CASE k = i
        <4>1. /\ z + 1 < s[i].start /\ j # i /\ at(j) = j - 1
              /\ j - 1 \in 1..Len(s) /\ i \in 1..Len(s) /\ i <= j - 1
          BY <1>0, <2>2, <3>3
        <4>2. /\ s[i].start <= s[j - 1].start
              /\ s[i].start \in Int /\ s[j - 1].start \in Int
          BY <4>1, Ordered
        <4>3. t[k] = b /\ t[j] = s[j - 1]
          BY <1>2, <3>3, <4>1
        <4> QED  BY <1>1, <4>1, <4>2, <4>3
      <3> QED  BY <3>1, <3>2, <3>3
    <2> QED  BY <1>3, <2>1, <2>2 DEF Separate
  <1>6. ASSUME NEW w
        PROVE  w \in Covered(t) <=> w \in Covered(s) \cup a..z
    <2>1. w \in Covered(t) <=> \E k \in 1..Len(s) + 1 : w \in Vals(t[k])
      BY <1>2, CoveredIff
    <2>2. w \in Covered(s) <=> \E k \in 1..Len(s) : w \in Vals(s[k])
      BY CoveredIff
    <2>3. ASSUME NEW k \in 1..Len(s)
          PROVE  \E j \in 1..Len(s) + 1 : j # i /\ at(j) = k
      <3>1. CASE k < i
        BY <1>0, <3>1
      <3>2. CASE k >= i
        <4>1. k + 1 \in 1..Len(s) + 1 /\ k + 1 # i /\ at(k + 1) = k
          BY <1>0, <3>2
        <4> QED  BY <4>1
      <3>3. k < i \/ k >= i
        BY <1>0
      <3> QED  BY <3>1, <3>2, <3>3
    <2>4. i \in 1..Len(s) + 1
      OBVIOUS
    <2> HIDE DEF at
    <2> QED  BY <1>1, <1>2, <1>4, <2>1, <2>2, <2>3, <2>4
  <1> QED  BY <1>2, <1>5, <1>6 DEF t

-----------------------------------------------------------------------------
(***************************************************************************)
(* The edits that Add_Used and Del_From_Range make.                        *)
(***************************************************************************)
LEMMA SetEnd ==
    ASSUME NEW s \in Seq(Interval), NEW i \in 1..Len(s), Separate(s),
           NEW v \in Value, s[i].start <= v,
           i # Len(s) => v + 1 < s[i + 1].start
    PROVE  LET t == PutEnd(s, i, v) IN
           /\ t \in Seq(Interval) /\ Len(t) = Len(s)
           /\ \A k \in 1..Len(s) :
                 t[k] = IF k = i THEN Block(s[i].start, v) ELSE s[k]
           /\ Separate(t)
           /\ Covered(t) = (Covered(s) \ Vals(s[i])) \cup s[i].start..v
  <1> DEFINE t == PutEnd(s, i, v)
             b == Block(s[i].start, v)
  <1>1. /\ s[i] \in Interval /\ Len(s) \in Nat
        /\ s[i].start \in Int /\ s[i].end \in Int /\ v \in Int
    BY BlockType, ValueAssumption DEF Value
  <1>2. [s[i] EXCEPT !.end = v] = b
    BY <1>1 DEF Interval, Block
  <1>3. t = PutBlock(s, i, b)
    BY <1>2 DEF PutBlock, PutStart, PutEnd
  <1>4. b \in Interval
    BY <1>1 DEF Interval, Block
  <1>5. b.start = s[i].start /\ b.end = v /\ Vals(b) = s[i].start..v
    BY DEF Block, Vals
  <1> HIDE DEF b
  <1>6. i # 1 => s[i - 1].end + 1 < b.start
    <2>1. i # 1 => i - 1 \in 1..Len(s) /\ i - 1 <= i /\ i - 1 # i
      BY <1>1
    <2> QED  BY <1>5, <2>1, Ordered
  <1>7. i # Len(s) => b.end + 1 < s[i + 1].start
    <2>1. i # Len(s) => i + 1 \in 1..Len(s) /\ i <= i + 1 /\ i # i + 1
      BY <1>1
    <2> QED  BY <1>5, <2>1, Ordered
  <1>8. b.start <= b.end
    BY <1>5
  <1> DEFINE u == PutBlock(s, i, b)
  <1>9. /\ u \in Seq(Interval) /\ Len(u) = Len(s)
        /\ \A k \in 1..Len(s) : u[k] = IF k = i THEN b ELSE s[k]
        /\ Separate(u)
        /\ Covered(u) = (Covered(s) \ Vals(s[i])) \cup Vals(b)
    BY <1>4, <1>6, <1>7, <1>8, ReplaceBlock, SMTT(30)
  <1> HIDE DEF t, u
  <1>10. t = u
    BY <1>3 DEF u
  <1> QED  BY <1>5, <1>9, <1>10 DEF b, t

LEMMA SetStart ==
    ASSUME NEW s \in Seq(Interval), NEW i \in 1..Len(s), Separate(s),
           NEW v \in Value, v <= s[i].end,
           i # 1 => s[i - 1].end + 1 < v
    PROVE  LET t == PutStart(s, i, v) IN
           /\ t \in Seq(Interval) /\ Len(t) = Len(s)
           /\ \A k \in 1..Len(s) :
                 t[k] = IF k = i THEN Block(v, s[i].end) ELSE s[k]
           /\ Separate(t)
           /\ Covered(t) = (Covered(s) \ Vals(s[i])) \cup v..s[i].end
  <1> DEFINE t == PutStart(s, i, v)
             b == Block(v, s[i].end)
  <1>1. /\ s[i] \in Interval /\ Len(s) \in Nat
        /\ s[i].start \in Int /\ s[i].end \in Int /\ v \in Int
    BY BlockType, ValueAssumption DEF Value
  <1>2. [s[i] EXCEPT !.start = v] = b
    BY <1>1 DEF Interval, Block
  <1>3. t = PutBlock(s, i, b)
    BY <1>2 DEF PutBlock, PutStart, PutEnd
  <1>4. b \in Interval
    BY <1>1 DEF Interval, Block
  <1>5. b.start = v /\ b.end = s[i].end /\ Vals(b) = v..s[i].end
    BY DEF Block, Vals
  <1> HIDE DEF b
  <1>6. i # 1 => s[i - 1].end + 1 < b.start
    <2>1. i # 1 => i - 1 \in 1..Len(s) /\ i - 1 <= i /\ i - 1 # i
      BY <1>1
    <2> QED  BY <1>5, <2>1, Ordered
  <1>7. i # Len(s) => b.end + 1 < s[i + 1].start
    <2>1. i # Len(s) => i + 1 \in 1..Len(s) /\ i <= i + 1 /\ i # i + 1
      BY <1>1
    <2> QED  BY <1>5, <2>1, Ordered
  <1>8. b.start <= b.end
    BY <1>5
  <1> DEFINE u == PutBlock(s, i, b)
  <1>9. /\ u \in Seq(Interval) /\ Len(u) = Len(s)
        /\ \A k \in 1..Len(s) : u[k] = IF k = i THEN b ELSE s[k]
        /\ Separate(u)
        /\ Covered(u) = (Covered(s) \ Vals(s[i])) \cup Vals(b)
    BY <1>4, <1>6, <1>7, <1>8, ReplaceBlock, SMTT(30)
  <1> HIDE DEF t, u
  <1>10. t = u
    BY <1>3 DEF u
  <1> QED  BY <1>5, <1>9, <1>10 DEF b, t

LEMMA MergeBlocks ==
    ASSUME NEW s \in Seq(Interval), NEW i \in 1..Len(s), NEW j \in 1..Len(s),
           j = i + 1, Separate(s),
           NEW v \in Value, v = s[i].end + 1, v = s[j].start - 1
    PROVE  LET t == PutEnd(RemoveAt(s, j), i, s[j].end) IN
           /\ t \in Seq(Interval) /\ Len(t) = Len(s) - 1
           /\ \A k \in 1..Len(s) - 1 :
                 t[k] = IF k < i THEN s[k]
                        ELSE IF k = i THEN Block(s[i].start, s[j].end)
                        ELSE s[k + 1]
           /\ Separate(t) /\ Covered(t) = Covered(s) \cup {v}
  <1> DEFINE r == RemoveAt(s, j)
             e == s[j].end
             t == PutEnd(r, i, e)
  <1>0. Len(s) \in Nat /\ i <= j /\ i # j
    BY BlockType
  <1>1. /\ r \in Seq(Interval) /\ Len(r) = Len(s) - 1
        /\ \A k \in 1..Len(s) - 1 : r[k] = IF k < j THEN s[k] ELSE s[k + 1]
        /\ Separate(r)
        /\ Covered(r) = Covered(s) \ Vals(s[j])
    BY RemoveBlock
  <1> HIDE DEF r
  <1>2. /\ s[i].start \in Int /\ s[i].end \in Int
        /\ s[j].start \in Int /\ s[j].end \in Int
        /\ s[i].start <= s[i].end /\ s[j].start <= s[j].end
        /\ s[i].end <= s[j].end
    BY <1>0, Ordered
  <1>3. r[i] = s[i] /\ i \in 1..Len(r) /\ e \in Value
    <2>1. s[j] \in Interval
      BY BlockType
    <2> QED  BY <1>0, <1>1, <2>1 DEF Interval
  <1>4. i # Len(r) => e + 1 < r[i + 1].start
    <2> SUFFICES ASSUME i # Len(r) PROVE e + 1 < r[i + 1].start
      OBVIOUS
    <2>1. j + 1 \in 1..Len(s) /\ j <= j + 1 /\ j # j + 1
      BY <1>0, <1>1
    <2>2. r[i + 1] = s[j + 1]
      <3>1. i + 1 \in 1..Len(s) - 1 /\ ~(i + 1 < j) /\ i + 1 + 1 = j + 1
        BY <1>0, <1>1, <2>1
      <3> QED  BY <1>1, <3>1
    <2> QED  BY <2>1, <2>2, Ordered
  <1>5. r[i].start <= e
    BY <1>2, <1>3
  <1> HIDE DEF e
  <1>6. r \in Seq(Interval) /\ Separate(r) /\ i \in 1..Len(r) /\ e \in Value
    BY <1>1, <1>3
  <1>7. /\ t \in Seq(Interval) /\ Len(t) = Len(r)
        /\ \A k \in 1..Len(r) :
              t[k] = IF k = i THEN Block(r[i].start, e) ELSE r[k]
        /\ Separate(t)
        /\ Covered(t) = (Covered(r) \ Vals(r[i])) \cup r[i].start..e
    BY <1>4, <1>5, <1>6, SetEnd
  <1> HIDE DEF t
  <1>8. s[i].start..e = (Vals(s[i]) \cup Vals(s[j])) \cup {v}
    <2> DEFINE a == s[i].start
               b == s[i].end
               c == s[j].start
    <2>1. /\ a \in Int /\ b \in Int /\ c \in Int /\ e \in Int
          /\ a <= b /\ c <= e /\ v = b + 1 /\ v = c - 1
      BY <1>2 DEF e
    <2> HIDE DEF a, b, c
    <2>2. a..e = (a..b \cup c..e) \cup {v}
      BY <2>1
    <2> QED  BY <2>2 DEF Vals, a, b, c, e
  <1>9. Vals(s[i]) \subseteq Covered(s) /\ Vals(s[j]) \subseteq Covered(s)
    BY CoveredIff
  <1>10. Covered(t) = ((Covered(s) \ Vals(s[j])) \ Vals(s[i]))
                      \cup ((Vals(s[i]) \cup Vals(s[j])) \cup {v})
    BY <1>1, <1>3, <1>7, <1>8
  <1>11. Covered(t) = Covered(s) \cup {v}
    BY <1>9, <1>10
  <1>12. \A k \in 1..Len(s) - 1 :
            t[k] = IF k < i THEN s[k]
                   ELSE IF k = i THEN Block(s[i].start, s[j].end)
                   ELSE s[k + 1]
    BY <1>0, <1>1, <1>3, <1>7 DEF e
  <1> QED  BY <1>1, <1>7, <1>11, <1>12 DEF t, r, e

LEMMA MergeDown ==
    ASSUME NEW s \in Seq(Interval), NEW i \in 1..Len(s), NEW j \in 1..Len(s),
           j = i + 1, Separate(s),
           NEW v \in Value, v = s[i].end + 1, v = s[j].start - 1
    PROVE  LET t == RemoveAt(PutEnd(s, i, s[j].end), j) IN
           t \in Seq(Interval) /\ Separate(t) /\ Covered(t) = Covered(s) \cup {v}
  <1> DEFINE b == Block(s[i].start, s[j].end)
             u == PutEnd(s, i, s[j].end)
             t == RemoveAt(u, j)
             m == PutEnd(RemoveAt(s, j), i, s[j].end)
  <1>1. Len(s) \in Nat /\ s[i] \in Interval /\ s[j] \in Interval
    BY BlockType
  <1>2. b \in Interval /\ [s[i] EXCEPT !.end = s[j].end] = b
    BY <1>1 DEF Interval, Block
  <1>3. u = [s EXCEPT ![i] = b]
    BY <1>2 DEF PutEnd
  <1>4. /\ m \in Seq(Interval) /\ Len(m) = Len(s) - 1
        /\ \A k \in 1..Len(s) - 1 :
              m[k] = IF k < i THEN s[k] ELSE IF k = i THEN b ELSE s[k + 1]
        /\ Separate(m) /\ Covered(m) = Covered(s) \cup {v}
    BY MergeBlocks
  <1> HIDE DEF b, u, m
  <1>5. /\ u \in Seq(Interval) /\ Len(u) = Len(s)
        /\ \A k \in 1..Len(s) : u[k] = IF k = i THEN b ELSE s[k]
    BY <1>2, <1>3, ExceptSeq
  <1>6. /\ t \in Seq(Interval) /\ Len(t) = Len(s) - 1
        /\ \A k \in 1..Len(s) - 1 : t[k] = IF k < j THEN u[k] ELSE u[k + 1]
    BY <1>5, RemoveAtProperties
  <1> HIDE DEF t
  <1>7. ASSUME NEW k \in 1..Len(s) - 1
        PROVE  t[k] = m[k]
    <2>1. k \in 1..Len(s) /\ k + 1 \in 1..Len(s)
      BY <1>1
    <2> QED  BY <1>1, <1>4, <1>5, <1>6, <2>1
  <1>8. t = m
    BY <1>4, <1>6, <1>7, SeqEqual
  <1> QED  BY <1>4, <1>8 DEF t, u

LEMMA MergeUp ==
    ASSUME NEW s \in Seq(Interval), NEW i \in 1..Len(s), NEW j \in 1..Len(s),
           j = i + 1, Separate(s),
           NEW v \in Value, v = s[i].end + 1, v = s[j].start - 1
    PROVE  LET t == RemoveAt(PutStart(s, j, s[i].start), i) IN
           t \in Seq(Interval) /\ Separate(t) /\ Covered(t) = Covered(s) \cup {v}
  <1> DEFINE b == Block(s[i].start, s[j].end)
             u == PutStart(s, j, s[i].start)
             t == RemoveAt(u, i)
             m == PutEnd(RemoveAt(s, j), i, s[j].end)
  <1>1. Len(s) \in Nat /\ s[i] \in Interval /\ s[j] \in Interval
    BY BlockType
  <1>2. b \in Interval /\ [s[j] EXCEPT !.start = s[i].start] = b
    BY <1>1 DEF Interval, Block
  <1>3. u = [s EXCEPT ![j] = b]
    BY <1>2 DEF PutStart
  <1>4. /\ m \in Seq(Interval) /\ Len(m) = Len(s) - 1
        /\ \A k \in 1..Len(s) - 1 :
              m[k] = IF k < i THEN s[k] ELSE IF k = i THEN b ELSE s[k + 1]
        /\ Separate(m) /\ Covered(m) = Covered(s) \cup {v}
    BY MergeBlocks
  <1> HIDE DEF b, u, m
  <1>5. /\ u \in Seq(Interval) /\ Len(u) = Len(s)
        /\ \A k \in 1..Len(s) : u[k] = IF k = j THEN b ELSE s[k]
    BY <1>2, <1>3, ExceptSeq
  <1>6. /\ t \in Seq(Interval) /\ Len(t) = Len(s) - 1
        /\ \A k \in 1..Len(s) - 1 : t[k] = IF k < i THEN u[k] ELSE u[k + 1]
    BY <1>5, RemoveAtProperties
  <1> HIDE DEF t
  <1>7. ASSUME NEW k \in 1..Len(s) - 1
        PROVE  t[k] = m[k]
    <2>1. k \in 1..Len(s) /\ k + 1 \in 1..Len(s)
      BY <1>1
    <2> QED  BY <1>1, <1>4, <1>5, <1>6, <2>1
  <1>8. t = m
    BY <1>4, <1>6, <1>7, SeqEqual
  <1> QED  BY <1>4, <1>8 DEF t, u

LEMMA GrowEnd ==
    ASSUME NEW s \in Seq(Interval), NEW i \in 1..Len(s), Separate(s),
           NEW v \in Value, v = s[i].end + 1,
           i # Len(s) => v + 1 < s[i + 1].start
    PROVE  LET t == PutEnd(s, i, v) IN
           t \in Seq(Interval) /\ Separate(t) /\ Covered(t) = Covered(s) \cup {v}
  <1> DEFINE t == PutEnd(s, i, v)
  <1>1. /\ s[i].start \in Int /\ s[i].end \in Int /\ v \in Int
        /\ s[i].start <= s[i].end /\ s[i].start <= v
    <2>1. i <= i
      BY BlockType
    <2> QED  BY <2>1, Ordered, ValueAssumption DEF Value
  <1>2. /\ t \in Seq(Interval) /\ Separate(t)
        /\ Covered(t) = (Covered(s) \ Vals(s[i])) \cup s[i].start..v
    BY <1>1, SetEnd
  <1> HIDE DEF t
  <1>3. s[i].start..v = Vals(s[i]) \cup {v}
    BY <1>1 DEF Vals
  <1>4. Vals(s[i]) \subseteq Covered(s)
    BY CoveredIff
  <1> QED  BY <1>2, <1>3, <1>4 DEF t

LEMMA GrowStart ==
    ASSUME NEW s \in Seq(Interval), NEW i \in 1..Len(s), Separate(s),
           NEW v \in Value, v = s[i].start - 1,
           i # 1 => s[i - 1].end + 1 < v
    PROVE  LET t == PutStart(s, i, v) IN
           t \in Seq(Interval) /\ Separate(t) /\ Covered(t) = Covered(s) \cup {v}
  <1> DEFINE t == PutStart(s, i, v)
  <1>1. /\ s[i].start \in Int /\ s[i].end \in Int /\ v \in Int
        /\ s[i].start <= s[i].end /\ v <= s[i].end
    <2>1. i <= i
      BY BlockType
    <2> QED  BY <2>1, Ordered, ValueAssumption DEF Value
  <1>2. /\ t \in Seq(Interval) /\ Separate(t)
        /\ Covered(t) = (Covered(s) \ Vals(s[i])) \cup v..s[i].end
    BY <1>1, SetStart
  <1> HIDE DEF t
  <1>3. v..s[i].end = Vals(s[i]) \cup {v}
    BY <1>1 DEF Vals
  <1>4. Vals(s[i]) \subseteq Covered(s)
    BY CoveredIff
  <1> QED  BY <1>2, <1>3, <1>4 DEF t

LEMMA LoneBlock ==
    ASSUME NEW s \in Seq(Interval), NEW i \in 1..Len(s) + 1, Separate(s),
           NEW v \in Value,
           i # 1 => s[i - 1].end + 1 < v,
           i # Len(s) + 1 => v + 1 < s[i].start
    PROVE  LET t == New_Block(s, i, v, v) IN
           t \in Seq(Interval) /\ Separate(t) /\ Covered(t) = Covered(s) \cup {v}
  <1> DEFINE t == New_Block(s, i, v, v)
  <1>1. v \in Int /\ v <= v
    BY ValueAssumption DEF Value
  <1>2. /\ t \in Seq(Interval) /\ Separate(t)
        /\ Covered(t) = Covered(s) \cup v..v
    BY <1>1, InsertBlock
  <1> HIDE DEF t
  <1>3. v..v = {v}
    BY <1>1
  <1> QED  BY <1>2, <1>3 DEF t

LEMMA ShrinkEnd ==
    ASSUME NEW s \in Seq(Interval), NEW i \in 1..Len(s), Separate(s),
           NEW v, v = s[i].end, s[i].start < v
    PROVE  LET t == PutEnd(s, i, v - 1) IN
           t \in Seq(Interval) /\ Separate(t) /\ Covered(t) = Covered(s) \ {v}
  <1> DEFINE w == v - 1
             t == PutEnd(s, i, w)
  <1>1. /\ s[i].start \in Int /\ v \in Int /\ s[i].start <= w /\ w \in Value
    <2>1. s[i] \in Interval
      BY BlockType
    <2> QED  BY <2>1, ValueAssumption DEF Interval, Value
  <1>2. i # Len(s) => w + 1 < s[i + 1].start
    <2>1. i # Len(s) => i + 1 \in 1..Len(s) /\ i <= i + 1 /\ i # i + 1
      BY BlockType
    <2> QED  BY <1>1, <2>1, Ordered
  <1>3. s[i].start..w = Vals(s[i]) \ {v}
    BY <1>1 DEF Vals
  <1> HIDE DEF w
  <1>4. /\ t \in Seq(Interval) /\ Separate(t)
        /\ Covered(t) = (Covered(s) \ Vals(s[i])) \cup s[i].start..w
    BY <1>1, <1>2, SetEnd
  <1> HIDE DEF t
  <1>5. Vals(s[i]) \subseteq Covered(s) /\ v \in Vals(s[i])
    BY <1>1, CoveredIff DEF Vals
  <1>6. Covered(t) = Covered(s) \ {v}
    BY <1>3, <1>4, <1>5
  <1> QED  BY <1>4, <1>6 DEF t, w

LEMMA ShrinkStart ==
    ASSUME NEW s \in Seq(Interval), NEW i \in 1..Len(s), Separate(s),
           NEW v, v = s[i].start, v < s[i].end
    PROVE  LET t == PutStart(s, i, v + 1) IN
           t \in Seq(Interval) /\ Separate(t) /\ Covered(t) = Covered(s) \ {v}
  <1> DEFINE w == v + 1
             t == PutStart(s, i, w)
  <1>1. /\ s[i].end \in Int /\ v \in Int /\ w <= s[i].end /\ w \in Value
    <2>1. s[i] \in Interval
      BY BlockType
    <2> QED  BY <2>1, ValueAssumption DEF Interval, Value
  <1>2. i # 1 => s[i - 1].end + 1 < w
    <2>1. i # 1 => i - 1 \in 1..Len(s) /\ i - 1 <= i /\ i - 1 # i
      BY BlockType
    <2> QED  BY <1>1, <2>1, Ordered
  <1>3. w..s[i].end = Vals(s[i]) \ {v}
    BY <1>1 DEF Vals
  <1> HIDE DEF w
  <1>4. /\ t \in Seq(Interval) /\ Separate(t)
        /\ Covered(t) = (Covered(s) \ Vals(s[i])) \cup w..s[i].end
    BY <1>1, <1>2, SetStart
  <1> HIDE DEF t
  <1>5. Vals(s[i]) \subseteq Covered(s) /\ v \in Vals(s[i])
    BY <1>1, CoveredIff DEF Vals
  <1>6. Covered(t) = Covered(s) \ {v}
    BY <1>3, <1>4, <1>5
  <1> QED  BY <1>4, <1>6 DEF t, w

LEMMA InsertAfter ==
    ASSUME NEW s \in Seq(Interval), NEW i \in 1..Len(s), Separate(s),
           NEW a \in Value, NEW z \in Value, a <= z, s[i].end + 1 < a,
           i # Len(s) => z + 1 < s[i + 1].start
    PROVE  LET t == New_Block(s, i + 1, a, z) IN
           /\ t \in Seq(Interval) /\ Separate(t)
           /\ Covered(t) = Covered(s) \cup a..z
  <1> DEFINE j == i + 1
  <1>1. j \in 1..Len(s) + 1
    BY BlockType
  <1>2. j # 1 => s[j - 1].end + 1 < a
    BY BlockType
  <1>3. j # Len(s) + 1 => z + 1 < s[j].start
    BY BlockType
  <1> HIDE DEF j
  <1>4. /\ New_Block(s, j, a, z) \in Seq(Interval)
        /\ Separate(New_Block(s, j, a, z))
        /\ Covered(New_Block(s, j, a, z)) = Covered(s) \cup a..z
    BY <1>1, <1>2, <1>3, InsertBlock
  <1> QED  BY <1>4 DEF j

LEMMA SplitBlock ==
    ASSUME NEW s \in Seq(Interval), NEW i \in 1..Len(s), Separate(s),
           NEW v \in Int, s[i].start < v, v < s[i].end
    PROVE  LET t == New_Block(PutEnd(s, i, v - 1), i + 1, v + 1, s[i].end) IN
           t \in Seq(Interval) /\ Separate(t) /\ Covered(t) = Covered(s) \ {v}
  <1> DEFINE w == v - 1
             x == v + 1
             z == s[i].end
             u == PutEnd(s, i, w)
             t == New_Block(u, i + 1, x, z)
  <1>1. /\ s[i].start \in Int /\ z \in Int /\ s[i].start <= w /\ x <= z
        /\ w \in Value /\ x \in Value /\ z \in Value
    <2>1. s[i] \in Interval
      BY BlockType
    <2> QED  BY <2>1, ValueAssumption DEF Interval, Value
  <1>2. i # Len(s) => z + 1 < s[i + 1].start /\ s[i + 1].start \in Int
    <2>1. i # Len(s) => i + 1 \in 1..Len(s) /\ i <= i + 1 /\ i # i + 1
      BY BlockType
    <2> QED  BY <2>1, Ordered
  <1>3. i # Len(s) => w + 1 < s[i + 1].start
    BY <1>1, <1>2
  <1>4. s[i].start..w \cup x..z = Vals(s[i]) \ {v}
    BY <1>1 DEF Vals
  <1> HIDE DEF w
  <1>5. /\ u \in Seq(Interval) /\ Len(u) = Len(s)
        /\ \A k \in 1..Len(s) :
              u[k] = IF k = i THEN Block(s[i].start, w) ELSE s[k]
        /\ Separate(u)
        /\ Covered(u) = (Covered(s) \ Vals(s[i])) \cup s[i].start..w
    BY <1>1, <1>3, SetEnd
  <1> HIDE DEF u, z
  <1>6. i \in 1..Len(u)
    BY <1>5
  <1>7. u[i].end + 1 < x
    BY <1>5 DEF Block, w
  <1>8. i # Len(u) => z + 1 < u[i + 1].start
    <2>1. i # Len(u) => i # Len(s) /\ i + 1 \in 1..Len(s) /\ i + 1 # i
      BY <1>5, BlockType
    <2> QED  BY <1>2, <1>5, <2>1
  <1> HIDE DEF x
  <1>9. u \in Seq(Interval) /\ Separate(u)
    BY <1>5
  <1>10. /\ t \in Seq(Interval) /\ Separate(t)
         /\ Covered(t) = Covered(u) \cup x..z
    BY <1>1, <1>6, <1>7, <1>8, <1>9, InsertAfter
  <1> HIDE DEF t
  <1>11. Vals(s[i]) \subseteq Covered(s) /\ v \in Vals(s[i])
    <2>1. Vals(s[i]) \subseteq Covered(s)
      BY CoveredIff
    <2>2. v \in Vals(s[i])
      BY <1>1 DEF Vals, z
    <2> QED  BY <2>1, <2>2
  <1>12. Covered(t) = Covered(s) \ {v}
    BY <1>4, <1>5, <1>10, <1>11
  <1> QED  BY <1>10, <1>12 DEF t, u, w, x, z

-----------------------------------------------------------------------------
(***************************************************************************)
(* Del_From_Range takes exactly one value out of the blocks.               *)
(***************************************************************************)
LEMMA DeleteValue ==
    ASSUME blocks \in Seq(Interval), Separate(blocks),
           NEW i \in 1..Len(blocks), NEW v \in Vals(blocks[i])
    PROVE  LET t == Del_From_Range(i, v) IN
           /\ t \in Seq(Interval) /\ Separate(t)
           /\ Covered(t) = Covered(blocks) \ {v}
  <1> DEFINE b == blocks[i]
             t == Del_From_Range(i, v)
  <1>1. /\ b \in Interval /\ b.start \in Int /\ b.end \in Int
        /\ v \in Int /\ b.start <= v /\ v <= b.end
    BY BlockType DEF Vals
  <1>0. /\ b = Block(b.start, b.end)
        /\ t = CASE b = Block(v, v) -> RemoveAt(blocks, i)
                 [] v = b.start /\ v < b.end -> PutStart(blocks, i, v + 1)
                 [] v > b.start /\ v = b.end -> PutEnd(blocks, i, v - 1)
                 [] OTHER -> New_Block(PutEnd(blocks, i, v - 1), i + 1,
                                       v + 1, b.end)
    <2>1. b = Block(b.start, b.end)
      BY <1>1 DEF Interval, Block
    <2> QED  BY <2>1, Zenon DEF Del_From_Range, PutStart, PutEnd
  <1> HIDE DEF t
  <1>2. CASE b = Block(v, v)
    <2>1. t = RemoveAt(blocks, i)
      BY <1>0, <1>1, <1>2 DEF Block
    <2>2. Vals(b) = {v}
      BY <1>1, <1>2 DEF Vals, Block
    <2>3. /\ RemoveAt(blocks, i) \in Seq(Interval)
          /\ Separate(RemoveAt(blocks, i))
          /\ Covered(RemoveAt(blocks, i)) = Covered(blocks) \ Vals(b)
      BY RemoveBlock
    <2> QED  BY <2>1, <2>2, <2>3 DEF t
  <1>3. CASE b # Block(v, v) /\ v = b.start
    <2>1. v < b.end
      BY <1>0, <1>1, <1>3
    <2>2. t = PutStart(blocks, i, v + 1)
      BY <1>0, <1>1, <1>3, <2>1
    <2> QED  BY <1>3, <2>1, <2>2, ShrinkStart DEF t
  <1>4. CASE b # Block(v, v) /\ v # b.start /\ v = b.end
    <2>1. b.start < v /\ v > b.start
      BY <1>1, <1>4
    <2>2. t = PutEnd(blocks, i, v - 1)
      BY <1>0, <1>1, <1>4, <2>1
    <2> QED  BY <1>4, <2>1, <2>2, ShrinkEnd DEF t
  <1>5. CASE v # b.start /\ v # b.end
    <2>1. b.start < v /\ v < b.end
      BY <1>1, <1>5
    <2>2. b # Block(v, v)
      BY <1>5 DEF Block
    <2>3. t = New_Block(PutEnd(blocks, i, v - 1), i + 1, v + 1, b.end)
      BY <1>0, <1>1, <1>5, <2>2
    <2> QED  BY <1>1, <2>1, <2>3, SplitBlock DEF t
  <1> QED  BY <1>2, <1>3, <1>4, <1>5

-----------------------------------------------------------------------------

InSearch == /\ search.first \in 1..Len(blocks)
            /\ search.last \in 1..Len(blocks)

DelInv == /\ call.old \in Value
          /\ call.old \notin Used
          /\ Covered(blocks) = Used \cup {call.old}
          /\ InSearch
          /\ \E i \in search.first + 1 .. search.last - 1 :
                call.old \in Vals(blocks[i])

\* Narrowing leaves "start" stale, but never where joining uses it.
AddInv == /\ call.new \in Used
          /\ Covered(blocks) = Used \ {call.new}
          /\ InSearch
          /\ search.first < search.last
          /\ search.left = blocks[search.first].end
          /\ search.right = blocks[search.last].start
          /\ search.left < call.new
          /\ call.new < search.right
          /\ \/ search.start = blocks[search.first].start
             \/ call.new # search.left + 1
             \/ call.new # search.right - 1

CallType == [op : {"idle", "delete", "del_search", "add", "add_search"},
             obj : Obj \cup {Null}, old : Value \cup {Null},
             new : Value \cup {Null}]

SearchType == [first : Nat, last : Nat, start : Value, left : Value,
               right : Value, end : Value]

RInv == /\ TypeOK
        /\ Separate(blocks)
        /\ call.op # "idle" => call.obj \in Obj
        /\ call.op = "delete" => call.old \in Value
        /\ call.op \in {"add", "add_search"} => call.new \in Value
        /\ call.op \in {"idle", "delete", "add"} => Covered(blocks) = Used
        /\ call.op = "del_search" => DelInv
        /\ call.op = "add_search" => AddInv

-----------------------------------------------------------------------------
(***************************************************************************)
(* What the slots say about the values in use.                             *)
(***************************************************************************)
LEMMA UsedAfterAdd ==
    ASSUME TypeOK, NEW v \in Value, NEW o \in Obj \cup {Null},
           items' = [items EXCEPT ![v] = @ \cup {o}]
    PROVE  Used' = Used \cup {v}
  BY DEF TypeOK, Used

LEMMA UsedAfterDelete ==
    ASSUME TypeOK, NEW v \in Value, NEW o \in Obj \cup {Null},
           items' = [items EXCEPT ![v] = @ \ {o}]
    PROVE  /\ items[v] # {o} => Used' = Used
           /\ items[v] = {o} => Used' = Used \ {v} /\ v \in Used
  <1>1. \A w \in Value : w # v => items'[w] = items[w]
    BY DEF TypeOK
  <1>2. items'[v] = items[v] \ {o}
    BY DEF TypeOK
  <1>3. items[v] # {o} => (items[v] \ {o} = {} <=> items[v] = {})
    OBVIOUS
  <1> QED  BY <1>1, <1>2, <1>3 DEF Used

(***************************************************************************)
(* A covered value lies in one block, found by comparing bounds.           *)
(***************************************************************************)
LEMMA FindBlock ==
    ASSUME NEW s \in Seq(Interval), Separate(s), NEW v \in Covered(s)
    PROVE  /\ v \in Int /\ Len(s) \in Nat \ {0}
           /\ 1 \in 1..Len(s) /\ Len(s) \in 1..Len(s)
           /\ v >= s[Len(s)].start => v \in Vals(s[Len(s)])
           /\ v <= s[1].end => v \in Vals(s[1])
           /\ ~(v >= s[Len(s)].start) /\ ~(v <= s[1].end)
                => \E i \in 1 + 1 .. Len(s) - 1 : v \in Vals(s[i])
  <1>1. PICK k \in 1..Len(s) : v \in Vals(s[k])
    BY CoveredIff
  <1> DEFINE n == Len(s)
  <1>2. /\ n \in Nat \ {0} /\ 1 \in 1..n /\ n \in 1..n /\ 1 <= k /\ k <= n
    BY BlockType
  <1> HIDE DEF n
  <1>3. /\ s[1].end \in Int /\ s[1].start <= s[1].end
        /\ s[k].start \in Int /\ s[k].end \in Int
        /\ 1 # k => s[1].end + 1 < s[k].start
    BY <1>2, Ordered DEF n
  <1>4. /\ s[n].start \in Int
        /\ k # n => s[k].end + 1 < s[n].start
    BY <1>2, Ordered DEF n
  <1>5. v \in Int /\ s[k].start <= v /\ v <= s[k].end
    BY <1>1, <1>3 DEF Vals
  <1>6. /\ v >= s[n].start => k = n
        /\ v <= s[1].end => k = 1
        /\ ~(v >= s[n].start) => k # n
        /\ ~(v <= s[1].end) => k # 1
    <2>1. k = n => v >= s[n].start
      BY <1>4, <1>5
    <2>2. k = 1 => v <= s[1].end
      BY <1>3, <1>5
    <2>3. v >= s[n].start => k = n
      BY <1>3, <1>4, <1>5
    <2>4. v <= s[1].end => k = 1
      BY <1>3, <1>5
    <2> QED  BY <2>1, <2>2, <2>3, <2>4
  <1>7. k # n /\ k # 1 => k \in 1 + 1 .. n - 1
    BY <1>2
  <1> QED  BY <1>1, <1>2, <1>5, <1>6, <1>7 DEF n

LEMMA MidProperties ==
    ASSUME TypeOK, search.first < search.last
    PROVE  /\ Mid \in Nat /\ search.first <= Mid /\ Mid < search.last
           /\ Mid = search.first <=> search.last = search.first + 1
  <1>1. search.first \in Nat /\ search.last \in Nat
    BY DEF TypeOK
  <1> QED  BY <1>1 DEF Mid

LEMMA InitialRInv == Init => RInv
  <1> SUFFICES ASSUME Init PROVE RInv
    OBVIOUS
  <1>1. Lo \in Value
    BY AutoAssumption, ValueAssumption DEF Value
  <1>2. TypeOK
    BY <1>1 DEF Init, TypeOK, Idle, NoSearch
  <1>3. Separate(blocks) /\ Covered(blocks) = {} /\ Used = {}
    BY DEF Init, Separate, Covered, Used
  <1>4. call.op = "idle"
    BY DEF Init, Idle
  <1> QED  BY <1>2, <1>3, <1>4 DEF RInv

(***************************************************************************)
(* The steps preserve RInv.                                                *)
(***************************************************************************)
LEMMA StartStep ==
    ASSUME RInv, NEW o \in Obj, NEW new \in Value \cup {Null},
           Update_Range_Caches(o, new)
    PROVE  RInv'
  <1>1. /\ TypeOK /\ Separate(blocks) /\ Covered(blocks) = Used
        /\ call.op = "idle" /\ new # val[o]
    BY DEF RInv, Update_Range_Caches
  <1>2. /\ items' = items /\ blocks' = blocks /\ search' = search
        /\ val' = [val EXCEPT ![o] = new]
        /\ call' = [op |-> IF val[o] = Null THEN "add" ELSE "delete",
                     obj |-> o, old |-> val[o], new |-> new]
    BY DEF Update_Range_Caches
  <1>3. val[o] \in Value \cup {Null}
    BY <1>1 DEF TypeOK
  <1>4. TypeOK'
    BY <1>1, <1>2, <1>3 DEF TypeOK
  <1>5. Separate(blocks') /\ Covered(blocks') = Used'
    BY <1>1, <1>2 DEF Used
  <1>6. /\ call'.op \in {"add", "delete"} /\ call'.obj \in Obj
        /\ call'.op = "delete" => call'.old \in Value
        /\ call'.op = "add" => call'.new \in Value
    BY <1>1, <1>2, <1>3
  <1> QED  BY <1>4, <1>5, <1>6 DEF RInv

LEMMA AfterDeleteType ==
    ASSUME TypeOK
    PROVE  /\ AfterDelete \in CallType /\ AfterDelete.op \in {"idle", "add"}
           /\ AfterDelete.op = "add" => /\ AfterDelete.new \in Value
                                        /\ AfterDelete.obj = call.obj
           /\ Idle \in CallType /\ Idle.op = "idle" /\ NoSearch \in SearchType
           /\ call \in CallType /\ search \in SearchType
  <1>1. Lo \in Value
    BY AutoAssumption, ValueAssumption DEF Value
  <1>2. call \in CallType /\ search \in SearchType
    BY DEF TypeOK, CallType, SearchType
  <1>3. Idle \in CallType /\ Idle.op = "idle" /\ NoSearch \in SearchType
    BY <1>1 DEF Idle, NoSearch, CallType, SearchType
  <1>4. CASE call.new = Null
    BY <1>2, <1>3, <1>4 DEF AfterDelete
  <1>5. CASE call.new # Null
    <2>1. AfterDelete = [call EXCEPT !.op = "add"] /\ call.new \in Value
      BY <1>2, <1>5 DEF AfterDelete, CallType
    <2> QED  BY <1>2, <1>3, <2>1 DEF CallType
  <1> QED  BY <1>4, <1>5

\* A deletion that is done: no search, and the blocks are exact again.
LEMMA DeleteDone ==
    ASSUME TypeOK, call.obj \in Obj, val' = val, items' \in [Value -> SUBSET Obj],
           call' = AfterDelete, search' \in SearchType,
           blocks' \in Seq(Interval), Separate(blocks'), Covered(blocks') = Used'
    PROVE  RInv'
  <1>1. /\ call' \in CallType /\ call'.op \in {"idle", "add"}
        /\ call'.op = "add" => call'.new \in Value /\ call'.obj \in Obj
    BY AfterDeleteType
  <1>2. TypeOK'
    BY <1>1 DEF TypeOK, CallType, SearchType
  <1> QED  BY <1>1, <1>2 DEF RInv

LEMMA DeleteStep ==
    ASSUME RInv, Udb_Delete_Range_Entry
    PROVE  RInv'
  <1> DEFINE v == call.old
             n == Len(blocks)
  <1>1. /\ TypeOK /\ Separate(blocks) /\ Covered(blocks) = Used
        /\ v \in Value /\ call.op = "delete" /\ call.obj \in Obj
    BY DEF RInv, Udb_Delete_Range_Entry
  <1>2. /\ items' = [items EXCEPT ![v] = @ \ {call.obj}]
        /\ val' = val
        /\ IF items[v] # {call.obj}
           THEN call' = AfterDelete /\ UNCHANGED <<blocks, search>>
           ELSE Del_Used(v)
    BY DEF Udb_Delete_Range_Entry
  <1>3. /\ call.obj \in Obj \cup {Null} /\ blocks \in Seq(Interval)
        /\ search \in SearchType /\ items' \in [Value -> SUBSET Obj]
    BY <1>1, <1>2 DEF TypeOK, SearchType
  <1> HIDE DEF v
  <1>4. /\ items[v] # {call.obj} => Used' = Used
        /\ items[v] = {call.obj} => Used' = Used \ {v} /\ v \in Used
    BY <1>1, <1>2, <1>3, UsedAfterDelete
  <1>5. CASE items[v] # {call.obj}
    <2>1. call' = AfterDelete /\ blocks' = blocks /\ search' = search
      BY <1>2, <1>5
    <2>2. Separate(blocks') /\ Covered(blocks') = Used'
      BY <1>1, <1>4, <1>5, <2>1
    <2> QED  BY <1>1, <1>2, <1>3, <2>1, <2>2, DeleteDone
  <1>6. CASE items[v] = {call.obj}
    <2>1. Del_Used(v) /\ Used' = Used \ {v} /\ v \in Covered(blocks)
      BY <1>1, <1>2, <1>4, <1>6
    <2>2. /\ v \in Int /\ n \in Nat \ {0} /\ 1 \in 1..n /\ n \in 1..n
          /\ v >= blocks[n].start => v \in Vals(blocks[n])
          /\ v <= blocks[1].end => v \in Vals(blocks[1])
          /\ ~(v >= blocks[n].start) /\ ~(v <= blocks[1].end)
               => \E i \in 1 + 1 .. n - 1 : v \in Vals(blocks[i])
      BY <1>1, <1>3, <2>1, FindBlock
    <2>3. CASE v >= blocks[n].start \/ v <= blocks[1].end
      <3>1. PICK i \in 1..n : /\ v \in Vals(blocks[i])
                              /\ blocks' = Del_From_Range(i, v)
        BY <2>1, <2>2, <2>3 DEF Del_Used
      <3>2. call' = AfterDelete /\ search' = search
        BY <2>1, <2>3 DEF Del_Used
      <3>3. /\ blocks' \in Seq(Interval) /\ Separate(blocks')
            /\ Covered(blocks') = Covered(blocks) \ {v}
        BY <1>1, <1>3, <3>1, DeleteValue
      <3>4. Covered(blocks') = Used'
        BY <1>1, <2>1, <3>3
      <3> QED  BY <1>1, <1>2, <1>3, <3>2, <3>3, <3>4, DeleteDone
    <2>4. CASE ~(v >= blocks[n].start) /\ ~(v <= blocks[1].end)
      <3>1. /\ search' = [NoSearch EXCEPT !.first = 1, !.last = n]
            /\ call' = [call EXCEPT !.op = "del_search"]
            /\ blocks' = blocks
        BY <2>1, <2>4 DEF Del_Used
      <3>2. /\ NoSearch \in SearchType /\ call \in CallType
        BY <1>1, AfterDeleteType
      <3>3. /\ search' \in SearchType /\ call' \in CallType
            /\ search'.first = 1 /\ search'.last = n
            /\ call'.op = "del_search" /\ call'.old = v /\ call'.obj \in Obj
        BY <1>1, <2>2, <3>1, <3>2 DEF SearchType, CallType, v
      <3>4. TypeOK'
        BY <1>1, <1>2, <1>3, <3>1, <3>3 DEF TypeOK, SearchType, CallType
      <3>5. /\ call'.old \in Value /\ call'.old \notin Used'
            /\ Covered(blocks') = Used' \cup {call'.old}
        BY <1>1, <2>1, <3>1, <3>3
      <3>6. InSearch'
        BY <2>2, <3>1, <3>3 DEF InSearch
      <3>7. \E i \in search'.first + 1 .. search'.last - 1 :
               call'.old \in Vals(blocks'[i])
        BY <2>2, <2>4, <3>1, <3>3
      <3>8. DelInv'
        BY <3>5, <3>6, <3>7 DEF DelInv
      <3> QED  BY <1>1, <3>1, <3>3, <3>4, <3>8 DEF RInv
    <2> QED  BY <2>3, <2>4
  <1> QED  BY <1>5, <1>6

LEMMA DelSearchStep ==
    ASSUME RInv, Del_Search
    PROVE  RInv'
  <1> DEFINE v == call.old
             b == blocks[Mid]
  <1>1. /\ TypeOK /\ Separate(blocks) /\ call.op = "del_search" /\ call.obj \in Obj
        /\ v \in Value /\ v \notin Used /\ Covered(blocks) = Used \cup {v}
        /\ search.first \in 1..Len(blocks) /\ search.last \in 1..Len(blocks)
    BY DEF RInv, Del_Search, DelInv, InSearch
  <1>2. PICK k \in search.first + 1 .. search.last - 1 : v \in Vals(blocks[k])
    BY <1>1 DEF RInv, DelInv
  <1>3. /\ val' = val /\ items' = items
        /\ IF v \in b.start..b.end
           THEN /\ blocks' = Del_From_Range(Mid, v)
                /\ call' = AfterDelete
                /\ search' = NoSearch
           ELSE /\ search' = IF v < b.start THEN [search EXCEPT !.last = Mid]
                             ELSE [search EXCEPT !.first = Mid]
                /\ blocks' = blocks /\ call' = call
    BY DEF Del_Search
  <1>4. /\ blocks \in Seq(Interval) /\ Len(blocks) \in Nat
        /\ items' \in [Value -> SUBSET Obj] /\ NoSearch \in SearchType
        /\ search \in SearchType /\ call \in CallType /\ Used' = Used
    <2>1. blocks \in Seq(Interval) /\ items' \in [Value -> SUBSET Obj]
      BY <1>1, <1>3 DEF TypeOK
    <2>2. NoSearch \in SearchType /\ search \in SearchType /\ call \in CallType
      BY <1>1, AfterDeleteType
    <2>3. Used' = Used
      BY <1>3 DEF Used
    <2> QED  BY <2>1, <2>2, <2>3, BlockType
  <1>5. search.first < search.last
    BY <1>1, <1>4
  <1>6. /\ Mid \in Nat /\ Mid \in 1..Len(blocks) /\ k \in 1..Len(blocks)
        /\ search.first <= Mid /\ Mid < search.last
    BY <1>1, <1>4, <1>5, MidProperties
  <1> HIDE DEF v
  <1>7. CASE v \in b.start..b.end
    <2>1. /\ blocks' = Del_From_Range(Mid, v) /\ call' = AfterDelete
          /\ search' = NoSearch /\ v \in Vals(blocks[Mid])
      BY <1>3, <1>7 DEF Vals
    <2>2. /\ blocks' \in Seq(Interval) /\ Separate(blocks')
          /\ Covered(blocks') = Covered(blocks) \ {v}
      BY <1>1, <1>4, <1>6, <2>1, DeleteValue
    <2>3. Covered(blocks') = Used'
      BY <1>1, <1>4, <2>2
    <2> QED  BY <1>1, <1>3, <1>4, <2>1, <2>2, <2>3, DeleteDone
  <1>8. CASE v \notin b.start..b.end
    <2>1. /\ blocks' = blocks /\ call' = call
          /\ search' = IF v < b.start THEN [search EXCEPT !.last = Mid]
                       ELSE [search EXCEPT !.first = Mid]
      BY <1>3, <1>8
    <2>2. /\ v \in Int /\ b.start \in Int /\ b.end \in Int
          /\ blocks[k].start \in Int /\ blocks[k].end \in Int
          /\ blocks[k].start <= v /\ v <= blocks[k].end
      BY <1>2, <1>4, <1>6, BlockType DEF Vals
    <2>3. /\ v < b.start => k < Mid
          /\ ~(v < b.start) => Mid < k
      <3>1. k <= Mid => /\ k # Mid => blocks[k].end + 1 < b.start
        BY <1>1, <1>4, <1>6, Ordered
      <3>2. Mid <= k => /\ k # Mid => b.end + 1 < blocks[k].start
        BY <1>1, <1>4, <1>6, Ordered
      <3>3. k # Mid
        BY <1>8, <2>2
      <3>4. b.start <= b.end
        <4>1. Mid <= Mid
          BY <1>6
        <4> QED  BY <1>1, <1>4, <1>6, <4>1, Ordered
      <3>5. k \in Nat
        BY <1>6
      <3> QED  BY <1>6, <2>2, <3>1, <3>2, <3>3, <3>4, <3>5
    <2>4. search' \in SearchType
      BY <1>4, <1>6, <2>1 DEF SearchType
    <2>5. /\ search'.first \in 1..Len(blocks) /\ search'.last \in 1..Len(blocks)
          /\ k \in search'.first + 1 .. search'.last - 1
      <3>1. CASE v < b.start
        <4>1. search'.first = search.first /\ search'.last = Mid
          BY <1>4, <2>1, <3>1 DEF SearchType
        <4> QED  BY <1>1, <1>4, <1>6, <2>3, <3>1, <4>1
      <3>2. CASE ~(v < b.start)
        <4>1. search'.first = Mid /\ search'.last = search.last
          BY <1>4, <2>1, <3>2 DEF SearchType
        <4> QED  BY <1>1, <1>4, <1>6, <2>3, <3>2, <4>1
      <3> QED  BY <3>1, <3>2
    <2>6. TypeOK'
      BY <1>1, <1>3, <2>1, <2>4 DEF TypeOK, SearchType
    <2>7. DelInv'
      BY <1>1, <1>2, <1>4, <2>1, <2>5 DEF DelInv, InSearch, v
    <2> QED  BY <1>1, <2>1, <2>6, <2>7 DEF RInv
  <1> QED  BY <1>7, <1>8

\* An addition that is done.
LEMMA AddDone ==
    ASSUME TypeOK, val' = val, items' \in [Value -> SUBSET Obj],
           call' = Idle, search' \in SearchType,
           blocks' \in Seq(Interval), Separate(blocks'), Covered(blocks') = Used'
    PROVE  RInv'
  <1>1. call' \in CallType /\ call'.op = "idle"
    BY AfterDeleteType
  <1>2. TypeOK'
    BY <1>1 DEF TypeOK, CallType, SearchType
  <1> QED  BY <1>1, <1>2 DEF RInv

LEMMA AddStep ==
    ASSUME RInv, Udb_Add_Range_Entry
    PROVE  RInv'
  <1> DEFINE v == call.new
             n == Len(blocks)
             lo == blocks[1]
             hi == blocks[n]
  <1>1. /\ TypeOK /\ Separate(blocks) /\ Covered(blocks) = Used
        /\ v \in Value /\ call.op = "add" /\ call.obj \in Obj
    BY DEF RInv, Udb_Add_Range_Entry
  <1>2. /\ items' = [items EXCEPT ![v] = @ \cup {call.obj}]
        /\ val' = val
        /\ IF items[v] # {} THEN call' = Idle /\ UNCHANGED <<blocks, search>>
           ELSE Add_Used(v)
    BY DEF Udb_Add_Range_Entry
  <1>3. /\ blocks \in Seq(Interval) /\ n \in Nat /\ v \in Int
        /\ search \in SearchType /\ items' \in [Value -> SUBSET Obj]
    <2>1. blocks \in Seq(Interval) /\ v \in Int
      BY <1>1, ValueAssumption DEF TypeOK, Value
    <2>2. search \in SearchType /\ items' \in [Value -> SUBSET Obj]
      BY <1>1, <1>2 DEF TypeOK, SearchType
    <2> QED  BY <2>1, <2>2, BlockType
  <1> HIDE DEF v
  <1>4. Used' = Used \cup {v} /\ (items[v] # {} <=> v \in Used)
    <2>1. Used' = Used \cup {v}
      BY <1>1, <1>2, UsedAfterAdd
    <2> QED  BY <1>1, <2>1 DEF Used
  <1>5. CASE items[v] # {}
    <2>1. call' = Idle /\ blocks' = blocks /\ search' = search
      BY <1>2, <1>5
    <2>2. Separate(blocks') /\ Covered(blocks') = Used'
      BY <1>1, <1>4, <1>5, <2>1
    <2> QED  BY <1>1, <1>2, <1>3, <2>1, <2>2, AddDone
  <1>6. CASE items[v] = {}
    <2>1. Add_Used(v) /\ v \notin Covered(blocks)
      BY <1>1, <1>2, <1>4, <1>6
    <2>2. ASSUME blocks' \in Seq(Interval), Separate(blocks'),
                 Covered(blocks') = Covered(blocks) \cup {v},
                 call' = Idle, search' = search
          PROVE  RInv'
      <3>1. Covered(blocks') = Used'
        BY <1>1, <1>4, <2>2
      <3> QED  BY <1>1, <1>2, <1>3, <2>2, <3>1, AddDone
    <2>3. CASE n = 0
      <3>1. blocks' = New_Block(blocks, 1, v, v) /\ call' = Idle /\ search' = search
        BY <2>1, <2>3 DEF Add_Used
      <3>2. 1 \in 1..Len(blocks) + 1 /\ 1 = Len(blocks) + 1
        BY <2>3
      <3>3. /\ blocks' \in Seq(Interval) /\ Separate(blocks')
            /\ Covered(blocks') = Covered(blocks) \cup {v}
        BY <1>1, <1>3, <3>1, <3>2, LoneBlock
      <3> QED  BY <2>2, <3>1, <3>3
    <2>4. CASE n > 0
      <3>1. /\ 1 \in 1..n /\ n \in 1..n /\ 1 <= n /\ 1 \in 1..n + 1
            /\ n + 1 \in 1..n + 1 /\ n + 1 # 1 /\ n + 1 - 1 = n
        BY <1>3, <2>4
      <3>2. /\ lo.start \in Int /\ lo.end \in Int /\ lo.start <= lo.end
            /\ hi.start \in Int /\ hi.end \in Int /\ hi.start <= hi.end
            /\ lo.start <= hi.start /\ lo.end <= hi.end
        BY <1>1, <1>3, <3>1, Ordered
      <3>3. CASE v = hi.end + 1
        <4>1. blocks' = PutEnd(blocks, n, v) /\ call' = Idle /\ search' = search
          BY <1>3, <2>1, <2>4, <3>2, <3>3 DEF Add_Used, PutEnd
        <4>2. /\ blocks' \in Seq(Interval) /\ Separate(blocks')
              /\ Covered(blocks') = Covered(blocks) \cup {v}
          BY <1>1, <1>3, <3>1, <3>3, <4>1, GrowEnd
        <4> QED  BY <2>2, <4>1, <4>2
      <3>4. CASE v > hi.end + 1
        <4>1. /\ blocks' = New_Block(blocks, n + 1, v, v)
              /\ call' = Idle /\ search' = search
          BY <1>3, <2>1, <2>4, <3>2, <3>4 DEF Add_Used
        <4>2. blocks[n + 1 - 1].end + 1 < v
          BY <1>3, <3>1, <3>2, <3>4
        <4> DEFINE j == n + 1
        <4>3. j \in 1..n + 1 /\ (j # 1 => blocks[j - 1].end + 1 < v) /\ j = n + 1
          BY <3>1, <4>2
        <4> HIDE DEF j
        <4>4. /\ New_Block(blocks, j, v, v) \in Seq(Interval)
              /\ Separate(New_Block(blocks, j, v, v))
              /\ Covered(New_Block(blocks, j, v, v)) = Covered(blocks) \cup {v}
          BY <1>1, <1>3, <4>3, LoneBlock
        <4>5. /\ blocks' \in Seq(Interval) /\ Separate(blocks')
              /\ Covered(blocks') = Covered(blocks) \cup {v}
          BY <4>1, <4>4 DEF j
        <4> QED  BY <2>2, <4>1, <4>5
      <3>5. CASE v = lo.start - 1
        <4>1. blocks' = PutStart(blocks, 1, v) /\ call' = Idle /\ search' = search
          BY <1>3, <2>1, <2>4, <3>2, <3>5 DEF Add_Used, PutStart
        <4>2. /\ blocks' \in Seq(Interval) /\ Separate(blocks')
              /\ Covered(blocks') = Covered(blocks) \cup {v}
          BY <1>1, <1>3, <3>1, <3>5, <4>1, GrowStart
        <4> QED  BY <2>2, <4>1, <4>2
      <3>6. CASE v < lo.start - 1
        <4>1. blocks' = New_Block(blocks, 1, v, v) /\ call' = Idle /\ search' = search
          BY <1>3, <2>1, <2>4, <3>2, <3>6 DEF Add_Used
        <4>2. v + 1 < blocks[1].start
          BY <1>3, <3>2, <3>6
        <4>3. /\ blocks' \in Seq(Interval) /\ Separate(blocks')
              /\ Covered(blocks') = Covered(blocks) \cup {v}
          BY <1>1, <1>3, <3>1, <4>1, <4>2, LoneBlock
        <4> QED  BY <2>2, <4>1, <4>3
      <3>7. CASE v >= lo.start /\ v <= hi.end
        <4>1. /\ search' = [first |-> 1, last |-> n,
                            start |-> lo.start, left |-> lo.end,
                            right |-> hi.start, end |-> hi.end]
              /\ call' = [call EXCEPT !.op = "add_search"]
              /\ blocks' = blocks
          BY <1>3, <2>1, <2>4, <3>2, <3>7 DEF Add_Used
        <4>2. lo \in Interval /\ hi \in Interval /\ call \in CallType
          BY <1>1, <1>3, <3>1, BlockType, AfterDeleteType
        <4>3. /\ search' \in SearchType /\ call' \in CallType
              /\ call'.op = "add_search" /\ call'.new = v /\ call'.obj \in Obj
          BY <1>1, <1>3, <4>1, <4>2 DEF SearchType, CallType, Interval, v
        <4>4. TypeOK'
          BY <1>1, <1>2, <1>3, <4>1, <4>3 DEF TypeOK, SearchType, CallType
        <4>5. v > lo.end /\ v < hi.start
          <5>1. v \notin Vals(lo) /\ v \notin Vals(hi)
            BY <1>3, <2>1, <3>1, CoveredIff
          <5> QED  BY <1>3, <3>2, <3>7, <5>1 DEF Vals
        <4>6. 1 < n
          <5>1. 1 # n
            BY <1>3, <3>2, <4>5
          <5> QED  BY <1>3, <3>1, <5>1
        <4>7. AddInv'
          <5>1. call'.new \in Used' /\ Covered(blocks') = Used' \ {call'.new}
            BY <1>1, <1>4, <2>1, <4>1, <4>3
          <5> QED  BY <1>3, <3>1, <4>1, <4>3, <4>5, <4>6, <5>1
                   DEF AddInv, InSearch
        <4> QED  BY <1>1, <4>1, <4>3, <4>4, <4>7 DEF RInv
      <3> QED
        <4>1. \/ v = hi.end + 1 \/ v > hi.end + 1 \/ v = lo.start - 1
              \/ v < lo.start - 1 \/ (v >= lo.start /\ v <= hi.end)
          BY <1>3, <3>2
        <4> QED  BY <3>3, <3>4, <3>5, <3>6, <3>7, <4>1
    <2> QED  BY <1>3, <2>3, <2>4
  <1> QED  BY <1>5, <1>6

LEMMA AddSearchStep ==
    ASSUME RInv, Add_Search
    PROVE  RInv'
  <1> DEFINE v == call.new
             f == search.first
             l == search.last
  <1>1. /\ TypeOK /\ Separate(blocks) /\ call.op = "add_search" /\ call.obj \in Obj
        /\ v \in Value /\ v \in Used /\ Covered(blocks) = Used \ {v}
        /\ f \in 1..Len(blocks) /\ l \in 1..Len(blocks) /\ f < l
        /\ search.left = blocks[f].end /\ search.right = blocks[l].start
        /\ search.left < v /\ v < search.right
        /\ \/ search.start = blocks[f].start
           \/ v # search.left + 1
           \/ v # search.right - 1
    BY DEF RInv, Add_Search, AddInv, InSearch
  <1>2. /\ val' = val /\ items' = items
        /\ CASE v = search.right - 1 ->
                  blocks' = JoinAbove(v) /\ call' = Idle /\ search' = NoSearch
             [] v # search.right - 1 /\ v = search.left + 1 ->
                  blocks' = JoinBelow(v) /\ call' = Idle /\ search' = NoSearch
             [] v \notin {search.right - 1, search.left + 1}
                /\ Mid = f ->
                  /\ blocks' = New_Block(blocks, l, v, v)
                  /\ call' = Idle /\ search' = NoSearch
             [] OTHER -> search' = Narrow(v) /\ blocks' = blocks /\ call' = call
    BY DEF Add_Search
  <1>3. /\ blocks \in Seq(Interval) /\ Len(blocks) \in Nat /\ v \in Int
        /\ items' \in [Value -> SUBSET Obj] /\ NoSearch \in SearchType
        /\ search \in SearchType /\ call \in CallType /\ Used' = Used
    <2>1. /\ blocks \in Seq(Interval) /\ items' \in [Value -> SUBSET Obj]
          /\ v \in Int
      BY <1>1, <1>2, ValueAssumption DEF TypeOK, Value
    <2>2. NoSearch \in SearchType /\ search \in SearchType /\ call \in CallType
      BY <1>1, AfterDeleteType
    <2>3. Used' = Used
      BY <1>2 DEF Used
    <2> QED  BY <2>1, <2>2, <2>3, BlockType
  <1>4. /\ Mid \in Nat /\ Mid \in 1..Len(blocks) /\ f <= Mid /\ Mid < l
        /\ Mid = f <=> l = f + 1
    BY <1>1, <1>3, MidProperties
  <1>5. /\ search.left \in Int /\ search.right \in Int
        /\ blocks[f].start \in Int /\ blocks[l].end \in Int
    BY <1>1, <1>3, BlockType
  <1>6. /\ l - 1 \in 1..Len(blocks) /\ f + 1 \in 1..Len(blocks)
        /\ l - 1 <= l /\ l - 1 # l /\ f <= f + 1 /\ f # f + 1
        /\ l = (l - 1) + 1 /\ l # 1 /\ f # Len(blocks)
        /\ l - 1 >= f /\ f + 1 <= l
    BY <1>1, <1>3
  <1>7. /\ blocks[l - 1].end + 1 < search.right
        /\ blocks[l - 1].start \in Int /\ blocks[l - 1].end \in Int
    BY <1>1, <1>3, <1>6, Ordered
  <1>8. /\ search.left + 1 < blocks[f + 1].start
        /\ blocks[f + 1].start \in Int /\ blocks[f + 1].end \in Int
    BY <1>1, <1>3, <1>6, Ordered
  <1>9. ASSUME blocks' \in Seq(Interval), Separate(blocks'),
               Covered(blocks') = Covered(blocks) \cup {v},
               call' = Idle, search' = NoSearch
        PROVE  RInv'
    <2>1. Covered(blocks') = Used'
      BY <1>1, <1>3, <1>9
    <2> QED  BY <1>1, <1>2, <1>3, <1>9, <2>1, AddDone
  <1> HIDE DEF v, f, l
  <1>10. CASE v = search.right - 1
    <2>1. blocks' = JoinAbove(v) /\ call' = Idle /\ search' = NoSearch
      BY <1>2, <1>10
    <2>2. Below.end = blocks[l - 1].end
      BY <1>1, <1>3, <1>6 DEF Below, Block, f, l
    <2>3. CASE v > Below.end + 1
      <3>1. blocks' = PutStart(blocks, l, v)
        BY <2>1, <2>3 DEF JoinAbove, PutStart, l
      <3>2. v = blocks[l].start - 1 /\ (l # 1 => blocks[l - 1].end + 1 < v)
        BY <1>1, <1>3, <1>7, <1>10, <2>2, <2>3
      <3>3. /\ blocks' \in Seq(Interval) /\ Separate(blocks')
            /\ Covered(blocks') = Covered(blocks) \cup {v}
        BY <1>1, <1>3, <3>1, <3>2, GrowStart
      <3> QED  BY <1>9, <2>1, <3>3
    <2>4. CASE ~(v > Below.end + 1)
      <3>1. v = blocks[l - 1].end + 1 /\ v = blocks[l].start - 1
        BY <1>1, <1>3, <1>5, <1>7, <1>10, <2>2, <2>4
      <3>2. Below.start = blocks[l - 1].start
        <4>1. CASE f # l - 1
          BY <4>1 DEF Below, f, l
        <4>2. CASE f = l - 1
          <5>1. search.start = blocks[f].start
            BY <1>1, <1>10, <3>1, <4>2
          <5> QED  BY <4>2, <5>1 DEF Below, Block, f, l
        <4> QED  BY <4>1, <4>2
      <3>3. blocks' = RemoveAt(PutStart(blocks, l, blocks[l - 1].start), l - 1)
        BY <2>1, <2>4, <3>2 DEF JoinAbove, PutStart, l
      <3> DEFINE k == l - 1
      <3>4. k \in 1..Len(blocks) /\ l = k + 1 /\ v = blocks[k].end + 1
        BY <1>6, <3>1
      <3>5. blocks' = RemoveAt(PutStart(blocks, l, blocks[k].start), k)
        BY <3>3
      <3> HIDE DEF k
      <3>6. /\ blocks' \in Seq(Interval) /\ Separate(blocks')
            /\ Covered(blocks') = Covered(blocks) \cup {v}
        BY <1>1, <1>3, <3>1, <3>4, <3>5, MergeUp
      <3> QED  BY <1>9, <2>1, <3>6
    <2> QED  BY <2>3, <2>4
  <1>11. CASE v # search.right - 1 /\ v = search.left + 1
    <2>1. blocks' = JoinBelow(v) /\ call' = Idle /\ search' = NoSearch
      BY <1>2, <1>11
    <2>2. Above.start = blocks[f + 1].start
      BY <1>1, <1>3, <1>6 DEF Above, Block, f, l
    <2>3. CASE v < Above.start - 1
      <3>1. blocks' = PutEnd(blocks, f, v)
        BY <2>1, <2>3 DEF JoinBelow, PutEnd, f
      <3>2. /\ v = blocks[f].end + 1
            /\ f # Len(blocks) => v + 1 < blocks[f + 1].start
        BY <1>1, <1>3, <1>8, <1>11, <2>2, <2>3
      <3>3. /\ blocks' \in Seq(Interval) /\ Separate(blocks')
            /\ Covered(blocks') = Covered(blocks) \cup {v}
        BY <1>1, <1>3, <3>1, <3>2, GrowEnd
      <3> QED  BY <1>9, <2>1, <3>3
    <2>4. CASE ~(v < Above.start - 1)
      <3>1. v = blocks[f].end + 1 /\ v = blocks[f + 1].start - 1
        BY <1>1, <1>3, <1>5, <1>8, <1>11, <2>2, <2>4
      <3>2. l # f + 1
        BY <1>1, <1>11, <3>1
      <3>3. Above.end = blocks[f + 1].end
        BY <3>2 DEF Above, f, l
      <3>4. blocks' = RemoveAt(PutEnd(blocks, f, blocks[f + 1].end), f + 1)
        BY <2>1, <2>4, <3>3 DEF JoinBelow, PutEnd, f
      <3> DEFINE k == f + 1
      <3>5. k \in 1..Len(blocks) /\ k = f + 1 /\ v = blocks[k].start - 1
        BY <1>6, <3>1
      <3>6. blocks' = RemoveAt(PutEnd(blocks, f, blocks[k].end), k)
        BY <3>4
      <3> HIDE DEF k
      <3>7. /\ blocks' \in Seq(Interval) /\ Separate(blocks')
            /\ Covered(blocks') = Covered(blocks) \cup {v}
        BY <1>1, <1>3, <3>1, <3>5, <3>6, MergeDown
      <3> QED  BY <1>9, <2>1, <3>7
    <2> QED  BY <2>3, <2>4
  <1>12. CASE v \notin {search.right - 1, search.left + 1} /\ Mid = f
    <2>1. /\ blocks' = New_Block(blocks, l, v, v)
          /\ call' = Idle /\ search' = NoSearch
      BY <1>2, <1>12
    <2>2. /\ l \in 1..Len(blocks) + 1
          /\ l # 1 => blocks[l - 1].end + 1 < v
          /\ l # Len(blocks) + 1 => v + 1 < blocks[l].start
      <3>1. l \in 1..Len(blocks) + 1 /\ l - 1 = f
        BY <1>1, <1>3, <1>4, <1>12
      <3>2. search.left + 1 < v /\ v + 1 < search.right
        BY <1>1, <1>3, <1>5, <1>12
      <3> QED  BY <1>1, <3>1, <3>2
    <2>3. /\ blocks' \in Seq(Interval) /\ Separate(blocks')
          /\ Covered(blocks') = Covered(blocks) \cup {v}
      BY <1>1, <1>3, <2>1, <2>2, LoneBlock
    <2> QED  BY <1>9, <2>1, <2>3
  <1>13. CASE v \notin {search.right - 1, search.left + 1} /\ Mid # f
    <2> DEFINE b == blocks[Mid]
    <2>1. search' = Narrow(v) /\ blocks' = blocks /\ call' = call
      BY <1>2, <1>13
    <2>2. b \in Interval /\ b.start \in Int /\ b.end \in Int
      BY <1>3, <1>4, BlockType
    <2>3. ~(v < b.start) => b.end < v
      <3>1. v \notin Vals(b)
        BY <1>1, <1>3, <1>4, CoveredIff
      <3> QED  BY <1>3, <2>2, <3>1 DEF Vals
    <2>4. search' \in SearchType
      BY <1>3, <1>4, <2>1, <2>2 DEF Narrow, SearchType, Interval
    <2>5. TypeOK'
      BY <1>1, <1>2, <2>1, <2>4 DEF TypeOK, SearchType
    <2>6. AddInv'
      <3>1. CASE v < b.start
        <4>1. /\ search'.first = f /\ search'.last = Mid
              /\ search'.right = b.start /\ search'.left = search.left
              /\ search'.start = search.start
          BY <1>3, <2>1, <3>1 DEF Narrow, SearchType, f
        <4> QED  BY <1>1, <1>3, <1>4, <1>13, <2>1, <3>1, <4>1
                 DEF AddInv, InSearch, v
      <3>2. CASE ~(v < b.start)
        <4>1. /\ search'.first = Mid /\ search'.last = l
              /\ search'.left = b.end /\ search'.right = search.right
              /\ search'.start = search.start
          BY <1>3, <2>1, <3>2 DEF Narrow, SearchType, l
        <4> QED  BY <1>1, <1>3, <1>4, <1>13, <2>1, <2>3, <3>2, <4>1
                 DEF AddInv, InSearch, v
      <3> QED  BY <3>1, <3>2
    <2> QED  BY <1>1, <2>1, <2>5, <2>6 DEF RInv, v
  <1> QED  BY <1>10, <1>11, <1>12, <1>13

LEMMA NextRInv == RInv /\ [Next]_vars => RInv'
  <1> SUFFICES ASSUME RInv, [Next]_vars PROVE RInv'
    OBVIOUS
  <1>1. ASSUME NEW o \in Obj, NEW new \in Value \cup {Null},
               Update_Range_Caches(o, new)
        PROVE  RInv'
    BY <1>1, StartStep
  <1>2. ASSUME NEW o \in Obj, Unameit_Autoint_Trigger(o)
        PROVE  RInv'
    <2>1. PICK v \in AutoMin..AutoMax : Update_Range_Caches(o, v)
      BY <1>2 DEF Unameit_Autoint_Trigger
    <2>2. v \in Value \cup {Null}
      BY AutoAssumption, ValueAssumption DEF Value
    <2> QED  BY <2>1, <2>2, StartStep
  <1>3. CASE Udb_Delete_Range_Entry
    BY <1>3, DeleteStep
  <1>4. CASE Del_Search
    BY <1>4, DelSearchStep
  <1>5. CASE Udb_Add_Range_Entry
    BY <1>5, AddStep
  <1>6. CASE Add_Search
    BY <1>6, AddSearchStep
  <1>7. CASE UNCHANGED vars
    BY <1>7 DEF vars, RInv, TypeOK, DelInv, AddInv, InSearch, Used
  <1> QED  BY <1>1, <1>2, <1>3, <1>4, <1>5, <1>6, <1>7 DEF Next, Continue

LEMMA AlwaysRInv == Spec => []RInv
  BY InitialRInv, NextRInv, PTL DEF Spec

\* Whatever the objects, the values and the limits are: between calls the
\* blocks that Add_Used and Del_Used keep cover exactly the values some
\* object holds, and neighbouring blocks are joined.
THEOREM BlocksAreExact == Spec => []UsedExact
  <1>1. RInv => UsedExact
    BY DEF RInv, UsedExact
  <1> QED  BY <1>1, AlwaysRInv, PTL

\* The bounds that the half-interval searches of Add_Used and Del_Used keep
\* in local variables always enclose the value, and are those of the blocks:
\* the assertions in the loops never fail.
THEOREM SearchesAreSound == Spec => []SearchSound
  <1>1. RInv => SearchSound
    BY DEF RInv, SearchSound, AddInv, DelInv, Vals
  <1> QED  BY <1>1, AlwaysRInv, PTL
=============================================================================
