------------------------------- MODULE Ranges -------------------------------
(***************************************************************************)
(* The integers in use below one owner (libudb/range.c).  An attribute     *)
(* whose values can be generated (uid, gid, port) keeps a slot with the    *)
(* objects that hold each value, and the values of all slots as a sequence *)
(* of blocks, from which Udb_Auto_Integer picks the next free one.  The    *)
(* half-interval searches of Add_Used and Del_Used are modelled iteration  *)
(* by iteration, with the bounds they keep in local variables.             *)
(*                                                                         *)
(* One attribute and one owner: a move to another owner deletes the entry  *)
(* here (the value becomes Null) and adds one there.  Values stay below    *)
(* the largest DB_INT32, as the limits in the schema make them, so that    *)
(* "end + 1" does not overflow.                                            *)
(*                                                                         *)
(* An operator named Mutant_... is a plausible fault of the one after it,  *)
(* for testing the properties; the specification does not use it.          *)
(***************************************************************************)
EXTENDS Integers, SequencesExt

CONSTANTS Obj,               \* objects
          Lo, Hi,            \* values of the attribute: Lo..Hi
          AutoMin, AutoMax,  \* UNAMEIT_AUTO_RANGE: what may be generated
          Null               \* no value, or another owner

ASSUME ValueAssumption == Lo \in Int /\ Hi \in Int
ASSUME AutoAssumption == AutoMin \in Lo..Hi /\ AutoMax \in Lo..Hi
ASSUME NullAssumption == Null \notin Int

Value == Lo..Hi

VARIABLES val,     \* the value of each object
          items,   \* "range_items" of the slot of each value
          blocks,  \* "range_blocks"; empty: there is no range object
          call,    \* what Update_Range_Caches is doing
          search   \* local variables of the half-interval search

vars == <<val, items, blocks, call, search>>

Block(s, e) == [start |-> s, end |-> e]
New_Block(s, i, first, last) == InsertAt(s, i, Block(first, last))
Idle == [op |-> "idle", obj |-> Null, old |-> Null, new |-> Null]
NoSearch == [first |-> 0, last |-> 0, start |-> Lo, left |-> Lo,
             right |-> Lo, end |-> Lo]

(***************************************************************************)
(* Where a call goes when an entry has been deleted.                       *)
(***************************************************************************)
AfterDelete == IF call.new = Null THEN Idle ELSE [call EXCEPT !.op = "add"]

(***************************************************************************)
(* Update_Range_Caches: object o had the value val[o] and now has new.     *)
(***************************************************************************)
Update_Range_Caches(o, new) ==
    /\ call.op = "idle"
    /\ new # val[o]
    /\ val' = [val EXCEPT ![o] = new]
    /\ call' = [op |-> IF val[o] = Null THEN "add" ELSE "delete",
                obj |-> o, old |-> val[o], new |-> new]
    /\ UNCHANGED <<items, blocks, search>>

(***************************************************************************)
(* Udb_Auto_Integer: the loop over the blocks, done once it breaks.        *)
(***************************************************************************)
Mutant_BreakAtStart(min) ==
    LET Skip(acc, b) == CASE acc.done \/ acc.min > b.end + 1 -> acc
                          [] acc.min <= b.start -> [acc EXCEPT !.done = TRUE]
                          [] OTHER -> [acc EXCEPT !.min = b.end + 1]
    IN FoldLeft(Skip, [min |-> min, done |-> FALSE], blocks).min

Udb_Auto_Integer(min) ==
    LET Skip(acc, b) == CASE acc.done \/ acc.min > b.end + 1 -> acc
                          [] acc.min < b.start -> [acc EXCEPT !.done = TRUE]
                          [] OTHER -> [acc EXCEPT !.min = b.end + 1]
    IN FoldLeft(Skip, [min |-> min, done |-> FALSE], blocks).min

(***************************************************************************)
(* unameit_autoint_trigger: an object without a value is given one, if     *)
(* there is one left (ERANGEFULL otherwise).                               *)
(***************************************************************************)
Unameit_Autoint_Trigger(o) ==
    \E v \in AutoMin..AutoMax :
       /\ val[o] = Null
       /\ v = Udb_Auto_Integer(AutoMin)
       /\ Update_Range_Caches(o, v)

-----------------------------------------------------------------------------
(***************************************************************************)
(* Add_Used up to its loop: a first block, a value next to or outside the  *)
(* outermost blocks, or the start of the search between those two.         *)
(***************************************************************************)
Add_Used(v) ==
    LET n == Len(blocks)
        lo == blocks[1]
        hi == blocks[n]
        Done(s) == blocks' = s /\ call' = Idle /\ UNCHANGED search
    IN CASE n = 0 -> Done(New_Block(blocks, 1, v, v))
         [] n > 0 /\ v = hi.end + 1 -> Done([blocks EXCEPT ![n].end = v])
         [] n > 0 /\ v > hi.end + 1 -> Done(New_Block(blocks, n + 1, v, v))
         [] n > 0 /\ v = lo.start - 1 -> Done([blocks EXCEPT ![1].start = v])
         [] n > 0 /\ v < lo.start - 1 -> Done(New_Block(blocks, 1, v, v))
         [] OTHER -> /\ search' = [first |-> 1, last |-> n,
                                   start |-> lo.start, left |-> lo.end,
                                   right |-> hi.start, end |-> hi.end]
                     /\ call' = [call EXCEPT !.op = "add_search"]
                     /\ UNCHANGED blocks

Udb_Add_Range_Entry ==
    LET v == call.new IN
    /\ call.op = "add"
    /\ items' = [items EXCEPT ![v] = @ \cup {call.obj}]
    /\ IF items[v] # {}
       THEN call' = Idle /\ UNCHANGED <<blocks, search>>
       ELSE Add_Used(v)
    /\ UNCHANGED val

(***************************************************************************)
(* One iteration of the loop of Add_Used.  The bounds of the blocks next   *)
(* to the value are fetched again only where the search did not end on     *)
(* neighbours; otherwise the local variables are used, of which narrowing  *)
(* sets "left" and "right" but neither "start" nor "end".                  *)
(***************************************************************************)
Below == IF search.first # search.last - 1 THEN blocks[search.last - 1]
         ELSE Block(search.start, search.left)

Mutant_CachedAbove == Block(search.right, search.end)

Above == IF search.last # search.first + 1 THEN blocks[search.first + 1]
         ELSE Block(search.right, search.end)

JoinAbove(v) ==
    LET i == search.last IN
    IF v > Below.end + 1 THEN [blocks EXCEPT ![i].start = v]
    ELSE RemoveAt([blocks EXCEPT ![i].start = Below.start], i - 1)

JoinBelow(v) ==
    LET i == search.first IN
    IF v < Above.start - 1 THEN [blocks EXCEPT ![i].end = v]
    ELSE RemoveAt([blocks EXCEPT ![i].end = Above.end], i + 1)

Mid == (search.first + search.last) \div 2

Mutant_StaleRight(v) ==
    IF v < blocks[Mid].start
    THEN [search EXCEPT !.last = Mid]
    ELSE [search EXCEPT !.first = Mid, !.left = blocks[Mid].end]

Narrow(v) ==
    IF v < blocks[Mid].start
    THEN [search EXCEPT !.last = Mid, !.right = blocks[Mid].start]
    ELSE [search EXCEPT !.first = Mid, !.left = blocks[Mid].end]

Mutant_NoGap ==
    LET v == call.new
        Done(s) == blocks' = s /\ call' = Idle /\ search' = NoSearch
    IN /\ call.op = "add_search"
       /\ CASE v = search.right - 1 -> Done(JoinAbove(v))
            [] v # search.right - 1 /\ v = search.left + 1 ->
                 Done(JoinBelow(v))
            [] OTHER -> search' = Narrow(v) /\ UNCHANGED <<blocks, call>>
       /\ UNCHANGED <<val, items>>

Add_Search ==
    LET v == call.new
        Done(s) == blocks' = s /\ call' = Idle /\ search' = NoSearch
    IN /\ call.op = "add_search"
       /\ CASE v = search.right - 1 -> Done(JoinAbove(v))
            [] v # search.right - 1 /\ v = search.left + 1 ->
                 Done(JoinBelow(v))
            [] v \notin {search.right - 1, search.left + 1}
               /\ Mid = search.first ->
                 Done(New_Block(blocks, search.last, v, v))
            [] OTHER -> search' = Narrow(v) /\ UNCHANGED <<blocks, call>>
       /\ UNCHANGED <<val, items>>

-----------------------------------------------------------------------------
(***************************************************************************)
(* Del_From_Range: value v leaves block i, which may vanish, shrink or     *)
(* split.                                                                  *)
(***************************************************************************)
Del_From_Range(i, v) ==
    LET b == blocks[i] IN
    CASE b = Block(v, v) -> RemoveAt(blocks, i)
      [] v = b.start /\ v < b.end -> [blocks EXCEPT ![i].start = v + 1]
      [] v > b.start /\ v = b.end -> [blocks EXCEPT ![i].end = v - 1]
      [] OTHER -> New_Block([blocks EXCEPT ![i].end = v - 1], i + 1,
                            v + 1, b.end)

(***************************************************************************)
(* Del_Used up to its loop: the last block, the first, or a search.        *)
(***************************************************************************)
Del_Used(v) ==
    LET n == Len(blocks) IN
    IF v >= blocks[n].start \/ v <= blocks[1].end
    THEN /\ blocks' = Del_From_Range(IF v >= blocks[n].start THEN n ELSE 1, v)
         /\ call' = AfterDelete
         /\ UNCHANGED search
    ELSE /\ search' = [NoSearch EXCEPT !.first = 1, !.last = n]
         /\ call' = [call EXCEPT !.op = "del_search"]
         /\ UNCHANGED blocks

Udb_Delete_Range_Entry ==
    LET v == call.old IN
    /\ call.op = "delete"
    /\ items' = [items EXCEPT ![v] = @ \ {call.obj}]
    /\ IF items[v] # {call.obj}
       THEN call' = AfterDelete /\ UNCHANGED <<blocks, search>>
       ELSE Del_Used(v)
    /\ UNCHANGED val

(***************************************************************************)
(* One iteration of the loop of Del_Used.                                  *)
(***************************************************************************)
Del_Search ==
    LET v == call.old
        b == blocks[Mid]
    IN /\ call.op = "del_search"
       /\ IF v \in b.start..b.end
          THEN /\ blocks' = Del_From_Range(Mid, v)
               /\ call' = AfterDelete
               /\ search' = NoSearch
          ELSE /\ search' = IF v < b.start THEN [search EXCEPT !.last = Mid]
                            ELSE [search EXCEPT !.first = Mid]
               /\ UNCHANGED <<blocks, call>>
       /\ UNCHANGED <<val, items>>

-----------------------------------------------------------------------------
Init == /\ val = [o \in Obj |-> Null]
        /\ items = [v \in Value |-> {}]
        /\ blocks = <<>>
        /\ call = Idle
        /\ search = NoSearch

Continue == \/ Udb_Delete_Range_Entry
            \/ Del_Search
            \/ Udb_Add_Range_Entry
            \/ Add_Search

Next == \/ \E o \in Obj, new \in Value \cup {Null} :
              Update_Range_Caches(o, new)
        \/ \E o \in Obj : Unameit_Autoint_Trigger(o)
        \/ Continue

Spec == Init /\ [][Next]_vars

(***************************************************************************)
(* The server is one thread: a call it has begun runs on to its end.       *)
(***************************************************************************)
FairSpec == Spec /\ WF_vars(Continue)

-----------------------------------------------------------------------------
Interval == [start : Value, end : Value]

\* The type invariant.
TypeOK ==
    /\ val \in [Obj -> Value \cup {Null}]
    /\ items \in [Value -> SUBSET Obj]
    /\ blocks \in Seq(Interval)
    /\ call \in [op : {"idle", "delete", "del_search", "add", "add_search"},
                 obj : Obj \cup {Null}, old : Value \cup {Null},
                 new : Value \cup {Null}]
    /\ search \in [first : Nat, last : Nat, start : Value, left : Value,
                   right : Value, end : Value]

Used == {v \in Value : items[v] # {}}
Covered(s) == {v \in Value : \E i \in DOMAIN s : v \in s[i].start..s[i].end}

\* Blocks are not empty, ascend, and have a free value between them.
Separate(s) == /\ \A i \in DOMAIN s : s[i].start <= s[i].end
               /\ \A i, j \in DOMAIN s : i < j => s[i].end + 1 < s[j].start

\* Between calls the blocks that Add_Used and Del_Used keep cover exactly
\* the values that some object holds, each block as long as it can be.
UsedExact == call.op = "idle" => Covered(blocks) = Used /\ Separate(blocks)

\* The searches never leave the value: what Add_Used asserts in its loop
\* ("ival < right", "ival > left"), and what keeps the "mid > first" that
\* Del_Used asserts: the value lies strictly between the first and the last
\* block of the search, and in one of the blocks between.
SearchSound ==
    /\ call.op = "add_search" =>
          /\ search.left < call.new /\ call.new < search.right
          /\ search.left = blocks[search.first].end
          /\ search.right = blocks[search.last].start
    /\ call.op = "del_search" =>
          \E i \in search.first + 1 .. search.last - 1 :
             call.old \in blocks[i].start..blocks[i].end

\* Udb_Auto_Integer returns the least value from the minimum on that no
\* object holds: a generated value never collides, and none is skipped.
AutoLeast ==
    call.op = "idle" =>
       \A min \in Value :
          LET a == Udb_Auto_Integer(min) IN
          a \in min..Hi + 1 /\ a \notin Used /\ min..a - 1 \subseteq Used

\* Every update of the caches ends: the searches close in on the value.
CallEnds == call.op # "idle" ~> call.op = "idle"
=============================================================================
