----------------------------- MODULE References ----------------------------
(***************************************************************************)
(* Pointers between objects (libudb/relation.c).  For every value of a     *)
(* pointer attribute there is a relation object; the relations that lead   *)
(* to an object hang on doubly linked lists, one for each of the actions   *)
(* Block, Cascade and Nullify, and relations no longer in use are kept on  *)
(* a free list of the attribute.  Deleting an object deletes or nullifies  *)
(* along those lists and leaves the Block pointers for the commit to       *)
(* check; pointers that may not form loops are checked at commit too.      *)
(*                                                                         *)
(* A delete is a sequence of steps (the loops of Process_Rhs_Relations,    *)
(* which unameit_delete re-enters for each object it cascades to); every   *)
(* other call is one step.                                                 *)
(*                                                                         *)
(* An operator named Mutant_... is a plausible fault of the one after it,  *)
(* for testing the properties; the specification does not use it.          *)
(***************************************************************************)
EXTENDS Naturals, FiniteSets, SequencesExt

CONSTANTS Obj,      \* objects
          Attr,     \* pointer attributes, in every class
          Action,   \* what each attribute asks for: see Actions
          Vector,   \* the set-valued attributes; the others are scalar
          Loop,     \* the attributes that may not form loops
          Null,
          MaxCalls  \* bound: calls in one transaction

Actions == {"Block", "Cascade", "Nullify"}

\* What the schema and the instances of this module provide.
ConstantsFit == /\ Action \in [Attr -> Actions]
                /\ Vector \subseteq Attr
                /\ Loop \subseteq Attr
                /\ Null \notin Obj
                /\ IsFiniteSet(Obj) /\ IsFiniteSet(Attr)

VARIABLES st,     \* status of each object
          val,    \* what the attributes of each undeleted object point at
          rel,    \* the relation objects, numbered as they are made
          head,   \* "backp/<action>" of each object: first relation
          free,   \* "nextfree" of each relation class: the free relations
          refs,   \* refTable: objects to check for Block pointers at commit
          loops,  \* loopTblPtr: <<attribute, object>> to search at commit
          stack,  \* the objects whose deletion is going on, innermost last
          saved,  \* st, val, rel, head and free as committed
          calls   \* calls made in this transaction

data == <<st, val, rel, head, free>>
vars == <<data, refs, loops, stack, saved, calls>>

Live == {o \in Obj : st[o] = "live"}
Rel == DOMAIN rel
Relation == [attr : Attr, lhs : Obj \cup {Null}, rhs : Obj \cup {Null},
             prev : Obj \cup Rel \cup {Null}, next : Rel \cup {Null}]
Nothing == [a \in Attr |-> {}]
InUse == {r \in Rel : rel[r].lhs # Null}

(***************************************************************************)
(* The lists.  These operators take and return [rel, head, free].          *)
(***************************************************************************)
Lists == [rel |-> rel, head |-> head, free |-> free]

\* Build_Relation: put relation r at the head of the list of object rhs.
Build_Relation(s, r, a, lhs, rhs) ==
    LET b == Action[a]
        next == s.head[rhs][b]
        new == [attr |-> a, lhs |-> lhs, rhs |-> rhs,
                prev |-> rhs, next |-> next]
        linked == [i \in DOMAIN s.rel \cup {r} |->
                     IF i = r THEN new
                     ELSE IF i = next THEN [s.rel[i] EXCEPT !.prev = r]
                     ELSE s.rel[i]]
    IN  [s EXCEPT !.rel = linked, !.head[rhs][b] = r]

\* New_Relation, with a free relation if there is one.
New_Relation(s, a, lhs, rhs) ==
    IF s.free[a] # <<>>
      THEN Build_Relation([s EXCEPT !.free[a] = Tail(@)], Head(s.free[a]),
                          a, lhs, rhs)
      ELSE Build_Relation(s, Cardinality(DOMAIN s.rel) + 1, a, lhs, rhs)

\* The first half of Update_Relation: take relation r off its list.
Mutant_NextKeepsPrev(s, r) ==
    LET x == s.rel[r]
    IN  IF x.prev # x.rhs
          THEN [s EXCEPT !.rel[x.prev].next = x.next]
          ELSE [s EXCEPT !.head[x.rhs][Action[x.attr]] = x.next]
Unlink(s, r) ==
    LET x == s.rel[r]
        cut == IF x.prev # x.rhs
                 THEN [s EXCEPT !.rel[x.prev].next = x.next]
                 ELSE [s EXCEPT !.head[x.rhs][Action[x.attr]] = x.next]
    IN  IF x.next = Null THEN cut
        ELSE [cut EXCEPT !.rel[x.next].prev = x.prev]

\* A relation on the free list has no lhs; its other fields are set again
\* before they are read.
Drop_Relation(s, r) ==
    LET a == s.rel[r].attr
        cut == Unlink(s, r)
    IN  [cut EXCEPT !.rel[r] = [attr |-> a, lhs |-> Null, rhs |-> Null,
                                prev |-> Null, next |-> Null],
                    !.free[a] = <<r>> \o @]

Update_Relation(s, r, rhs) ==
    IF rhs = Null THEN Drop_Relation(s, r)
    ELSE Build_Relation(Unlink(s, r), r, s.rel[r].attr, s.rel[r].lhs, rhs)

RelationsOf(s, o, a) == {r \in DOMAIN s.rel : s.rel[r].lhs = o
                                              /\ s.rel[r].attr = a}

(***************************************************************************)
(* Set attribute a of object o to the set v of objects.  A new object has  *)
(* no relations yet, and is not looked up.                                 *)
(***************************************************************************)
Update_Scalar_Relation(s, o, a, v, new) ==
    LET old == IF new THEN {} ELSE RelationsOf(s, o, a)
        rhs == IF v = {} THEN Null ELSE CHOOSE p \in v : TRUE
    IN  IF old # {} THEN Update_Relation(s, CHOOSE r \in old : TRUE, rhs)
        ELSE IF v # {} THEN New_Relation(s, a, o, rhs)
        ELSE s

\* Relations that stay are left alone, the others freed, then the new ones
\* made.  The order within each group is that of a query or a hash table.
Mutant_KeepExtant(s, o, a, v, new) ==
    LET old == IF new THEN {} ELSE RelationsOf(s, o, a)
        kept == {s.rel[r].rhs : r \in old} \cap v
    IN  FoldLeft(LAMBDA t, p : New_Relation(t, a, o, p), s,
                 SetToSeq(v \ kept))
Update_Vector_Relation(s, o, a, v, new) ==
    LET old == IF new THEN {} ELSE RelationsOf(s, o, a)
        extant == {r \in old : s.rel[r].rhs \notin v}
        kept == {s.rel[r].rhs : r \in old \ extant}
        freed == FoldLeft(Drop_Relation, s, SetToSeq(extant))
    IN  FoldLeft(LAMBDA t, p : New_Relation(t, a, o, p), freed,
                 SetToSeq(v \ kept))

Set_Relations(s, o, a, v, new) ==
    IF a \in Vector THEN Update_Vector_Relation(s, o, a, v, new)
                    ELSE Update_Scalar_Relation(s, o, a, v, new)

\* The searches for loops that an update of attribute a of o to v calls for:
\* from the new target of a scalar, from the object itself of a set if it
\* got a new member.
Mutant_NoVectorCheck(o, a, v) ==
    IF a \in Loop \ Vector THEN {<<a, p>> : p \in v} ELSE {}
Maybe_Add_Loop_Check(o, a, v) ==
    IF a \notin Loop THEN {}
    ELSE IF a \in Vector THEN IF v \subseteq val[o][a] THEN {} ELSE {<<a, o>>}
    ELSE {<<a, p>> : p \in v}

AttrSeq == SetToSeq(Attr)
Put(lists) ==
    \E s \in {lists} : rel' = s.rel /\ head' = s.head /\ free' = s.free

(***************************************************************************)
(* Calls.                                                                  *)
(***************************************************************************)
Idle == stack = <<>>
Call == Idle /\ calls < MaxCalls /\ calls' = calls + 1

\* Udb_Set_Attribute: pointers to live objects only.
Values == {v \in [Attr -> SUBSET Live] :
             \A a \in Attr \ Vector : Cardinality(v[a]) <= 1}

\* Udb_Create and Udb_Undelete set every attribute of an object that nothing
\* may point at yet, and search for no loops.
Enter(o, v) ==
    /\ st' = [st EXCEPT ![o] = "live"]
    /\ val' = [val EXCEPT ![o] = v]
    /\ Put(FoldLeft(LAMBDA s, a : Set_Relations(s, o, a, v[a], TRUE),
                    Lists, AttrSeq))
    /\ UNCHANGED <<refs, loops, stack, saved>>

Udb_Create(o) ==
    Call /\ st[o] = "absent" /\ \E v \in Values : Enter(o, v)

Udb_Undelete(o) ==
    Call /\ st[o] = "deleted" /\ \E v \in Values : Enter(o, v)

Set(o, a, v) ==
    /\ a \notin Vector => Cardinality(v) <= 1
    /\ val' = [val EXCEPT ![o][a] = v]
    /\ Put(Set_Relations(Lists, o, a, v, FALSE))
    /\ loops' = loops \cup Maybe_Add_Loop_Check(o, a, v)
    /\ UNCHANGED <<st, refs, stack, saved>>

Udb_Update(o) ==
    Call /\ st[o] = "live" /\ \E a \in Attr, v \in SUBSET Live : Set(o, a, v)

\* The start of Udb_Delete_Object: the relations from o go, and its loop
\* searches.  The values that a deleted object keeps are forgotten here: an
\* undelete gives every attribute, and a commit fails its reference checks
\* before it would follow a pointer into a deleted object.
Drop_Lhs_Relations(s, o) ==
    FoldLeft(Drop_Relation, s, SetToSeq({r \in DOMAIN s.rel : s.rel[r].lhs = o}))

Delete_Object(o) ==
    /\ st' = [st EXCEPT ![o] = "deleted"]
    /\ Put(Drop_Lhs_Relations(Lists, o))
    /\ loops' = {c \in loops : c[2] # o}
    /\ stack' = Append(stack, o)
    /\ val' = [val EXCEPT ![o] = Nothing]

Udb_Delete(o) ==
    /\ Call
    /\ o \in Live
    /\ Delete_Object(o)
    /\ UNCHANGED <<refs, saved>>

\* The object whose relations Process_Rhs_Relations is working on.
Top == Last(stack)

Cascade ==
    /\ ~ Idle
    /\ head[Top]["Cascade"] # Null
    /\ Delete_Object(rel[head[Top]["Cascade"]].lhs)
    /\ UNCHANGED <<refs, saved, calls>>

\* Nullify_Attribute, then Update_Relation.
Nullify ==
    LET r == head[Top]["Nullify"]
    IN  /\ ~ Idle
        /\ head[Top]["Cascade"] = Null
        /\ r # Null
        /\ val' = [val EXCEPT ![rel[r].lhs][rel[r].attr] = @ \ {Top}]
        /\ Put(Drop_Relation(Lists, r))
        /\ UNCHANGED <<st, refs, loops, stack, saved, calls>>

Add_Reference_Check ==
    refs' = IF head[Top]["Block"] # Null THEN refs \cup {Top} ELSE refs

Delete_Return ==
    /\ ~ Idle
    /\ head[Top]["Cascade"] = Null
    /\ head[Top]["Nullify"] = Null
    /\ Add_Reference_Check
    /\ stack' = Front(stack)
    /\ UNCHANGED <<data, loops, saved, calls>>

Mutant_NoReferenceChecks == TRUE
Mutant_BlockDeletedOnly ==
    \A o \in refs \ Live : head[o]["Block"] = Null
Udb_Do_Reference_Checks == \A o \in refs : head[o]["Block"] = Null

\* The objects that a pointer path of attribute a leads to from object o.
Reach(a, o) ==
    LET r[n \in 0..Cardinality(Obj)] ==
          IF n = 0 THEN val[o][a]
          ELSE r[n - 1] \cup UNION {val[p][a] : p \in r[n - 1]}
    IN  r[Cardinality(Obj)]

\* Collection_Loop_Leaf and Scalar_Loop_Leaf find a loop exactly if one can
\* be reached from where they start.
Udb_Do_Loop_Checks ==
    \A c \in loops : \A p \in {c[2]} \cup Reach(c[1], c[2]) :
       p \notin Reach(c[1], p)

Committed(c) ==
    /\ refs' = {} /\ loops' = {}
    /\ calls' = c

Udb_Commit ==
    /\ Idle
    /\ Udb_Do_Reference_Checks
    /\ Udb_Do_Loop_Checks
    /\ saved' = data
    /\ Committed(0)
    /\ UNCHANGED <<data, stack>>

\* Udb_Rollback, a commit that fails a check, an error in mid-delete (which
\* always forces a rollback), a crash.
Udb_Rollback ==
    /\ calls > 0
    /\ st' = saved[1] /\ val' = saved[2]
    /\ rel' = saved[3] /\ head' = saved[4] /\ free' = saved[5]
    /\ stack' = <<>>
    /\ Committed(0)
    /\ UNCHANGED saved

Init ==
    /\ st = [o \in Obj |-> "absent"]
    /\ val = [o \in Obj |-> Nothing]
    /\ rel = <<>>
    /\ head = [o \in Obj |-> [b \in Actions |-> Null]]
    /\ free = [a \in Attr |-> <<>>]
    /\ refs = {} /\ loops = {}
    /\ stack = <<>>
    /\ saved = data
    /\ calls = 0

DeleteStep == Cascade \/ Nullify \/ Delete_Return

Next ==
    \/ \E o \in Obj : Udb_Create(o)
    \/ \E o \in Obj : Udb_Undelete(o)
    \/ \E o \in Obj : Udb_Update(o)
    \/ \E o \in Obj : Udb_Delete(o)
    \/ DeleteStep
    \/ Udb_Commit
    \/ Udb_Rollback

Spec == Init /\ [][Next]_vars

\* The server is one thread: a delete that has begun keeps running.
FairSpec == Spec /\ WF_vars(DeleteStep)

(***************************************************************************)
(* Properties.                                                             *)
(***************************************************************************)

TypeOK ==
    /\ st \in [Obj -> {"absent", "live", "deleted"}]
    /\ val \in [Obj -> [Attr -> SUBSET Obj]]
    /\ \A r \in Rel : rel[r] \in Relation
    /\ head \in [Obj -> [Actions -> Rel \cup {Null}]]
    /\ free \in [Attr -> Seq(Rel)]
    /\ refs \subseteq Obj
    /\ loops \subseteq Loop \X Obj
    /\ stack \in Seq(Obj)
    /\ calls \in 0..MaxCalls

\* There is one relation for every value of every pointer attribute of a live
\* object, and no other: so what a delete finds on its lists is all that
\* points at the object, and objects it cascades to "are never already
\* deleted" (unameit_delete).
Mirror ==
    /\ {<<rel[r].attr, rel[r].lhs, rel[r].rhs>> : r \in InUse} =
         {<<a, o, p>> \in Attr \X Live \X Obj : p \in val[o][a]}
    /\ Cardinality(InUse) =
         Cardinality({<<a, o, p>> \in Attr \X Live \X Obj : p \in val[o][a]})

Walk(o, b) ==
    LET w[n \in 0..Cardinality(Rel)] ==
          IF n = 0 THEN head[o][b]
          ELSE IF w[n - 1] = Null THEN Null ELSE rel[w[n - 1]].next
    IN  w

\* Each list holds exactly the relations that lead to its object with its
\* action, and every back link undoes a forward link, so that a relation can
\* be taken off without a search; free relations are on one free list, once.
WellLinked ==
    /\ \A o \in Obj, b \in Actions :
         LET w == Walk(o, b)
         IN  /\ w[Cardinality(Rel)] = Null
             /\ {w[n] : n \in 0..Cardinality(Rel)} \ {Null} =
                  {r \in InUse : rel[r].rhs = o /\ Action[rel[r].attr] = b}
    /\ \A r \in InUse :
         /\ rel[r].next # Null => rel[rel[r].next].prev = r
         /\ rel[r].prev = rel[r].rhs
              <=> head[rel[r].rhs][Action[rel[r].attr]] = r
    /\ \A a \in Attr : /\ ToSet(free[a]) = {r \in Rel \ InUse : rel[r].attr = a}
                       /\ IsInjective(free[a])

\* Between calls, only a Block pointer can lead from a live object to one that
\* is not, and the commit is going to look at that object.
DanglingIsPending ==
    Idle => \A o \in Live, a \in Attr : \A p \in val[o][a] \ Live :
              Action[a] = "Block" /\ p \in refs

\* In a committed database every pointer of a live object leads to a live one.
NoDangling ==
    calls = 0 => \A o \in Live, a \in Attr : val[o][a] \subseteq Live

\* In a committed database no attribute that is to be checked for loops has
\* one, although new and undeleted objects are never searched from.
Acyclic ==
    calls = 0 => \A a \in Loop, o \in Live : o \notin Reach(a, o)

\* A delete comes to an end, however the pointers of the objects that it
\* cascades to are tangled.
DeleteEnds == (stack # <<>>) ~> (stack = <<>>)
============================================================================
