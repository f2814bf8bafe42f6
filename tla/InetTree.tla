------------------------------ MODULE InetTree ------------------------------
(* The address hierarchy of libudb/inet.c: the tree of prefix blocks that    *)
(* holds the networks, ranges and nodes of one address family, the parent    *)
(* network every item carries, and the checks run when a transaction         *)
(* commits (udbproc.tcl).  An address is a natural number of inet_bits bits; *)
(* every operator takes the whole image of the tree, s, and returns the next *)
(* one, as the C functions edit the objects of the database in place.        *)
EXTENDS Integers, Sequences, FiniteSets, SequencesExt, FiniteSetsExt, Bitwise

CONSTANTS
    NSHIFT,          \* bits a natural sub-block adds (4 in the source)
    inet_bits,       \* bits of an address
    Nets, Nodes, DhcpRanges,      \* the items, disjoint sets
    NetInputs,       \* [start, bits, mbits, type]: networks that may be asked for
    NodeInputs,      \* addresses
    RangeInputs,     \* [start, end, type, devices]
    Classes,         \* Classes[n]: the classes of node n and of its owners
    NodeZero, LastNode, NetZero, LastNet,   \* "Reserved" or "Available"
    NULL

ASSUME Widths == /\ NSHIFT \in Nat \ {0} /\ inet_bits \in Nat \ {0}
                 /\ inet_bits % NSHIFT = 0

Items == Nets \cup Nodes \cup DhcpRanges

-----------------------------------------------------------------------------
(* Prefixes. *)

Cut(a, bits) == a \div 2^(inet_bits - bits)

\* SUB_BITS and SUB_INDEX: what a block of `bits` bits is divided into.
SubBits(bits) == NSHIFT - (bits % NSHIFT)
SubIndex(a, bits) == Cut(a, bits + SubBits(bits)) % 2^SubBits(bits)

\* The length of the longest common prefix.
CommonBits(x, y) == Cardinality({k \in 1..inet_bits : Cut(x, k) = Cut(y, k)})

\* The prefix an item occupies; a range goes to the block its ends share.
Inet_Info_Prefix(i, info) ==
    CASE i \in Nodes -> [addr |-> info, bits |-> inet_bits]
      [] i \in Nets  -> [addr |-> info.start, bits |-> info.bits]
      [] i \in DhcpRanges ->
            [addr |-> info.start,
             bits |-> IF info.start = info.end THEN inet_bits - 1
                      ELSE CommonBits(info.start, info.end)]

\* What Inet_Net_Prefix and Inet_Range_Prefix accept.
ValidInfo(s, i, info) ==
    /\ i \in Nets => info.start % 2^(inet_bits - info.bits) = 0
    /\ i \in DhcpRanges => info.start <= info.end
    /\ s.universe = NULL => i \in Nets /\ info.bits = 0

-----------------------------------------------------------------------------
(* Blocks.  subs is a partial function from sub-block index to block.  A     *)
(* freed block stays on the free list of its class with its old contents.    *)

Nth(subs, k) == IF k \in DOMAIN subs THEN subs[k] ELSE NULL
NoSubs == [k \in {} |-> NULL]

NewObject(bits) ==
    [bits |-> bits, super |-> NULL, subs |-> NoSubs, nets |-> <<>>,
     nodes |-> <<>>, ranges |-> <<>>, netRanges |-> <<>>, nNodes |-> 0,
     aNode |-> NULL, nSubnets |-> 0, aSubnet |-> NULL, stamp |-> "min",
     free |-> FALSE]

FirstOf(seq) == IF seq = <<>> THEN NULL ELSE Head(seq)
Inet_First_Item(s, b, list) == FirstOf(s.blk[b][list])

ListName(i) == CASE i \in Nodes -> "nodes" [] i \in Nets -> "nets"
                 [] i \in DhcpRanges -> "ranges"

Udb_Append_Free_List(s, b) == [s EXCEPT !.blk[b].free = TRUE]

\* The object Udb_Edit_Free_Object hands out: one of the same class from the
\* free list, or a new one.
FreeObject(s, bits) ==
    LET free == {b \in DOMAIN s.blk : /\ s.blk[b].free
                                      /\ s.blk[b].bits = inet_bits <=> bits = inet_bits}
    IN  IF free # {} THEN Min(free) ELSE Cardinality(DOMAIN s.blk) + 1

-----------------------------------------------------------------------------
(* Parent networks: counts, range lists and pending checks. *)

\* Inet_Check, Inet_Uncheck: the tables of items and blocks to check at commit.
Inet_Check(table, o) == table \cup {o}
Inet_Uncheck(table, o) == table \ {o}

Inet_Update_Block_Count(s, old, new, i, count, item) ==
    LET Bump(t, b, d, n, v) ==
            IF b = NULL THEN t
            ELSE [t EXCEPT !.blk[b] =
                     [@ EXCEPT ![count] = @ + d,
                               ![item] = IF s.blk[b][count] + d = n THEN v ELSE @]]
    IN  IF old = new THEN s ELSE Bump(Bump(s, old, -1, 0, NULL), new, 1, 1, i)

\* The loop steps past the first range that does not start below the new one
\* before it stops.
RangeSlot(s, list, r) ==
    LET later == {k \in 1..Len(list) : s.item[list[k]].info.start >= s.item[r].info.start}
    IN  IF later = {} THEN Len(list) + 1 ELSE Min(later) + 1

Inet_Move_Range(s, old, new, r) ==
    LET t == IF old = NULL THEN s
             ELSE [s EXCEPT !.blk[old].netRanges = RemoveFirst(@, r)]
    IN  IF old = new THEN s
        ELSE IF new = NULL THEN t
        ELSE [t EXCEPT !.blk[new].netRanges = InsertAt(@, RangeSlot(t, @, r), r)]

Inet_Set_Netof(s, i, net) ==
    LET BlockOf(n) == IF n = NULL THEN NULL ELSE s.item[n].block
        old == BlockOf(s.item[i].netof)
        new == BlockOf(net)
        t == CASE i \in Nodes -> Inet_Update_Block_Count(s, old, new, i, "nNodes", "aNode")
               [] i \in Nets -> Inet_Update_Block_Count(s, old, new, i, "nSubnets", "aSubnet")
               [] i \in DhcpRanges -> Inet_Move_Range(s, old, new, i)
    IN  [t EXCEPT !.itemCheck = IF net # NULL THEN Inet_Check(@, i) ELSE Inet_Uncheck(@, i),
                  !.item[i].netof = net]

Inet_Add(s, b, i) ==
    LET list == ListName(i)
    IN  [s EXCEPT !.blk[b][list] = Append(@, i),
                  !.blockCheck = IF i \notin DhcpRanges /\ Len(s.blk[b][list]) = 1
                                 THEN Inet_Check(@, b) ELSE @]

Inet_Drop(s, b, i) ==
    LET list == ListName(i)
    IN  [s EXCEPT !.blk[b][list] = RemoveFirst(@, i),
                  !.blockCheck = IF i \notin DhcpRanges /\ Len(s.blk[b][list]) = 2
                                 THEN Inet_Uncheck(@, b) ELSE @]

Inet_Reparent_Items(s, b, list, net) ==
    FoldLeft(LAMBDA t, i : Inet_Set_Netof(t, i, net), s, s.blk[b][list])

\* The sub-blocks of a block in the order of their first index.
SubBlocks(s, b) ==
    LET subs == s.blk[b].subs
        FirstAt(k) == k \in DOMAIN subs /\ \A j \in DOMAIN subs : subs[j] = subs[k] => k <= j
        indices == [k \in 1..2^SubBits(s.blk[b].bits) |-> k - 1]
        order == SelectSeq(indices, FirstAt)
    IN  [n \in DOMAIN order |-> subs[order[n]]]

\* Inet_Reparent: items of the block, and of its sub-blocks down to the next
\* networks, move under `net`; sub-blocks no longer in use are freed.
RECURSIVE Inet_Reparent(_, _, _, _)
Inet_Reparent(s, b, net, skipNets) ==
    IF ~skipNets /\ s.blk[b].bits = inet_bits
    THEN [tree |-> Inet_Reparent_Items(s, b, "nodes", net), used |-> s.blk[b].nodes # <<>>]
    ELSE IF ~skipNets /\ s.blk[b].nets # <<>>
    THEN [tree |-> Inet_Reparent_Items(s, b, "nets", net), used |-> TRUE]
    ELSE LET Sub(acc, o) ==
                 LET r == Inet_Reparent(acc.tree, o, net, FALSE)
                 IN  IF r.used THEN r
                     ELSE [tree |-> [Udb_Append_Free_List(r.tree, o) EXCEPT
                                        !.blk[b].subs = [k \in {j \in DOMAIN @ : @[j] # o} |-> @[k]]],
                           used |-> acc.used]
         IN  FoldLeft(Sub, [tree |-> Inet_Reparent_Items(s, b, "ranges", net),
                            used |-> s.blk[b].ranges # <<>>],
                      SubBlocks(s, b))

-----------------------------------------------------------------------------
(* Finding, inserting, deleting. *)

RECURSIVE FindFrom(_, _, _, _)
FindFrom(s, p, b, net) ==
    LET o == Nth(s.blk[b].subs, SubIndex(p.addr, s.blk[b].bits))
    IN  IF s.blk[b].bits < p.bits /\ o # NULL /\ s.blk[o].bits <= p.bits
        THEN FindFrom(s, p, o, IF s.blk[o].bits < inet_bits /\ s.blk[o].nets # <<>>
                               THEN Head(s.blk[o].nets) ELSE net)
        ELSE [block |-> b, net |-> net]

Inet_Find(s, p) ==
    IF s.root = NULL THEN [block |-> NULL, net |-> NULL]
    ELSE FindFrom(s, p, s.root, s.universe)

\* Inet_Insert_Root: the first network is the universe.
Inet_Insert_Root(s, i) ==
    LET b == Cardinality(DOMAIN s.blk) + 1
    IN  [s EXCEPT !.blk = [x \in DOMAIN @ \cup {b} |->
                              IF x = b THEN [NewObject(0) EXCEPT !.nets = <<i>>] ELSE @[x]],
                  !.item[i].block = b, !.root = b, !.universe = i]

\* Mutants: the new block leaves the blocks it covers unreachable, or reachable
\* but with their old super link.
BlockLink(s, p, b, keep) ==
    LET pbits == s.blk[b].bits
        natural == pbits + SubBits(pbits)
        bits == Min({natural, p.bits})
        index == SubIndex(p.addr, pbits)
        span == index..(index + 2^(natural - bits) - 1)
        psubs == s.blk[b].subs
        n == Cardinality(DOMAIN s.blk) + 1
        subs == [k \in {j - index : j \in span \cap DOMAIN psubs} |-> psubs[k + index]]
        new == [NewObject(bits) EXCEPT !.super = b,
                   !.subs = IF keep /\ bits < inet_bits THEN subs ELSE @]
    IN  [tree |-> [s EXCEPT !.blk =
                      [x \in DOMAIN @ \cup {n} |->
                          CASE x = n -> new
                            [] x = b -> [@[b] EXCEPT !.subs =
                                   [k \in DOMAIN psubs \cup span |-> IF k \in span THEN n ELSE psubs[k]]]
                            [] OTHER -> @[x]]],
         block |-> n]
BlockAlone(s, p, b) == BlockLink(s, p, b, FALSE)
BlockOldSuper(s, p, b) == BlockLink(s, p, b, TRUE)

\* Inet_New_Block: the next block on the way from block b to prefix p.  A block
\* that ends before the natural boundary takes over the sub-blocks it covers.
Inet_New_Block(s, p, b) ==
    LET pbits == s.blk[b].bits
        natural == pbits + SubBits(pbits)
        bits == Min({natural, p.bits})
        index == SubIndex(p.addr, pbits)
        span == index..(index + 2^(natural - bits) - 1)
        psubs == s.blk[b].subs
        taken == IF bits < inet_bits THEN span \cap DOMAIN psubs ELSE {}
        n == FreeObject(s, bits)
        old == IF n \in DOMAIN s.blk THEN s.blk[n] ELSE NewObject(bits)
        new == [old EXCEPT
                  !.bits = bits, !.super = b, !.free = FALSE,
                  !.stamp = IF bits = inet_bits THEN "max" ELSE @,
                  !.nNodes = 0, !.nSubnets = 0, !.aNode = NULL, !.aSubnet = NULL,
                  !.subs = IF taken = {} THEN @
                           ELSE [k \in {j - index : j \in taken} |-> psubs[k + index]]]
    IN  [tree |-> [s EXCEPT !.blk =
                      [x \in DOMAIN @ \cup {n} |->
                          CASE x = n -> new
                            [] x = b -> [@[b] EXCEPT !.subs =
                                   [k \in DOMAIN psubs \cup span |-> IF k \in span THEN n ELSE psubs[k]]]
                            [] x \in {psubs[k] : k \in taken} -> [@[x] EXCEPT !.super = n]
                            [] OTHER -> @[x]]],
         block |-> n]

\* From the block found (g: a tree and a block of it) down to prefix p.
RECURSIVE Grow(_, _)
Grow(g, p) ==
    IF g.tree.blk[g.block].bits = p.bits THEN g
    ELSE Grow(Inet_New_Block(g.tree, p, g.block), p)

\* Inet_Insert once the block is there: its first network takes over what lies
\* below; a second one has the parent of the first.
Place(g, i, net) ==
    LET t == IF i \in Nodes THEN g.tree ELSE [g.tree EXCEPT !.item[i].block = g.block]
        nets == g.tree.blk[g.block].nets
    IN  Inet_Add(Inet_Set_Netof(IF i \in Nets /\ nets = <<>>
                                THEN Inet_Reparent(t, g.block, i, TRUE).tree ELSE t,
                                i,
                                IF i \in Nets /\ nets # <<>> THEN t.item[net].netof ELSE net),
                 g.block, i)

InsertFrom(s, i, p, found) ==
    IF found.block = NULL THEN Inet_Insert_Root(s, i)
    ELSE Place(Grow([tree |-> s, block |-> found.block], p), i, found.net)

Inet_Insert(s, i, p) == InsertFrom(s, i, p, Inet_Find(s, p))

\* Inet_GC_Block: a block off the natural boundary is absorbed by its parent,
\* any other one goes when it has no sub-blocks; then its parent's turn.
RECURSIVE Inet_GC_Block(_, _, _)
Inet_GC_Block(s, p, b) ==
    LET parent == s.blk[b].super
        pbits == s.blk[parent].bits
        index == SubIndex(p.addr, pbits)
        absorb == pbits + SubBits(pbits) > s.blk[b].bits
        subs == s.blk[b].subs
        span == index..(index + 2^SubBits(s.blk[b].bits) - 1)
        moved == {k \in span : k - index \in DOMAIN subs}
        psubs == s.blk[parent].subs
        kept == IF absorb THEN DOMAIN psubs \ span ELSE DOMAIN psubs \ {index}
        t == [s EXCEPT !.blk =
                 [x \in DOMAIN @ |->
                     CASE x = parent -> [@[x] EXCEPT !.subs =
                              [k \in kept \cup (IF absorb THEN moved ELSE {}) |->
                                  IF k \in kept THEN psubs[k] ELSE subs[k - index]]]
                       [] x = b -> [@[x] EXCEPT !.subs = NoSubs]
                       [] absorb /\ x \in {subs[k - index] : k \in moved} ->
                              [@[x] EXCEPT !.super = parent]
                       [] OTHER -> @[x]]]
        inUse == s.blk[parent].nets # <<>> \/ s.blk[parent].ranges # <<>>
    IN  IF ~absorb /\ DOMAIN subs # {} THEN s
        ELSE IF inUse THEN Udb_Append_Free_List(t, b)
        ELSE Inet_GC_Block(Udb_Append_Free_List(t, b), p, parent)

\* The three cases of Inet_Delete, once item i is off the list of its block b in
\* tree t, up to the common clearing of the parent.
Delete_Node(t, b) ==
    IF t.blk[b].nodes = <<>> THEN [t EXCEPT !.blk[b].stamp = "time"] ELSE t

Delete_Range(t, b, p) ==
    IF t.blk[b].ranges = <<>> /\ t.blk[b].nets = <<>> THEN Inet_GC_Block(t, p, b) ELSE t

Unless_Used(r, b, p) == IF r.used THEN r.tree ELSE Inet_GC_Block(r.tree, p, b)

\* Mutant: nothing is handed to the second network of the block.
DeleteFirstOnly(t, i, b, p, net) ==
    IF i # net \/ Inet_First_Item(t, b, "nets") # NULL THEN t
    ELSE Unless_Used(Inet_Reparent(t, b, t.item[i].netof, TRUE), b, p)

\* The first network of a block leaves what lies below to the second, or to its
\* own parent.
Delete_Net(t, i, b, p, net) ==
    LET newNet == Inet_First_Item(t, b, "nets")
    IN  CASE i # net -> t
          [] i = net /\ newNet # NULL -> Inet_Reparent(t, b, newNet, TRUE).tree
          [] i = net /\ newNet = NULL ->
                Unless_Used(Inet_Reparent(t, b, t.item[i].netof, TRUE), b, p)

DeleteFrom(t, i, p, found) ==
    Inet_Set_Netof(CASE i \in Nodes -> Delete_Node(t, found.block)
                     [] i \in DhcpRanges -> [Delete_Range(t, found.block, p) EXCEPT !.item[i].block = NULL]
                     [] i \in Nets -> [Delete_Net(t, i, found.block, p, found.net) EXCEPT !.item[i].block = NULL],
                   i, NULL)

DropFrom(s, i, p, found) == DeleteFrom(Inet_Drop(s, found.block, i), i, p, found)

Inet_Delete(s, i, p) == DropFrom(s, i, p, Inet_Find(s, p))

Inet_Insert_Object(s, i, info) == Inet_Insert(s, i, Inet_Info_Prefix(i, info))
Inet_Delete_Object(s, i, info) == Inet_Delete(s, i, Inet_Info_Prefix(i, info))

\* Udb_Inet_Update: the item's description becomes `info` (NULL: it has none).
\* A change of place deletes and inserts again, any other change of a network
\* or range only has it checked at commit.
Udb_Inet_Update(s, i, info) ==
    LET old == s.item[i].info
        t == [s EXCEPT !.item[i].info = info]
        moves == \/ old = NULL \/ info = NULL
                 \/ i \in Nodes
                 \/ i \in Nets /\ <<old.start, old.bits>> # <<info.start, info.bits>>
                 \/ i \in DhcpRanges /\ <<old.start, old.end>> # <<info.start, info.end>>
        Insert(d) == IF info = NULL THEN d ELSE Inet_Insert_Object(d, i, info)
    IN  IF old = info THEN s
        ELSE IF ~moves THEN [t EXCEPT !.itemCheck = Inet_Check(@, i)]
        ELSE Insert(IF old = NULL THEN t ELSE Inet_Delete_Object(t, i, old))
=============================================================================
