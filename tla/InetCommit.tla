----------------------------- MODULE InetCommit -----------------------------
(* Transactions on the address hierarchy: updates of items, the integrity    *)
(* checks of a commit (Udb_Inet_Check_Integrity and the unameit_inet_check_  *)
(* procedures it evaluates), rollback, and the queries the validation        *)
(* triggers ask of the tree.                                                 *)
EXTENDS InetTree

CONSTANTS
    Universe,        \* the network of all addresses, one of Nets
    AutoBits,        \* prefix lengths asked of udb_inet_auto_net
    MaxUpdates       \* bound: updates in a behaviour

VARIABLES
    work,            \* the tree as the open transaction sees it
    disk,            \* the tree as last committed
    last,            \* what the last commit answered, "none" since an update
    updates          \* updates so far

vars == <<work, disk, last, updates>>

Info(s, i) == s.item[i].info
Netof(s, i) == s.item[i].netof
Placed(s, K) == {i \in K : Info(s, i) # NULL}
NetEnd(info) == info.start + 2^(inet_bits - info.bits) - 1

\* A network that may hold nodes and ranges but no networks.
Unsubnetted(info) == info.type = "Fixed" /\ info.mbits = info.bits

\* The device classes a range lets in: none if it is not Static.
Allowed(info) == IF info.type = "Static" THEN info.devices ELSE {}
Permitted(n, info) == Classes[n] \cap Allowed(info) # {}

-----------------------------------------------------------------------------
(* The search of a range for nodes it must not contain. *)

RECURSIVE Descend(_, _, _, _, _, _)
Descend(s, start, end, b, left, right) ==
    LET bits == s.blk[b].bits
        min == IF left THEN SubIndex(start, bits) ELSE 0
        max == IF right THEN SubIndex(end, bits) ELSE 2^SubBits(bits) - 1
        o == Nth(s.blk[b].subs, min)
    IN  IF bits = inet_bits THEN [block |-> b]
        ELSE IF min < max THEN [block |-> b, min |-> min, max |-> max]
        ELSE IF o = NULL THEN [block |-> NULL]
        ELSE Descend(s, start, end, o, left, right)

\* Inet_Sub_Prefix: write `index` into the bits of address a that a block of
\* `bits` bits divides, touching only the leading `incr` of them.
Inet_Sub_Prefix(a, bits, incr, index) ==
    LET low == 2^(inet_bits - bits - SubBits(bits))
        width == 2^(inet_bits - bits - incr)
        cleared == a - (((a \div width) % 2^incr) * width)
    IN  cleared | (index * low)

\* Inet_Search_Block: the first node at or after start, with start moved past
\* it on the way up.
RECURSIVE Inet_Search_Block(_, _, _, _, _, _)
RECURSIVE SearchFrom(_, _, _, _, _, _)
RECURSIVE SearchSubs(_, _, _, _, _, _, _)
Inet_Search_Block(s, start, end, b, left, right) ==
    SearchFrom(s, start, end, IF b = NULL THEN [block |-> NULL] ELSE Descend(s, start, end, b, left, right),
               left, right)

SearchFrom(s, start, end, d, left, right) ==
    IF d.block = NULL
    THEN [node |-> NULL, start |-> start, carry |-> FALSE, block |-> NULL]
    ELSE IF s.blk[d.block].bits = inet_bits
    THEN [node |-> Inet_First_Item(s, d.block, "nodes"), start |-> start,
          carry |-> TRUE, block |-> d.block]
    ELSE SearchSubs(s, start, end, d, left, right, d.min)

\* A node found below sub-block k: step past it.
StepPast(s, d, k, r, incr) ==
    LET next == IF r.carry THEN k + 1 ELSE k
        over == next > d.max
    IN  [node |-> r.node, carry |-> r.carry /\ over, block |-> d.block,
         start |-> Inet_Sub_Prefix(r.start, s.blk[d.block].bits, incr, IF over THEN 0 ELSE next)]

SearchSubs(s, start, end, d, left, right, k) ==
    LET bits == s.blk[d.block].bits
        o == Nth(s.blk[d.block].subs, k)
        incr == s.blk[o].bits - bits
        After(r) == IF r.node # NULL THEN StepPast(s, d, k, r, incr)
                    ELSE SearchSubs(s, start, end, d, left, right, k + 2^(SubBits(bits) - incr))
    IN  IF k > d.max
        THEN [node |-> NULL, start |-> start, carry |-> FALSE, block |-> d.block]
        ELSE IF o = NULL THEN SearchSubs(s, start, end, d, left, right, k + 1)
        ELSE After(Inet_Search_Block(s, start, end, o, left /\ k = d.min, right /\ k = d.max))

\* The loop of Inet_Check_RangeCmd: the first node found that the range does not
\* permit.  A search that is repeated as it was before never ends: "hang".
RECURSIVE CheckLoop(_, _, _, _)
CheckLoop(s, info, r, seen) ==
    IF r.node = NULL \/ ~Permitted(r.node, info) THEN r.node
    ELSE IF <<r.start, r.block>> \in seen THEN "hang"
    ELSE CheckLoop(s, info, Inet_Search_Block(s, r.start, info.end, r.block, TRUE, TRUE),
                   seen \cup {<<r.start, r.block>>})

Inet_Check_RangeCmd(s, r) ==
    LET info == Info(s, r)
    IN  CheckLoop(s, info, Inet_Search_Block(s, info.start, info.end, s.item[r].block, TRUE, TRUE), {})

-----------------------------------------------------------------------------
(* Commit-time checks; each answers "ok" or an error code.  nets is the order *)
(* in which the parent networks come out of the Tcl array.                    *)

First(codes) == LET bad == SelectSeq(codes, LAMBDA c : c # "ok")
                IN  IF bad = <<>> THEN "ok" ELSE Head(bad)

\* Inet_Net_ItemsCmd: what the block of a network keeps about the items in it.
Inet_Net_ItemsCmd(s, net) ==
    LET B == s.blk[s.item[net].block]
    IN  [anode |-> B.aNode, asubnet |-> B.aSubnet, ranges |-> B.netRanges]

\* unameit_inet_check_nets.  The last part compares the mask's bit count with
\* the end address (net_bits is bound to net_end there), so that every network
\* is taken for a subnetted one, which should have no ranges or nodes.
CheckSubnet(s, n) ==
    LET P == Info(s, Netof(s, n))
        N == Info(s, n)
    IN  CASE Unsubnetted(P) -> "EINETNOTSUBNETTED"
          [] P.type = "Fixed" /\ N.bits # P.mbits -> "EINETFIXEDBITS"
          [] NetZero = "Reserved" /\ N.start = P.start -> "EINETNETZERO"
          [] LastNet = "Reserved" /\ NetEnd(N) = NetEnd(P) -> "EINETLASTNET"
          [] OTHER -> "ok"

CheckSubnodes(s, n) ==
    LET items == Inet_Net_ItemsCmd(s, n)
    IN  IF items.ranges # <<>> \/ items.anode # NULL THEN "EINETSUBNETTED" ELSE "ok"

unameit_inet_check_nets(s, todo) ==
    LET AnyOf(codes) == IF codes = {} THEN "ok" ELSE CHOOSE c \in codes : TRUE
        Else(code, other) == IF code = "ok" THEN other ELSE code
    IN  Else(AnyOf({CheckSubnet(s, n) : n \in todo} \ {"ok"}),
             AnyOf({CheckSubnodes(s, n) : n \in todo} \ {"ok"}))

\* unameit_inet_check_ranges, for one network: walk its list of ranges.  The end
\* of the last range (prev, -1 before the first one) is kept from one network to
\* the next.
\* Mutant: overlap is not tested.
WalkLast(s, P, list, prev) ==
    [code |-> "ok", prev |-> IF list = <<>> THEN prev ELSE Info(s, Last(list)).end]

RECURSIVE WalkRanges(_, _, _, _)
WalkRanges(s, P, list, prev) ==
    LET R == Info(s, Head(list))
    IN  IF list = <<>> THEN [code |-> "ok", prev |-> prev]
        ELSE IF /\ prev = -1 /\ NodeZero = "Reserved" /\ R.start = P.start
                /\ ~(R.type = "Static" /\ R.devices = {})
        THEN [code |-> "EINETNODEZERO", prev |-> prev]
        ELSE IF R.start <= prev THEN [code |-> "EINETRANGEOVERLAP", prev |-> prev]
        ELSE IF /\ Len(list) = 1 /\ LastNode = "Reserved" /\ R.end = NetEnd(P)
                /\ ~(R.type = "Static" /\ R.devices = {})
        THEN [code |-> "EINETLASTNODE", prev |-> prev]
        ELSE WalkRanges(s, P, Tail(list), R.end)

CheckRangeNet(s, acc, net) ==
    IF acc.code # "ok" THEN acc
    ELSE IF ~Unsubnetted(Info(s, net)) THEN [acc EXCEPT !.code = "EINETSUBNETTED"]
    ELSE WalkRanges(s, Info(s, net), Inet_Net_ItemsCmd(s, net).ranges, acc.prev)

CheckRangeNodes(s, r) ==
    LET Code(n) == IF n = NULL THEN "ok" ELSE IF n = "hang" THEN "hang" ELSE "EINETBADNODE"
    IN  Code(Inet_Check_RangeCmd(s, r))

unameit_inet_check_ranges(s, todo, nets) ==
    LET Walk == FoldLeft(LAMBDA acc, net : CheckRangeNet(s, acc, net),
                         [code |-> "ok", prev |-> -1], nets)
        Result(code, found) == IF code # "ok" \/ found = {} THEN code ELSE CHOOSE c \in found : TRUE
    IN  Result(Walk.code, {CheckRangeNodes(s, r) : r \in todo} \ {"ok"})

\* unameit_inet_check_nodes, for one network: the sorted addresses against the
\* list of ranges.  An address is tested against the first range that does not
\* end below it, whether or not the range has started.
RECURSIVE WalkNodes(_, _, _, _)
WalkNodes(s, nodes, list, range) ==
    LET n == Head(nodes)
        a == Info(s, n)
        skip == {k \in 1..Len(list) : a <= Info(s, list[k]).end}
        stay == range # NULL /\ a <= Info(s, range).end
        k == Min(skip)
        cur == IF stay THEN range ELSE list[k]
        rest == IF stay THEN list ELSE SubSeq(list, k + 1, Len(list))
    IN  IF nodes = <<>> THEN "ok"
        ELSE IF range # NULL /\ a < Info(s, range).start
        THEN WalkNodes(s, Tail(nodes), list, range)
        ELSE IF ~stay /\ skip = {} THEN "ok"
        ELSE IF ~Permitted(n, Info(s, cur)) THEN "EINETBADNODE"
        ELSE WalkNodes(s, Tail(nodes), rest, cur)

\* The nodes seen so far are carried from one network to the next.
CheckNodeNet(s, acc, net, todo) ==
    LET P == Info(s, net)
        mine == {n \in todo : Netof(s, n) = net}
        seen == acc.seen \cup mine
        order == SetToSortSeq(seen, LAMBDA m, n : Info(s, m) < Info(s, n))
    IN  IF acc.code # "ok" THEN acc
        ELSE [seen |-> seen,
              code |-> CASE ~Unsubnetted(P) -> "EINETSUBNETTED"
                         [] NodeZero = "Reserved" /\ \E n \in mine : Info(s, n) = P.start -> "EINETNODEZERO"
                         [] NodeZero = "Reserved" /\ \E n \in mine : Info(s, n) = NetEnd(P) -> "EINETLASTNODE"
                         [] OTHER -> WalkNodes(s, order, Inet_Net_ItemsCmd(s, net).ranges, NULL)]

unameit_inet_check_nodes(s, todo, nets) ==
    FoldLeft(LAMBDA acc, net : CheckNodeNet(s, acc, net, todo), [code |-> "ok", seen |-> {}], nets).code

\* Udb_Inet_Check_Integrity: duplicates first, then networks, ranges, nodes.
\* rnets and nnets order the parent networks of the checked ranges and nodes.
Parents(s, K) == {Netof(s, i) : i \in s.itemCheck \cap K}

Udb_Inet_Check_Integrity(s, rnets, nnets) ==
    IF s.blockCheck # {} THEN "EINETDUP"
    ELSE First(<<unameit_inet_check_nets(s, s.itemCheck \cap Nets),
                 unameit_inet_check_ranges(s, s.itemCheck \cap DhcpRanges, rnets),
                 unameit_inet_check_nodes(s, s.itemCheck \cap Nodes, nnets)>>)

-----------------------------------------------------------------------------
(* Queries of the validation triggers. *)

\* Whether a network is there already decides whose subnet a new one is.
\* Mutant: the network's own place in the tree is not left out.
NetofFound(s, i, p, f) ==
    IF i \in Nets /\ s.blk[f.block].bits = p.bits /\ s.blk[f.block].nets # <<>>
    THEN Netof(s, f.net) ELSE f.net

RECURSIVE WalkUp(_, _, _)
WalkUp(s, b, bits) == IF s.blk[b].bits > bits THEN WalkUp(s, s.blk[b].super, bits) ELSE b

NetofAt(s, i, p, f) ==
    LET exact == f.net # NULL /\ s.blk[f.block].bits = p.bits /\ s.blk[f.block].nets # <<>>
        net == IF exact THEN Netof(s, f.net) ELSE f.net
        nets == s.blk[WalkUp(s, f.block, Info(s, i).bits)].nets
    IN  IF i \notin Nets THEN f.net
        ELSE IF net = NULL \/ net # i THEN net
        ELSE IF Len(nets) > 1 THEN nets[2] ELSE Netof(s, i)

\* Inet_NetofCmd: the network an item with this description would belong to.  A
\* network that would be found to be its own parent is asked about as if it had
\* been removed.
Inet_NetofCmd(s, i, info) ==
    LET p == Inet_Info_Prefix(i, info) IN NetofAt(s, i, p, Inet_Find(s, p))

\* The sub-blocks in the way of a network at index k, `count` indices wide.
\* (Mutant: only the first of them.)
UsedFirst(subs, k, count) == {k} \cap DOMAIN subs
Used(subs, k, count) == k..(k + count - 1) \cap DOMAIN subs

RightZero(k) == Max({z \in 0..NSHIFT : k % 2^z = 0})

\* Inet_Auto_Net: the vacant aligned prefix of `want` bits, below block b taken
\* to have `bits` bits, whose position has the fewest significant bits (p.bits).
RECURSIVE Inet_Auto_Net(_, _, _, _, _, _, _, _)
Inet_Auto_Net(s, p, b, bits, best, want, base, blockLeft) ==
    LET natural == bits + SubBits(bits)
        subcount == IF natural > want THEN 2^(natural - want) ELSE 1
        sbits == Min({natural, want}) - bits
        subs == s.blk[b].subs
        Try(acc, k) ==
            LET used == Used(subs, k, subcount)
                o == IF used = {} THEN NULL ELSE subs[Min(used)]
                left == IF k = 0 THEN blockLeft ELSE natural - RightZero(k)
                cmp == IF k = 0 /\ left = base THEN bits + sbits ELSE left
                better == \/ cmp < acc.p.bits \/ acc.best = "None"
                          \/ acc.best = "Zero" /\ cmp = acc.p.bits
                kind == IF left = base THEN "Zero" ELSE "Other"
                vacant == s.blk[o].nets = <<>> /\ s.blk[o].ranges = <<>>
                sub == Inet_Auto_Net(s, acc.p, o, bits + sbits, acc.best, want, base, left)
            IN  IF o = NULL
                THEN IF better
                     THEN [acc EXCEPT !.res = kind, !.best = kind,
                              !.p = [addr |-> Inet_Sub_Prefix(acc.p.addr, bits, sbits, k), bits |-> cmp]]
                     ELSE acc
                ELSE IF bits + sbits >= want \/ o = acc.prev THEN acc
                ELSE IF vacant /\ sub.res # "None"
                THEN [res |-> sub.res, best |-> sub.res, prev |-> o,
                      p |-> [sub.p EXCEPT !.addr = Inet_Sub_Prefix(@, bits, sbits, k)]]
                ELSE [acc EXCEPT !.prev = o]
        starts == [n \in 1..(2^SubBits(bits) \div subcount) |-> (n - 1) * subcount]
    IN  FoldLeft(Try, [res |-> "None", best |-> best, p |-> p, prev |-> NULL], starts)

\* Inet_Auto_NetCmd, then unameit_inet_auto_net: the start address of a network
\* of `want` bits under `net`, NULL when there is no room.  The zeroth and the
\* last subnet are left out where the family reserves them.
AutoFound(P, want, r) ==
    LET zero == NetZero = "Reserved" /\ r.p.addr = P.start
        bits == IF zero THEN r.p.bits + 1 ELSE r.p.bits
        unit == 2^(inet_bits - bits)
        start == (r.p.addr \div unit) * unit + (IF zero THEN unit ELSE 0)
    IN  IF r.res = "None" \/ bits > want THEN NULL
        ELSE IF LastNet = "Reserved" /\ start + 2^(inet_bits - want) - 1 = NetEnd(P) THEN NULL
        ELSE start

AutoStart(s, net, want) ==
    LET P == Info(s, net)
        b == Inet_Find(s, Inet_Info_Prefix(net, P)).block
    IN  IF P.bits = 0 \/ want <= P.bits THEN NULL
        ELSE AutoFound(P, want, Inet_Auto_Net(s, [addr |-> P.start, bits |-> P.bits], b, P.bits,
                                              "None", want, P.bits, P.bits))

-----------------------------------------------------------------------------
(* Transactions. *)

UniverseInfo == [start |-> 0, bits |-> 0, mbits |-> 0, type |-> "Variable"]

EmptyTree ==
    [blk |-> <<>>, item |-> [i \in Items |-> [info |-> NULL, netof |-> NULL, block |-> NULL]],
     itemCheck |-> {}, blockCheck |-> {}, root |-> NULL, universe |-> NULL]

Inputs(i) == CASE i \in Nets -> NetInputs
               [] i \in Nodes -> NodeInputs
               [] i \in DhcpRanges -> RangeInputs

Udb_Inet_Reset_Checks(s) == [s EXCEPT !.itemCheck = {}, !.blockCheck = {}]

\* The database is loaded with the universe in it.
Init ==
    /\ work = Udb_Inet_Reset_Checks(Udb_Inet_Update(EmptyTree, Universe, UniverseInfo))
    /\ disk = work /\ last = "none" /\ updates = 0

\* An item is created, changed or deleted; the universe is protected.
Update(i, info) ==
    /\ last # "hang" /\ updates < MaxUpdates
    /\ i # Universe /\ info # Info(work, i)
    /\ info # NULL => ValidInfo(work, i, info)
    /\ work' = Udb_Inet_Update(work, i, info)
    /\ last' = "none" /\ updates' = updates + 1
    /\ UNCHANGED disk

\* A network is created without an address under a network that has room.
AutoCreate(i, net, want) ==
    /\ last # "hang" /\ updates < MaxUpdates
    /\ Info(work, i) = NULL /\ Info(work, net) # NULL
    /\ \E start \in {AutoStart(work, net, want)} \ {NULL} :
          work' = Udb_Inet_Update(work, i, [start |-> start, bits |-> want, mbits |-> want,
                                            type |-> "Fixed"])
    /\ last' = "none" /\ updates' = updates + 1
    /\ UNCHANGED disk

Commit ==
    /\ last # "hang"
    /\ \E rnets \in SetToSeqs(Parents(work, DhcpRanges)), nnets \in SetToSeqs(Parents(work, Nodes)) :
          last' = Udb_Inet_Check_Integrity(work, rnets, nnets)
    /\ work' = CASE last' = "ok" -> Udb_Inet_Reset_Checks(work)
                 [] last' = "hang" -> work
                 [] OTHER -> Udb_Inet_Reset_Checks(disk)
    /\ disk' = IF last' = "ok" THEN work' ELSE disk
    /\ UNCHANGED updates

Rollback ==
    /\ last # "hang"
    /\ work # disk
    /\ work' = disk
    /\ last' = "none"
    /\ UNCHANGED <<disk, updates>>

Next ==
    \/ \E i \in Items : \E info \in Inputs(i) \cup {NULL} : Update(i, info)
    \/ \E i \in Nets \ {Universe}, net \in Nets, want \in AutoBits : AutoCreate(i, net, want)
    \/ Commit
    \/ Rollback

Spec == Init /\ [][Next]_vars

-----------------------------------------------------------------------------
(* Properties. *)

PrefixOf(s, i) == Inet_Info_Prefix(i, Info(s, i))
Live(s) == {b \in DOMAIN s.blk : ~s.blk[b].free}
Covers(p, q) == p.bits <= q.bits /\ Cut(p.addr, p.bits) = Cut(q.addr, p.bits)

\* The tree and its items have their types: blocks link to blocks, items to
\* networks, and no list names an item twice.
TypeOK ==
    /\ last \in {"none", "ok", "hang", "EINETDUP", "EINETNOTSUBNETTED", "EINETFIXEDBITS",
                 "EINETNETZERO", "EINETLASTNET", "EINETSUBNETTED", "EINETNODEZERO",
                 "EINETRANGEOVERLAP", "EINETLASTNODE", "EINETBADNODE"}
    /\ \A s \in {work, disk} :
          /\ \A b \in DOMAIN s.blk :
                /\ s.blk[b].bits \in 0..inet_bits
                /\ s.blk[b].super \in DOMAIN s.blk \cup {NULL}
                /\ \A k \in DOMAIN s.blk[b].subs : s.blk[b].subs[k] \in DOMAIN s.blk
                /\ \A list \in {"nets", "nodes", "ranges", "netRanges"} : IsInjective(s.blk[b][list])
          /\ \A i \in Items : s.item[i].netof \in Nets \cup {NULL}
          /\ s.itemCheck \subseteq Items /\ s.blockCheck \subseteq DOMAIN s.blk

\* Inet_Delete expects to find, for the prefix of every item that has one, the
\* block with exactly that prefix (its check on block.bits), and the item on it.
Findable(s) ==
    \A i \in Placed(s, Items) :
        \E b \in {Inet_Find(s, PrefixOf(s, i)).block} :
            /\ b # NULL /\ s.blk[b].bits = PrefixOf(s, i).bits
            /\ i \in ToSet(s.blk[b][ListName(i)])
            /\ i \notin Nodes => s.item[i].block = b

EveryItemFound == Findable(work)

\* A block in use hangs below the block its super link names, at every index its
\* prefix covers and at no other; a block on the free list is empty and no block
\* in use leads to it, so Udb_Edit_Free_Object may hand it out as it is.
TreeShape ==
    \A b \in DOMAIN work.blk :
        LET B == work.blk[b]
            P == work.blk[B.super]
            at == {k \in DOMAIN P.subs : P.subs[k] = b}
            size == 2^(P.bits + SubBits(P.bits) - B.bits)
        IN  IF B.free
            THEN /\ B.nets = <<>> /\ B.nodes = <<>> /\ B.ranges = <<>> /\ B.netRanges = <<>>
                 /\ B.subs = NoSubs
                 /\ \A c \in Live(work) : \A k \in DOMAIN work.blk[c].subs : work.blk[c].subs[k] # b
            ELSE b # work.root =>
                 /\ ~P.free /\ P.bits < B.bits /\ B.bits <= P.bits + SubBits(P.bits)
                 /\ Cardinality(at) = size /\ Min(at) % size = 0 /\ Max(at) = Min(at) + size - 1

\* The parent of an item is the network with the longest prefix around it (for a
\* network: of fewer bits than its own), and where several networks share that
\* prefix the first one on the block: what Inet_Insert, Inet_Delete and
\* Inet_Reparent maintain without ever looking at the whole tree.
ParentIsNearest ==
    \A i \in Placed(work, Items) \ {work.universe} :
        LET p == PrefixOf(work, i)
            around == {n \in Placed(work, Nets) \ {i} :
                          /\ Covers(PrefixOf(work, n), p)
                          /\ i \in Nets => PrefixOf(work, n).bits < p.bits}
            nearest == {n \in around : \A m \in around : PrefixOf(work, m).bits <= PrefixOf(work, n).bits}
        IN  IF around = {} THEN Netof(work, i) = NULL
            ELSE /\ Netof(work, i) \in nearest
                 /\ Netof(work, i) = Inet_First_Item(work, work.item[Netof(work, i)].block, "nets")

\* The counts and lists a network's block keeps are those of the items whose
\* parent is on that block, and the representative node and subnet are there
\* exactly when there is one: the commit checks rely on them to see whether a
\* network has nodes, subnets or ranges.
CountsExact ==
    \A b \in Live(work) :
        LET B == work.blk[b]
            Of(K) == {i \in K : Netof(work, i) # NULL /\ work.item[Netof(work, i)].block = b}
        IN  /\ B.nNodes = Cardinality(Of(Nodes)) /\ B.nSubnets = Cardinality(Of(Nets))
            /\ (B.aNode = NULL) = (B.nNodes = 0) /\ (B.aSubnet = NULL) = (B.nSubnets = 0)
            /\ ToSet(B.netRanges) = Of(DhcpRanges)

\* Every item is under its nearest network, and every network has exact counts and
\* lists of what is under it.
OwnersExact == ParentIsNearest /\ CountsExact

\* What is committed has no two networks or nodes at one place, nodes and ranges
\* only in networks without subnets, ranges of a network that do not overlap,
\* and in a range only nodes the range permits.
CommittedSound ==
    LET N == Placed(disk, Nodes)
        R == Placed(disk, DhcpRanges)
    IN  /\ \A K \in {Nets, Nodes} : \A i, j \in Placed(disk, K) :
              PrefixOf(disk, i) = PrefixOf(disk, j) => i = j
        /\ \A i \in N \cup R : Unsubnetted(Info(disk, Netof(disk, i)))
        /\ \A q, r \in R : (q # r /\ Netof(disk, q) = Netof(disk, r)) =>
              Info(disk, q).end < Info(disk, r).start \/ Info(disk, r).end < Info(disk, q).start
        /\ \A n \in N, r \in R :
              Info(disk, n) \in Info(disk, r).start..Info(disk, r).end => Permitted(n, Info(disk, r))

\* The parent the validation trigger is told (udb_inet_netof_*) is the parent the
\* item gets when it is then put there, even if it is a network moving below or
\* onto networks that are now its own subnets.
NetofPredicts ==
    \A i \in Items \ {Universe} : \A info \in Inputs(i) :
        (info # Info(work, i) /\ ValidInfo(work, i, info)) =>
            Inet_NetofCmd(work, i, info) = Netof(Udb_Inet_Update(work, i, info), i)

\* An address found for a new network (udb_inet_auto_net) is vacant: the network
\* becomes a subnet of the one asked for, and no other item changes parent.
AutoNetVacant ==
    \A i \in Nets \ Placed(work, Nets), net \in Placed(work, Nets), want \in AutoBits :
        (i # Universe /\ Inet_First_Item(work, work.item[net].block, "nets") = net) =>
            \A start \in {AutoStart(work, net, want)} \ {NULL} :
            \A t \in {Udb_Inet_Update(work, i, [start |-> start, bits |-> want, mbits |-> want,
                                               type |-> "Fixed"])} :
                /\ start % 2^(inet_bits - want) = 0
                /\ Netof(t, i) = net
                /\ \A j \in Items \ {i} : Netof(t, j) = Netof(work, j)

\* Every commit gets an answer: the search for nodes in a changed range moves
\* past each node it finds and so comes to an end.
CommitAnswers == last # "hang"
=============================================================================
