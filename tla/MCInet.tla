------------------------------- MODULE MCInet -------------------------------
(* Instances of InetCommit for TLC: addresses of six bits, two bits a level. *)
EXTENDS InetCommit, TLC

CONSTANTS uni, n1, n2, n3, h1, r1, r2, host

Net(start, bits, mbits, type) == [start |-> start, bits |-> bits, mbits |-> mbits, type |-> type]

MCNets == {uni, n1, n2}
MCNodes == {h1}
MCRanges == {r1, r2}
MCClasses == [n \in {h1} |-> {host}]
MCSymmetry == Permutations({n1, n2}) \cup Permutations({r1, r2})
MCNetInputs == {Net(0, 2, 2, "Variable"), Net(0, 4, 4, "Fixed"),
                Net(32, 5, 5, "Fixed"), Net(34, 5, 5, "Fixed")}
MCNodeInputs == {3, 33, 35}
MCRangeInputs == {[start |-> 1, end |-> 2, type |-> "Static", devices |-> {host}],
                  [start |-> 2, end |-> 4, type |-> "Static", devices |-> {host}],
                  [start |-> 32, end |-> 33, type |-> "Dynamic", devices |-> {host}]}

\* Networks off the natural boundaries, and no other items.
GCNets == {uni, n1, n2, n3}
GCNetInputs == {Net(0, 1, 1, "Variable"), Net(16, 2, 2, "Fixed"), Net(32, 2, 2, "Fixed")}
GCSymmetry == Permutations({n1, n2, n3})

\* A permitted node at the end of a range.
EndNets == {uni, n1}
EndRanges == {r1}
EndNetInputs == {Net(0, 4, 4, "Fixed")}
EndNodeInputs == {2}
=============================================================================
