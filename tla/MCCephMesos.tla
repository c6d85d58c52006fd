---------------------------- MODULE MCCephMesos -----------------------------
EXTENDS CephMesosRefinement

CONSTANTS h1, h2, sdb, sdc

good(h) == [host |-> h, role |-> TRUE, enough |-> TRUE]
small(h) == [host |-> h, role |-> TRUE, enough |-> FALSE]
foreign(h) == [host |-> h, role |-> FALSE, enough |-> TRUE]

GoodOnly == {<<good(h)>> : h \in Host}

OneByOne == {<<good(h)>> : h \in Host} \cup {<<foreign(h)>> : h \in Host}

WithSmall == GoodOnly \cup {<<small(h)>> : h \in Host}

(* Both hosts in one batch, in either order.                               *)
Pairs == {<<good(h1), good(h2)>>, <<good(h2), good(h1)>>,
          <<small(h1), good(h2)>>, <<foreign(h1), good(h2)>>,
          <<foreign(h1)>>}

NoDisks == [h \in Host |-> {}]
OSDDisk == [h \in Host |-> IF h = h1 THEN {sdb} ELSE {}]
JnlDisk == [h \in Host |-> IF h = h1 THEN {sdc} ELSE {}]
TwoParts == [h \in Host |-> IF h = h1 THEN 2 ELSE 0]
NoParts == [h \in Host |-> 0]

(* Enough tokens for the bootstrap, for every relaunch after a fault and   *)
(* for every request; one more, since resourceOffers takes a token before  *)
(* it finds that there is no request.                                      *)
Tokens == [ty \in TaskType |->
             CASE ty = "OSD" -> OSDNum + MaxFaults + MaxRequested + 1
               [] OTHER -> 1 + MaxFaults]
=============================================================================
