------------------------------ MODULE MCFlexUp ------------------------------
EXTENDS FlexUp

osd(n) == [post |-> TRUE, url |-> TRUE, json |-> "object", instances |-> n,
           profile |-> "osd", size |-> 31]
mon(n) == [osd(n) EXCEPT !.profile = "mon"]
long(n) == [osd(n) EXCEPT !.size = MaxMsgSize + 1]

(* The largest request and one more, a MON, a body that is too long,       *)
(* another method and another URL.                                         *)
Requests == {osd(maxInstances), osd(maxInstances + 1), mon(1), long(1),
             [osd(1) EXCEPT !.post = FALSE],
             [osd(1) EXCEPT !.url = FALSE]}

AnyLeftover == {"nothing", "text"}
=============================================================================
