--------------------------- MODULE FlexUpService ----------------------------
(***************************************************************************)
(* What the flex-up path promises: instances that were accepted are served *)
(* once each, and none is lost unless the scheduler stops.                 *)
(***************************************************************************)
EXTENDS Integers

VARIABLES accepted,  \* OSD instances whose request was accepted
          served,    \* OSD instances handed to resourceOffers
          lost,      \* OSD instances that will never be served
          stops      \* how often the scheduler has stopped

flexUpVars == <<accepted, served, lost, stops>>

Init ==
  /\ accepted = 0
  /\ served = 0
  /\ lost = 0
  /\ stops = 0

Accept ==
  /\ accepted' \in Nat
  /\ accepted' > accepted
  /\ UNCHANGED <<served, lost, stops>>

Serve ==
  /\ served' = served + 1
  /\ served' + lost <= accepted
  /\ UNCHANGED <<accepted, lost, stops>>

(* The scheduler stops and may forget instances it has not served.         *)
Stop ==
  /\ stops' = stops + 1
  /\ lost' \in lost .. (accepted - served)
  /\ UNCHANGED <<accepted, served>>

Next == Accept \/ Serve \/ Stop

Spec == Init /\ [][Next]_flexUpVars
=============================================================================
