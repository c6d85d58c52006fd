--------------------------- MODULE ClusterService ---------------------------
(***************************************************************************)
(* What the framework promises, without tasks, offers, messages, counters  *)
(* or phases: README.md of the repository says "Start 1 mon, 3 osd, 1      *)
(* radosgw" and "Accept RESTful flexup request for launching a new osd".   *)
(* A daemon is launched only when the ones it needs are known to run and   *)
(* only up to the number wanted; more OSDs than that are launched for      *)
(* requests only, and only by a complete cluster.  Daemons may go away at  *)
(* any time, and news of them comes late.                                  *)
(***************************************************************************)
EXTENDS Integers

CONSTANT OSDNum  \* the OSDs of a bootstrapped cluster

VARIABLES size,   \* daemons launched and not gone, per type
          known,  \* daemons the scheduler knows to be running, per type
          served  \* OSDs launched for flex-up requests

serviceVars == <<size, known, served>>

Daemon == {"MON", "OSD", "RADOSGW"}

Init ==
  /\ size = [ty \in Daemon |-> 0]
  /\ known = [ty \in Daemon |-> 0]
  /\ served = 0

Wanted(ty) == IF ty = "OSD" THEN OSDNum + served ELSE 1

(* A MON needs nothing, an OSD a MON, a RADOSGW a MON and OSDNum OSDs.     *)
Ready(ty) ==
  /\ ty \in {"OSD", "RADOSGW"} => known["MON"] >= 1
  /\ ty = "RADOSGW" => known["OSD"] >= OSDNum

Complete == \A ty \in Daemon : Ready(ty) /\ known[ty] >= 1

Launch(ty) ==
  /\ Ready(ty)
  /\ size[ty] < Wanted(ty)
  /\ size' = [size EXCEPT ![ty] = @ + 1]
  /\ UNCHANGED <<known, served>>

(* An OSD for a flex-up request.                                           *)
Serve ==
  /\ Complete
  /\ served' = served + 1
  /\ size' = [size EXCEPT !["OSD"] = @ + 1]
  /\ UNCHANGED known

Gone(ty) ==
  /\ size[ty] > 0
  /\ size' = [size EXCEPT ![ty] = @ - 1]
  /\ UNCHANGED <<known, served>>

(* One more daemon is known to run, or one less.                           *)
Learn(ty, d) ==
  /\ known[ty] + d >= 0
  /\ known' = [known EXCEPT ![ty] = @ + d]
  /\ UNCHANGED <<size, served>>

Next ==
  \/ \E ty \in Daemon : \/ Launch(ty)
                        \/ Gone(ty)
                        \/ \E d \in {-1, 1} : Learn(ty, d)
  \/ Serve

Spec == Init /\ [][Next]_serviceVars
=============================================================================
