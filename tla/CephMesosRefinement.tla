------------------------ MODULE CephMesosRefinement -------------------------
(***************************************************************************)
(* The framework implements the two specifications of what it promises.    *)
(***************************************************************************)
EXTENDS CephMesos

Service ==
  INSTANCE ClusterService WITH
    size   <- [ty \in TaskType |-> Cardinality(Alive(ty))],
    known  <- [ty \in TaskType |-> Cardinality(Running(ty))],
    served <- granted

(* Every step of the scheduler, the executors and Mesos is a step of       *)
(* ClusterService or none: resourceOffers launches a task only if the      *)
(* tasks it needs are RUNNING in taskMap and only up to the number wanted, *)
(* a status update moves the count of known tasks by one at most, and no   *)
(* fault, repetition or loss does anything but take daemons away.          *)
ImplementsClusterService == Service!Spec

FlexUpPath ==
  INSTANCE FlexUpService WITH
    accepted <- requested,
    served   <- granted,
    lost     <- IF pc = "crashed" THEN requested - granted ELSE 0,
    stops    <- IF pc = "crashed" THEN 1 ELSE 0

(* From processData to AcceptOffer no flex-up instance is lost or served   *)
(* twice, whatever fails; only an exception in a callback loses some.      *)
ImplementsFlexUpService == FlexUpPath!Spec
=============================================================================
