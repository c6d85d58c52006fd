-------------------------- MODULE PendingOSDVector --------------------------
(***************************************************************************)
(* The vector pendingOSD at the level of its memory: push_back on the      *)
(* event loop's thread (src/src/scheduler/EventLoop.cpp) and the reads and *)
(* writes of fetchPendingRESTfulRequest on the driver's thread             *)
(* (src/src/scheduler/CephSchedulerAgent.hpp), with no lock between them.  *)
(* This is a data race, so what the compiler and std::vector make of it is *)
(* a choice: the vector is a block of memory and two offsets in it, and    *)
(* each thread loads and stores them one at a time, in program order.      *)
(* Modules CephMesos and FlexUp take each of the two as one step.          *)
(***************************************************************************)
EXTENDS Integers, Sequences

CONSTANTS Instances,  \* instance counts of requests
          MaxPushes   \* bound: requests made

VARIABLES
  heap,     \* the blocks allocated so far: the last one is the vector's
  finish,   \* the number of elements in the vector
  push,     \* the event loop's thread: its step and its registers
  fetch,    \* the driver's thread
  pushes,   \* how many requests were made
  asked,    \* history: instances of the requests pushed
  granted   \* history: how often fetchPendingRESTfulRequest said true

vars == <<heap, finish, push, fetch, pushes, asked, granted>>

block == Len(heap)

idlePush == [pc |-> "idle", n |-> 0, end |-> 0]
idleFetch == [pc |-> "idle", count |-> 0, block |-> 0, end |-> 0]

Init ==
  /\ heap = << <<>> >>
  /\ finish = 0
  /\ push = idlePush
  /\ fetch = idleFetch
  /\ pushes = 0
  /\ asked = 0
  /\ granted = 0

-----------------------------------------------------------------------------
(* pendingOSD.push_back(n)                                                 *)

PushLoad(n) ==
  /\ push.pc = "idle"
  /\ pushes < MaxPushes
  /\ pushes' = pushes + 1
  /\ asked' = asked + n
  /\ push' = [pc  |-> IF finish < Len(heap[block]) THEN "store" ELSE "grow",
              n   |-> n,
              end |-> finish]
  /\ UNCHANGED <<heap, finish, fetch, granted>>

(* There is room: the element is written, then the end is moved past it.   *)
PushStore ==
  /\ push.pc = "store"
  /\ heap' = [heap EXCEPT ![block][push.end + 1] = push.n]
  /\ push' = [push EXCEPT !.pc = "finish"]
  /\ UNCHANGED <<finish, fetch, pushes, asked, granted>>

PushFinish ==
  /\ push.pc = "finish"
  /\ finish' = push.end + 1
  /\ push' = idlePush
  /\ UNCHANGED <<heap, fetch, pushes, asked, granted>>

(* There is no room: the elements are copied to a block twice as large,    *)
(* which becomes the vector's, and the old one is freed.  One step: what   *)
(* the driver's thread sees of the swap halfway is left out.               *)
PushGrow ==
  /\ push.pc = "grow"
  /\ LET old == SubSeq(heap[block], 1, push.end)
         room == IF push.end = 0 THEN 0 ELSE push.end - 1
     IN  heap' = Append(heap, Append(old, push.n) \o [i \in 1 .. room |-> 0])
  /\ finish' = push.end + 1
  /\ push' = idlePush
  /\ UNCHANGED <<fetch, pushes, asked, granted>>

-----------------------------------------------------------------------------
(* fetchPendingRESTfulRequest                                              *)

(* Not empty: the first element is read, and one is taken off the copy.    *)
FetchRead ==
  /\ fetch.pc = "idle"
  /\ finish > 0
  /\ fetch' = [pc    |-> IF heap[block][1] - 1 = 0 THEN "move" ELSE "write",
               count |-> heap[block][1] - 1,
               block |-> block,
               end   |-> finish]
  /\ granted' = granted + 1
  /\ UNCHANGED <<heap, finish, push, pushes, asked>>

(* Otherwise the copy is written back to the first element.               *)
FetchWrite ==
  /\ fetch.pc = "write"
  /\ heap' = [heap EXCEPT ![fetch.block][1] = fetch.count]
  /\ fetch' = idleFetch
  /\ UNCHANGED <<finish, push, pushes, asked, granted>>

(* erase(begin): the others move down by one, then the end does.           *)
FetchMove ==
  /\ fetch.pc = "move"
  /\ heap' = [heap EXCEPT ![fetch.block] =
                [i \in DOMAIN @ |-> IF i < fetch.end THEN @[i + 1] ELSE @[i]]]
  /\ fetch' = [fetch EXCEPT !.pc = "finish"]
  /\ UNCHANGED <<finish, push, pushes, asked, granted>>

FetchFinish ==
  /\ fetch.pc = "finish"
  /\ finish' = fetch.end - 1
  /\ fetch' = idleFetch
  /\ UNCHANGED <<heap, push, pushes, asked, granted>>

-----------------------------------------------------------------------------
Next ==
  \/ \E n \in Instances : PushLoad(n)
  \/ PushStore \/ PushFinish \/ PushGrow
  \/ FetchRead \/ FetchWrite \/ FetchMove \/ FetchFinish

Spec == Init /\ [][Next]_vars

(* No OSD is launched that nobody asked for.                               *)
NoUnaskedOSD == granted <= asked
=============================================================================
