------------------------------- MODULE FlexUp -------------------------------
(***************************************************************************)
(* The path of a flex-up request inside the scheduler's process, from the  *)
(* REST server (src/src/httpserver/RestServer.cpp, a thread per            *)
(* connection) through a message queue in shared memory to the event       *)
(* loop's thread (src/src/scheduler/EventLoop.cpp) and the vector that     *)
(* resourceOffers counts down.  The process may be killed and started      *)
(* again; the queue outlives it.                                           *)
(***************************************************************************)
EXTENDS Integers, Sequences

CONSTANTS
  Conn,         \* connections, each with one HTTP request
  Request,      \* the requests that clients make
  Leftover,     \* what may follow a message in event_data
  maxInstances, \* maxInstancesSize: 1024 in the code
  MaxMsgs,      \* messages that the queue holds: 1014 in the code
  MaxMsgSize,   \* bytes of a message: 256 in the code
  MaxKills      \* bound: how often the process is killed from outside

(* post and url: the method and the URL are the ones of flex-up; json: the *)
(* body is a JSON object whose fields have the right types, some of the    *)
(* wrong type, or no JSON; size: its length in bytes.                      *)
RequestType == [post      : BOOLEAN,
                url       : BOOLEAN,
                json      : {"object", "wrongType", "none"},
                instances : Int,
                profile   : {"osd", "mon", "error"},
                size      : Nat]

ASSUME FlexUpAssumption ==
  /\ Request \subseteq RequestType
  /\ Leftover \subseteq {"nothing", "text"} /\ Leftover # {}
  /\ maxInstances \in Nat
  /\ MaxMsgs \in Nat \ {0}
  /\ MaxMsgSize \in Nat
  /\ MaxKills \in Nat

VARIABLES
  up,         \* the process runs
  conn,       \* connection -> its request and how far its thread is
  created,    \* the queue "flexUp" exists in shared memory
  queue,      \* its messages
  loop,       \* where the event loop's thread is
  event_data, \* its buffer: the message received and what follows it
  pendingOSD, \* instance counts of the requests
  accepted,   \* history: OSD instances sent to the queue
  granted,    \* history: OSD instances taken by resourceOffers
  stops,      \* history: how often the process has died
  kills       \* how many of these were kills

vars == <<up, conn, created, queue, loop, event_data, pendingOSD, accepted,
          granted, stops, kills>>

NoData == [msg |-> <<>>, rest |-> "nothing"]

ConnState == {"none", "sent", "parsing", "received", "done", "closed", "hung"}

Reply == {"none", "[success]", "[error]:instances", "[error]:profile",
          "[error]:json"}

TypeOK ==
  /\ up \in BOOLEAN
  /\ conn \in [Conn -> [st : ConnState, reply : Reply,
                        req : Request \cup {NoData}]]
  /\ created \in BOOLEAN
  /\ queue \in Seq(Request) /\ Len(queue) <= MaxMsgs
  /\ loop \in {"create", "receive", "process", "ended"}
  /\ event_data \in [msg : {<<>>} \cup {<<r>> : r \in Request},
                     rest : Leftover \cup {"nothing"}]
  /\ pendingOSD \in Seq(1 .. maxInstances)
  /\ accepted \in Nat /\ granted \in Nat /\ stops \in Nat
  /\ kills \in 0 .. MaxKills

Init ==
  /\ up = TRUE
  /\ conn = [c \in Conn |-> [st |-> "none", reply |-> "none", req |-> NoData]]
  /\ created = FALSE
  /\ queue = << >>
  /\ loop = "create"
  /\ event_data = NoData
  /\ pendingOSD = << >>
  /\ accepted = 0
  /\ granted = 0
  /\ stops = 0
  /\ kills = 0

-----------------------------------------------------------------------------
(* JsonUtil: read takes the leading JSON value of a text and does not look *)
(* at what follows it; instances and profile throw on a wrong type.        *)

read_strict(text) == text.msg[1].json # "none" /\ text.rest = "nothing"

read(text) == text.msg[1].json # "none"

throws(req) == req.json = "wrongType"

-----------------------------------------------------------------------------
(* An exception that leaves a handler, or a kill, ends the process with    *)
(* all its threads.  The messages stay in shared memory.                   *)

die ==
  /\ up' = FALSE
  /\ stops' = stops + 1
  /\ conn' = [c \in Conn |->
                IF conn[c].st \in {"none", "done"} THEN conn[c]
                ELSE [conn[c] EXCEPT !.st = "closed"]]
  /\ loop' = "ended"
  /\ event_data' = NoData
  /\ pendingOSD' = << >>
  /\ UNCHANGED <<created, queue, accepted, granted>>

Kill ==
  /\ up
  /\ kills < MaxKills
  /\ kills' = kills + 1
  /\ die

Restart ==
  /\ ~ up
  /\ up' = TRUE
  /\ loop' = "create"
  /\ UNCHANGED <<conn, created, queue, event_data, pendingOSD, accepted,
                 granted, stops, kills>>

-----------------------------------------------------------------------------
(* rest_request, on the thread of connection c                             *)

Goto(c, st) == conn' = [conn EXCEPT ![c].st = st]

procVars == <<up, created, queue, loop, event_data, pendingOSD, accepted,
              granted, stops, kills>>

(* A client connects; the REST server's thread starts before the event     *)
(* loop's.                                                                 *)
Connect(c, req) ==
  /\ up
  /\ conn[c].st = "none"
  /\ conn' = [conn EXCEPT ![c].st = "sent", ![c].req = req]
  /\ UNCHANGED procVars

(* Not a POST: MHD_NO closes the connection.                               *)
RefuseMethod(c) ==
  /\ conn[c].st = "sent"
  /\ ~ conn[c].req.post
  /\ Goto(c, "closed")
  /\ UNCHANGED procVars

(* Another URL: the handler returns 404, which is not MHD_NO, and queues   *)
(* no response.                                                            *)
NotFound(c) ==
  /\ conn[c].st = "sent"
  /\ conn[c].req.post /\ ~ conn[c].req.url
  /\ Goto(c, "hung")
  /\ UNCHANGED procVars

(* The first call makes the ConnectionData, the next ones append to it.    *)
StartParsing(c) ==
  /\ conn[c].st = "sent"
  /\ conn[c].req.post /\ conn[c].req.url
  /\ Goto(c, "parsing")
  /\ UNCHANGED procVars

ReceiveBody(c) ==
  /\ conn[c].st = "parsing"
  /\ Goto(c, "received")
  /\ UNCHANGED procVars

(* The answer of jsonCheck when it does not get to the queue.              *)
instances_noUpperBound(req) == req.instances >= 1

instances(req) == req.instances \in 1 .. maxInstances

checkError(req) ==
  IF req.json = "none" THEN "[error]:json"
  ELSE IF ~ instances(req) THEN "[error]:instances"
  ELSE IF req.profile \notin {"osd", "mon"} THEN "[error]:profile"
  ELSE "none"

CheckFails(c) ==
  LET req == conn[c].req IN
  /\ conn[c].st = "received"
  /\ ~ throws(req)
  /\ checkError(req) # "none"
  /\ conn' = [conn EXCEPT ![c].st = "done", ![c].reply = checkError(req)]
  /\ UNCHANGED procVars

(* A field of the wrong type, a queue that open_only does not find, or a   *)
(* message longer than the queue takes: nobody catches the exception.      *)
CheckThrows(c) ==
  LET req == conn[c].req IN
  /\ conn[c].st = "received"
  /\ \/ throws(req)
     \/ /\ checkError(req) = "none"
        /\ ~ created \/ req.size > MaxMsgSize
  /\ die
  /\ UNCHANGED kills

osdInstances(req) == IF req.profile = "osd" THEN req.instances ELSE 0

(* send waits while the queue is full.                                     *)
Send(c) ==
  LET req == conn[c].req IN
  /\ conn[c].st = "received"
  /\ ~ throws(req) /\ checkError(req) = "none"
  /\ created /\ req.size <= MaxMsgSize
  /\ Len(queue) < MaxMsgs
  /\ queue' = Append(queue, req)
  /\ accepted' = accepted + osdInstances(req)
  /\ conn' = [conn EXCEPT ![c].st = "done", ![c].reply = "[success]"]
  /\ UNCHANGED <<up, created, loop, event_data, pendingOSD, granted, stops,
                 kills>>

rest_request(c) ==
  \/ RefuseMethod(c)
  \/ NotFound(c)
  \/ StartParsing(c)
  \/ ReceiveBody(c)
  \/ CheckFails(c)
  \/ CheckThrows(c)
  \/ Send(c)

-----------------------------------------------------------------------------
(* EventLoop                                                               *)

OpenOrCreate_failsIfThere ==
  /\ up /\ loop = "create"
  /\ created' = TRUE
  /\ loop' = IF created THEN "ended" ELSE "receive"
  /\ UNCHANGED <<up, conn, queue, event_data, pendingOSD, accepted, granted,
                 stops, kills>>

(* The messages of an earlier run are still there.                         *)
OpenOrCreate ==
  /\ up /\ loop = "create"
  /\ created' = TRUE
  /\ loop' = "receive"
  /\ UNCHANGED <<up, conn, queue, event_data, pendingOSD, accepted, granted,
                 stops, kills>>

(* try_receive writes the bytes of the message over the first ones of an   *)
(* uninitialised buffer; string(event_data) goes on to the first zero.     *)
recvData ==
  /\ loop = "receive"
  /\ queue # << >>
  /\ \E rest \in Leftover :
       event_data' = [msg |-> <<Head(queue)>>, rest |-> rest]
  /\ queue' = Tail(queue)
  /\ loop' = "process"
  /\ UNCHANGED <<up, conn, created, pendingOSD, accepted, granted, stops,
                 kills>>

processData_endsOnMon ==
  /\ loop = "process"
  /\ pendingOSD' = IF event_data.msg[1].profile = "osd"
                     THEN Append(pendingOSD, event_data.msg[1].instances)
                     ELSE pendingOSD
  /\ event_data' = NoData
  /\ loop' = IF event_data.msg[1].profile = "osd" THEN "receive" ELSE "ended"
  /\ UNCHANGED <<up, conn, created, queue, accepted, granted, stops, kills>>

(* Only requests for OSDs are kept.                                        *)
processData ==
  /\ loop = "process"
  /\ pendingOSD' = IF read(event_data) /\ event_data.msg[1].profile = "osd"
                     THEN Append(pendingOSD, event_data.msg[1].instances)
                     ELSE pendingOSD
  /\ event_data' = NoData
  /\ loop' = "receive"
  /\ UNCHANGED <<up, conn, created, queue, accepted, granted, stops, kills>>

EventLoop == OpenOrCreate \/ recvData \/ processData

(* One instance of the first request is consumed by resourceOffers.        *)
fetchPendingRESTfulRequest ==
  /\ pendingOSD # << >>
  /\ pendingOSD' = IF Head(pendingOSD) - 1 = 0
                     THEN Tail(pendingOSD)
                     ELSE <<Head(pendingOSD) - 1>> \o Tail(pendingOSD)
  /\ granted' = granted + 1
  /\ UNCHANGED <<up, conn, created, queue, loop, event_data, accepted, stops,
                 kills>>

-----------------------------------------------------------------------------
Next ==
  \/ \E c \in Conn : rest_request(c) \/ \E req \in Request : Connect(c, req)
  \/ EventLoop
  \/ fetchPendingRESTfulRequest
  \/ Kill
  \/ Restart

Spec == Init /\ [][Next]_vars

(* Every thread of the process is scheduled, a complete cluster is offered *)
(* resources again and again, and a scheduler that died is started again.  *)
(* A thread that waits in send is woken when the event loop takes a        *)
(* message out: strong fairness, because other connections may be faster.  *)
Fairness ==
  /\ \A c \in Conn : WF_vars(rest_request(c)) /\ SF_vars(Send(c))
  /\ WF_vars(EventLoop)
  /\ WF_vars(fetchPendingRESTfulRequest)
  /\ WF_vars(Restart)

FairSpec == Spec /\ Fairness

-----------------------------------------------------------------------------
(* Properties.                                                             *)

(* The sum of a sequence of numbers.                                       *)
total(s) ==
  LET upTo[i \in 0 .. Len(s)] == IF i = 0 THEN 0 ELSE upTo[i - 1] + s[i]
  IN  upTo[Len(s)]

Instances(msgs) == total([i \in 1 .. Len(msgs) |-> osdInstances(msgs[i])])

(* The instances on their way from the REST server to resourceOffers.      *)
inFlight ==
  Instances(queue) + Instances(event_data.msg) + total(pendingOSD)

Service ==
  INSTANCE FlexUpService WITH
    served <- granted,
    lost   <- accepted - granted - inFlight

(* Whatever the connections, the event loop and resourceOffers do at the   *)
(* same time, an accepted instance is served once; only the death of the   *)
(* process loses some, and a new process goes on with the queue of the old *)
(* one.                                                                    *)
ImplementsFlexUpService == Service!Spec

(* A request to the right URL is answered or its connection closed, even   *)
(* when the queue is full or the process dies.                             *)
EveryPostAnswered ==
  \A c \in Conn : (conn[c].st = "sent" /\ conn[c].req.url)
                    ~> conn[c].st \in {"done", "closed"}

(* What is on its way arrives: when there are no more requests the queue,  *)
(* the buffer and the vector run empty, also after the process died and    *)
(* was started again.  Together with ImplementsFlexUpService every         *)
(* accepted instance is served or was lost when the process died.          *)
InFlightDrains == <>[](inFlight = 0)
=============================================================================
