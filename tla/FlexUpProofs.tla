---------------------------- MODULE FlexUpProofs ----------------------------
(***************************************************************************)
(* The path of a flex-up request, for any number of connections, requests, *)
(* places in the queue, kills and restarts: it implements FlexUpService.   *)
(*                                                                         *)
(* What is on its way is a sum over sequences.  Facts about it need        *)
(* induction, for which the library's well-founded orders are used.        *)
(***************************************************************************)
EXTENDS FlexUp, WellFoundedInduction, TLAPS

-----------------------------------------------------------------------------
(* Induction over the natural numbers, with a set for the property.        *)

(* A set of natural numbers has a least element.                           *)
LEMMA LeastElement ==
  ASSUME NEW T, T \subseteq Nat, T # {}
  PROVE  \E m \in T : \A k \in T : m <= k
<1>1. PICK R : R = OpToRel(<, Nat)
  OBVIOUS
<1>2. \A x, y \in Nat : <<x, y>> \in R <=> x < y
  BY <1>1 DEF OpToRel
<1>3. IsWellFoundedOn(R, Nat)
  BY <1>1, NatLessThanWellFounded
<1>4. \E m \in T : \A k \in T : ~ (<<k, m>> \in R)
  BY <1>3, WFMin
<1>5. PICK m \in T : \A k \in T : ~ (<<k, m>> \in R)
  BY <1>4
<1>6. ASSUME NEW k \in T PROVE m <= k
  <2>1. m \in Nat /\ k \in Nat /\ ~ (<<k, m>> \in R)
    BY <1>5
  <2> QED
    BY <1>2, <2>1
<1> QED
  BY <1>6

(* A set with 0 and every successor has all natural numbers.               *)
LEMMA SetInduction ==
  ASSUME NEW S, 0 \in S, \A n \in Nat : n \in S => n + 1 \in S
  PROVE  \A n \in Nat : n \in S
<1> SUFFICES ASSUME NEW x \in Nat, x \notin S PROVE FALSE
  OBVIOUS
<1>1. PICK T : T = {n \in Nat : n \notin S}
  OBVIOUS
<1>2. PICK m \in T : \A k \in T : m <= k
  BY <1>1, LeastElement
<1>3. m \in Nat /\ m # 0 /\ m - 1 \in Nat /\ m - 1 + 1 = m
  BY <1>1, <1>2
<1>4. m - 1 \in S
  BY <1>1, <1>2, <1>3
<1> QED
  BY <1>1, <1>2, <1>3, <1>4

-----------------------------------------------------------------------------
(* The sum of a sequence.                                                  *)

(* f has the sums of the first elements of s, up to the n-th.              *)
RunningTo(s, n, f) ==
  /\ f \in [0 .. n -> Int]
  /\ f[0] = 0
  /\ \A i \in 1 .. n : f[i] = f[i - 1] + s[i]

Running(s, f) == RunningTo(s, Len(s), f)

(* There is such a function.                                               *)
LEMMA RunningExists ==
  ASSUME NEW s \in Seq(Int)
  PROVE  \E f : Running(s, f)
<1>1. PICK S : S = {n \in Nat : n <= Len(s) => \E f : RunningTo(s, n, f)}
  OBVIOUS
<1>2. 0 \in S
  <2>1. PICK f : f = [i \in 0 .. 0 |-> 0]
    OBVIOUS
  <2>2. RunningTo(s, 0, f)
    BY <2>1 DEF RunningTo
  <2> QED
    BY <1>1, <2>2
<1>3. ASSUME NEW n \in Nat, n \in S PROVE n + 1 \in S
  <2> SUFFICES ASSUME n + 1 <= Len(s) PROVE \E f : RunningTo(s, n + 1, f)
    BY <1>1
  <2>1. PICK f : RunningTo(s, n, f)
    BY <1>1, <1>3
  <2>2. s[n + 1] \in Int /\ f[n] \in Int
    BY <2>1 DEF RunningTo
  <2>3. PICK g : g = [i \in 0 .. n + 1 |->
                        IF i = n + 1 THEN f[n] + s[n + 1] ELSE f[i]]
    OBVIOUS
  <2>4. g \in [0 .. n + 1 -> Int] /\ g[0] = 0
    BY <2>1, <2>2, <2>3 DEF RunningTo
  <2>5. ASSUME NEW i \in 1 .. n + 1 PROVE g[i] = g[i - 1] + s[i]
    BY <2>1, <2>2, <2>3 DEF RunningTo
  <2> QED
    BY <2>4, <2>5 DEF RunningTo
<1>4. Len(s) \in S
  BY <1>2, <1>3, SetInduction
<1> QED
  BY <1>1, <1>4 DEF Running

(* There is only one.                                                      *)
LEMMA RunningUnique ==
  ASSUME NEW s \in Seq(Int), NEW f, Running(s, f), NEW g, Running(s, g)
  PROVE  f = g
<1>1. PICK S : S = {n \in Nat : n <= Len(s) => f[n] = g[n]}
  OBVIOUS
<1>2. 0 \in S
  BY <1>1 DEF Running, RunningTo
<1>3. ASSUME NEW n \in Nat, n \in S PROVE n + 1 \in S
  BY <1>1, <1>3 DEF Running, RunningTo
<1>4. \A n \in 0 .. Len(s) : f[n] = g[n]
  BY <1>1, <1>2, <1>3, SetInduction
<1> QED
  BY <1>4 DEF Running, RunningTo

(* The recursive definition of total is meaningful: it is the last of the  *)
(* sums.                                                                   *)
LEMMA TotalIsLast ==
  ASSUME NEW s \in Seq(Int), NEW f, Running(s, f)
  PROVE  total(s) = f[Len(s)] /\ total(s) \in Int
<1> DEFINE Rec(h) == h = [i \in 0 .. Len(s) |->
                            IF i = 0 THEN 0 ELSE h[i - 1] + s[i]]
<1>1. total(s) = (CHOOSE h : Rec(h))[Len(s)]
  BY Zenon DEF total
<1>2. Rec(f)
  BY DEF Running, RunningTo
<1>3. Rec(CHOOSE h : Rec(h))
  BY <1>2, Zenon
<1>4. PICK h : h = (CHOOSE k : Rec(k))
  OBVIOUS
<1>5. Rec(h) /\ total(s) = h[Len(s)]
  BY <1>1, <1>3, <1>4
<1>6. h = f
  <2>1. PICK S : S = {n \in Nat : n <= Len(s) => h[n] = f[n]}
    OBVIOUS
  <2>2. 0 \in S
    BY <1>5, <2>1 DEF Running, RunningTo
  <2>3. ASSUME NEW n \in Nat, n \in S PROVE n + 1 \in S
    BY <1>5, <2>1, <2>3 DEF Running, RunningTo
  <2>4. \A n \in 0 .. Len(s) : h[n] = f[n]
    BY <2>1, <2>2, <2>3, SetInduction
  <2> QED
    BY <1>5, <2>4 DEF Running, RunningTo
<1> QED
  BY <1>5, <1>6 DEF Running, RunningTo

(* The sum of an empty sequence, of one that got longer, and of one        *)
(* without its first element.                                              *)
LEMMA TotalFacts ==
  ASSUME NEW s \in Seq(Int)
  PROVE  /\ total(s) \in Int
         /\ s = << >> => total(s) = 0
         /\ \A n \in Int : total(Append(s, n)) = total(s) + n
         /\ s # << >> => total(s) = Head(s) + total(Tail(s))
<1>1. PICK f : Running(s, f)
  BY RunningExists
<1>2. /\ f \in [0 .. Len(s) -> Int] /\ f[0] = 0
      /\ \A i \in 1 .. Len(s) : f[i] = f[i - 1] + s[i]
      /\ total(s) = f[Len(s)] /\ total(s) \in Int
  BY <1>1, TotalIsLast DEF Running, RunningTo
<1>3. ASSUME NEW n \in Int PROVE total(Append(s, n)) = total(s) + n
  <2>0. PICK t : t = Append(s, n)
    OBVIOUS
  <2>1. t = Append(s, n) /\ t \in Seq(Int)
    BY <2>0
  <2>2. /\ Len(t) = Len(s) + 1 /\ t[Len(s) + 1] = n
        /\ \A i \in 1 .. Len(s) : t[i] = s[i]
    BY <2>1
  <2>3. PICK g : g = [i \in 0 .. Len(s) + 1 |->
                        IF i = Len(s) + 1 THEN f[Len(s)] + n ELSE f[i]]
    OBVIOUS
  <2>4. g \in [0 .. Len(t) -> Int] /\ g[0] = 0
        /\ g[Len(t)] = f[Len(s)] + n
    BY <1>2, <2>2, <2>3
  <2>5. ASSUME NEW i \in 1 .. Len(t) PROVE g[i] = g[i - 1] + t[i]
    BY <1>2, <2>2, <2>3
  <2>6. Running(t, g)
    BY <2>4, <2>5 DEF Running, RunningTo
  <2> QED
    BY <1>2, <2>1, <2>4, <2>6, TotalIsLast
<1>4. ASSUME s # << >> PROVE total(s) = Head(s) + total(Tail(s))
  <2>0. PICK t : t = Tail(s)
    OBVIOUS
  <2>1. t = Tail(s) /\ t \in Seq(Int)
    BY <1>4, <2>0
  <2>2. /\ Len(s) \in Nat \ {0} /\ Len(t) = Len(s) - 1 /\ Head(s) = s[1]
        /\ s[1] \in Int
        /\ \A i \in 1 .. Len(t) : t[i] = s[i + 1]
    BY <1>4, <2>1
  <2>3. PICK g : g = [i \in 0 .. Len(t) |-> f[i + 1] - s[1]]
    OBVIOUS
  <2>4. g \in [0 .. Len(t) -> Int] /\ g[0] = 0
        /\ g[Len(t)] = f[Len(s)] - s[1]
    BY <1>2, <2>2, <2>3
  <2>5. ASSUME NEW i \in 1 .. Len(t) PROVE g[i] = g[i - 1] + t[i]
    <3>1. PICK k \in 1 .. Len(s) : k = i + 1 /\ k - 1 = i
      BY <2>2
    <3>2. f[i + 1] = f[i] + s[i + 1] /\ f[i] \in Int /\ s[i + 1] \in Int
      <4>1. f[k] = f[k - 1] + s[k]
        BY <1>2
      <4>2. i \in 0 .. Len(s)
        BY <3>1
      <4>3. f[i] \in Int
        BY <1>2, <4>2
      <4>4. s[k] \in Int
        OBVIOUS
      <4> QED
        BY <3>1, <4>1, <4>3, <4>4
    <3>3. g[i] = f[i + 1] - s[1]
      <4>1. i \in 0 .. Len(t)
        BY <2>2
      <4> QED
        BY <2>3, <4>1
    <3>4. g[i - 1] = f[i] - s[1]
      <4>1. i - 1 \in 0 .. Len(t) /\ i - 1 + 1 = i
        BY <2>2
      <4> QED
        BY <2>3, <4>1
    <3> QED
      BY <2>2, <3>2, <3>3, <3>4
  <2>6. Running(t, g)
    BY <2>4, <2>5 DEF Running, RunningTo
  <2>7. total(t) = f[Len(s)] - s[1]
    BY <2>4, <2>6, TotalIsLast
  <2> QED
    BY <1>2, <2>1, <2>2, <2>7
<1> QED
  BY <1>2, <1>3, <1>4

(* A sum of natural numbers is one.                                        *)
LEMMA TotalNat ==
  ASSUME NEW s \in Seq(Nat)
  PROVE  total(s) \in Nat
<1>0. s \in Seq(Int)
  OBVIOUS
<1>1. PICK f : Running(s, f)
  BY <1>0, RunningExists
<1>2. PICK S : S = {n \in Nat : n <= Len(s) => f[n] \in Nat}
  OBVIOUS
<1>3. 0 \in S
  BY <1>1, <1>2 DEF Running, RunningTo
<1>4. ASSUME NEW n \in Nat, n \in S PROVE n + 1 \in S
  <2> SUFFICES ASSUME n + 1 <= Len(s) PROVE f[n + 1] \in Nat
    BY <1>2
  <2>1. f[n] \in Nat /\ s[n + 1] \in Nat
    BY <1>2, <1>4
  <2>2. f[n + 1] = f[n] + s[n + 1]
    BY <1>1 DEF Running, RunningTo
  <2> QED
    BY <2>1, <2>2
<1>5. Len(s) \in S
  BY <1>3, <1>4, SetInduction
<1> QED
  BY <1>0, <1>1, <1>2, <1>5, TotalIsLast

-----------------------------------------------------------------------------
(* The requests that jsonCheck lets pass, and the instances they ask for.  *)

Accepted == {r \in Request : r.json = "object" /\ instances(r)}

(* What is known of such a request.                                        *)
LEMMA AcceptedFacts ==
  ASSUME NEW r \in Accepted
  PROVE  /\ r \in Request /\ r.json # "none"
         /\ r.instances \in 1 .. maxInstances
         /\ osdInstances(r) \in Nat
         /\ r.profile = "osd" => osdInstances(r) = r.instances
         /\ r.profile # "osd" => osdInstances(r) = 0
<1>1. r \in Request /\ r.json = "object" /\ r.instances \in 1 .. maxInstances
  BY DEF Accepted, instances
<1>2. r.instances \in Nat
  BY <1>1, FlexUpAssumption
<1> QED
  BY <1>1, <1>2 DEF osdInstances

(* The instances of no message, of one more and of one less.               *)
LEMMA InstancesFacts ==
  ASSUME NEW m \in Seq(Accepted)
  PROVE  /\ Instances(m) \in Nat
         /\ m = << >> => Instances(m) = 0
         /\ \A r \in Accepted :
              Instances(Append(m, r)) = Instances(m) + osdInstances(r)
         /\ m # << >> =>
              Instances(m) = osdInstances(Head(m)) + Instances(Tail(m))
<1> DEFINE counts(s) == [i \in 1 .. Len(s) |-> osdInstances(s[i])]
<1>1. \A s : Instances(s) = total(counts(s))
  BY DEF Instances
<1>2. ASSUME NEW s \in Seq(Accepted)
      PROVE  /\ counts(s) \in Seq(Nat) /\ counts(s) \in Seq(Int)
             /\ Len(counts(s)) = Len(s)
  <2>1. \A i \in 1 .. Len(s) : osdInstances(s[i]) \in Nat
    BY AcceptedFacts
  <2> QED
    BY <2>1
<1>3. Instances(m) \in Nat
  BY <1>1, <1>2, TotalNat
<1>4. m = << >> => Instances(m) = 0
  <2>1. m = << >> => counts(m) = << >>
    OBVIOUS
  <2> QED
    BY <1>1, <1>2, <2>1, TotalFacts
<1>5. ASSUME NEW r \in Accepted
      PROVE  Instances(Append(m, r)) = Instances(m) + osdInstances(r)
  <2>1. counts(Append(m, r)) = Append(counts(m), osdInstances(r))
    OBVIOUS
  <2>2. osdInstances(r) \in Int
    BY AcceptedFacts
  <2> QED
    BY <1>1, <1>2, <2>1, <2>2, TotalFacts
<1>6. ASSUME m # << >>
      PROVE  Instances(m) = osdInstances(Head(m)) + Instances(Tail(m))
  <2>1. counts(Tail(m)) = Tail(counts(m))
    BY <1>6
  <2>2. counts(m) # << >> /\ Head(counts(m)) = osdInstances(Head(m))
    BY <1>2, <1>6
  <2> QED
    BY <1>1, <1>2, <2>1, <2>2, TotalFacts
<1> QED
  BY <1>3, <1>4, <1>5, <1>6

-----------------------------------------------------------------------------
(* The inductive invariant: what is in the queue and in the buffer was     *)
(* accepted, and the buffer holds a message only while it is processed.    *)

Message == {<<r>> : r \in Accepted}

FlexInv ==
  /\ TypeOK
  /\ queue \in Seq(Accepted)
  /\ IF loop = "process" THEN event_data.msg \in Message
                         ELSE event_data.msg = << >>
  /\ ~ up => loop = "ended"
  /\ \A c \in Conn : conn[c].st # "none" => conn[c].req \in Request

(* Sequences over any set, as a fact that does not mention its elements.   *)
LEMMA EmptySeqIn == \A S : << >> \in Seq(S)
OBVIOUS

(* The same for Append.                                                    *)
LEMMA AppendIn == \A S : \A s \in Seq(S), x \in S : Append(s, x) \in Seq(S)
OBVIOUS

(* Initially nobody has connected.                                         *)
LEMMA InitFlex == Init => FlexInv
<1> SUFFICES ASSUME Init PROVE FlexInv
  OBVIOUS
<1>1. /\ conn \in [Conn -> [st : ConnState, reply : Reply,
                            req : Request \cup {NoData}]]
      /\ \A c \in Conn : conn[c].st = "none"
  BY DEF Init, ConnState, Reply
<1>2. /\ event_data \in [msg : {<<>>} \cup {<<r>> : r \in Request},
                         rest : Leftover \cup {"nothing"}]
      /\ event_data.msg = << >>
  BY DEF Init, NoData
<1>3. /\ queue = << >> /\ Len(queue) = 0 /\ pendingOSD = << >>
      /\ accepted = 0 /\ granted = 0 /\ stops = 0 /\ kills = 0
      /\ up = TRUE /\ created = FALSE /\ loop = "create"
  BY DEF Init
<1>4. TypeOK
  <2>1. queue \in Seq(Request) /\ pendingOSD \in Seq(1 .. maxInstances)
    BY <1>3, EmptySeqIn
  <2>2. Len(queue) <= MaxMsgs /\ kills \in 0 .. MaxKills
    BY <1>3, FlexUpAssumption
  <2> QED
    BY <1>1, <1>2, <1>3, <2>1, <2>2 DEF TypeOK
<1> QED
  BY <1>1, <1>2, <1>3, <1>4 DEF FlexInv

(* The steps of a connection's thread that do nothing else.                *)
LEMMA ParseFlex ==
  ASSUME FlexInv, NEW c \in Conn,
         \/ RefuseMethod(c) \/ NotFound(c) \/ StartParsing(c)
         \/ ReceiveBody(c) \/ CheckFails(c)
         \/ \E req \in Request : Connect(c, req)
  PROVE  FlexInv'
<1> DEFINE ConnOK(f) ==
      /\ f \in [Conn -> [st : ConnState, reply : Reply,
                         req : Request \cup {NoData}]]
      /\ \A d \in Conn : f[d].st # "none" => f[d].req \in Request
<1>1. ConnOK(conn)
  BY DEF FlexInv, TypeOK
<1>2. ASSUME NEW req \in Request, Connect(c, req) PROVE ConnOK(conn')
  <2>1. conn' = [conn EXCEPT ![c].st = "sent", ![c].req = req]
    BY <1>2 DEF Connect
  <2> QED
    BY <1>1, <2>1 DEF ConnState
<1>3. RefuseMethod(c) \/ NotFound(c) \/ StartParsing(c) \/ ReceiveBody(c)
        => ConnOK(conn')
  BY <1>1 DEF RefuseMethod, NotFound, StartParsing, ReceiveBody, Goto,
              ConnState
<1>4. ASSUME CheckFails(c) PROVE ConnOK(conn')
  <2>1. PICK reply \in Reply : reply = checkError(conn[c].req)
    BY DEF checkError, Reply
  <2>2. conn' = [conn EXCEPT ![c].st = "done", ![c].reply = reply]
    BY <1>4, <2>1 DEF CheckFails
  <2>3. conn[c].st # "none"
    BY <1>4 DEF CheckFails
  <2> QED
    BY <1>1, <2>2, <2>3 DEF ConnState
<1>5. UNCHANGED procVars
  BY DEF Connect, RefuseMethod, NotFound, StartParsing, ReceiveBody,
         CheckFails
<1>6. ConnOK(conn')
  BY <1>2, <1>3, <1>4
<1> QED
  BY <1>5, <1>6 DEF FlexInv, TypeOK, procVars

(* The process dies.                                                       *)
LEMMA DieFlex ==
  ASSUME FlexInv, die, kills' \in 0 .. MaxKills
  PROVE  FlexInv'
<1>1. /\ conn' \in [Conn -> [st : ConnState, reply : Reply,
                             req : Request \cup {NoData}]]
      /\ \A c \in Conn : conn'[c].st # "none" => conn'[c].req \in Request
  BY DEF die, FlexInv, TypeOK, ConnState
<1>2. /\ event_data'.msg = << >>
      /\ event_data' \in [msg : {<<>>} \cup {<<r>> : r \in Request},
                          rest : Leftover \cup {"nothing"}]
  BY DEF die, NoData
<1>3. /\ up' = FALSE /\ stops' = stops + 1 /\ loop' = "ended"
      /\ pendingOSD' = << >>
      /\ UNCHANGED <<created, queue, accepted, granted>>
  BY DEF die
<1>4. TypeOK'
  <2>1. pendingOSD' \in Seq(1 .. maxInstances)
    BY <1>3, EmptySeqIn
  <2>2. stops' \in Nat
    BY <1>3 DEF FlexInv, TypeOK
  <2> QED
    BY <1>1, <1>2, <1>3, <2>1, <2>2 DEF FlexInv, TypeOK
<1> QED
  BY <1>1, <1>2, <1>3, <1>4 DEF FlexInv

(* A request is accepted.                                                  *)
LEMMA SendAccepts ==
  ASSUME FlexInv, NEW c \in Conn, Send(c)
  PROVE  conn[c].req \in Accepted
BY FlexUpAssumption
   DEF FlexInv, Send, throws, checkError, Accepted, RequestType

(* The queue gets longer by it.                                            *)
LEMMA SendFlex ==
  ASSUME FlexInv, NEW c \in Conn, Send(c)
  PROVE  FlexInv'
<1>1. PICK req \in Accepted : req = conn[c].req
  BY SendAccepts
<1>2. /\ queue' = Append(queue, req) /\ Len(queue) < MaxMsgs
      /\ accepted' = accepted + osdInstances(req)
      /\ UNCHANGED <<up, created, loop, event_data, pendingOSD, granted,
                     stops, kills>>
  BY <1>1 DEF Send
<1>3. /\ queue' \in Seq(Accepted) /\ queue' \in Seq(Request)
      /\ Len(queue') <= MaxMsgs
  <2>1. req \in Request /\ queue \in Seq(Request) /\ queue \in Seq(Accepted)
    BY AcceptedFacts DEF FlexInv, TypeOK
  <2>2. Len(queue') = Len(queue) + 1 /\ Len(queue) \in Nat
    BY <1>2, <2>1
  <2> QED
    BY <1>2, <2>1, <2>2, FlexUpAssumption
<1>4. /\ conn' \in [Conn -> [st : ConnState, reply : Reply,
                             req : Request \cup {NoData}]]
      /\ \A d \in Conn : conn'[d].st # "none" => conn'[d].req \in Request
  BY DEF Send, FlexInv, TypeOK, ConnState, Reply
<1>5. accepted' \in Nat
  BY <1>2, AcceptedFacts DEF FlexInv, TypeOK
<1> QED
  BY <1>2, <1>3, <1>4, <1>5 DEF FlexInv, TypeOK

(* The event loop takes a message out of the queue.                        *)
LEMMA ReceiveFlex ==
  ASSUME FlexInv, recvData
  PROVE  FlexInv'
<1>1. /\ queue \in Seq(Accepted) /\ queue \in Seq(Request) /\ queue # << >>
      /\ queue' = Tail(queue) /\ loop' = "process" /\ loop = "receive"
      /\ UNCHANGED <<up, conn, created, pendingOSD, accepted, granted, stops,
                     kills>>
  BY DEF recvData, FlexInv, TypeOK
<1>2. /\ Head(queue) \in Accepted /\ Head(queue) \in Request
      /\ queue' \in Seq(Accepted) /\ queue' \in Seq(Request)
      /\ Len(queue') = Len(queue) - 1 /\ Len(queue) \in Nat
  BY <1>1
<1>3. Len(queue') <= MaxMsgs
  BY <1>2, FlexUpAssumption DEF FlexInv, TypeOK
<1>4. PICK rest \in Leftover :
        event_data' = [msg |-> <<Head(queue)>>, rest |-> rest]
  BY DEF recvData
<1>5. /\ event_data'.msg = <<Head(queue)>> /\ event_data'.msg \in Message
      /\ event_data' \in [msg : {<<>>} \cup {<<r>> : r \in Request},
                          rest : Leftover \cup {"nothing"}]
  BY <1>2, <1>4 DEF Message
<1> QED
  BY <1>1, <1>2, <1>3, <1>5 DEF FlexInv, TypeOK

(* It keeps the count of a request for OSDs.                               *)
LEMMA ProcessFlex ==
  ASSUME FlexInv, processData
  PROVE  FlexInv'
<1>1. /\ loop = "process" /\ loop' = "receive" /\ event_data' = NoData
      /\ UNCHANGED <<up, conn, created, queue, accepted, granted, stops,
                     kills>>
  BY DEF processData
<1>2. PICK r \in Accepted : event_data.msg = <<r>>
  BY <1>1 DEF FlexInv, Message
<1>3. pendingOSD' = IF r.profile = "osd" THEN Append(pendingOSD, r.instances)
                                         ELSE pendingOSD
  BY <1>2, AcceptedFacts DEF processData, read
<1>4. pendingOSD' \in Seq(1 .. maxInstances)
  <2>1. r.instances \in 1 .. maxInstances
    BY AcceptedFacts
  <2>2. pendingOSD \in Seq(1 .. maxInstances)
    BY DEF FlexInv, TypeOK
  <2> QED
    BY <1>3, <2>1, <2>2, AppendIn
<1>5. /\ event_data'.msg = << >>
      /\ event_data' \in [msg : {<<>>} \cup {<<q>> : q \in Request},
                          rest : Leftover \cup {"nothing"}]
  BY <1>1 DEF NoData
<1> QED
  BY <1>1, <1>4, <1>5 DEF FlexInv, TypeOK

(* resourceOffers takes an instance of the first request.                  *)
LEMMA FetchFlex ==
  ASSUME FlexInv, fetchPendingRESTfulRequest
  PROVE  /\ FlexInv'
         /\ total(pendingOSD') = total(pendingOSD) - 1
<1>1. /\ pendingOSD \in Seq(1 .. maxInstances) /\ pendingOSD # << >>
      /\ granted' = granted + 1 /\ granted \in Nat
      /\ UNCHANGED <<up, conn, created, queue, loop, event_data, accepted,
                     stops, kills>>
  BY DEF fetchPendingRESTfulRequest, FlexInv, TypeOK
<1>2. PICK h : h = Head(pendingOSD)
  OBVIOUS
<1>3. PICK rest : rest = Tail(pendingOSD)
  OBVIOUS
<1>3a. h \in 1 .. maxInstances /\ rest \in Seq(1 .. maxInstances)
  <2>1. PICK S : S = 1 .. maxInstances
    OBVIOUS
  <2>2. pendingOSD \in Seq(S) /\ pendingOSD # << >>
    BY <1>1, <2>1
  <2>3. h \in S /\ rest \in Seq(S)
    BY <1>2, <1>3, <2>2
  <2> QED
    BY <2>1, <2>3
<1>4. /\ maxInstances \in Nat /\ h \in Nat
      /\ \A s \in Seq(1 .. maxInstances) : s \in Seq(Int)
  BY <1>3a, FlexUpAssumption
<1>5. /\ total(pendingOSD) = h + total(rest)
      /\ total(rest) \in Int
  BY <1>1, <1>2, <1>3, <1>3a, <1>4, TotalFacts
<1>6. CASE h - 1 = 0
  <2>1. pendingOSD' = rest
    BY <1>2, <1>3, <1>6 DEF fetchPendingRESTfulRequest
  <2>2. granted' \in Nat /\ total(pendingOSD') = total(pendingOSD) - 1
    BY <1>1, <1>4, <1>5, <1>6, <2>1
  <2>3. FlexInv'
    BY <1>1, <1>3a, <2>1, <2>2 DEF FlexInv, TypeOK
  <2> QED
    BY <2>2, <2>3
<1>7. CASE h - 1 # 0
  <2>1. PICK s : s = <<h - 1>> \o rest
    OBVIOUS
  <2>2. pendingOSD' = s
    BY <1>2, <1>3, <1>7, <2>1 DEF fetchPendingRESTfulRequest
  <2>3. h - 1 \in 1 .. maxInstances
    BY <1>3a, <1>4, <1>7
  <2>4. s \in Seq(1 .. maxInstances) /\ s # << >> /\ Head(s) = h - 1
    BY <1>3a, <2>1, <2>3
  <2>5. Tail(s) = rest
    BY <1>3a, <2>1, <2>3
  <2>6. total(s) = h - 1 + total(rest)
    BY <1>4, <2>4, <2>5, TotalFacts
  <2> QED
    BY <1>1, <1>4, <1>5, <2>2, <2>4, <2>6 DEF FlexInv, TypeOK
<1> QED
  BY <1>6, <1>7

(* Every step keeps the invariant.                                         *)
LEMMA NextFlex == FlexInv /\ [Next]_vars => FlexInv'
<1> SUFFICES ASSUME FlexInv, [Next]_vars PROVE FlexInv'
  OBVIOUS
<1>1. CASE UNCHANGED vars
  BY <1>1 DEF vars, FlexInv, TypeOK
<1>2. CASE Restart \/ OpenOrCreate
  BY <1>2 DEF Restart, OpenOrCreate, FlexInv, TypeOK, NoData
<1>3. CASE Kill
  BY <1>3, DieFlex, FlexUpAssumption DEF Kill, FlexInv, TypeOK
<1>4. CASE \E c \in Conn : CheckThrows(c)
  BY <1>4, DieFlex DEF CheckThrows, FlexInv, TypeOK
<1> QED
  BY <1>1, <1>2, <1>3, <1>4, ParseFlex, SendFlex, ReceiveFlex, ProcessFlex,
     FetchFlex DEF Next, rest_request, EventLoop

(* Every reachable state is well typed; above all, resourceOffers never    *)
(* finds a count below one or above the limit of jsonCheck.                *)
THEOREM FlexUpTypeCorrect == Spec => []TypeOK
<1>1. FlexInv => TypeOK
  BY DEF FlexInv
<1> QED
  BY <1>1, InitFlex, NextFlex, PTL DEF Spec

-----------------------------------------------------------------------------
(* The refinement.  What is lost is what was accepted, is not served and   *)
(* is no longer on its way.                                                *)

(* Nothing is on its way in an empty sequence.                             *)
LEMMA EmptySums == Instances(<< >>) = 0 /\ total(<< >>) = 0
<1>1. << >> \in Seq(Accepted) /\ << >> \in Seq(Int)
  OBVIOUS
<1> QED
  BY <1>1, InstancesFacts, TotalFacts

(* How many instances each place on the way holds.                         *)
LEMMA InFlightFacts ==
  ASSUME FlexInv
  PROVE  /\ Instances(queue) \in Nat
         /\ Instances(event_data.msg) \in Nat
         /\ total(pendingOSD) \in Nat
         /\ inFlight \in Nat
         /\ loop # "process" => Instances(event_data.msg) = 0
<1>1. queue \in Seq(Accepted) /\ event_data.msg \in Seq(Accepted)
  <2>1. event_data.msg = << >> \/ \E r \in Accepted : event_data.msg = <<r>>
    BY DEF FlexInv, Message
  <2>2. \A r \in Accepted : <<r>> \in Seq(Accepted)
    OBVIOUS
  <2> QED
    BY <2>1, <2>2, EmptySeqIn DEF FlexInv
<1>2. pendingOSD \in Seq(Nat)
  BY FlexUpAssumption DEF FlexInv, TypeOK
<1>3. /\ Instances(queue) \in Nat
      /\ Instances(event_data.msg) \in Nat
      /\ total(pendingOSD) \in Nat
  BY <1>1, <1>2, InstancesFacts, TotalNat
<1>4. loop # "process" => Instances(event_data.msg) = 0
  BY <1>1, InstancesFacts DEF FlexInv
<1> QED
  BY <1>3, <1>4 DEF inFlight

(* One message in the buffer counts as much as it asks for.                *)
LEMMA OneMessage ==
  ASSUME NEW r \in Accepted
  PROVE  Instances(<<r>>) = osdInstances(r)
<1>1. << >> \in Seq(Accepted) /\ Append(<< >>, r) = <<r>>
  OBVIOUS
<1>2. Instances(Append(<< >>, r)) = Instances(<< >>) + osdInstances(r)
  BY <1>1, InstancesFacts
<1>3. Instances(<< >>) = 0 /\ osdInstances(r) \in Nat
  BY <1>1, InstancesFacts, AcceptedFacts
<1> QED
  BY <1>1, <1>2, <1>3

(* What each kind of step does to the sums.                                *)
LEMMA FlowSend ==
  ASSUME FlexInv, NEW c \in Conn, Send(c)
  PROVE  /\ \E n \in Nat : /\ accepted' = accepted + n
                            /\ inFlight' = inFlight + n
         /\ UNCHANGED <<granted, stops>>
<1>1. PICK req \in Accepted : req = conn[c].req
  BY SendAccepts
<1>2. /\ queue' = Append(queue, req)
      /\ accepted' = accepted + osdInstances(req)
      /\ UNCHANGED <<event_data, pendingOSD, granted, stops>>
  BY <1>1 DEF Send
<1>3. Instances(queue') = Instances(queue) + osdInstances(req)
  BY <1>2, InstancesFacts DEF FlexInv
<1>4. /\ osdInstances(req) \in Nat /\ accepted \in Nat
      /\ Instances(queue) \in Nat
      /\ Instances(event_data.msg) \in Nat /\ total(pendingOSD) \in Nat
  BY AcceptedFacts, InFlightFacts DEF FlexInv, TypeOK
<1>5. inFlight' = inFlight + osdInstances(req)
  BY <1>2, <1>3, <1>4 DEF inFlight
<1> QED
  BY <1>2, <1>4, <1>5

(* From the queue to the buffer.                                           *)
LEMMA FlowReceive ==
  ASSUME FlexInv, recvData
  PROVE  inFlight' = inFlight /\ UNCHANGED <<accepted, granted, stops>>
<1>1. /\ queue \in Seq(Accepted) /\ queue # << >> /\ queue' = Tail(queue)
      /\ event_data'.msg = <<Head(queue)>> /\ loop = "receive"
      /\ UNCHANGED <<pendingOSD, accepted, granted, stops>>
  BY DEF recvData, FlexInv
<1>2. PICK r \in Accepted : r = Head(queue)
  BY <1>1
<1>3. /\ Instances(queue) = osdInstances(r) + Instances(queue')
      /\ Instances(event_data'.msg) = osdInstances(r)
      /\ Instances(event_data.msg) = 0
  BY <1>1, <1>2, InstancesFacts, OneMessage, InFlightFacts
<1>4. Instances(queue') \in Nat
  BY ReceiveFlex, <1>1, InstancesFacts DEF FlexInv
<1>5. osdInstances(r) \in Nat /\ total(pendingOSD) \in Nat
  BY AcceptedFacts, InFlightFacts
<1> QED
  BY <1>1, <1>3, <1>4, <1>5 DEF inFlight

(* From the buffer to the vector.                                          *)
LEMMA FlowProcess ==
  ASSUME FlexInv, processData
  PROVE  inFlight' = inFlight /\ UNCHANGED <<accepted, granted, stops>>
<1>1. /\ loop = "process" /\ event_data'.msg = << >>
      /\ UNCHANGED <<queue, accepted, granted, stops>>
  BY DEF processData, NoData
<1>2. PICK r \in Accepted : event_data.msg = <<r>>
  BY <1>1 DEF FlexInv, Message
<1>3. pendingOSD' = IF r.profile = "osd" THEN Append(pendingOSD, r.instances)
                                         ELSE pendingOSD
  BY <1>2, AcceptedFacts DEF processData, read
<1>4. pendingOSD \in Seq(Int) /\ r.instances \in Int
  BY AcceptedFacts, FlexUpAssumption DEF FlexInv, TypeOK
<1>5. total(pendingOSD') = total(pendingOSD) + osdInstances(r)
  <2>1. /\ r.profile = "osd" => osdInstances(r) = r.instances
        /\ r.profile # "osd" => osdInstances(r) = 0
    BY AcceptedFacts
  <2>2. /\ total(pendingOSD) \in Int
        /\ total(Append(pendingOSD, r.instances)) =
             total(pendingOSD) + r.instances
    BY <1>4, TotalFacts
  <2> QED
    BY <1>3, <2>1, <2>2
<1>6. Instances(event_data.msg) = osdInstances(r)
  BY <1>2, OneMessage
<1>7. Instances(event_data'.msg) = 0
  BY <1>1, EmptySums
<1>8. osdInstances(r) \in Nat /\ total(pendingOSD) \in Nat
        /\ Instances(queue) \in Nat
  BY AcceptedFacts, InFlightFacts
<1> QED
  BY <1>1, <1>5, <1>6, <1>7, <1>8 DEF inFlight

(* Death loses what is not in the queue.                                   *)
LEMMA FlowDie ==
  ASSUME FlexInv, die
  PROVE  /\ inFlight' \in 0 .. inFlight
         /\ stops' = stops + 1
         /\ UNCHANGED <<accepted, granted>>
<1>1. /\ event_data'.msg = << >> /\ pendingOSD' = << >>
      /\ stops' = stops + 1
      /\ UNCHANGED <<queue, accepted, granted>>
  BY DEF die, NoData
<1>2. Instances(event_data'.msg) = 0 /\ total(pendingOSD') = 0
  BY <1>1, EmptySums
<1>3. /\ Instances(queue) \in Nat
      /\ Instances(event_data.msg) \in Nat /\ total(pendingOSD) \in Nat
  BY InFlightFacts
<1> QED
  BY <1>1, <1>2, <1>3 DEF inFlight

(* With any number of connections, kills and restarts, an accepted         *)
(* instance is served once, and only the death of the process loses some.  *)
THEOREM ImplementsFlexUpPath == Spec => ImplementsFlexUpService
<1>1. Init => Service!Init
  <2> SUFFICES ASSUME Init PROVE Service!Init
    OBVIOUS
  <2>1. /\ queue = << >> /\ event_data.msg = << >> /\ pendingOSD = << >>
        /\ accepted = 0 /\ granted = 0 /\ stops = 0
    BY DEF Init, NoData
  <2>2. inFlight = 0
    BY <2>1, EmptySums DEF inFlight
  <2> QED
    BY <2>1, <2>2 DEF Service!Init
<1>2. FlexInv /\ [Next]_vars => [Service!Next]_(Service!flexUpVars)
  <2> SUFFICES ASSUME FlexInv, [Next]_vars
               PROVE  [Service!Next]_(Service!flexUpVars)
    OBVIOUS
  <2> USE DEF Service!Next, Service!flexUpVars
  <2>1. /\ accepted \in Nat /\ granted \in Nat /\ stops \in Nat
        /\ inFlight \in Nat
    BY InFlightFacts DEF FlexInv, TypeOK
  <2>2. ASSUME NEW c \in Conn, Send(c)
        PROVE  [Service!Next]_(Service!flexUpVars)
    <3>1. PICK n \in Nat : accepted' = accepted + n
                             /\ inFlight' = inFlight + n
      BY <2>2, FlowSend
    <3>2. accepted' - granted' - inFlight' = accepted - granted - inFlight
      BY <2>1, <2>2, <3>1, FlowSend
    <3>3. UNCHANGED <<granted, stops>>
      BY <2>2, FlowSend
    <3> QED
      BY <2>1, <3>1, <3>2, <3>3 DEF Service!Accept
  <2>3. CASE recvData \/ processData
    BY <2>1, <2>3, FlowReceive, FlowProcess
  <2>4. CASE fetchPendingRESTfulRequest
    <3>1. /\ granted' = granted + 1
          /\ UNCHANGED <<queue, event_data, accepted, stops>>
          /\ total(pendingOSD') = total(pendingOSD) - 1
      BY <2>4, FetchFlex DEF fetchPendingRESTfulRequest
    <3>2. total(pendingOSD') \in Nat
      <4>1. pendingOSD' \in Seq(Nat)
        BY <2>4, FetchFlex, FlexUpAssumption DEF FlexInv, TypeOK
      <4> QED
        BY <4>1, TotalNat
    <3>3. inFlight' = inFlight - 1 /\ inFlight >= 1
      BY <3>1, <3>2, InFlightFacts DEF inFlight
    <3> QED
      BY <2>1, <3>1, <3>3 DEF Service!Serve
  <2>5. CASE die
    <3>1. PICK n \in 0 .. inFlight : n = inFlight'
      BY <2>5, FlowDie
    <3>2. accepted - granted - n
            \in (accepted - granted - inFlight) .. (accepted - granted)
      BY <2>1
    <3>3. stops' = stops + 1 /\ UNCHANGED <<accepted, granted>>
      BY <2>5, FlowDie
    <3> QED
      BY <3>1, <3>2, <3>3 DEF Service!Stop
  <2>6. CASE /\ UNCHANGED <<queue, event_data, pendingOSD, accepted, granted,
                            stops>>
    BY <2>6 DEF inFlight
  <2> QED
    BY <2>2, <2>3, <2>4, <2>5, <2>6
       DEF Next, rest_request, EventLoop, Kill, Restart, Connect,
           RefuseMethod, NotFound, StartParsing, ReceiveBody, CheckFails,
           CheckThrows, OpenOrCreate, procVars, vars
<1> QED
  BY <1>1, <1>2, InitFlex, NextFlex, PTL
     DEF Spec, ImplementsFlexUpService, Service!Spec
=============================================================================
