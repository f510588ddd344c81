--------------------------- MODULE Boundary_proofs ----------------------------
(***************************************************************************)
(* Theorems about the plugins that let a caller reach what is outside:     *)
(* network with its address policy, its caps and its cache, and the two    *)
(* that serve the disk, filesystem and gated-write. Each part has its      *)
(* inductive invariant, a lemma per action, and its theorems.              *)
(***************************************************************************)
EXTENDS Network, Files, FiniteSetTheorems, SequenceTheorems, WellFoundedInduction, TLAPS

Hosts == Literals \cup HostNames

BusyPcs == {"check", "reserve", "start", "gate", "attempt", "cookies", "store"}

GotType == [serial : Nat, answer : OriginAnswers]

BusyType ==
  [pc : BusyPcs, caller : NetCallers, params : HttpRequests, attempt : Nat,
   cookie : Nat \cup {NotSet}, got : GotType \cup {NotSet},
   setCookie : Nat \cup {NotSet}]

OriginType ==
  [serial : Nat, caller : NetCallers, host : Hosts, answer : OriginAnswers, ttl : Nat]

-----------------------------------------------------------------------------
(* The inductive invariant *)

\* Response number n is one that host h gave caller c.
Gave(n, c, h, O) == \E o \in O : o.serial = n /\ o.caller = c /\ o.host = h

\* What a task has in hand is its own, and its host has passed the gate.
TaskOk(n, O) ==
  n \in BusyType =>
    /\ n.cookie # NotSet => Gave(n.cookie, n.caller, n.params.host, O)
    /\ n.setCookie # NotSet => Gave(n.setCookie, n.caller, n.params.host, O)
    /\ n.got # NotSet =>
         \E o \in O : /\ o.serial = n.got.serial /\ o.answer = n.got.answer
                      /\ o.caller = n.caller /\ o.host = n.params.host
                      /\ o.ttl = n.params.cache_ttl_ms
    /\ n.pc = "attempt" => LiteralOk(n.params.host)

\* A stored response is what an origin gave the caller and host of its key.
EntryOk(e, O) ==
  \E o \in O : /\ o.serial = e.serial /\ o.caller = e.key[1] /\ o.host = e.key[3]
               /\ Cacheable(o.answer)
               /\ e.stored \in Nat /\ e.expires = e.stored + o.ttl

ReplyOk(a, O) ==
  \E o \in O : /\ o.serial = a.serial /\ o.caller = a.caller /\ o.host = a.host
               /\ a.hit => Cacheable(o.answer) /\ a.age <= o.ttl

Shape ==
  /\ netTask \in [NetTasks -> {NetIdle} \cup BusyType]
  /\ netActive \in [NetCallers -> Int]
  /\ netJar \in [NetCallers -> [Hosts -> Nat \cup {NotSet}]]
  /\ netClock \in Nat /\ capRaced \in BOOLEAN
  /\ origin \subseteq OriginType /\ IsFiniteSet(origin)

Ownership ==
  /\ \A t \in NetTasks : TaskOk(netTask[t], origin)
  /\ \A c \in NetCallers, h \in Hosts :
       netJar[c][h] # NotSet => Gave(netJar[c][h], c, h, origin)
  /\ \A e \in netCache : EntryOk(e, origin)
  /\ \A a \in netReplies : ReplyOk(a, origin)

NetInv == Shape /\ Ownership /\ NoBlockedConnection

LEMMA IdleIsNotBusy == NetIdle \notin BusyType /\ NetIdle.pc = "idle"
<1>1. ASSUME NetIdle \in BusyType PROVE FALSE
  <2>1. NetIdle.pc \in BusyPcs
    BY <1>1 DEF BusyType
  <2> QED
    BY <2>1 DEF NetIdle, BusyPcs
<1> QED
  BY <1>1 DEF NetIdle

LEMMA RequestFacts ==
  ASSUME NEW r \in HttpRequests
  PROVE  r.host \in Hosts /\ r.cache_ttl_ms \in Nat
  BY NetworkAssumption DEF Hosts

\* More responses take nothing away.
LEMMA MoreOrigins ==
  ASSUME NEW O, NEW P, O \subseteq P
  PROVE  /\ \A n : TaskOk(n, O) => TaskOk(n, P)
         /\ \A n, c, h : Gave(n, c, h, O) => Gave(n, c, h, P)
         /\ \A e : EntryOk(e, O) => EntryOk(e, P)
         /\ \A a : ReplyOk(a, O) => ReplyOk(a, P)
<1>1. \A n, c, h : Gave(n, c, h, O) => Gave(n, c, h, P)
  BY DEF Gave
<1>2. \A n : TaskOk(n, O) => TaskOk(n, P)
  BY <1>1 DEF TaskOk
<1>3. \A e : EntryOk(e, O) => EntryOk(e, P)
  BY DEF EntryOk
<1>4. \A a : ReplyOk(a, O) => ReplyOk(a, P)
  BY DEF ReplyOk
<1> QED
  BY <1>1, <1>2, <1>3, <1>4

LEMMA InvImplies == NetInv => NoBlockedConnection /\ RepliesAreOwn /\ CookiesAreOwn
<1> SUFFICES ASSUME NetInv PROVE RepliesAreOwn /\ CookiesAreOwn
  BY DEF NetInv
<1>1. RepliesAreOwn
  BY DEF NetInv, Ownership, ReplyOk, RepliesAreOwn
<1>2. ASSUME NEW t \in NetTasks, HoldsSlot(t), netTask[t].cookie # NotSet
      PROVE  \E o \in origin : /\ o.serial = netTask[t].cookie
                               /\ o.caller = netTask[t].caller
                               /\ o.host = netTask[t].params.host
  <2>1. netTask[t] \in BusyType
    BY <1>2, IdleIsNotBusy DEF NetInv, Shape, HoldsSlot
  <2> QED
    BY <1>2, <2>1 DEF NetInv, Ownership, TaskOk, Gave
<1> QED
  BY <1>1, <1>2 DEF CookiesAreOwn

-----------------------------------------------------------------------------
(* The address policy *)

\* Whatever a name resolves to, a connection is permitted for its host.
LEMMA ConnectionsPermitted ==
  ASSUME NEW h \in Hosts, LiteralOk(h), NEW s \in Resolutions(h), NEW a \in s
  PROVE  Permitted(h, a)
  BY DEF Resolutions, LiteralOk

LEMMA ChainPermitted ==
  ASSUME NEW r \in HttpRequests, LiteralOk(r.host), NEW chain \in Chains(r),
         NEW choice \in Connections(chain), NEW a \in Range(choice)
  PROVE  \E h \in Literals \cup HostNames : Permitted(h, a)
<1>1. r.host \in Hosts
  BY RequestFacts
<1>2. PICK i \in DOMAIN chain : a = choice[i]
  BY DEF Connections, Range
<1>3. PICK s \in Resolutions(chain[i]) : a \in s
  BY <1>2 DEF Connections
<1>4. chain[i] \in Hosts /\ LiteralOk(chain[i])
  <2>1. CASE chain = <<r.host>>
    BY <1>1, <1>2, <2>1
  <2>2. CASE \E hop \in Hosts : LiteralOk(hop) /\ chain = <<r.host, hop>>
    <3>1. PICK hop \in Hosts : LiteralOk(hop) /\ chain = <<r.host, hop>>
      BY <2>2
    <3>2. i \in {1, 2}
      BY <1>2, <3>1
    <3> QED
      BY <1>1, <3>1, <3>2
  <2> QED
    BY <2>1, <2>2 DEF Chains, Hosts
<1> QED
  BY <1>3, <1>4, ConnectionsPermitted DEF Hosts

-----------------------------------------------------------------------------
(* The steps of one task *)

\* A step that puts one task into a state that is its own.
LEMMA TaskMoves ==
  ASSUME NetInv, NEW t \in NetTasks, NEW n \in {NetIdle} \cup BusyType,
         netTask' = [netTask EXCEPT ![t] = n], origin \subseteq origin',
         TaskOk(n, origin')
  PROVE  /\ netTask' \in [NetTasks -> {NetIdle} \cup BusyType]
         /\ \A u \in NetTasks : TaskOk(netTask'[u], origin')
<1>1. netTask \in [NetTasks -> {NetIdle} \cup BusyType]
  BY DEF NetInv, Shape
<1>2. \A u \in NetTasks : netTask'[u] = IF u = t THEN n ELSE netTask[u]
  BY <1>1
<1>3. \A u \in NetTasks : TaskOk(netTask[u], origin')
  BY MoreOrigins DEF NetInv, Ownership
<1> QED
  BY <1>1, <1>2, <1>3

LEMMA BusyFacts ==
  ASSUME NetInv, NEW t \in NetTasks, netTask[t].pc # "idle"
  PROVE  /\ netTask[t] \in BusyType /\ TaskOk(netTask[t], origin)
         /\ netTask[t].caller \in NetCallers /\ netTask[t].params \in HttpRequests
         /\ netTask[t].params.host \in Hosts
<1>1. netTask[t] \in BusyType
  BY IdleIsNotBusy DEF NetInv, Shape
<1> QED
  BY <1>1, RequestFacts DEF NetInv, Ownership, BusyType

LEMMA IdleOk == \A O : TaskOk(NetIdle, O)
  BY IdleIsNotBusy DEF TaskOk

\* Everything but the tasks and the slots is as it was.
LEMMA RestSame ==
  ASSUME NetInv, netTask' \in [NetTasks -> {NetIdle} \cup BusyType],
         \A u \in NetTasks : TaskOk(netTask'[u], origin'),
         netActive' \in [NetCallers -> Int], capRaced' \in BOOLEAN,
         UNCHANGED <<netStores, netClock, contacted, origin, netReplies>>
  PROVE  NetInv'
<1>1. Shape'
  BY DEF NetInv, Shape, netStores
<1>2. Ownership'
  BY DEF NetInv, Ownership, netStores
<1>3. NoBlockedConnection'
  BY DEF NetInv, NoBlockedConnection
<1> QED
  BY <1>1, <1>2, <1>3 DEF NetInv

LEMMA FinishEffects ==
  ASSUME NetInv, NEW t \in NetTasks, NEW failed, NEW reply, netTask[t].pc # "idle",
         Finish(t, failed, reply), origin' = origin
  PROVE  /\ netActive' \in [NetCallers -> Int]
         /\ netTask' \in [NetTasks -> {NetIdle} \cup BusyType]
         /\ \A u \in NetTasks : TaskOk(netTask'[u], origin')
         /\ netReplies' = netReplies \cup reply
<1>1. netTask' = [netTask EXCEPT ![t] = NetIdle] /\ netReplies' = netReplies \cup reply
  BY DEF Finish
<1>2. netActive' \in [NetCallers -> Int]
  BY BusyFacts, NetworkAssumption DEF Finish, Released, NetInv, Shape
<1> QED
  BY <1>1, <1>2, TaskMoves, IdleOk

LEMMA AcceptStep ==
  ASSUME NetInv, NEW t \in NetTasks, NetAccept(t)
  PROVE  NetInv'
<1>1. PICK c \in NetCallers, r \in HttpRequests :
        netTask' = IF BelowCap(c)
                     THEN [netTask EXCEPT ![t] =
                             [pc |-> "check", caller |-> c, params |-> r, attempt |-> 0,
                              cookie |-> NotSet, got |-> NotSet, setCookie |-> NotSet]]
                     ELSE netTask
  BY DEF NetAccept
<1>2. UNCHANGED <<netActive, netStores, netClock, contacted, origin, netReplies, capRaced>>
  BY DEF NetAccept, netPast
<1> DEFINE n == [pc |-> "check", caller |-> c, params |-> r, attempt |-> 0,
                 cookie |-> NotSet, got |-> NotSet, setCookie |-> NotSet]
<1>3. n \in BusyType /\ TaskOk(n, origin')
  BY DEF BusyType, BusyPcs, TaskOk
<1> HIDE DEF n
<1>4. CASE netTask' = [netTask EXCEPT ![t] = n]
  <2>1. /\ netTask' \in [NetTasks -> {NetIdle} \cup BusyType]
        /\ \A u \in NetTasks : TaskOk(netTask'[u], origin')
    BY <1>2, <1>3, <1>4, TaskMoves
  <2> QED
    BY <1>2, <2>1, RestSame DEF NetInv, Shape
<1>5. CASE netTask' = netTask
  BY <1>2, <1>5, RestSame DEF NetInv, Shape, Ownership
<1> QED
  BY <1>1, <1>4, <1>5 DEF n

LEMMA AcquireStep ==
  ASSUME NetInv, NEW t \in NetTasks, AcquireCheck(t) \/ AcquireReserve(t)
  PROVE  NetInv'
<1>1. netTask[t].pc \in {"check", "reserve"}
  BY DEF AcquireCheck, AcquireReserve, NetAt
<1>2. netTask[t] \in BusyType /\ TaskOk(netTask[t], origin)
  BY <1>1, BusyFacts
<1>3. ASSUME NEW pc \in {"reserve", "start"}
      PROVE  /\ [netTask[t] EXCEPT !.pc = pc] \in BusyType
             /\ TaskOk([netTask[t] EXCEPT !.pc = pc], origin)
  <2> DEFINE n == [netTask[t] EXCEPT !.pc = pc]
  <2>1. n \in BusyType
    BY <1>2 DEF BusyType, BusyPcs
  <2>2. /\ n.pc = pc /\ n.caller = netTask[t].caller /\ n.params = netTask[t].params
        /\ n.cookie = netTask[t].cookie /\ n.setCookie = netTask[t].setCookie
        /\ n.got = netTask[t].got
    BY <1>2 DEF BusyType
  <2> HIDE DEF n
  <2>3. TaskOk(n, origin)
    BY <1>2, <2>2 DEF TaskOk
  <2> QED
    BY <2>1, <2>3 DEF n
<1>4. CASE AcquireCheck(t)
  <2>1. /\ netTask' = [netTask EXCEPT ![t] = IF BelowCap(netTask[t].caller)
                         THEN [netTask[t] EXCEPT !.pc = "reserve"] ELSE NetIdle]
        /\ UNCHANGED <<netActive, netStores, netClock, contacted, origin, netReplies>>
        /\ capRaced' \in BOOLEAN
    BY <1>4 DEF AcquireCheck
  <2>2. PICK n \in {NetIdle} \cup BusyType :
          netTask' = [netTask EXCEPT ![t] = n] /\ TaskOk(n, origin)
    BY <2>1, <1>3, IdleOk
  <2>3. /\ netTask' \in [NetTasks -> {NetIdle} \cup BusyType]
        /\ \A u \in NetTasks : TaskOk(netTask'[u], origin')
    BY <2>1, <2>2, TaskMoves
  <2> QED
    BY <2>1, <2>3, RestSame DEF NetInv, Shape
<1>5. CASE AcquireReserve(t)
  <2>1. /\ netTask' = [netTask EXCEPT ![t] = [netTask[t] EXCEPT !.pc = "start"]]
        /\ UNCHANGED <<netStores, netClock, contacted, origin, netReplies, capRaced>>
    BY <1>5 DEF AcquireReserve, NetGoto, netPast
  <2>2. netActive' \in [NetCallers -> Int]
    BY <1>2, <1>5 DEF AcquireReserve, NetInv, Shape, BusyType
  <2>3. /\ netTask' \in [NetTasks -> {NetIdle} \cup BusyType]
        /\ \A u \in NetTasks : TaskOk(netTask'[u], origin')
    BY <2>1, <1>3, TaskMoves
  <2> QED
    BY <2>1, <2>2, <2>3, RestSame DEF NetInv, Shape
<1> QED
  BY <1>4, <1>5

LEMMA PanicStep ==
  ASSUME NetInv, NEW t \in NetTasks, NetPanic(t)
  PROVE  NetInv'
<1>1. /\ netTask[t].pc # "idle" /\ netTask' = [netTask EXCEPT ![t] = NetIdle]
      /\ netActive' = Released(t, TRUE)
      /\ UNCHANGED <<netStores, netClock, contacted, origin, netReplies, capRaced>>
  BY DEF NetPanic, HoldsSlot, netPast
<1>2. netActive' \in [NetCallers -> Int]
  BY <1>1, BusyFacts DEF Released, NetInv, Shape
<1>3. /\ netTask' \in [NetTasks -> {NetIdle} \cup BusyType]
      /\ \A u \in NetTasks : TaskOk(netTask'[u], origin')
  BY <1>1, TaskMoves, IdleOk
<1> QED
  BY <1>1, <1>2, <1>3, RestSame DEF NetInv, Shape

\* The same task at another point, with another cookie, attempt or response.
LEMMA BusyExcept ==
  ASSUME NEW n \in BusyType, NEW pc \in BusyPcs, NEW cookie \in Nat \cup {NotSet},
         NEW attempt \in Nat, NEW got \in GotType \cup {NotSet},
         NEW setCookie \in Nat \cup {NotSet}, NEW m,
         m = [n EXCEPT !.pc = pc, !.attempt = attempt, !.cookie = cookie,
                       !.got = got, !.setCookie = setCookie]
  PROVE  /\ m \in BusyType /\ m.pc = pc /\ m.caller = n.caller /\ m.params = n.params
         /\ m.cookie = cookie /\ m.got = got /\ m.setCookie = setCookie
<1>1. m = [pc |-> pc, caller |-> n.caller, params |-> n.params, attempt |-> attempt,
           cookie |-> cookie, got |-> got, setCookie |-> setCookie]
  BY DEF BusyType
<1> QED
  BY <1>1 DEF BusyType

\* An answer from the cache is as old as the storing request allowed at most.
LEMMA HitOk ==
  ASSUME NetInv, NEW t \in NetTasks, netTask[t].pc # "idle",
         NEW e \in Fresh(netTask[t].caller, netTask[t].params)
  PROVE  ReplyOk(NetReply(t, e, TRUE), origin)
<1> DEFINE c == netTask[t].caller
           r == netTask[t].params
<1>1. e \in netCache /\ e.key = CacheKey(c, r) /\ netClock <= e.expires
  BY DEF Fresh
<1>2. e.key[1] = c /\ e.key[3] = r.host
  BY <1>1 DEF CacheKey
<1>3. PICK o \in origin : /\ o.serial = e.serial /\ o.caller = e.key[1]
                          /\ o.host = e.key[3] /\ Cacheable(o.answer)
                          /\ e.stored \in Nat /\ e.expires = e.stored + o.ttl
  BY <1>1 DEF NetInv, Ownership, EntryOk
<1>4. o.ttl \in Nat /\ netClock \in Nat
  BY <1>3 DEF NetInv, Shape, OriginType
<1>5. netClock - e.stored <= o.ttl
  BY <1>1, <1>3, <1>4
<1>6. /\ NetReply(t, e, TRUE).serial = e.serial /\ NetReply(t, e, TRUE).caller = c
      /\ NetReply(t, e, TRUE).host = r.host
      /\ NetReply(t, e, TRUE).age = netClock - e.stored
  BY DEF NetReply
<1> QED
  BY <1>2, <1>3, <1>5, <1>6 DEF ReplyOk

LEMMA StartStep ==
  ASSUME NetInv, NEW t \in NetTasks, Start(t)
  PROVE  NetInv'
<1>1. /\ netTask[t].pc = "start"
      /\ UNCHANGED <<netStores, netClock, contacted, origin, capRaced>>
  BY DEF Start, NetAt
<1>2. netTask[t] \in BusyType /\ TaskOk(netTask[t], origin)
  BY <1>1, BusyFacts
<1>3. ASSUME NEW failed, NEW reply, Finish(t, failed, reply),
             \A a \in reply : ReplyOk(a, origin)
      PROVE  NetInv'
  <2>1. /\ netActive' \in [NetCallers -> Int]
        /\ netTask' \in [NetTasks -> {NetIdle} \cup BusyType]
        /\ \A u \in NetTasks : TaskOk(netTask'[u], origin')
        /\ netReplies' = netReplies \cup reply
    BY <1>1, <1>3, FinishEffects
  <2>2. Shape'
    BY <1>1, <2>1 DEF NetInv, Shape, netStores
  <2>3. Ownership'
    BY <1>1, <1>3, <2>1 DEF NetInv, Ownership, netStores
  <2> QED
    BY <1>1, <2>2, <2>3 DEF NetInv, NoBlockedConnection
<1>4. CASE Finish(t, TRUE, {})
  <2>1. PICK none : none = {} /\ Finish(t, TRUE, none)
    BY <1>4
  <2>2. \A a \in none : ReplyOk(a, origin)
    BY <2>1
  <2>3. Finish(t, TRUE, none)
    BY <2>1
  <2> QED
    BY <1>3, <2>2, <2>3
<1>5. CASE \E e \in Fresh(netTask[t].caller, netTask[t].params) :
             Finish(t, FALSE, {NetReply(t, e, TRUE)})
  BY <1>1, <1>3, <1>5, HitOk
<1>6. CASE /\ netTask' = [netTask EXCEPT ![t] = [netTask[t] EXCEPT !.pc = "gate"]]
           /\ UNCHANGED <<netActive, netReplies>>
  <2> DEFINE n == [netTask[t] EXCEPT !.pc = "gate"]
  <2>1. n \in BusyType
    BY <1>2 DEF BusyType, BusyPcs
  <2>2. /\ n.pc = "gate" /\ n.caller = netTask[t].caller /\ n.params = netTask[t].params
        /\ n.cookie = netTask[t].cookie /\ n.setCookie = netTask[t].setCookie
        /\ n.got = netTask[t].got
    BY <1>2 DEF BusyType
  <2> HIDE DEF n
  <2>3. TaskOk(n, origin')
    BY <1>1, <1>2, <2>2 DEF TaskOk
  <2>4. /\ netTask' \in [NetTasks -> {NetIdle} \cup BusyType]
        /\ \A u \in NetTasks : TaskOk(netTask'[u], origin')
    BY <1>1, <1>6, <2>1, <2>3, TaskMoves DEF n
  <2> QED
    BY <1>1, <1>6, <2>4, RestSame DEF NetInv, Shape
<1>7. \/ Finish(t, TRUE, {})
      \/ \E e \in Fresh(netTask[t].caller, netTask[t].params) :
           Finish(t, FALSE, {NetReply(t, e, TRUE)})
      \/ NetGoto(t, "gate") /\ UNCHANGED <<netActive, netReplies>>
  BY DEF Start
<1> QED
  BY <1>4, <1>5, <1>6, <1>7 DEF NetGoto

LEMMA GateStep ==
  ASSUME NetInv, NEW t \in NetTasks, Gate(t)
  PROVE  NetInv'
<1> DEFINE c == netTask[t].caller
           r == netTask[t].params
           k == IF r.use_cookies /\ ~r.ownCookie THEN netJar[c][r.host] ELSE NotSet
<1>1. /\ netTask[t].pc = "gate"
      /\ UNCHANGED <<netStores, netClock, contacted, origin, capRaced>>
  BY DEF Gate, NetAt
<1>2. /\ netTask[t] \in BusyType /\ TaskOk(netTask[t], origin)
      /\ c \in NetCallers /\ r.host \in Hosts
  BY <1>1, BusyFacts
<1>3. CASE Finish(t, TRUE, {})
  <2>1. /\ netActive' \in [NetCallers -> Int]
        /\ netTask' \in [NetTasks -> {NetIdle} \cup BusyType]
        /\ \A u \in NetTasks : TaskOk(netTask'[u], origin')
        /\ netReplies' = netReplies \cup {}
    BY <1>1, <1>3, FinishEffects
  <2> QED
    BY <1>1, <2>1, RestSame DEF NetInv, Shape
<1>4. CASE /\ LiteralOk(r.host)
           /\ netTask' = [netTask EXCEPT ![t].pc = "attempt", ![t].cookie = k]
           /\ UNCHANGED <<netActive, netReplies>>
  <2> DEFINE n == [netTask[t] EXCEPT !.pc = "attempt", !.cookie = k]
  <2>2. k \in Nat \cup {NotSet} /\ (k # NotSet => Gave(k, c, r.host, origin))
    BY <1>2 DEF NetInv, Shape, Ownership
  <2> HIDE DEF k
  <2>0. t \in DOMAIN netTask
    BY DEF NetInv, Shape
  <2>1. netTask' = [netTask EXCEPT ![t] = n]
    BY <1>4, <2>0
  <2>3. /\ n \in BusyType /\ n.pc = "attempt" /\ n.caller = c /\ n.params = r
        /\ n.cookie = k /\ n.setCookie = netTask[t].setCookie /\ n.got = netTask[t].got
    BY <1>2, <2>2 DEF BusyType, BusyPcs
  <2> HIDE DEF n
  <2>4. TaskOk(n, origin')
    BY <1>1, <1>2, <1>4, <2>2, <2>3 DEF TaskOk
  <2>5. /\ netTask' \in [NetTasks -> {NetIdle} \cup BusyType]
        /\ \A u \in NetTasks : TaskOk(netTask'[u], origin')
    BY <1>1, <2>1, <2>3, <2>4, TaskMoves
  <2> QED
    BY <1>1, <1>4, <2>5, RestSame DEF NetInv, Shape
<1> QED
  BY <1>3, <1>4 DEF Gate

\* An attempt reaches permitted addresses only, and its response is the task's.
LEMMA AttemptStep ==
  ASSUME NetInv, NEW t \in NetTasks, Attempt(t)
  PROVE  NetInv'
<1> DEFINE c == netTask[t].caller
           r == netTask[t].params
           serial == 1 + Cardinality(origin)
<1>1. /\ netTask[t].pc = "attempt"
      /\ UNCHANGED <<netActive, netStores, netClock, netReplies, capRaced>>
  BY DEF Attempt, NetAt
<1>2. /\ netTask[t] \in BusyType /\ TaskOk(netTask[t], origin)
      /\ c \in NetCallers /\ r \in HttpRequests /\ r.host \in Hosts /\ LiteralOk(r.host)
      /\ r.cache_ttl_ms \in Nat
  BY <1>1, BusyFacts, RequestFacts DEF TaskOk
<1>3. NoBlockedConnection'
  <2>0. PICK chain \in Chains(r) : \E choice \in Connections(chain) :
          contacted' = contacted \cup Range(choice)
    BY DEF Attempt
  <2>1. PICK choice \in Connections(chain) : contacted' = contacted \cup Range(choice)
    BY <2>0
  <2>2. \A a \in Range(choice) : \E h \in Literals \cup HostNames : Permitted(h, a)
    BY <1>2, ChainPermitted
  <2> QED
    BY <2>1, <2>2 DEF NetInv, NoBlockedConnection
<1>4. PICK a \in OriginAnswers :
        LET retry == CanRetry(t) /\ Retryable(a.status)
        IN  /\ origin' = origin \cup {[serial |-> serial, caller |-> c, host |-> r.host,
                                       answer |-> a, ttl |-> r.cache_ttl_ms]}
            /\ netTask' = [netTask EXCEPT ![t].pc = IF retry THEN "attempt" ELSE "cookies",
                 ![t].attempt = IF retry THEN @ + 1 ELSE @,
                 ![t].got = IF retry THEN NotSet ELSE [serial |-> serial, answer |-> a],
                 ![t].setCookie = IF r.use_cookies THEN serial ELSE NotSet]
  BY DEF Attempt
<1> DEFINE new == [serial |-> serial, caller |-> c, host |-> r.host,
                   answer |-> a, ttl |-> r.cache_ttl_ms]
           retry == CanRetry(t) /\ Retryable(a.status)
           pc == IF retry THEN "attempt" ELSE "cookies"
           attempt == IF retry THEN netTask[t].attempt + 1 ELSE netTask[t].attempt
           got == IF retry THEN NotSet ELSE [serial |-> serial, answer |-> a]
           setCookie == IF r.use_cookies THEN serial ELSE NotSet
           n == [netTask[t] EXCEPT !.pc = pc, !.attempt = attempt, !.got = got,
                                   !.setCookie = setCookie]
<1>5. serial \in Nat
  BY FS_CardinalityType DEF NetInv, Shape
<1>6. /\ new \in OriginType /\ origin' = origin \cup {new} /\ origin \subseteq origin'
      /\ IsFiniteSet(origin') /\ new \in origin'
  <2>1. new \in OriginType /\ origin' = origin \cup {new}
    BY <1>2, <1>4, <1>5 DEF OriginType
  <2> QED
    BY <2>1, FS_AddElement DEF NetInv, Shape
<1>7. /\ new.serial = serial /\ new.caller = c /\ new.host = r.host
      /\ new.answer = a /\ new.ttl = r.cache_ttl_ms
  OBVIOUS
<1>8. /\ pc \in BusyPcs /\ attempt \in Nat /\ got \in GotType \cup {NotSet}
      /\ setCookie \in Nat \cup {NotSet}
      /\ (got # NotSet => got.serial = serial /\ got.answer = a)
      /\ (setCookie # NotSet => setCookie = serial)
  BY <1>2, <1>5 DEF BusyPcs, BusyType, GotType
<1>9. netTask' = [netTask EXCEPT ![t] = n]
  <2>1. t \in DOMAIN netTask
    BY DEF NetInv, Shape
  <2>2. netTask' = [netTask EXCEPT ![t].pc = pc, ![t].attempt = attempt,
                                   ![t].got = got, ![t].setCookie = setCookie]
    BY <1>4
  <2> HIDE DEF pc, attempt, got, setCookie
  <2> QED
    BY <2>1, <2>2
<1> HIDE DEF serial, new, pc, attempt, got, setCookie
<1>10. /\ n \in BusyType /\ n.pc = pc /\ n.caller = c /\ n.params = r
       /\ n.cookie = netTask[t].cookie /\ n.got = got /\ n.setCookie = setCookie
  BY <1>2, <1>8 DEF BusyType
<1> HIDE DEF n
<1>11. TaskOk(n, origin')
  <2>1. TaskOk(netTask[t], origin')
    BY <1>2, <1>6, MoreOrigins
  <2>2. n.cookie # NotSet => Gave(n.cookie, n.caller, n.params.host, origin')
    BY <1>2, <1>10, <2>1 DEF TaskOk
  <2>3. n.setCookie # NotSet => Gave(n.setCookie, n.caller, n.params.host, origin')
    BY <1>6, <1>7, <1>8, <1>10 DEF Gave
  <2>4. n.got # NotSet =>
          \E o \in origin' : /\ o.serial = n.got.serial /\ o.answer = n.got.answer
                             /\ o.caller = n.caller /\ o.host = n.params.host
                             /\ o.ttl = n.params.cache_ttl_ms
    BY <1>6, <1>7, <1>8, <1>10
  <2>5. LiteralOk(n.params.host)
    BY <1>2, <1>10
  <2> QED
    BY <2>2, <2>3, <2>4, <2>5 DEF TaskOk
<1>12. /\ netTask' \in [NetTasks -> {NetIdle} \cup BusyType]
       /\ \A u \in NetTasks : TaskOk(netTask'[u], origin')
  BY <1>6, <1>9, <1>10, <1>11, TaskMoves
<1>13. Shape'
  BY <1>1, <1>6, <1>12 DEF NetInv, Shape, netStores
<1>14. Ownership'
  <2>1. UNCHANGED <<netJar, netCache, netReplies>>
    BY <1>1 DEF netStores
  <2> QED
    BY <1>6, <1>12, <2>1, MoreOrigins DEF NetInv, Ownership
<1> QED
  BY <1>3, <1>13, <1>14 DEF NetInv

LEMMA AttemptFailsStep ==
  ASSUME NetInv, NEW t \in NetTasks, AttemptFails(t)
  PROVE  NetInv'
<1>1. /\ netTask[t].pc = "attempt"
      /\ UNCHANGED <<netActive, netStores, netClock, contacted, origin, netReplies, capRaced>>
  BY DEF AttemptFails, NetAt, netPast
<1>2. netTask[t] \in BusyType /\ TaskOk(netTask[t], origin)
  BY <1>1, BusyFacts
<1>3. t \in DOMAIN netTask
  BY DEF NetInv, Shape
<1>4. \E n \in BusyType : netTask' = [netTask EXCEPT ![t] = n] /\ TaskOk(n, origin)
  <2>1. CASE netTask' = [netTask EXCEPT ![t].attempt = @ + 1]
    <3> DEFINE n == [netTask[t] EXCEPT !.attempt = netTask[t].attempt + 1]
    <3>1. /\ n \in BusyType /\ n.pc = "attempt" /\ n.caller = netTask[t].caller
          /\ n.params = netTask[t].params /\ n.cookie = netTask[t].cookie
          /\ n.got = netTask[t].got /\ n.setCookie = netTask[t].setCookie
      BY <1>1, <1>2 DEF BusyType
    <3>2. netTask' = [netTask EXCEPT ![t] = n]
      BY <1>3, <2>1
    <3> HIDE DEF n
    <3>3. TaskOk(n, origin)
      BY <1>1, <1>2, <3>1 DEF TaskOk
    <3> QED
      BY <3>1, <3>2, <3>3
  <2>2. CASE netTask' = [netTask EXCEPT ![t].pc = "cookies", ![t].got = NotSet]
    <3> DEFINE n == [netTask[t] EXCEPT !.pc = "cookies", !.got = NotSet]
    <3>1. /\ n \in BusyType /\ n.pc = "cookies" /\ n.caller = netTask[t].caller
          /\ n.params = netTask[t].params /\ n.cookie = netTask[t].cookie
          /\ n.got = NotSet /\ n.setCookie = netTask[t].setCookie
      BY <1>2 DEF BusyType, BusyPcs
    <3>2. netTask' = [netTask EXCEPT ![t] = n]
      BY <1>3, <2>2
    <3> HIDE DEF n
    <3>3. TaskOk(n, origin)
      BY <1>2, <3>1 DEF TaskOk
    <3> QED
      BY <3>1, <3>2, <3>3
  <2> QED
    BY <2>1, <2>2 DEF AttemptFails
<1>5. /\ netTask' \in [NetTasks -> {NetIdle} \cup BusyType]
      /\ \A u \in NetTasks : TaskOk(netTask'[u], origin')
  BY <1>1, <1>4, TaskMoves
<1> QED
  BY <1>1, <1>5, RestSame DEF NetInv, Shape

LEMMA MergeStep ==
  ASSUME NetInv, NEW t \in NetTasks, MergeCookies(t)
  PROVE  NetInv'
<1> DEFINE c == netTask[t].caller
           h == netTask[t].params.host
           n == [netTask[t] EXCEPT !.pc = "store"]
<1>1. /\ netTask[t].pc = "cookies" /\ netTask' = [netTask EXCEPT ![t] = n]
      /\ netJar' = IF netTask[t].setCookie # NotSet
                     THEN [netJar EXCEPT ![c][h] = netTask[t].setCookie] ELSE netJar
      /\ UNCHANGED <<netActive, netCache, netClock, contacted, origin, netReplies, capRaced>>
  BY DEF MergeCookies, NetAt, NetGoto, netPast
<1>2. netTask[t] \in BusyType /\ TaskOk(netTask[t], origin) /\ c \in NetCallers /\ h \in Hosts
  BY <1>1, BusyFacts
<1>3. /\ n \in BusyType /\ n.pc = "store" /\ n.caller = c
      /\ n.params = netTask[t].params /\ n.cookie = netTask[t].cookie
      /\ n.got = netTask[t].got /\ n.setCookie = netTask[t].setCookie
  BY <1>2 DEF BusyType, BusyPcs
<1> HIDE DEF n
<1>4. TaskOk(n, origin')
  BY <1>1, <1>2, <1>3 DEF TaskOk
<1>5. /\ netTask' \in [NetTasks -> {NetIdle} \cup BusyType]
      /\ \A u \in NetTasks : TaskOk(netTask'[u], origin')
  BY <1>1, <1>3, <1>4, TaskMoves
<1>6. /\ netJar' \in [NetCallers -> [Hosts -> Nat \cup {NotSet}]]
      /\ \A d \in NetCallers, g \in Hosts :
           netJar'[d][g] # NotSet => Gave(netJar'[d][g], d, g, origin)
  <2>1. /\ netJar \in [NetCallers -> [Hosts -> Nat \cup {NotSet}]]
        /\ \A d \in NetCallers, g \in Hosts :
             netJar[d][g] # NotSet => Gave(netJar[d][g], d, g, origin)
    BY DEF NetInv, Shape, Ownership
  <2>2. CASE netTask[t].setCookie # NotSet
    <3> DEFINE k == netTask[t].setCookie
    <3>1. k \in Nat /\ Gave(k, c, h, origin)
      BY <1>2, <2>2 DEF BusyType, TaskOk
    <3>2. netJar' = [netJar EXCEPT ![c] = [netJar[c] EXCEPT ![h] = k]]
      BY <1>1, <1>2, <2>1, <2>2
    <3> HIDE DEF k, c, h
    <3>3. \A d \in NetCallers, g \in Hosts :
            netJar'[d][g] = IF d = c /\ g = h THEN k ELSE netJar[d][g]
      BY <2>1, <3>2
    <3>4. netJar' \in [NetCallers -> [Hosts -> Nat \cup {NotSet}]]
      BY <2>1, <3>1, <3>2
    <3> QED
      BY <2>1, <3>1, <3>3, <3>4
  <2>3. CASE netTask[t].setCookie = NotSet
    BY <1>1, <2>1, <2>3
  <2> QED
    BY <2>2, <2>3
<1>7. Shape'
  BY <1>1, <1>5, <1>6 DEF NetInv, Shape
<1>8. Ownership'
  BY <1>1, <1>5, <1>6 DEF NetInv, Ownership
<1> QED
  BY <1>1, <1>7, <1>8 DEF NetInv, NoBlockedConnection

\* What is stored and answered is the response of the task's own last attempt.
LEMMA StoreStep ==
  ASSUME NetInv, NEW t \in NetTasks, StoreAndReply(t)
  PROVE  NetInv'
<1> DEFINE n == netTask[t]
           r == n.params
           new == [key |-> CacheKey(n.caller, r), serial |-> n.got.serial,
                   bytes |-> n.got.answer.bytes, stored |-> netClock,
                   expires |-> netClock + r.cache_ttl_ms]
<1>1. n.pc = "store" /\ UNCHANGED <<netJar, netClock, contacted, origin, capRaced>>
  BY DEF StoreAndReply, NetAt
<1>2. n \in BusyType /\ TaskOk(n, origin) /\ r.cache_ttl_ms \in Nat /\ netClock \in Nat
  BY <1>1, BusyFacts, RequestFacts DEF NetInv, Shape
<1>3. \A e \in netCache : EntryOk(e, origin)
  BY DEF NetInv, Ownership
<1>4. \A e \in netCache' : EntryOk(e, origin)
  <2>1. CASE /\ n.got # NotSet /\ Cacheable(n.got.answer) /\ PutEntry(new)
    <3>1. \A e \in netCache' : e \in netCache \/ e = new
      BY <2>1 DEF PutEntry
    <3>2. PICK o \in origin : /\ o.serial = n.got.serial /\ o.answer = n.got.answer
                              /\ o.caller = n.caller /\ o.host = r.host
                              /\ o.ttl = r.cache_ttl_ms
      BY <1>2, <2>1 DEF TaskOk
    <3>3. /\ new.serial = n.got.serial /\ new.key[1] = n.caller /\ new.key[3] = r.host
          /\ new.stored = netClock /\ new.expires = netClock + r.cache_ttl_ms
      BY DEF CacheKey
    <3> HIDE DEF new
    <3>4. EntryOk(new, origin)
      BY <1>2, <2>1, <3>2, <3>3 DEF EntryOk
    <3> QED
      BY <1>3, <3>1, <3>4
  <2>2. CASE netCache' = netCache
    BY <1>3, <2>2
  <2> QED
    BY <2>1, <2>2 DEF StoreAndReply
<1>5. ASSUME NEW failed, NEW reply, Finish(t, failed, reply),
             \A a \in reply : ReplyOk(a, origin)
      PROVE  NetInv'
  <2>1. /\ netActive' \in [NetCallers -> Int]
        /\ netTask' \in [NetTasks -> {NetIdle} \cup BusyType]
        /\ \A u \in NetTasks : TaskOk(netTask'[u], origin')
        /\ netReplies' = netReplies \cup reply
    <3>1. netTask[t].pc # "idle" /\ origin' = origin
      BY <1>1
    <3> QED
      BY <1>5, <3>1, FinishEffects
  <2>2. Shape'
    BY <1>1, <2>1 DEF NetInv, Shape
  <2>3. Ownership'
    BY <1>1, <1>4, <1>5, <2>1 DEF NetInv, Ownership
  <2> QED
    BY <1>1, <2>2, <2>3 DEF NetInv, NoBlockedConnection
<1>6. CASE Finish(t, TRUE, {})
  <2>1. PICK none : none = {} /\ Finish(t, TRUE, none)
    BY <1>6
  <2>2. \A a \in none : ReplyOk(a, origin)
    BY <2>1
  <2>3. Finish(t, TRUE, none)
    BY <2>1
  <2> QED
    BY <1>5, <2>2, <2>3
<1>7. CASE /\ n.got # NotSet
           /\ Finish(t, n.got.answer.status >= 400, {NetReply(t, n.got, FALSE)})
  <2>1. PICK o \in origin : o.serial = n.got.serial /\ o.caller = n.caller
                            /\ o.host = r.host
    BY <1>2, <1>7 DEF TaskOk
  <2>2. /\ NetReply(t, n.got, FALSE).serial = n.got.serial
        /\ NetReply(t, n.got, FALSE).caller = n.caller
        /\ NetReply(t, n.got, FALSE).host = r.host
        /\ ~NetReply(t, n.got, FALSE).hit
    BY DEF NetReply
  <2>3. ReplyOk(NetReply(t, n.got, FALSE), origin)
    BY <2>1, <2>2 DEF ReplyOk
  <2>4. PICK reply : /\ reply = {NetReply(t, n.got, FALSE)}
                     /\ Finish(t, n.got.answer.status >= 400, reply)
    BY <1>7
  <2>5. \A a \in reply : ReplyOk(a, origin)
    BY <2>3, <2>4
  <2>6. Finish(t, n.got.answer.status >= 400, reply)
    BY <2>4
  <2> QED
    BY <1>5, <2>5, <2>6
<1> QED
  BY <1>6, <1>7 DEF StoreAndReply

-----------------------------------------------------------------------------
(* The theorems *)

LEMMA NetInvInit == NetInit => NetInv
<1> SUFFICES ASSUME NetInit PROVE NetInv
  OBVIOUS
<1>1. Shape
  <2>1. netTask \in [NetTasks -> {NetIdle} \cup BusyType]
    BY DEF NetInit
  <2>2. netJar \in [NetCallers -> [Hosts -> Nat \cup {NotSet}]]
    BY DEF NetInit, Hosts
  <2>3. origin \subseteq OriginType /\ IsFiniteSet(origin)
    BY FS_EmptySet DEF NetInit
  <2>4. netActive \in [NetCallers -> Int]
    BY DEF NetInit
  <2>5. netClock \in Nat
    BY DEF NetInit
  <2>6. capRaced \in BOOLEAN
    BY DEF NetInit
  <2> QED
    BY <2>1, <2>2, <2>3, <2>4, <2>5, <2>6 DEF Shape
<1>2. Ownership
  BY IdleOk DEF NetInit, Ownership, Hosts
<1> QED
  BY <1>1, <1>2 DEF NetInit, NetInv, NoBlockedConnection

LEMMA NetInvStep == NetInv /\ [NetNext]_netVars => NetInv'
<1> SUFFICES ASSUME NetInv, [NetNext]_netVars PROVE NetInv'
  OBVIOUS
<1>1. CASE NetTick
  <2>1. /\ netClock' = netClock + 1
        /\ UNCHANGED <<netTask, netActive, netStores, contacted, origin, netReplies, capRaced>>
    BY <1>1 DEF NetTick, netPast
  <2>2. Shape' /\ Ownership'
    BY <2>1 DEF NetInv, Shape, Ownership, netStores
  <2> QED
    BY <2>1, <2>2 DEF NetInv, NoBlockedConnection
<1>2. CASE UNCHANGED netVars
  BY <1>2 DEF netVars, NetInv, Shape, Ownership, NoBlockedConnection
<1> QED
  BY <1>1, <1>2, AcceptStep, AcquireStep, StartStep, GateStep, AttemptStep,
     AttemptFailsStep, MergeStep, StoreStep, PanicStep
  DEF NetNext

(* No address is connected to that the policy forbids under every host,    *)
(* whatever names resolve to and wherever redirects lead (resolver.rs,     *)
(* redirect policy in main.rs), for any tasks, requests and lists.         *)
THEOREM NoBlockedConnectionHolds == NetSpec => []NoBlockedConnection
<1>1. NetInv => NoBlockedConnection
  BY DEF NetInv
<1> QED
  BY <1>1, NetInvInit, NetInvStep, PTL DEF NetSpec

(* Answers, from the cache or not, and cookies belong to the caller and    *)
(* the host they were given for, whatever requests, retries, panics and    *)
(* evictions come between (cache_key, the jar per caller).                 *)
THEOREM AnswersAndCookiesAreOwn == NetSpec => [](RepliesAreOwn /\ CookiesAreOwn)
<1>1. NetInv => RepliesAreOwn /\ CookiesAreOwn
  BY InvImplies
<1> QED
  BY <1>1, NetInvInit, NetInvStep, PTL DEF NetSpec

-----------------------------------------------------------------------------
(* The cap *)

Waiting(c) == {t \in NetTasks : netTask[t].pc = "reserve" /\ netTask[t].caller = c}

\* Unless two of a caller's tasks have passed the check at once, the one that
\* has finds the counter below the cap.
CapInv ==
  InflightLimit > 0 =>
    \A c \in NetCallers :
      /\ netActive[c] = Cardinality(Holders(c))
      /\ ~capRaced =>
           /\ netActive[c] <= InflightLimit
           /\ \A t, u \in Waiting(c) : t = u
           /\ Waiting(c) # {} => netActive[c] < InflightLimit

LEMMA HoldersFacts ==
  \A c : IsFiniteSet(Holders(c)) /\ Cardinality(Holders(c)) \in Nat
<1> TAKE c
<1>1. Holders(c) \subseteq NetTasks
  BY DEF Holders
<1> QED
  BY <1>1, NetworkAssumption, FS_Subset, FS_CardinalityType

\* The task leaves, and its slot with it.
LEMMA CapLeaves ==
  ASSUME NetInv, CapInv, NEW t \in NetTasks, HoldsSlot(t),
         netActive' = Released(t, TRUE) \/ netActive' = Released(t, FALSE),
         netTask' = [netTask EXCEPT ![t] = NetIdle], capRaced' = capRaced
  PROVE  CapInv'
<1> SUFFICES ASSUME InflightLimit > 0, NEW c \in NetCallers
             PROVE  /\ netActive'[c] = Cardinality(Holders(c)')
                    /\ ~capRaced =>
                         /\ netActive'[c] <= InflightLimit
                         /\ \A s, u \in Waiting(c)' : s = u
                         /\ Waiting(c)' # {} => netActive'[c] < InflightLimit
  BY DEF CapInv
<1>1. /\ netTask[t] \in BusyType /\ netTask[t].caller \in NetCallers
      /\ netActive \in [NetCallers -> Int] /\ netTask \in [NetTasks -> {NetIdle} \cup BusyType]
      /\ InflightLimit \in Nat
  BY BusyFacts, NetworkAssumption DEF HoldsSlot, NetInv, Shape
<1>2. \A u \in NetTasks : netTask'[u] = IF u = t THEN NetIdle ELSE netTask[u]
  BY <1>1
<1>3. Waiting(c)' \subseteq Waiting(c)
  BY <1>2, IdleIsNotBusy DEF Waiting
<1>4. CASE netTask[t].caller = c
  <2>1. Holders(c)' = Holders(c) \ {t} /\ t \in Holders(c)
    BY <1>2, <1>4, IdleIsNotBusy DEF Holders, HoldsSlot
  <2>2. Cardinality(Holders(c)') = Cardinality(Holders(c)) - 1
    BY <2>1, HoldersFacts, FS_RemoveElement
  <2>3. netActive'[c] = netActive[c] - 1 /\ netActive[c] \in Int
    BY <1>1, <1>4 DEF Released
  <2> QED
    BY <1>1, <1>3, <2>2, <2>3 DEF CapInv
<1>5. CASE netTask[t].caller # c
  <2>1. Holders(c)' = Holders(c)
    BY <1>2, <1>5, IdleIsNotBusy DEF Holders, HoldsSlot
  <2>2. netActive'[c] = netActive[c]
    BY <1>1, <1>5 DEF Released
  <2> QED
    BY <1>3, <2>1, <2>2 DEF CapInv
<1> QED
  BY <1>4, <1>5

\* A step of a task that holds its slot before and after, or has none yet.
LEMMA CapSame ==
  ASSUME CapInv, UNCHANGED <<netActive, capRaced>>,
         \A c \in NetCallers : Holders(c)' = Holders(c) /\ Waiting(c)' \subseteq Waiting(c)
  PROVE  CapInv'
  BY DEF CapInv

\* Only a task that holds its slot or has none comes and goes elsewhere.
LEMMA CapOther ==
  ASSUME NetInv, CapInv, NEW t \in NetTasks, NEW n,
         netTask' = [netTask EXCEPT ![t] = n], n.pc # "reserve",
         (n.pc \notin {"idle", "check", "reserve"}) = HoldsSlot(t),
         HoldsSlot(t) => n.caller = netTask[t].caller,
         UNCHANGED <<netActive, capRaced>>
  PROVE  CapInv'
<1>1. \A u \in NetTasks : netTask'[u] = IF u = t THEN n ELSE netTask[u]
  BY DEF NetInv, Shape
<1>2. \A u \in NetTasks : HoldsSlot(u)' = HoldsSlot(u)
  BY <1>1 DEF HoldsSlot
<1>3. ASSUME NEW c \in NetCallers
      PROVE  Holders(c)' = Holders(c) /\ Waiting(c)' \subseteq Waiting(c)
  BY <1>1, <1>2 DEF Holders, Waiting
<1> QED
  BY <1>3, CapSame

LEMMA CapFinish ==
  ASSUME NetInv, CapInv, NEW t \in NetTasks, HoldsSlot(t), capRaced' = capRaced,
         NEW failed, NEW reply, Finish(t, failed, reply)
  PROVE  CapInv'
  BY CapLeaves DEF Finish

\* The check, which is raced when another task of the caller waits already.
LEMMA CapCheck ==
  ASSUME NetInv, CapInv, NEW t \in NetTasks, AcquireCheck(t)
  PROVE  CapInv'
<1> DEFINE d == netTask[t].caller
           n == IF BelowCap(d) THEN [netTask[t] EXCEPT !.pc = "reserve"] ELSE NetIdle
<1>1. /\ netTask[t].pc = "check" /\ netTask' = [netTask EXCEPT ![t] = n]
      /\ capRaced' = (capRaced \/ \E u \in NetTasks \ {t} :
                        netTask[u].pc = "reserve" /\ netTask[u].caller = d)
      /\ netActive' = netActive
  BY DEF AcquireCheck, NetAt
<1>2. netTask[t] \in BusyType
  BY <1>1, BusyFacts
<1>3. n.pc \in {"idle", "reserve"} /\ (n.pc = "reserve" => n.caller = d /\ BelowCap(d))
  BY <1>2, IdleIsNotBusy DEF BusyType
<1> HIDE DEF n
<1>4. \A u \in NetTasks : netTask'[u] = IF u = t THEN n ELSE netTask[u]
  BY <1>1 DEF NetInv, Shape
<1>5. ~capRaced' => ~capRaced /\ \A u \in Waiting(d) : u = t
  BY <1>1 DEF Waiting
<1>6. SUFFICES ASSUME InflightLimit > 0, NEW c \in NetCallers
               PROVE  /\ Holders(c)' = Holders(c)
                      /\ ~capRaced' =>
                           /\ \A s, u \in Waiting(c)' : s = u
                           /\ Waiting(c)' # {} => netActive[c] < InflightLimit
  BY <1>1, <1>5 DEF CapInv
<1>7. Holders(c)' = Holders(c)
  BY <1>1, <1>3, <1>4 DEF Holders, HoldsSlot
<1>8. ASSUME ~capRaced'
      PROVE  /\ \A s, u \in Waiting(c)' : s = u
             /\ Waiting(c)' # {} => netActive[c] < InflightLimit
  <2>1. /\ \A s, u \in Waiting(c) : s = u
        /\ Waiting(c) # {} => netActive[c] < InflightLimit
    BY <1>5, <1>6, <1>8 DEF CapInv
  <2>2. CASE c = d
    <3>1. Waiting(c)' \subseteq {t}
      BY <1>4, <1>5, <1>8, <2>2 DEF Waiting
    <3>2. Waiting(c)' # {} => n.pc = "reserve"
      BY <1>4, <3>1 DEF Waiting
    <3>3. n.pc = "reserve" => netActive[c] < InflightLimit
      BY <1>3, <1>6, <2>2 DEF BelowCap
    <3> QED
      BY <3>1, <3>2, <3>3
  <2>3. CASE c # d
    <3>1. Waiting(c)' \subseteq Waiting(c)
      BY <1>3, <1>4, <2>3 DEF Waiting
    <3> QED
      BY <2>1, <3>1
  <2> QED
    BY <2>2, <2>3
<1> QED
  BY <1>7, <1>8

\* The slot is taken by the one task that waits.
LEMMA CapReserve ==
  ASSUME NetInv, CapInv, NEW t \in NetTasks, AcquireReserve(t)
  PROVE  CapInv'
<1> DEFINE d == netTask[t].caller
           n == [netTask[t] EXCEPT !.pc = "start"]
<1>1. /\ netTask[t].pc = "reserve" /\ netTask' = [netTask EXCEPT ![t] = n]
      /\ capRaced' = capRaced
      /\ netActive' = [netActive EXCEPT ![d] = IF InflightLimit > 0 THEN netActive[d] + 1
                                               ELSE netActive[d]]
  BY DEF AcquireReserve, NetAt, NetGoto, netPast
<1>2. netTask[t] \in BusyType /\ d \in NetCallers
  BY <1>1, BusyFacts
<1>3. n.pc = "start" /\ n.caller = d
  BY <1>2 DEF BusyType
<1> HIDE DEF n
<1>4. \A u \in NetTasks : netTask'[u] = IF u = t THEN n ELSE netTask[u]
  BY <1>1 DEF NetInv, Shape
<1>5. netActive \in [NetCallers -> Int] /\ InflightLimit \in Nat
  BY NetworkAssumption DEF NetInv, Shape
<1>6. SUFFICES ASSUME InflightLimit > 0, NEW c \in NetCallers
               PROVE  /\ netActive'[c] = Cardinality(Holders(c)')
                      /\ ~capRaced =>
                           /\ netActive'[c] <= InflightLimit
                           /\ \A s, u \in Waiting(c)' : s = u
                           /\ Waiting(c)' # {} => netActive'[c] < InflightLimit
  BY <1>1 DEF CapInv
<1>7. CASE c = d
  <2>1. Holders(c)' = Holders(c) \cup {t} /\ t \notin Holders(c) /\ t \in Waiting(c)
    BY <1>1, <1>3, <1>4, <1>7 DEF Holders, HoldsSlot, Waiting
  <2>2. Cardinality(Holders(c)') = Cardinality(Holders(c)) + 1
    BY <2>1, HoldersFacts, FS_AddElement
  <2>3. netActive'[c] = netActive[c] + 1
    BY <1>1, <1>2, <1>5, <1>6, <1>7
  <2>4. Waiting(c)' = Waiting(c) \ {t}
    BY <1>3, <1>4 DEF Waiting
  <2>5. ~capRaced => /\ netActive[c] < InflightLimit
                     /\ \A s, u \in Waiting(c) : s = u
    BY <1>6, <2>1 DEF CapInv
  <2>6. ~capRaced => Waiting(c)' = {}
    BY <2>1, <2>4, <2>5
  <2>7. ~capRaced => netActive'[c] <= InflightLimit
    BY <1>5, <2>3, <2>5
  <2> QED
    BY <1>6, <2>2, <2>3, <2>6, <2>7 DEF CapInv
<1>8. CASE c # d
  <2>1. Holders(c)' = Holders(c) /\ Waiting(c)' \subseteq Waiting(c)
    BY <1>3, <1>4, <1>8 DEF Holders, HoldsSlot, Waiting
  <2>2. netActive'[c] = netActive[c]
    BY <1>1, <1>5, <1>8
  <2> QED
    BY <1>6, <2>1, <2>2 DEF CapInv
<1> QED
  BY <1>7, <1>8

LEMMA CapStep == NetInv /\ CapInv /\ [NetNext]_netVars => CapInv'
<1> SUFFICES ASSUME NetInv, CapInv, [NetNext]_netVars PROVE CapInv'
  OBVIOUS
<1>a. \A t \in NetTasks : t \in DOMAIN netTask
  BY DEF NetInv, Shape
\* A task that stays busy and keeps its slot.
<1>b. ASSUME NEW t \in NetTasks, netTask[t] \in BusyType, HoldsSlot(t), NEW n,
             netTask' = [netTask EXCEPT ![t] = n],
             n.pc \in {"start", "gate", "attempt", "cookies", "store"},
             n.caller = netTask[t].caller, UNCHANGED <<netActive, capRaced>>
      PROVE  CapInv'
  BY <1>b, CapOther
<1>1. ASSUME NEW t \in NetTasks, NetAccept(t) PROVE CapInv'
  <2>1. /\ netTask[t].pc = "idle" /\ UNCHANGED <<netActive, capRaced>>
    BY <1>1 DEF NetAccept, NetAt, netPast
  <2>2. CASE netTask' = netTask
    BY <2>1, <2>2, CapSame DEF Holders, HoldsSlot, Waiting
  <2>3. ASSUME NEW n, netTask' = [netTask EXCEPT ![t] = n], n.pc = "check"
        PROVE  CapInv'
    BY <2>1, <2>3, CapOther DEF HoldsSlot
  <2>4. PICK c \in NetCallers, r \in HttpRequests :
          \/ netTask' = [netTask EXCEPT ![t] =
                [pc |-> "check", caller |-> c, params |-> r, attempt |-> 0,
                 cookie |-> NotSet, got |-> NotSet, setCookie |-> NotSet]]
          \/ netTask' = netTask
    BY <1>1 DEF NetAccept
  <2> DEFINE n == [pc |-> "check", caller |-> c, params |-> r, attempt |-> 0,
                   cookie |-> NotSet, got |-> NotSet, setCookie |-> NotSet]
  <2>5. n.pc = "check"
    OBVIOUS
  <2>6. netTask' = [netTask EXCEPT ![t] = n] \/ netTask' = netTask
    BY <2>4
  <2> HIDE DEF n
  <2> QED
    BY <2>2, <2>3, <2>5, <2>6
<1>2. ASSUME NEW t \in NetTasks, Start(t) PROVE CapInv'
  <2>1. netTask[t].pc = "start" /\ capRaced' = capRaced /\ netTask[t] \in BusyType
    BY <1>2, BusyFacts DEF Start, NetAt
  <2>2. HoldsSlot(t)
    BY <2>1 DEF HoldsSlot
  <2>3. CASE NetGoto(t, "gate") /\ netActive' = netActive
    <3>1. /\ [netTask[t] EXCEPT !.pc = "gate"].pc = "gate"
          /\ [netTask[t] EXCEPT !.pc = "gate"].caller = netTask[t].caller
      BY <2>1 DEF BusyType
    <3> QED
      BY <2>1, <2>2, <2>3, <3>1, <1>b DEF NetGoto
  <2>4. CASE \E failed, reply : Finish(t, failed, reply)
    BY <2>1, <2>2, <2>4, CapFinish
  <2> QED
    BY <1>2, <2>3, <2>4 DEF Start
<1>3. ASSUME NEW t \in NetTasks, Gate(t) PROVE CapInv'
  <2>1. netTask[t].pc = "gate" /\ capRaced' = capRaced /\ netTask[t] \in BusyType
    BY <1>3, BusyFacts DEF Gate, NetAt
  <2>2. HoldsSlot(t)
    BY <2>1 DEF HoldsSlot
  <2>3. ASSUME NEW k, netTask' = [netTask EXCEPT ![t].pc = "attempt", ![t].cookie = k],
               netActive' = netActive
        PROVE  CapInv'
    <3> DEFINE n == [netTask[t] EXCEPT !.pc = "attempt", !.cookie = k]
    <3>1. netTask' = [netTask EXCEPT ![t] = n]
      BY <1>a, <2>3
    <3>2. n.pc = "attempt" /\ n.caller = netTask[t].caller
      BY <2>1 DEF BusyType
    <3> HIDE DEF n
    <3> QED
      BY <2>1, <2>2, <2>3, <3>1, <3>2, <1>b
  <2>4. CASE \E failed, reply : Finish(t, failed, reply)
    BY <2>1, <2>2, <2>4, CapFinish
  <2> QED
    BY <1>3, <2>3, <2>4 DEF Gate
<1>4. ASSUME NEW t \in NetTasks, Attempt(t) PROVE CapInv'
  <2>1. /\ netTask[t].pc = "attempt" /\ UNCHANGED <<netActive, capRaced>>
        /\ netTask[t] \in BusyType
    BY <1>4, BusyFacts DEF Attempt, NetAt
  <2>0. PICK a \in OriginAnswers :
          LET retry == CanRetry(t) /\ Retryable(a.status)
              serial == 1 + Cardinality(origin)
          IN  netTask' = [netTask EXCEPT ![t].pc = IF retry THEN "attempt" ELSE "cookies",
                ![t].attempt = IF retry THEN @ + 1 ELSE @,
                ![t].got = IF retry THEN NotSet ELSE [serial |-> serial, answer |-> a],
                ![t].setCookie = IF netTask[t].params.use_cookies THEN serial ELSE NotSet]
    BY <1>4 DEF Attempt
  <2> DEFINE serial == 1 + Cardinality(origin)
             retry == CanRetry(t) /\ Retryable(a.status)
             pc == IF retry THEN "attempt" ELSE "cookies"
             attempt == IF retry THEN netTask[t].attempt + 1 ELSE netTask[t].attempt
             got == IF retry THEN NotSet ELSE [serial |-> serial, answer |-> a]
             setCookie == IF netTask[t].params.use_cookies THEN serial ELSE NotSet
  <2>2. /\ pc \in {"attempt", "cookies"}
        /\ netTask' = [netTask EXCEPT ![t].pc = pc, ![t].attempt = attempt,
                                      ![t].got = got, ![t].setCookie = setCookie]
    BY <2>0
  <2> HIDE DEF pc, attempt, got, setCookie
  <2> DEFINE n == [netTask[t] EXCEPT !.pc = pc, !.attempt = attempt, !.got = got,
                                     !.setCookie = setCookie]
  <2>3. netTask' = [netTask EXCEPT ![t] = n]
    BY <1>a, <2>2
  <2>4. n.pc = pc /\ n.caller = netTask[t].caller /\ HoldsSlot(t)
    BY <2>1 DEF BusyType, HoldsSlot
  <2> HIDE DEF n
  <2> QED
    BY <2>1, <2>2, <2>3, <2>4, <1>b
<1>5. ASSUME NEW t \in NetTasks, AttemptFails(t) PROVE CapInv'
  <2>1. /\ netTask[t].pc = "attempt" /\ UNCHANGED <<netActive, capRaced>>
        /\ netTask[t] \in BusyType
    BY <1>5, BusyFacts DEF AttemptFails, NetAt, netPast
  <2>2. HoldsSlot(t)
    BY <2>1 DEF HoldsSlot
  <2>3. CASE netTask' = [netTask EXCEPT ![t].attempt = @ + 1]
    <3> DEFINE n == [netTask[t] EXCEPT !.attempt = netTask[t].attempt + 1]
    <3>1. /\ netTask' = [netTask EXCEPT ![t] = n]
          /\ n.pc = "attempt" /\ n.caller = netTask[t].caller
      BY <1>a, <2>1, <2>3 DEF BusyType
    <3> HIDE DEF n
    <3> QED
      BY <2>1, <2>2, <3>1, <1>b
  <2>4. CASE netTask' = [netTask EXCEPT ![t].pc = "cookies", ![t].got = NotSet]
    <3> DEFINE n == [netTask[t] EXCEPT !.pc = "cookies", !.got = NotSet]
    <3>1. /\ netTask' = [netTask EXCEPT ![t] = n]
          /\ n.pc = "cookies" /\ n.caller = netTask[t].caller
      BY <1>a, <2>1, <2>4 DEF BusyType
    <3> HIDE DEF n
    <3> QED
      BY <2>1, <2>2, <3>1, <1>b
  <2> QED
    BY <1>5, <2>3, <2>4 DEF AttemptFails
<1>6. ASSUME NEW t \in NetTasks, MergeCookies(t) PROVE CapInv'
  <2>1. /\ netTask[t].pc = "cookies" /\ UNCHANGED <<netActive, capRaced>>
        /\ netTask[t] \in BusyType
        /\ netTask' = [netTask EXCEPT ![t] = [netTask[t] EXCEPT !.pc = "store"]]
    BY <1>6, BusyFacts DEF MergeCookies, NetAt, NetGoto, netPast
  <2>2. /\ [netTask[t] EXCEPT !.pc = "store"].pc = "store"
        /\ [netTask[t] EXCEPT !.pc = "store"].caller = netTask[t].caller
        /\ HoldsSlot(t)
    BY <2>1 DEF BusyType, HoldsSlot
  <2> QED
    BY <2>1, <2>2, <1>b
<1>7. ASSUME NEW t \in NetTasks, StoreAndReply(t) PROVE CapInv'
  <2>1. HoldsSlot(t) /\ capRaced' = capRaced
    BY <1>7 DEF StoreAndReply, NetAt, HoldsSlot
  <2>2. \E failed, reply : Finish(t, failed, reply)
    BY <1>7 DEF StoreAndReply
  <2> QED
    BY <2>1, <2>2, CapFinish
<1>8. ASSUME NEW t \in NetTasks, NetPanic(t) PROVE CapInv'
  BY <1>8, CapLeaves DEF NetPanic, netPast
<1>9. CASE NetTick
  BY <1>9, CapSame DEF NetTick, netPast, Holders, HoldsSlot, Waiting
<1>10. CASE UNCHANGED netVars
  BY <1>10, CapSame DEF netVars, Holders, HoldsSlot, Waiting
<1> QED
  BY <1>1, <1>2, <1>3, <1>4, <1>5, <1>6, <1>7, <1>8, <1>9, <1>10, CapCheck, CapReserve
  DEF NetNext

LEMMA CapInvInit == NetInit => CapInv
<1> SUFFICES ASSUME NetInit, NEW c \in NetCallers
             PROVE  Cardinality(Holders(c)) = 0 /\ netActive[c] = 0 /\ Waiting(c) = {}
  BY NetworkAssumption DEF CapInv
<1>1. Holders(c) = {} /\ Waiting(c) = {} /\ netActive[c] = 0
  BY IdleIsNotBusy DEF NetInit, Holders, HoldsSlot, Waiting
<1> QED
  BY <1>1, FS_EmptySet

(* No slot leaks and none is freed twice, whatever fails or panics, and    *)
(* the cap holds except after a race between the check and the increment   *)
(* (Inflight::try_acquire, the guard's drop), for any number of tasks.     *)
THEOREM SlotsBalanceHolds == NetSpec => []SlotsBalance
<1>1. CapInv => SlotsBalance
  BY DEF CapInv, SlotsBalance
<1> QED
  BY <1>1, CapInvInit, NetInvInit, NetInvStep, CapStep, PTL DEF NetSpec

-----------------------------------------------------------------------------
(* The cache knows its size; what holds of sums over sets is shown by the  *)
(* smallest set that would be a counterexample.                            *)

\* The function that the fold over a set's elements is defined by.
First(s) == CHOOSE e \in s : TRUE
SumsTo(S, f) ==
  f = [s \in SUBSET S |-> IF s = {} THEN 0 ELSE First(s).bytes + f[s \ {First(s)}]]
Sized(S) == IsFiniteSet(S) /\ \A e \in S : e.bytes \in Nat

LEMMA BytesDefined ==
  ASSUME NEW S
  PROVE  BytesOf(S) = (CHOOSE f : SumsTo(S, f))[S]
BY DEF BytesOf, MapThenSumSet, MapThenFoldSet, SumsTo, First

LEMMA LeastElement ==
  ASSUME NEW S, S \subseteq Nat, S # {}
  PROVE  \E x \in S : \A y \in S : x <= y
<1>1. \E x \in S : \A y \in S : ~ (<<y, x>> \in OpToRel(<, Nat))
  BY NatLessThanWellFounded, WFMin
<1>2. PICK x \in S : \A y \in S : ~ (<<y, x>> \in OpToRel(<, Nat))
  BY <1>1
<1>3. \A y \in S : x <= y
  <2> SUFFICES ASSUME NEW y \in S PROVE x <= y
    OBVIOUS
  <2>1. ~ (y < x)
    BY <1>2 DEF OpToRel
  <2> QED
    BY <2>1
<1> QED
  BY <1>3

LEMMA FirstLeaves ==
  ASSUME NEW S, Sized(S), S # {}
  PROVE  /\ First(S) \in S /\ First(S).bytes \in Nat /\ Sized(S \ {First(S)})
         /\ Cardinality(S) \in Nat /\ Cardinality(S) > 0
         /\ Cardinality(S \ {First(S)}) = Cardinality(S) - 1
<1>1. First(S) \in S
  BY DEF First
<1>2. IsFiniteSet(S \ {First(S)}) /\ Cardinality(S \ {First(S)}) = Cardinality(S) - 1
  BY <1>1, FS_RemoveElement DEF Sized
<1>3. Cardinality(S) \in Nat /\ Cardinality(S) # 0
  BY FS_CardinalityType, FS_EmptySet DEF Sized
<1> QED
  BY <1>1, <1>2, <1>3 DEF Sized

LEMMA SizedPart ==
  ASSUME NEW S, Sized(S), NEW T, T \subseteq S
  PROVE  /\ Sized(T) /\ Cardinality(T) \in Nat /\ Cardinality(S) \in Nat
         /\ Cardinality(T) <= Cardinality(S)
BY FS_Subset, FS_CardinalityType DEF Sized

\* There is one such function, and its values are sizes.
LEMMA SumsExist ==
  ASSUME NEW S, Sized(S)
  PROVE  \E f \in [SUBSET S -> Nat] : SumsTo(S, f)
<1> DEFINE Small(n) == {s \in SUBSET S : Cardinality(s) <= n}
           Good(n, f) == /\ f \in [Small(n) -> Nat]
                         /\ \A s \in Small(n) :
                              f[s] = IF s = {} THEN 0 ELSE First(s).bytes + f[s \ {First(s)}]
           Bad == {n \in Nat : ~\E f : Good(n, f)}
<1>1. ASSUME NEW s \in SUBSET S
      PROVE  /\ Cardinality(s) \in Nat /\ (Cardinality(s) = 0 <=> s = {})
             /\ s # {} => /\ s \ {First(s)} \in SUBSET S /\ First(s).bytes \in Nat
                          /\ Cardinality(s \ {First(s)}) = Cardinality(s) - 1
  BY FirstLeaves, SizedPart, FS_EmptySet DEF Sized
<1>2. Bad = {}
  <2> SUFFICES ASSUME Bad # {} PROVE FALSE
    OBVIOUS
  <2>1. PICK m \in Bad : \A n \in Bad : m <= n
    <3>1. Bad \subseteq Nat
      OBVIOUS
    <3> QED
      BY <3>1, LeastElement
  <2>2. CASE m = 0
    <3>1. \A s \in Small(0) : s = {}
      <4> TAKE s \in Small(0)
      <4>1. s \in SUBSET S /\ Cardinality(s) <= 0
        OBVIOUS
      <4>2. Cardinality(s) \in Nat /\ (Cardinality(s) = 0 <=> s = {})
        BY <1>1, <4>1
      <4> QED
        BY <4>1, <4>2
    <3>2. PICK f : f = [s \in Small(0) |-> 0]
      OBVIOUS
    <3>3. f \in [Small(0) -> Nat] /\ \A s \in Small(0) : s = {} /\ f[s] = 0
      BY <3>1, <3>2
    <3>4. Good(0, f)
      <4>1. \A s \in Small(0) : f[s] = IF s = {} THEN 0 ELSE First(s).bytes + f[s \ {First(s)}]
        BY <3>3
      <4> QED
        BY <3>3, <4>1
    <3> QED
      BY <2>1, <2>2, <3>4
  <2>3. CASE m > 0
    <3>1. m - 1 \in Nat /\ m - 1 \notin Bad
      <4>1. m \in Nat /\ Bad \subseteq Nat
        BY <2>1
      <4> HIDE DEF Bad
      <4> QED
        BY <2>1, <2>3, <4>1
    <3>2. PICK g : Good(m - 1, g)
      <4> HIDE DEF Good
      <4> QED
        BY <3>1
    <3>3. PICK f : f = [s \in Small(m) |-> IF s = {} THEN 0 ELSE First(s).bytes + g[s \ {First(s)}]]
      OBVIOUS
    <3>4. \A s \in Small(m) : s # {} => s \ {First(s)} \in Small(m - 1)
      <4> TAKE s \in Small(m)
      <4> HAVE s # {}
      <4>1. s \in SUBSET S /\ Cardinality(s) <= m
        OBVIOUS
      <4>2. /\ s \ {First(s)} \in SUBSET S /\ Cardinality(s) \in Nat
            /\ Cardinality(s \ {First(s)}) = Cardinality(s) - 1
        BY <1>1, <4>1
      <4>3. Cardinality(s \ {First(s)}) <= m - 1
        BY <2>1, <4>1, <4>2
      <4> QED
        BY <4>2, <4>3
    <3>5. \A s \in Small(m - 1) : s \in Small(m) /\ f[s] = g[s]
      <4> TAKE s \in Small(m - 1)
      <4>1. s \in Small(m)
        <5>1. s \in SUBSET S /\ Cardinality(s) <= m - 1
          OBVIOUS
        <5>2. Cardinality(s) \in Nat
          BY <1>1, <5>1
        <5>3. Cardinality(s) <= m
          BY <2>1, <5>1, <5>2
        <5> QED
          BY <5>1, <5>3
      <4>2. f[s] = IF s = {} THEN 0 ELSE First(s).bytes + g[s \ {First(s)}]
        BY <3>3, <4>1
      <4>3. g[s] = IF s = {} THEN 0 ELSE First(s).bytes + g[s \ {First(s)}]
        BY <3>2
      <4> QED
        BY <4>1, <4>2, <4>3
    <3>6. ASSUME NEW s \in Small(m)
          PROVE  f[s] \in Nat /\ f[s] = IF s = {} THEN 0 ELSE First(s).bytes + f[s \ {First(s)}]
      <4>1. CASE s = {}
        BY <3>3, <4>1
      <4>2. CASE s # {}
        <5>1. s \ {First(s)} \in Small(m - 1) /\ First(s).bytes \in Nat
          BY <1>1, <3>4, <4>2
        <5>2. g[s \ {First(s)}] \in Nat /\ g[s \ {First(s)}] = f[s \ {First(s)}]
          BY <3>2, <3>5, <5>1
        <5>3. f[s] = First(s).bytes + g[s \ {First(s)}]
          BY <3>3, <4>2
        <5> QED
          BY <4>2, <5>1, <5>2, <5>3
      <4> QED
        BY <4>1, <4>2
    <3>7. Good(m, f)
      <4>1. f \in [Small(m) -> Nat]
        BY <3>3, <3>6
      <4> QED
        BY <3>6, <4>1
    <3> QED
      BY <2>1, <3>7
  <2> QED
    BY <2>1, <2>2, <2>3
<1>3. Small(Cardinality(S)) = SUBSET S /\ Cardinality(S) \in Nat
  BY <1>1, SizedPart
<1>4. PICK f : Good(Cardinality(S), f)
  BY <1>2, <1>3
<1>5. f \in [SUBSET S -> Nat]
      /\ \A s \in SUBSET S : f[s] = IF s = {} THEN 0 ELSE First(s).bytes + f[s \ {First(s)}]
  BY <1>3, <1>4
<1>6. SumsTo(S, f)
  BY <1>5 DEF SumsTo
<1> QED
  BY <1>5, <1>6

LEMMA SumsAgree ==
  ASSUME NEW S, Sized(S), NEW T \in SUBSET S, NEW f, SumsTo(S, f), NEW g, SumsTo(T, g)
  PROVE  \A s \in SUBSET T : f[s] = g[s]
<1> DEFINE Bad == {Cardinality(s) : s \in {s \in SUBSET T : f[s] # g[s]}}
<1> SUFFICES ASSUME Bad # {} PROVE FALSE
  OBVIOUS
<1>1. ASSUME NEW s \in SUBSET T
      PROVE  /\ Cardinality(s) \in Nat
             /\ s # {} => /\ s \ {First(s)} \in SUBSET T
                          /\ Cardinality(s \ {First(s)}) = Cardinality(s) - 1
  BY FirstLeaves, SizedPart
<1>2. PICK n \in Bad : \A k \in Bad : n <= k
  <2>1. Bad \subseteq Nat
    BY <1>1
  <2> QED
    BY <2>1, LeastElement
<1>3. PICK s \in SUBSET T : f[s] # g[s] /\ n = Cardinality(s)
  BY <1>2
<1>4. /\ f[s] = IF s = {} THEN 0 ELSE First(s).bytes + f[s \ {First(s)}]
      /\ g[s] = IF s = {} THEN 0 ELSE First(s).bytes + g[s \ {First(s)}]
  BY DEF SumsTo
<1>5. s # {} => f[s \ {First(s)}] # g[s \ {First(s)}]
  BY <1>3, <1>4
<1>6. s # {}
  BY <1>3, <1>4
<1>7. /\ Cardinality(s) \in Nat /\ s \ {First(s)} \in SUBSET T
      /\ Cardinality(s \ {First(s)}) = Cardinality(s) - 1
  BY <1>1, <1>6
<1>8. Cardinality(s \ {First(s)}) \in Bad
  BY <1>5, <1>6, <1>7
<1>9. n <= Cardinality(s) - 1
  BY <1>2, <1>7, <1>8
<1> QED
  BY <1>3, <1>7, <1>9

\* A sum is the size of an element and the sum of the others.
LEMMA SumStep ==
  ASSUME NEW S, Sized(S)
  PROVE  /\ BytesOf(S) \in Nat
         /\ S = {} => BytesOf(S) = 0
         /\ S # {} => BytesOf(S) = First(S).bytes + BytesOf(S \ {First(S)})
<1>1. PICK f : SumsTo(S, f) /\ f = CHOOSE h : SumsTo(S, h)
  BY SumsExist
<1>2. PICK h \in [SUBSET S -> Nat] : SumsTo(S, h)
  BY SumsExist
<1>3. S \in SUBSET S /\ f[S] = h[S]
  BY <1>1, <1>2, SumsAgree
<1>4. BytesOf(S) = f[S] /\ BytesOf(S) \in Nat
  BY <1>1, <1>2, <1>3, BytesDefined
<1>5. f[S] = IF S = {} THEN 0 ELSE First(S).bytes + f[S \ {First(S)}]
  BY <1>1, <1>3 DEF SumsTo
<1>6. ASSUME S # {}
      PROVE  f[S \ {First(S)}] = BytesOf(S \ {First(S)})
  <2> DEFINE R == S \ {First(S)}
  <2>1. R \in SUBSET S /\ Sized(R)
    BY <1>6, FirstLeaves
  <2>2. PICK g : SumsTo(R, g) /\ g = CHOOSE k : SumsTo(R, k)
    BY <2>1, SumsExist
  <2> HIDE DEF R
  <2>3. R \in SUBSET R /\ f[R] = g[R]
    BY <1>1, <2>1, <2>2, SumsAgree
  <2>4. BytesOf(R) = g[R]
    BY <2>2, BytesDefined
  <2> QED
    BY <2>3, <2>4 DEF R
<1> QED
  BY <1>4, <1>5, <1>6

\* So does every other element.
LEMMA SumRemove ==
  ASSUME NEW S, Sized(S), NEW x \in S
  PROVE  /\ BytesOf(S) \in Nat /\ BytesOf(S \ {x}) \in Nat
         /\ BytesOf(S) = x.bytes + BytesOf(S \ {x})
<1> DEFINE Right(s) == \A y \in s : BytesOf(s) = y.bytes + BytesOf(s \ {y})
           Bad == {Cardinality(s) : s \in {s \in SUBSET S : ~Right(s)}}
<1>1. ASSUME NEW s \in SUBSET S
      PROVE  Sized(s) /\ Cardinality(s) \in Nat /\ BytesOf(s) \in Nat
  BY SizedPart, SumStep
<1>2. ASSUME NEW s \in SUBSET S, NEW y \in s
      PROVE  /\ y.bytes \in Nat /\ s \ {y} \in SUBSET S
             /\ Cardinality(s \ {y}) = Cardinality(s) - 1
  BY <1>1, FS_RemoveElement DEF Sized
<1>3. Bad = {}
  <2> SUFFICES ASSUME Bad # {} PROVE FALSE
    OBVIOUS
  <2>0. Bad \subseteq Nat
    BY <1>1
  <2>1. PICK n \in Bad : \A k \in Bad : n <= k
    BY <2>0, LeastElement
  <2>2. PICK s \in SUBSET S : ~Right(s) /\ n = Cardinality(s)
    BY <2>1
  <2>3. PICK y \in s : BytesOf(s) # y.bytes + BytesOf(s \ {y})
    <3>1. ~Right(s)
      BY <2>2
    <3> QED
      BY <3>1
  <2>4. ASSUME NEW r \in SUBSET S, Cardinality(r) = Cardinality(s) - 1
        PROVE  Right(r)
    <3>1. Cardinality(r) \notin Bad
      <4>1. Cardinality(r) \in Nat /\ Cardinality(s) \in Nat
        BY <1>1
      <4> HIDE DEF Bad
      <4> QED
        BY <2>1, <2>2, <2>4, <4>1
    <3> QED
      BY <3>1
  <2>5. PICK z : z = First(s)
    OBVIOUS
  <2>6. z \in s /\ BytesOf(s) = z.bytes + BytesOf(s \ {z})
    BY <1>1, <2>5, SumStep, FirstLeaves
  <2>7. z # y
    BY <2>3, <2>6
  <2>8. y \in s \ {z} /\ z \in s \ {y} /\ (s \ {z}) \ {y} = (s \ {y}) \ {z}
    BY <2>6, <2>7
  <2>9. BytesOf(s \ {z}) = y.bytes + BytesOf((s \ {y}) \ {z})
    <3>1. s \ {z} \in SUBSET S /\ Cardinality(s \ {z}) = Cardinality(s) - 1
      BY <1>2, <2>6
    <3>2. Right(s \ {z})
      BY <2>4, <3>1
    <3> QED
      BY <2>8, <3>2
  <2>10. BytesOf(s \ {y}) = z.bytes + BytesOf((s \ {y}) \ {z})
    <3>1. s \ {y} \in SUBSET S /\ Cardinality(s \ {y}) = Cardinality(s) - 1
      BY <1>2
    <3>2. Right(s \ {y})
      BY <2>4, <3>1
    <3> QED
      BY <2>8, <3>2
  <2>11. /\ y.bytes \in Nat /\ z.bytes \in Nat /\ BytesOf((s \ {y}) \ {z}) \in Nat
    BY <1>1, <1>2, <2>6
  <2>12. BytesOf(s) = y.bytes + BytesOf(s \ {y})
    <3> DEFINE a == BytesOf((s \ {y}) \ {z})
    <3>1. BytesOf(s \ {z}) = y.bytes + a /\ BytesOf(s \ {y}) = z.bytes + a /\ a \in Nat
      BY <2>9, <2>10, <2>11
    <3> HIDE DEF a
    <3>2. BytesOf(s) = z.bytes + (y.bytes + a) /\ BytesOf(s \ {y}) = z.bytes + a
      BY <2>6, <3>1
    <3> QED
      BY <2>11, <3>1, <3>2
  <2> QED
    BY <2>3, <2>12
<1>4. Right(S)
  <2>1. S \in SUBSET S /\ Cardinality(S) \notin Bad
    BY <1>3
  <2> QED
    BY <2>1
<1> QED
  BY <1>1, <1>4

\* A set is as large as a part of it and the rest.
LEMMA SumSplit ==
  ASSUME NEW S, Sized(S), NEW T \in SUBSET S
  PROVE  /\ BytesOf(S) \in Nat /\ BytesOf(T) \in Nat /\ BytesOf(S \ T) \in Nat
         /\ BytesOf(S) = BytesOf(T) + BytesOf(S \ T)
<1> DEFINE Right(s) == BytesOf(S) = BytesOf(s) + BytesOf(S \ s)
           Bad == {Cardinality(s) : s \in {s \in SUBSET S : ~Right(s)}}
<1>1. ASSUME NEW s \in SUBSET S
      PROVE  Sized(s) /\ Cardinality(s) \in Nat /\ BytesOf(s) \in Nat
  BY SizedPart, SumStep
<1>3. Bad = {}
  <2> SUFFICES ASSUME Bad # {} PROVE FALSE
    OBVIOUS
  <2>0. Bad \subseteq Nat
    BY <1>1
  <2>1. PICK n \in Bad : \A k \in Bad : n <= k
    BY <2>0, LeastElement
  <2>2. PICK s \in SUBSET S : ~Right(s) /\ n = Cardinality(s)
    BY <2>1
  <2>3. CASE s = {}
    <3>1. BytesOf({}) = 0 /\ S \ {} = S /\ BytesOf(S) \in Nat
      BY <1>1, SumStep
    <3> QED
      BY <2>2, <2>3, <3>1
  <2>4. CASE s # {}
    <3>1. PICK y : y \in s
      BY <2>4
    <3>2. /\ y.bytes \in Nat /\ s \ {y} \in SUBSET S /\ S \ s \in SUBSET S
          /\ S \ (s \ {y}) \in SUBSET S /\ y \in S \ (s \ {y})
          /\ (S \ (s \ {y})) \ {y} = S \ s
          /\ Cardinality(s \ {y}) = Cardinality(s) - 1
      BY <1>1, <3>1, FS_RemoveElement DEF Sized
    <3>3. Right(s \ {y})
      <4>1. Cardinality(s \ {y}) \notin Bad
        <5>1. Cardinality(s \ {y}) \in Nat /\ Cardinality(s) \in Nat
          BY <1>1, <3>2
        <5> HIDE DEF Bad
        <5> QED
          BY <2>1, <2>2, <3>2, <5>1
      <4> QED
        BY <3>2, <4>1
    <3>4. BytesOf(s) = y.bytes + BytesOf(s \ {y})
      BY <1>1, <3>1, SumRemove
    <3>5. BytesOf(S \ (s \ {y})) = y.bytes + BytesOf(S \ s)
      BY <1>1, <3>2, SumRemove
    <3>6. BytesOf(s \ {y}) \in Nat /\ BytesOf(S \ s) \in Nat
      BY <1>1, <3>2
    <3> QED
      BY <2>2, <3>2, <3>3, <3>4, <3>5, <3>6
  <2> QED
    BY <2>3, <2>4
<1>4. Right(T)
  BY <1>3
<1>5. S \in SUBSET S /\ S \ T \in SUBSET S
  OBVIOUS
<1> QED
  BY <1>1, <1>4, <1>5

\* The counted total is the size of what is kept, and both bounds hold.
Booked(s, bytes) == Sized(s) /\ bytes = BytesOf(s) /\ WithinBounds(s, bytes)
CacheInv == Booked(netCache, netBytes)

LEMMA CacheStays ==
  ASSUME CacheInv, UNCHANGED <<netCache, netBytes>>
  PROVE  CacheInv'
BY DEF CacheInv

\* What is put takes the place of its key, and what is evicted is subtracted.
LEMMA PutKeepsBooks ==
  ASSUME CacheInv, NEW e, e.bytes \in Nat, PutEntry(e)
  PROVE  CacheInv'
<1>1. CASE UNCHANGED <<netCache, netBytes>>
  BY <1>1, CacheStays
<1>2. CASE ~UNCHANGED <<netCache, netBytes>>
  <2> DEFINE old == {x \in netCache : x.key = e.key}
             rest == {x \in netCache : x.key # e.key}
             kept == rest \cup {e}
  <2>1. PICK s \in SUBSET kept :
          /\ WithinBounds(s, (netBytes - Replaced(e.key) + e.bytes) - BytesOf(kept \ s))
          /\ netCache' = s
          /\ netBytes' = (netBytes - Replaced(e.key) + e.bytes) - BytesOf(kept \ s)
    <3> DEFINE bytes == netBytes - Replaced(e.key) + e.bytes
               All == \E s \in SUBSET kept :
                        /\ \A x \in kept \ s, y \in s : x.stored <= y.stored
                        /\ WithinBounds(s, bytes - BytesOf(kept \ s))
                        /\ \A x \in kept \ s :
                             (\A y \in kept \ s : y.stored <= x.stored) =>
                                ~WithinBounds(s \cup {x}, bytes - BytesOf(kept \ s) + x.bytes)
                        /\ netCache' = s
                        /\ netBytes' = bytes - BytesOf(kept \ s)
    <3>1. IF e.bytes > CacheMaxBytes THEN UNCHANGED <<netCache, netBytes>> ELSE All
      BY DEF PutEntry
    <3>2. All
      <4> HIDE DEF All
      <4> QED
        BY <1>2, <3>1
    <3> HIDE DEF kept, bytes
    <3>3. \E s \in SUBSET kept :
            /\ WithinBounds(s, bytes - BytesOf(kept \ s))
            /\ netCache' = s
            /\ netBytes' = bytes - BytesOf(kept \ s)
      BY <3>2
    <3> QED
      BY <3>3 DEF bytes
  <2>2. Sized(netCache) /\ netBytes = BytesOf(netCache)
    BY DEF CacheInv, Booked
  <2>3. Replaced(e.key) = BytesOf(old)
    BY DEF Replaced, BytesOf
  <2>4. old \in SUBSET netCache /\ netCache \ old = rest
    OBVIOUS
  <2>5. /\ BytesOf(rest) \in Nat /\ BytesOf(old) \in Nat
        /\ BytesOf(netCache) = BytesOf(old) + BytesOf(rest)
    <3> HIDE DEF old, rest
    <3> QED
      BY <2>2, <2>4, SumSplit
  <2>6. Sized(kept) /\ e \in kept /\ kept \ {e} = rest
    <3>1. IsFiniteSet(rest)
      BY <2>2, FS_Subset DEF Sized
    <3>2. IsFiniteSet(kept)
      BY <3>1, FS_AddElement
    <3> QED
      BY <2>2, <3>2 DEF Sized
  <2>7. BytesOf(kept) = e.bytes + BytesOf(rest) /\ BytesOf(kept) \in Nat
    <3> HIDE DEF kept, rest
    <3> QED
      BY <2>6, SumRemove
  <2>8. /\ Sized(s) /\ BytesOf(s) \in Nat /\ BytesOf(kept \ s) \in Nat
        /\ BytesOf(kept) = BytesOf(s) + BytesOf(kept \ s)
    <3>1. s \in SUBSET kept
      BY <2>1
    <3> HIDE DEF kept
    <3> QED
      BY <2>6, <3>1, SumSplit, SizedPart
  <2>9. (netBytes - Replaced(e.key) + e.bytes) - BytesOf(kept \ s) = BytesOf(s)
    <3> HIDE DEF kept, rest, old
    <3> QED
      BY <2>2, <2>3, <2>5, <2>7, <2>8
  <2>10. netCache' = s /\ netBytes' = BytesOf(s) /\ WithinBounds(s, BytesOf(s))
    <3> HIDE DEF kept
    <3> QED
      BY <2>1, <2>9
  <2> HIDE DEF kept
  <2>11. Sized(netCache') /\ netBytes' = BytesOf(netCache') /\ WithinBounds(netCache', netBytes')
    BY <2>8, <2>10
  <2> QED
    BY <2>11 DEF CacheInv, Booked
<1> QED
  BY <1>1, <1>2

LEMMA CacheStep == NetInv /\ CacheInv /\ [NetNext]_netVars => CacheInv'
<1> SUFFICES ASSUME NetInv, CacheInv, [NetNext]_netVars PROVE CacheInv'
  OBVIOUS
<1>1. ASSUME NEW t \in NetTasks, StoreAndReply(t) PROVE CacheInv'
  <2>1. CASE UNCHANGED <<netCache, netBytes>>
    BY <2>1, CacheStays
  <2>2. ASSUME NEW e, PutEntry(e), e.bytes = netTask[t].got.answer.bytes,
               netTask[t].got # NotSet
        PROVE  CacheInv'
    <3>1. netTask[t].got \in GotType
      BY <1>1, <2>2, BusyFacts DEF StoreAndReply, NetAt, BusyType
    <3>2. netTask[t].got.answer \in OriginAnswers
      BY <3>1 DEF GotType
    <3>3. e.bytes \in Nat
      BY <2>2, <3>2 DEF OriginAnswers
    <3> QED
      BY <2>2, <3>3, PutKeepsBooks
  <2>3. CASE /\ netTask[t].got # NotSet
             /\ PutEntry([key |-> CacheKey(netTask[t].caller, netTask[t].params),
                          serial |-> netTask[t].got.serial,
                          bytes |-> netTask[t].got.answer.bytes, stored |-> netClock,
                          expires |-> netClock + netTask[t].params.cache_ttl_ms])
    <3> DEFINE e == [key |-> CacheKey(netTask[t].caller, netTask[t].params),
                     serial |-> netTask[t].got.serial,
                     bytes |-> netTask[t].got.answer.bytes, stored |-> netClock,
                     expires |-> netClock + netTask[t].params.cache_ttl_ms]
    <3>1. e.bytes = netTask[t].got.answer.bytes /\ PutEntry(e)
      BY <2>3
    <3> HIDE DEF e
    <3> QED
      BY <2>2, <2>3, <3>1
  <2> QED
    BY <1>1, <2>1, <2>3 DEF StoreAndReply
<1>2. ASSUME NEW t \in NetTasks, MergeCookies(t) PROVE CacheInv'
  BY <1>2, CacheStays DEF MergeCookies
<1>3. ASSUME NEW t \in NetTasks,
             NetAccept(t) \/ AcquireCheck(t) \/ AcquireReserve(t) \/ Start(t) \/ Gate(t)
      PROVE  CacheInv'
  BY <1>3, CacheStays
  DEF NetAccept, AcquireCheck, AcquireReserve, Start, Gate, netStores
<1>4. ASSUME NEW t \in NetTasks, Attempt(t) \/ AttemptFails(t) \/ NetPanic(t)
      PROVE  CacheInv'
  BY <1>4, CacheStays DEF Attempt, AttemptFails, NetPanic, netStores
<1>5. CASE NetTick \/ UNCHANGED netVars
  BY <1>5, CacheStays DEF NetTick, netStores, netVars
<1> QED
  BY <1>1, <1>2, <1>3, <1>4, <1>5 DEF NetNext

LEMMA CacheInvInit == NetInit => CacheInv
<1> SUFFICES ASSUME NetInit PROVE CacheInv
  OBVIOUS
<1>1. Sized({}) /\ Cardinality({}) = 0
  BY FS_EmptySet DEF Sized
<1>2. BytesOf({}) = 0
  BY <1>1, SumStep
<1>3. netCache = {} /\ netBytes = 0
  BY DEF NetInit
<1> QED
  BY <1>1, <1>2, <1>3, NetworkAssumption DEF CacheInv, Booked, WithinBounds

(* Callers that share the plugin share nothing else, and its accounts of   *)
(* them stay right whatever fails: the slots of the cap, the bounds and    *)
(* the counted size of the cache (put subtracts what it replaces and what  *)
(* it evicts), the answers and the cookies, for any callers and requests.  *)
THEOREM CallersStayApart == NetSpec => []CallersAreApart
<1>1. NetInv /\ CapInv /\ CacheInv => CallersAreApart
  BY InvImplies
  DEF CapInv, CacheInv, Booked, SlotsBalance, BooksBalance, CallersAreApart
<1> QED
  BY <1>1, NetInvInit, NetInvStep, CapInvInit, CapStep, CacheInvInit, CacheStep,
     PTL DEF NetSpec

-----------------------------------------------------------------------------
(* Files: induction up to a number, and parts of paths                       *)

LEMMA UpTo ==
  ASSUME NEW m \in Nat, NEW S, 0 \in S, \A n \in 0..m - 1 : n \in S => n + 1 \in S
  PROVE  0..m \subseteq S
<1> DEFINE Bad == (0..m) \ S
<1> SUFFICES ASSUME Bad # {} PROVE FALSE
  OBVIOUS
<1>0. Bad \subseteq Nat
  OBVIOUS
<1>1. PICK b \in Bad : \A c \in Bad : b <= c
  BY <1>0, LeastElement
<1>2. b \in 0..m /\ b # 0 /\ b - 1 \in 0..m - 1
  BY <1>1
<1>3. b - 1 \notin Bad
  BY <1>1, <1>2
<1>4. b - 1 \in S /\ (b - 1) + 1 = b
  BY <1>2, <1>3
<1>5. b \in S
  BY <1>2, <1>4
<1> QED
  BY <1>5

\* The first k names of a path.
LEMMA TakeFacts ==
  ASSUME NEW X, NEW p \in Seq(X), NEW k \in 0..Len(p)
  PROVE  /\ SubSeq(p, 1, k) \in Seq(X) /\ Len(SubSeq(p, 1, k)) = k
         /\ \A i \in 1..k : SubSeq(p, 1, k)[i] = p[i]
         /\ SubSeq(p, 1, 0) = <<>> /\ SubSeq(p, 1, Len(p)) = p
<1>1. \A i \in 1..k : p[i] \in X
  BY ElementOfSeq
<1>2. k \in Int /\ 1 \in Int /\ k >= 0
  OBVIOUS
<1>3. /\ SubSeq(p, 1, k) \in Seq(X)
      /\ Len(SubSeq(p, 1, k)) = IF 1 <= k THEN k - 1 + 1 ELSE 0
      /\ \A i \in 1..k - 1 + 1 : SubSeq(p, 1, k)[i] = p[1 + i - 1]
  BY <1>1, <1>2, SubSeqProperties
<1>4. SubSeq(p, 1, 0) = <<>> /\ SubSeq(p, 1, Len(p)) = p
  BY SubSeqEmpty, SubSeqFull
<1> QED
  BY <1>2, <1>3, <1>4

LEMMA DropFacts ==
  ASSUME NEW X, NEW p \in Seq(X), NEW k \in 0..Len(p)
  PROVE  /\ SubSeq(p, k + 1, Len(p)) \in Seq(X) /\ Len(SubSeq(p, k + 1, Len(p))) = Len(p) - k
         /\ \A i \in 1..Len(p) - k : SubSeq(p, k + 1, Len(p))[i] = p[k + i]
         /\ p = SubSeq(p, 1, k) \o SubSeq(p, k + 1, Len(p))
<1>1. Len(p) \in Nat /\ k \in Nat /\ k <= Len(p)
  OBVIOUS
<1>2. \A i \in k + 1..Len(p) : p[i] \in X
  BY ElementOfSeq
<1>3. /\ SubSeq(p, k + 1, Len(p)) \in Seq(X)
      /\ Len(SubSeq(p, k + 1, Len(p))) = IF k + 1 <= Len(p) THEN Len(p) - (k + 1) + 1 ELSE 0
      /\ \A i \in 1..Len(p) - (k + 1) + 1 : SubSeq(p, k + 1, Len(p))[i] = p[k + 1 + i - 1]
  BY <1>1, <1>2, SubSeqProperties
<1>4. /\ Len(SubSeq(p, k + 1, Len(p))) = Len(p) - k
      /\ \A i \in 1..Len(p) - k : SubSeq(p, k + 1, Len(p))[i] = p[k + i]
  BY <1>1, <1>3
<1> DEFINE a == SubSeq(p, 1, k)
           b == SubSeq(p, k + 1, Len(p))
<1>5. a \in Seq(X) /\ Len(a) = k /\ (\A i \in 1..k : a[i] = p[i])
  BY TakeFacts
<1>b. b \in Seq(X) /\ Len(b) = Len(p) - k /\ \A i \in 1..Len(p) - k : b[i] = p[k + i]
  BY <1>3, <1>4
<1> HIDE DEF a, b
<1>6. /\ a \o b \in Seq(X) /\ Len(a \o b) = Len(p)
      /\ \A i \in 1..Len(p) : (a \o b)[i] = IF i <= k THEN a[i] ELSE b[i - k]
  <2>1. Len(a) + Len(b) = Len(p)
    BY <1>1, <1>5, <1>b
  <2>2. /\ a \o b \in Seq(X) /\ Len(a \o b) = Len(a) + Len(b)
        /\ \A i \in 1..Len(a) + Len(b) :
             (a \o b)[i] = IF i <= Len(a) THEN a[i] ELSE b[i - Len(a)]
    BY <1>5, <1>b, ConcatProperties
  <2> QED
    BY <1>5, <2>1, <2>2
<1>7. \A i \in 1..Len(p) : (a \o b)[i] = p[i]
  <2> TAKE i \in 1..Len(p)
  <2>1. i > k => i - k \in 1..Len(p) - k /\ k + (i - k) = i
    BY <1>1
  <2> QED
    BY <1>1, <1>5, <1>6, <1>b, <2>1
<1>8. a \o b = p
  BY <1>6, <1>7, SeqEqual
<1> QED
  BY <1>3, <1>4, <1>8 DEF a, b

LEMMA TakeNext ==
  ASSUME NEW X, NEW p \in Seq(X), NEW k \in 0..Len(p) - 1
  PROVE  SubSeq(p, 1, k + 1) = Append(SubSeq(p, 1, k), p[k + 1]) /\ p[k + 1] \in X
<1>1. Len(p) \in Nat /\ k \in 0..Len(p) /\ k + 1 \in 0..Len(p) /\ k + 1 \in 1..Len(p)
  OBVIOUS
<1>2. p[k + 1] \in X
  BY <1>1, ElementOfSeq
<1> DEFINE a == SubSeq(p, 1, k)
           b == SubSeq(p, 1, k + 1)
<1>3. a \in Seq(X) /\ Len(a) = k /\ (\A i \in 1..k : a[i] = p[i])
  BY <1>1, TakeFacts
<1>4. b \in Seq(X) /\ Len(b) = k + 1 /\ (\A i \in 1..k + 1 : b[i] = p[i])
  BY <1>1, TakeFacts
<1> HIDE DEF a, b
<1>5. /\ Append(a, p[k + 1]) \in Seq(X) /\ Len(Append(a, p[k + 1])) = k + 1
      /\ \A i \in 1..k : Append(a, p[k + 1])[i] = a[i]
      /\ Append(a, p[k + 1])[k + 1] = p[k + 1]
  BY <1>2, <1>3, AppendProperties
<1>6. \A i \in 1..k + 1 : b[i] = Append(a, p[k + 1])[i]
  BY <1>1, <1>3, <1>4, <1>5
<1>7. b = Append(a, p[k + 1])
  BY <1>4, <1>5, <1>6, SeqEqual
<1> QED
  BY <1>2, <1>7 DEF a, b

LEMMA FrontFacts ==
  ASSUME NEW X, NEW p \in Seq(X), p # <<>>
  PROVE  /\ Front(p) \in Seq(X) /\ Last(p) \in X /\ p = Append(Front(p), Last(p))
         /\ Len(p) \in Nat /\ Len(p) > 0 /\ Len(Front(p)) = Len(p) - 1
<1>1. Len(p) \in Nat /\ Len(p) > 0 /\ Len(p) - 1 \in 0..Len(p) - 1 /\ (Len(p) - 1) + 1 = Len(p)
  BY EmptySeq
<1>2. SubSeq(p, 1, Len(p)) = Append(SubSeq(p, 1, Len(p) - 1), p[Len(p)]) /\ p[Len(p)] \in X
  BY <1>1, TakeNext
<1>3. /\ SubSeq(p, 1, Len(p) - 1) \in Seq(X) /\ SubSeq(p, 1, Len(p)) = p
      /\ Len(SubSeq(p, 1, Len(p) - 1)) = Len(p) - 1
  BY <1>1, TakeFacts
<1> QED
  BY <1>1, <1>2, <1>3 DEF Front, Last

LEMMA FrontOfAppend ==
  ASSUME NEW X, NEW p \in Seq(X), NEW n \in X
  PROVE  /\ Append(p, n) \in Seq(X) /\ Append(p, n) # <<>> /\ Len(Append(p, n)) = Len(p) + 1
         /\ Front(Append(p, n)) = p /\ Last(Append(p, n)) = n
<1>1. Append(p, n) \in Seq(X) /\ Append(p, n) # <<>> /\ Len(Append(p, n)) = Len(p) + 1
  BY AppendProperties
<1>2. Append(p, n) = Append(Front(Append(p, n)), Last(Append(p, n)))
  BY <1>1, FrontFacts
<1>3. Front(Append(p, n)) \in Seq(X) /\ Last(Append(p, n)) \in X
  BY <1>1, FrontFacts
<1> QED
  BY <1>1, <1>2, <1>3, AppendInjective

\* Joining and then appending.
LEMMA ConcatAppend ==
  ASSUME NEW X, NEW p \in Seq(X), NEW q \in Seq(X), NEW n \in X
  PROVE  p \o Append(q, n) = Append(p \o q, n) /\ p \o q \in Seq(X)
<1>1. <<n>> \in Seq(X) /\ p \o q \in Seq(X)
  BY ConcatProperties
<1>2. Append(q, n) = q \o <<n>> /\ Append(p \o q, n) = (p \o q) \o <<n>>
  BY <1>1, AppendIsConcat
<1> QED
  BY <1>1, <1>2, ConcatAssociative

LEMMA TakeOfConcat ==
  ASSUME NEW X, NEW p \in Seq(X), NEW q \in Seq(X), NEW k \in 0..Len(q)
  PROVE  SubSeq(p \o q, 1, Len(p) + k) = p \o SubSeq(q, 1, k)
<1>1. Len(p) \in Nat /\ Len(q) \in Nat /\ k \in Nat /\ k <= Len(q)
  OBVIOUS
<1>2. /\ p \o q \in Seq(X) /\ Len(p \o q) = Len(p) + Len(q)
      /\ \A i \in 1..Len(p) + Len(q) : (p \o q)[i] = IF i <= Len(p) THEN p[i] ELSE q[i - Len(p)]
  BY ConcatProperties
<1> DEFINE a == SubSeq(p \o q, 1, Len(p) + k)
           b == SubSeq(q, 1, k)
<1>3. Len(p) + k \in 0..Len(p \o q)
  BY <1>1, <1>2
<1>4. a \in Seq(X) /\ Len(a) = Len(p) + k /\ \A i \in 1..Len(p) + k : a[i] = (p \o q)[i]
  BY <1>2, <1>3, TakeFacts
<1>5. b \in Seq(X) /\ Len(b) = k /\ \A i \in 1..k : b[i] = q[i]
  BY TakeFacts
<1> HIDE DEF a, b
<1>6. /\ p \o b \in Seq(X) /\ Len(p \o b) = Len(p) + k
      /\ \A i \in 1..Len(p) + k : (p \o b)[i] = IF i <= Len(p) THEN p[i] ELSE b[i - Len(p)]
  BY <1>5, ConcatProperties
<1>7. \A i \in 1..Len(p) + k : a[i] = (p \o b)[i]
  <2> TAKE i \in 1..Len(p) + k
  <2>1. PICK l \in Nat, n \in Nat : l = Len(p) /\ n = Len(q) /\ k <= n /\ i \in 1..l + k
    BY <1>1
  <2>2. CASE i <= l
    <3>1. i \in 1..l + n
      BY <2>1
    <3>2. a[i] = p[i]
      BY <1>2, <1>4, <2>1, <2>2, <3>1
    <3> QED
      BY <1>6, <2>1, <2>2, <3>2
  <2>3. CASE ~(i <= l)
    <3>1. i \in 1..l + n /\ i - l \in 1..k
      BY <2>1, <2>3
    <3>2. a[i] = q[i - l]
      BY <1>2, <1>4, <2>1, <2>3, <3>1
    <3>3. (p \o b)[i] = b[i - l]
      BY <1>6, <2>1, <2>3
    <3> QED
      BY <1>5, <3>1, <3>2, <3>3
  <2> QED
    BY <2>2, <2>3
<1>8. a = p \o b
  BY <1>4, <1>6, <1>7, SeqEqual
<1> QED
  BY <1>8 DEF a, b

-----------------------------------------------------------------------------
(* Walks                                                                     *)

Paths == Seq(FileNames)

\* Where a walk is after each of its first m names.
Trail(d, p, m, f) ==
  f = [k \in 0..m |-> IF k = 0 THEN <<>> ELSE StepTo(d, f[k - 1], p[k])]

LEMMA WalkDefined ==
  ASSUME NEW d, NEW p
  PROVE  WalkIn(d, p) = (CHOOSE f : Trail(d, p, Len(p), f))[Len(p)]
BY DEF WalkIn, Trail

LEMMA TrailExists ==
  ASSUME NEW d, NEW p, NEW m \in Nat
  PROVE  \E f : Trail(d, p, m, f)
<1> DEFINE S == {k \in Nat : \E f : Trail(d, p, k, f)}
<1>1. 0 \in S
  <2>1. PICK f : f = [k \in 0..0 |-> <<>>]
    OBVIOUS
  <2>2. f = [k \in 0..0 |-> IF k = 0 THEN <<>> ELSE StepTo(d, f[k - 1], p[k])]
    BY <2>1
  <2> QED
    BY <2>2 DEF Trail
<1>2. ASSUME NEW n \in 0..m - 1, n \in S PROVE n + 1 \in S
  <2>1. PICK f : f = [k \in 0..n |-> IF k = 0 THEN <<>> ELSE StepTo(d, f[k - 1], p[k])]
    BY <1>2 DEF Trail
  <2>2. PICK g : g = [k \in 0..n + 1 |-> IF k = 0 THEN <<>> ELSE StepTo(d, f[k - 1], p[k])]
    OBVIOUS
  <2>3. \A k \in 0..n : g[k] = f[k]
    BY <2>1, <2>2
  <2>4. \A k \in 0..n + 1 : k # 0 => k - 1 \in 0..n /\ g[k - 1] = f[k - 1]
    BY <2>3
  <2>5. g = [k \in 0..n + 1 |-> IF k = 0 THEN <<>> ELSE StepTo(d, g[k - 1], p[k])]
    BY <2>2, <2>4
  <2> QED
    BY <2>5 DEF Trail
<1> HIDE DEF S
<1>3. m \in S
  BY <1>1, <1>2, UpTo
<1> QED
  BY <1>3 DEF S

\* A trail depends on the names it has passed.
LEMMA TrailsAgree ==
  ASSUME NEW d, NEW p, NEW q, NEW m \in Nat, NEW n \in Nat, m <= n,
         \A i \in 1..m : p[i] = q[i],
         NEW f, Trail(d, p, m, f), NEW g, Trail(d, q, n, g)
  PROVE  f[m] = g[m]
<1> DEFINE S == {k \in 0..m : f[k] = g[k]}
<1>1. /\ \A k \in 0..m : f[k] = IF k = 0 THEN <<>> ELSE StepTo(d, f[k - 1], p[k])
      /\ \A k \in 0..m : g[k] = IF k = 0 THEN <<>> ELSE StepTo(d, g[k - 1], q[k])
  BY DEF Trail
<1>2. 0 \in S
  BY <1>1
<1>3. ASSUME NEW k \in 0..m - 1, k \in S PROVE k + 1 \in S
  <2>1. k + 1 \in 0..m /\ k + 1 # 0 /\ (k + 1) - 1 = k /\ k + 1 \in 1..m
    OBVIOUS
  <2>2. f[k + 1] = StepTo(d, f[k], p[k + 1]) /\ g[k + 1] = StepTo(d, g[k], q[k + 1])
    BY <1>1, <2>1
  <2> QED
    BY <1>3, <2>1, <2>2
<1>4. m \in S
  <2> HIDE DEF S
  <2> QED
    BY <1>2, <1>3, UpTo
<1> QED
  BY <1>4

LEMMA WalkEmpty == ASSUME NEW d PROVE WalkIn(d, <<>>) = <<>>
<1>1. PICK f : Trail(d, <<>>, 0, f) /\ f = CHOOSE g : Trail(d, <<>>, 0, g)
  BY TrailExists
<1>2. f[0] = <<>>
  BY <1>1 DEF Trail
<1>3. Len(<<>>) = 0
  OBVIOUS
<1> QED
  BY <1>1, <1>2, <1>3, WalkDefined

LEMMA WalkAppend ==
  ASSUME NEW d, NEW X, NEW p \in Seq(X), NEW n \in X
  PROVE  WalkIn(d, Append(p, n)) = StepTo(d, WalkIn(d, p), n)
<1> DEFINE q == Append(p, n)
<1>1. Len(p) \in Nat /\ Len(q) = Len(p) + 1 /\ q[Len(p) + 1] = n /\ \A i \in 1..Len(p) : p[i] = q[i]
  BY AppendProperties
<1>0. Len(q) \in Nat
  BY <1>1
<1> HIDE DEF q
<1>2. PICK f : Trail(d, p, Len(p), f) /\ f = CHOOSE g : Trail(d, p, Len(p), g)
  BY <1>1, TrailExists
<1>3. PICK g : Trail(d, q, Len(q), g) /\ g = CHOOSE h : Trail(d, q, Len(q), h)
  BY <1>0, TrailExists
<1>4. f[Len(p)] = g[Len(p)]
  BY <1>1, <1>2, <1>3, TrailsAgree
<1>5. g[Len(p) + 1] = StepTo(d, g[Len(p)], n)
  <2>1. \A k \in 0..Len(q) : g[k] = IF k = 0 THEN <<>> ELSE StepTo(d, g[k - 1], q[k])
    BY <1>3 DEF Trail
  <2>2. Len(p) + 1 \in 0..Len(q) /\ Len(p) + 1 # 0 /\ (Len(p) + 1) - 1 = Len(p)
    BY <1>1
  <2> QED
    BY <1>1, <2>1, <2>2
<1>6. WalkIn(d, p) = f[Len(p)] /\ WalkIn(d, q) = g[Len(q)]
  BY <1>2, <1>3, WalkDefined
<1> QED
  BY <1>1, <1>4, <1>5, <1>6 DEF q

\* Walks that meet go on together.
LEMMA WalkJoin ==
  ASSUME NEW d, NEW X, NEW p \in Seq(X), NEW q \in Seq(X), NEW r \in Seq(X),
         WalkIn(d, p) = WalkIn(d, q)
  PROVE  WalkIn(d, p \o r) = WalkIn(d, q \o r)
<1> DEFINE Met(k) == WalkIn(d, p \o SubSeq(r, 1, k)) = WalkIn(d, q \o SubSeq(r, 1, k))
           S == {k \in 0..Len(r) : Met(k)}
<1>1. Len(r) \in Nat /\ SubSeq(r, 1, 0) = <<>> /\ SubSeq(r, 1, Len(r)) = r
  BY TakeFacts
<1>2. 0 \in S
  <2>1. p \o <<>> = p /\ q \o <<>> = q
    BY ConcatEmptySeq
  <2>2. Met(0)
    BY <1>1, <2>1
  <2> HIDE DEF Met
  <2> QED
    BY <1>1, <2>2
<1>3. ASSUME NEW k \in 0..Len(r) - 1, k \in S PROVE k + 1 \in S
  <2>1. PICK u, v, n : u = SubSeq(r, 1, k) /\ v = SubSeq(r, 1, k + 1) /\ n = r[k + 1]
    OBVIOUS
  <2>2. v = Append(u, n) /\ n \in X /\ u \in Seq(X)
    BY <1>1, <2>1, TakeNext, TakeFacts
  <2>3. /\ p \o Append(u, n) = Append(p \o u, n) /\ p \o u \in Seq(X)
        /\ q \o Append(u, n) = Append(q \o u, n) /\ q \o u \in Seq(X)
    BY <2>2, ConcatAppend, SMTT(30)
  <2>4. /\ WalkIn(d, p \o v) = StepTo(d, WalkIn(d, p \o u), n)
        /\ WalkIn(d, q \o v) = StepTo(d, WalkIn(d, q \o u), n)
    <3>1. /\ WalkIn(d, Append(p \o u, n)) = StepTo(d, WalkIn(d, p \o u), n)
          /\ WalkIn(d, Append(q \o u, n)) = StepTo(d, WalkIn(d, q \o u), n)
      <4>1. p \o u \in Seq(X) /\ q \o u \in Seq(X) /\ n \in X
        BY <2>2, <2>3
      <4>2. \A t \in Seq(X) : WalkIn(d, Append(t, n)) = StepTo(d, WalkIn(d, t), n)
        BY <4>1, WalkAppend
      <4> QED
        BY <4>1, <4>2
    <3>2. p \o v = Append(p \o u, n) /\ q \o v = Append(q \o u, n)
      <4>1. v = Append(u, n)
        BY <2>2
      <4> QED
        BY <2>3, <4>1, Zenon
    <3> QED
      BY <3>1, <3>2
  <2>5. WalkIn(d, p \o u) = WalkIn(d, q \o u)
    BY <1>3, <2>1
  <2>6. Met(k + 1) /\ k + 1 \in 0..Len(r)
    BY <1>1, <2>1, <2>4, <2>5
  <2> HIDE DEF Met
  <2> QED
    BY <2>6
<1>4. Len(r) \in S
  <2>1. PICK m \in Nat : m = Len(r)
    BY <1>1
  <2> HIDE DEF S
  <2>2. \A k \in 0..m - 1 : k \in S => k + 1 \in S
    BY <1>3, <2>1
  <2>3. 0..m \subseteq S
    BY <1>2, <2>2, UpTo
  <2> QED
    BY <2>1, <2>3
<1>5. Met(Len(r))
  BY <1>4
<1> QED
  BY <1>1, <1>5

\* What holds of the empty path and goes on with every name holds of all.
LEMMA Grow ==
  ASSUME NEW X, NEW S, <<>> \in S, \A q \in Seq(X), n \in X : q \in S => Append(q, n) \in S
  PROVE  Seq(X) \subseteq S
<1> SUFFICES ASSUME NEW p \in Seq(X) PROVE p \in S
  OBVIOUS
<1> DEFINE T == {k \in Nat : \A q \in Seq(X) : Len(q) = k => q \in S}
<1>1. 0 \in T
  BY EmptySeq
<1>2. ASSUME NEW k \in Nat, k \in T PROVE k + 1 \in T
  <2> SUFFICES ASSUME NEW q \in Seq(X), Len(q) = k + 1 PROVE q \in S
    OBVIOUS
  <2>1. q # <<>>
    <3>1. Len(<<>>) = 0
      OBVIOUS
    <3> QED
      BY <3>1
  <2>2. Front(q) \in Seq(X) /\ Last(q) \in X /\ q = Append(Front(q), Last(q)) /\ Len(Front(q)) = k
    <3>1. /\ Front(q) \in Seq(X) /\ Last(q) \in X /\ q = Append(Front(q), Last(q))
          /\ Len(Front(q)) = Len(q) - 1
      BY <2>1, FrontFacts
    <3> QED
      BY <3>1
  <2>3. Front(q) \in S
    BY <1>2, <2>2
  <2> QED
    BY <2>2, <2>3
<1>3. Len(p) \in Nat
  BY LenProperties
<1>4. 0..Len(p) \subseteq T
  <2>1. PICK m \in Nat : m = Len(p)
    BY <1>3
  <2> HIDE DEF T
  <2>2. \A k \in 0..m - 1 : k \in T => k + 1 \in T
    BY <1>2
  <2>3. 0..m \subseteq T
    BY <1>1, <2>2, UpTo
  <2> QED
    BY <2>1, <2>3
<1>5. Len(p) \in T
  BY <1>3, <1>4
<1> QED
  BY <1>5

Plain == Seq(FileNames \ {".."})

LEMMA PlainPaths == Plain \subseteq Paths /\ <<>> \in Plain
BY SeqMonotonic, EmptySeq DEF Plain, Paths

LEMMA TreePaths ==
  ASSUME NEW d, IsTree(d)
  PROVE  /\ DOMAIN d \subseteq Plain /\ DOMAIN d \subseteq Paths /\ Nowhere \notin DOMAIN d
         /\ Nowhere \notin Paths
         /\ <<>> \in DOMAIN d /\ d[<<>>] = Dir
<1>1. Nowhere \notin Paths
  <2>1. Len(Nowhere) = 1 /\ Nowhere[1] = "(nowhere)"
    BY DEF Nowhere
  <2> QED
    BY <2>1, FilesAssumption, ElementOfSeq DEF Paths
<1>2. DOMAIN d \subseteq Plain
  BY DEF IsTree, Plain
<1> QED
  BY <1>1, <1>2, PlainPaths DEF IsTree

LEMMA Kinds ==
  ASSUME NEW d, IsTree(d), NEW p \in DOMAIN d
  PROVE  /\ d[p].kind = "dir" <=> d[p] = Dir
         /\ d[p].kind = "file" => d[p] = FileOf(d[p].bytes) /\ d[p].bytes \in Seq(Byte)
         /\ d[p].kind = "link" => d[p] = LinkTo(d[p].to) /\ d[p].to \in Plain
         /\ d[p].kind \in {"dir", "file", "link"}
<1>1. \/ d[p] = Dir
      \/ d[p].kind = "file" /\ d[p] = FileOf(d[p].bytes) /\ d[p].bytes \in Seq(Byte)
      \/ d[p].kind = "link" /\ d[p] = LinkTo(d[p].to) /\ d[p].to \in Plain
  BY DEF IsTree, Plain
<1>2. Dir.kind = "dir"
  BY DEF Dir
<1> QED
  BY <1>1, <1>2

\* Every node is below directories, up to the root.
LEMMA Ancestors ==
  ASSUME NEW d, IsTree(d), NEW p \in DOMAIN d, NEW k \in 0..Len(p)
  PROVE  /\ SubSeq(p, 1, k) \in DOMAIN d
         /\ k < Len(p) => d[SubSeq(p, 1, k)] = Dir
<1> DEFINE Ok(n) == SubSeq(p, 1, n) \in DOMAIN d /\ (n < Len(p) => d[SubSeq(p, 1, n)] = Dir)
           S == {j \in Nat : j <= Len(p) => Ok(Len(p) - j)}
<1>0. p \in Plain /\ Len(p) \in Nat
  BY TreePaths, LenProperties DEF Plain
<1>1. 0 \in S
  <2>1. SubSeq(p, 1, Len(p)) = p
    BY <1>0, SubSeqFull DEF Plain
  <2>2. Ok(Len(p) - 0)
    <3>1. Len(p) - 0 = Len(p) /\ ~(Len(p) < Len(p))
      BY <1>0
    <3>2. Ok(Len(p))
      BY <2>1, <3>1
    <3> HIDE DEF Ok
    <3> QED
      BY <3>1, <3>2
  <2> HIDE DEF Ok
  <2> QED
    BY <2>2
<1>2. ASSUME NEW j \in Nat, j \in S, j + 1 <= Len(p) PROVE Ok(Len(p) - (j + 1))
  <2>1. PICK n \in Nat : n = Len(p) - (j + 1) /\ n + 1 = Len(p) - j /\ n < Len(p)
    <3>1. j \in Nat /\ j + 1 <= Len(p)
      BY <1>2
    <3>2. /\ Len(p) - (j + 1) \in Nat /\ (Len(p) - (j + 1)) + 1 = Len(p) - j
          /\ Len(p) - (j + 1) < Len(p)
      <4> HIDE DEF S
      <4> QED
        BY <1>0, <3>1
    <3> QED
      BY <3>2
  <2>2. PICK a, b, x : a = SubSeq(p, 1, n) /\ b = SubSeq(p, 1, n + 1) /\ x = p[n + 1]
    OBVIOUS
  <2>3. n \in 0..Len(p) - 1 /\ n \in 0..Len(p)
    BY <1>0, <2>1
  <2>4. b = Append(a, x) /\ x \in FileNames \ {".."} /\ a \in Plain
    BY <1>0, <2>2, <2>3, TakeNext, TakeFacts DEF Plain
  <2>5. Ok(Len(p) - j) /\ Len(p) - j = n + 1
    BY <1>2, <2>1
  <2>6. b \in DOMAIN d
    BY <2>2, <2>5
  <2>7. Front(b) = a /\ b # <<>>
    BY <2>4, FrontOfAppend DEF Plain
  <2>8. a \in DOMAIN d /\ d[a] = Dir
    BY <2>6, <2>7 DEF IsTree
  <2>9. Ok(n)
    BY <2>2, <2>8
  <2> HIDE DEF Ok
  <2> QED
    BY <2>1, <2>9
<1>3. ASSUME NEW j \in Nat, j \in S PROVE j + 1 \in S
  BY <1>2, <1>3
<1>4. Len(p) - k \in S
  <2>1. PICK m \in Nat : m = Len(p)
    BY <1>0
  <2> HIDE DEF S
  <2>2. \A j \in 0..m - 1 : j \in S => j + 1 \in S
    BY <1>3
  <2>3. 0..m \subseteq S
    BY <1>1, <2>2, UpTo
  <2> QED
    BY <2>1, <2>3
<1>5. Ok(Len(p) - (Len(p) - k))
  <2> HIDE DEF Ok
  <2> QED
    BY <1>0, <1>4
<1> QED
  BY <1>0, <1>5

\* A step from a node leads to a node that is not a link, or nowhere.
LEMMA StepFacts ==
  ASSUME NEW d, IsTree(d), LinksLead(d), NEW at, NEW n \in FileNames,
         NEW to, to = StepTo(d, at, n), to # Nowhere
  PROVE  /\ at \in DOMAIN d /\ d[at] = Dir
         /\ to \in DOMAIN d /\ d[to].kind # "link"
         /\ n # ".." => /\ Append(at, n) \in DOMAIN d
                        /\ d[Append(at, n)].kind # "link" => to = Append(at, n)
                        /\ d[Append(at, n)].kind = "link" => to = d[Append(at, n)].to
<1>1. at \in DOMAIN d /\ d[at].kind = "dir"
  BY DEF StepTo
<1>2. d[at] = Dir /\ at \in Plain
  BY <1>1, Kinds, TreePaths
<1>3. CASE n = ".."
  <2>1. to = IF at = <<>> THEN at ELSE Front(at)
    BY <1>1, <1>3 DEF StepTo
  <2>2. at # <<>> => Front(at) \in DOMAIN d /\ d[Front(at)] = Dir
    BY <1>1 DEF IsTree
  <2>3. Dir.kind = "dir"
    BY DEF Dir
  <2> QED
    BY <1>1, <1>2, <1>3, <2>1, <2>2, <2>3
<1>4. CASE n # ".."
  <2>1. Append(at, n) \in DOMAIN d
    BY <1>1, <1>4 DEF StepTo
  <2>2. CASE d[Append(at, n)].kind # "link"
    <3>1. to = Append(at, n)
      BY <1>1, <1>4, <2>1, <2>2 DEF StepTo
    <3> QED
      BY <1>1, <1>2, <2>1, <2>2, <3>1
  <2>3. CASE d[Append(at, n)].kind = "link"
    <3>1. to = d[Append(at, n)].to /\ to \in DOMAIN d
      BY <1>1, <1>4, <2>1, <2>3 DEF StepTo
    <3>2. to \in Plain /\ Append(at, n) \in Links(d)
      BY <2>1, <2>3, <3>1, Kinds DEF Links
    <3>3. Len(to) \in 0..Len(to) /\ SubSeq(to, 1, Len(to)) = to
      BY <3>2, SubSeqFull, LenProperties DEF Plain
    <3>4. to \notin Links(d)
      BY <3>1, <3>2, <3>3 DEF LinksLead
    <3> QED
      BY <1>1, <1>2, <2>1, <2>3, <3>1, <3>4 DEF Links
  <2> QED
    BY <2>2, <2>3
<1> QED
  BY <1>3, <1>4

Sound(d) == IsTree(d) /\ LinksLead(d)
Placed(d, at) == at \in DOMAIN d /\ d[at].kind # "link"

\* A walk ends at a node that is not a link, or nowhere.
LEMMA WalkPlace ==
  ASSUME NEW d, Sound(d), NEW p \in Paths
  PROVE  WalkIn(d, p) = Nowhere \/ Placed(d, WalkIn(d, p))
<1> DEFINE S == {q \in Paths : WalkIn(d, q) = Nowhere \/ Placed(d, WalkIn(d, q))}
<1>1. <<>> \in S
  <2>1. d[<<>>] = Dir /\ <<>> \in DOMAIN d /\ Dir.kind = "dir"
    BY TreePaths DEF Sound, Dir
  <2> QED
    BY <2>1, WalkEmpty, PlainPaths DEF Placed
<1>2. ASSUME NEW q \in Paths, NEW n \in FileNames, q \in S PROVE Append(q, n) \in S
  <2>1. WalkIn(d, Append(q, n)) = StepTo(d, WalkIn(d, q), n) /\ Append(q, n) \in Paths
    BY WalkAppend, AppendProperties DEF Paths
  <2>2. StepTo(d, WalkIn(d, q), n) # Nowhere => Placed(d, StepTo(d, WalkIn(d, q), n))
    BY StepFacts DEF Sound, Placed
  <2> QED
    BY <2>1, <2>2
<1>3. p \in S
  <2> HIDE DEF S
  <2> QED
    BY <1>1, <1>2, Grow DEF Paths
<1> QED
  BY <1>3

\* A node that is not a link is reached by its own path.
LEMMA WalkCanonical ==
  ASSUME NEW d, Sound(d), NEW c, Placed(d, c)
  PROVE  WalkIn(d, c) = c
<1> DEFINE S == {q \in Plain : Placed(d, q) => WalkIn(d, q) = q}
<1>1. <<>> \in S
  BY WalkEmpty, PlainPaths
<1>2. ASSUME NEW q \in Plain, NEW n \in FileNames \ {".."}, q \in S PROVE Append(q, n) \in S
  <2>1. /\ Append(q, n) \in Plain /\ Append(q, n) # <<>> /\ Front(Append(q, n)) = q
        /\ WalkIn(d, Append(q, n)) = StepTo(d, WalkIn(d, q), n)
    BY FrontOfAppend, WalkAppend DEF Plain
  <2>2. ASSUME Placed(d, Append(q, n)) PROVE WalkIn(d, Append(q, n)) = Append(q, n)
    <3>1. q \in DOMAIN d /\ d[q] = Dir /\ Dir.kind = "dir"
      BY <2>1, <2>2 DEF Sound, IsTree, Placed, Dir
    <3>2. WalkIn(d, q) = q
      BY <1>2, <3>1 DEF Placed
    <3>3. StepTo(d, q, n) = Append(q, n)
      BY <2>2, <3>1 DEF StepTo, Placed
    <3> QED
      BY <2>1, <3>2, <3>3
  <2> QED
    BY <2>1, <2>2
<1>3. c \in Plain
  BY TreePaths DEF Sound, Placed
<1>4. c \in S
  <2> HIDE DEF S
  <2> QED
    BY <1>1, <1>2, <1>3, Grow DEF Plain
<1> QED
  BY <1>4

\* A walk that goes on has not got lost before.
LEMMA WalkPrefix ==
  ASSUME NEW d, Sound(d), NEW p \in Paths, NEW r \in Paths, WalkIn(d, p) = Nowhere
  PROVE  WalkIn(d, p \o r) = Nowhere
<1> DEFINE S == {q \in Paths : WalkIn(d, p \o q) = Nowhere}
<1>1. <<>> \in S
  BY ConcatEmptySeq, PlainPaths DEF Paths
<1>2. ASSUME NEW q \in Paths, NEW n \in FileNames, q \in S PROVE Append(q, n) \in S
  <2>1. PICK t \in Paths : t = p \o q
    BY ConcatProperties DEF Paths
  <2>2. p \o Append(q, n) = Append(t, n) /\ Append(q, n) \in Paths
    BY <2>1, ConcatAppend, AppendProperties DEF Paths
  <2>3. WalkIn(d, Append(t, n)) = StepTo(d, WalkIn(d, t), n)
    BY WalkAppend DEF Paths
  <2>4. WalkIn(d, t) = Nowhere
    BY <1>2, <2>1
  <2>5. StepTo(d, Nowhere, n) = Nowhere
    BY TreePaths DEF StepTo, Sound
  <2>6. WalkIn(d, p \o Append(q, n)) = Nowhere
    BY <2>2, <2>3, <2>4, <2>5
  <2> QED
    BY <2>2, <2>6
<1>3. r \in S
  <2> HIDE DEF S
  <2> QED
    BY <1>1, <1>2, Grow DEF Paths
<1> QED
  BY <1>3

\* What the handlers do to the disk: directories and links stay, files are
\* rewritten, and no link is made.
Grown(d, e) ==
  /\ DOMAIN d \subseteq DOMAIN e
  /\ \A p \in DOMAIN d : e[p] = d[p] \/ (d[p].kind = "file" /\ e[p].kind = "file")
  /\ \A p \in DOMAIN e : p \notin DOMAIN d => e[p].kind # "link"

LEMMA GrownFacts ==
  /\ \A d : Grown(d, d)
  /\ \A d, e, f : Grown(d, e) /\ Grown(e, f) => Grown(d, f)
<1>1. \A d : Grown(d, d)
  BY DEF Grown
<1>2. ASSUME NEW d, NEW e, NEW f, Grown(d, e), Grown(e, f) PROVE Grown(d, f)
  <2>1. DOMAIN d \subseteq DOMAIN f
    BY <1>2 DEF Grown
  <2>2. ASSUME NEW p \in DOMAIN d
        PROVE  f[p] = d[p] \/ (d[p].kind = "file" /\ f[p].kind = "file")
    BY <1>2 DEF Grown
  <2>3. ASSUME NEW p \in DOMAIN f, p \notin DOMAIN d PROVE f[p].kind # "link"
    BY <1>2, <2>3 DEF Grown
  <2> QED
    BY <2>1, <2>2, <2>3 DEF Grown
<1> QED
  BY <1>1, <1>2

LEMMA GrownPlaced ==
  ASSUME NEW d, NEW e, Grown(d, e), NEW p, Placed(d, p)
  PROVE  Placed(e, p) /\ (d[p] = Dir => e[p] = Dir)
<1>1. Dir.kind = "dir"
  BY DEF Dir
<1> QED
  BY <1>1 DEF Grown, Placed

LEMMA GrownSound ==
  ASSUME NEW d, Sound(d), NEW e, IsTree(e), Grown(d, e)
  PROVE  Sound(e) /\ Links(e) = Links(d) /\ \A p \in Links(d) : e[p] = d[p]
<1>1. Links(e) = Links(d) /\ \A p \in Links(d) : e[p] = d[p]
  BY DEF Links, Grown
<1>2. LinksLead(e)
  BY <1>1 DEF LinksLead, Sound
<1> QED
  BY <1>1, <1>2 DEF Sound

\* Where a path leads, it goes on to lead.
LEMMA WalkGrown ==
  ASSUME NEW d, Sound(d), NEW e, IsTree(e), Grown(d, e), NEW p \in Paths, WalkIn(d, p) # Nowhere
  PROVE  WalkIn(e, p) = WalkIn(d, p)
<1> DEFINE S == {q \in Paths : WalkIn(d, q) # Nowhere => WalkIn(e, q) = WalkIn(d, q)}
<1>1. <<>> \in S
  BY WalkEmpty, PlainPaths
<1>2. ASSUME NEW q \in Paths, NEW n \in FileNames, q \in S PROVE Append(q, n) \in S
  <2>1. /\ Append(q, n) \in Paths
        /\ WalkIn(d, Append(q, n)) = StepTo(d, WalkIn(d, q), n)
        /\ WalkIn(e, Append(q, n)) = StepTo(e, WalkIn(e, q), n)
    BY WalkAppend, AppendProperties DEF Paths
  <2>2. ASSUME NEW at, StepTo(d, at, n) # Nowhere PROVE StepTo(e, at, n) = StepTo(d, at, n)
    <3>1. at \in DOMAIN d /\ d[at].kind = "dir" /\ at \in DOMAIN e /\ e[at].kind = "dir"
      BY <2>2 DEF StepTo, Grown
    <3>2. CASE n = ".."
      BY <3>1, <3>2 DEF StepTo
    <3>3. CASE n # ".."
      <4>1. Append(at, n) \in DOMAIN d /\ Append(at, n) \in DOMAIN e
        BY <2>2, <3>1, <3>3 DEF StepTo, Grown
      <4>2. CASE d[Append(at, n)].kind # "link"
        <5>1. e[Append(at, n)].kind # "link"
          BY <4>1, <4>2 DEF Grown
        <5> QED
          BY <3>1, <3>3, <4>1, <4>2, <5>1 DEF StepTo
      <4>3. CASE d[Append(at, n)].kind = "link"
        <5>1. e[Append(at, n)] = d[Append(at, n)]
          BY <4>1, <4>3 DEF Grown
        <5>2. d[Append(at, n)].to \in DOMAIN d
          BY <2>2, <3>1, <3>3, <4>1, <4>3 DEF StepTo
        <5> QED
          BY <3>1, <3>3, <4>1, <4>3, <5>1, <5>2 DEF StepTo, Grown
      <4> QED
        BY <4>2, <4>3
    <3> QED
      BY <3>2, <3>3
  <2>3. StepTo(d, Nowhere, n) = Nowhere
    BY TreePaths DEF StepTo, Sound
  <2> QED
    BY <1>2, <2>1, <2>2, <2>3
<1>3. p \in S
  <2> HIDE DEF S
  <2> QED
    BY <1>1, <1>2, Grow DEF Paths
<1> QED
  BY <1>3

-----------------------------------------------------------------------------
(* Prefixes, and the deepest ancestor that exists                            *)

LEMMA PrefixFacts ==
  ASSUME NEW p \in Paths, NEW q \in Paths
  PROVE  IsPrefix(p, q) <=> Len(p) \in 0..Len(q) /\ SubSeq(q, 1, Len(p)) = p
<1>1. Len(p) \in Nat /\ Len(q) \in Nat /\ SubSeq(p, 1, Len(p)) = p
  BY SubSeqFull, LenProperties DEF Paths
<1> QED
  BY <1>1 DEF IsPrefix

LEMMA PrefixConcat ==
  ASSUME NEW p \in Paths, NEW u \in Paths
  PROVE  IsPrefix(p, p \o u) /\ p \o u \in Paths
<1>1. Len(p) \in Nat /\ Len(u) \in Nat /\ p \o u \in Paths /\ Len(p \o u) = Len(p) + Len(u)
  BY ConcatProperties, LenProperties DEF Paths
<1>2. SubSeq(p \o u, 1, Len(p) + 0) = p \o SubSeq(u, 1, 0) /\ SubSeq(u, 1, 0) = <<>>
  <2>1. 0 \in 0..Len(u)
    BY <1>1
  <2> QED
    BY <2>1, TakeOfConcat, TakeFacts DEF Paths
<1>3. p \o SubSeq(u, 1, 0) = p
  BY <1>2, ConcatEmptySeq DEF Paths
<1>4. Len(p) + 0 = Len(p) /\ Len(p) \in 0..Len(p \o u)
  BY <1>1
<1> QED
  BY <1>1, <1>2, <1>3, <1>4, PrefixFacts

LEMMA PrefixSplit ==
  ASSUME NEW X, NEW p \in Paths, NEW q \in Seq(X), Seq(X) \subseteq Paths, IsPrefix(p, q)
  PROVE  \E u \in Seq(X) : q = p \o u
<1>1. Len(p) \in 0..Len(q) /\ SubSeq(q, 1, Len(p)) = p
  BY PrefixFacts
<1>2. SubSeq(q, Len(p) + 1, Len(q)) \in Seq(X) /\ q = SubSeq(q, 1, Len(p)) \o SubSeq(q, Len(p) + 1, Len(q))
  BY <1>1, DropFacts
<1> QED
  BY <1>1, <1>2

LEMMA PrefixTrans ==
  ASSUME NEW p \in Paths, NEW q \in Paths, NEW r \in Paths, IsPrefix(p, q), IsPrefix(q, r)
  PROVE  IsPrefix(p, r)
<1>1. PICK u \in Paths, v \in Paths : q = p \o u /\ r = q \o v
  BY PrefixSplit, ZenonT(30) DEF Paths
<1>2. r = p \o (u \o v) /\ u \o v \in Paths
  <2>1. (p \o u) \o v = p \o (u \o v)
    <3>1. p \in Seq(FileNames) /\ u \in Seq(FileNames) /\ v \in Seq(FileNames)
      BY DEF Paths
    <3> QED
      BY <3>1, ConcatAssociative, SMTT(30)
  <2>2. u \o v \in Paths
    BY ConcatProperties DEF Paths
  <2>3. r = (p \o u) \o v
    BY <1>1, Zenon
  <2> QED
    BY <2>1, <2>2, <2>3, Zenon
<1> QED
  BY <1>2, PrefixConcat

LEMMA UnderConcat ==
  ASSUME NEW dirs, dirs \subseteq Paths, NEW p \in Paths, NEW u \in Paths, Under(dirs, p)
  PROVE  Under(dirs, p \o u)
<1>1. PICK dir \in dirs : IsPrefix(dir, p)
  BY DEF Under
<1>2. IsPrefix(dir, p \o u)
  BY <1>1, PrefixConcat, PrefixTrans
<1> QED
  BY <1>2 DEF Under

LEMMA UnderAppend ==
  ASSUME NEW dirs, dirs \subseteq Paths, NEW p \in Paths, NEW n \in FileNames, Under(dirs, p)
  PROVE  Under(dirs, Append(p, n))
<1>1. Append(p, n) = p \o <<n>> /\ <<n>> \in Paths
  BY AppendIsConcat DEF Paths
<1> QED
  BY <1>1, UnderConcat

LEMMA PlainNames ==
  ASSUME NEW p \in Paths
  PROVE  ".." \notin ToSet(p) <=> p \in Plain
<1>1. p \in [1..Len(p) -> FileNames] /\ Len(p) \in Nat /\ DOMAIN p = 1..Len(p)
  BY LenProperties DEF Paths
<1>2. ASSUME ".." \notin ToSet(p) PROVE p \in Plain
  <2>1. p \in [1..Len(p) -> FileNames \ {".."}]
    BY <1>1, <1>2 DEF ToSet
  <2> QED
    BY <1>1, <2>1, SeqDef DEF Plain
<1>3. ASSUME p \in Plain PROVE ".." \notin ToSet(p)
  <2>1. \A i \in 1..Len(p) : p[i] \in FileNames \ {".."}
    BY <1>3, ElementOfSeq DEF Plain
  <2> QED
    BY <1>1, <2>1 DEF ToSet
<1> QED
  BY <1>2, <1>3

LEMMA PlainParts ==
  ASSUME NEW p \in Paths, NEW q \in Paths
  PROVE  p \o q \in Plain <=> p \in Plain /\ q \in Plain
<1>1. p \in Plain /\ q \in Plain => p \o q \in Plain
  BY ConcatProperties DEF Plain
<1>2. ASSUME p \o q \in Plain PROVE p \in Plain /\ q \in Plain
  <2>1. /\ Len(p) \in Nat /\ Len(q) \in Nat /\ Len(p \o q) = Len(p) + Len(q)
        /\ \A i \in 1..Len(p) + Len(q) : (p \o q)[i] = IF i <= Len(p) THEN p[i] ELSE q[i - Len(p)]
        /\ DOMAIN p = 1..Len(p) /\ DOMAIN q = 1..Len(q)
    BY ConcatProperties, LenProperties DEF Paths
  <2>2. \A i \in 1..Len(p) + Len(q) : (p \o q)[i] # ".."
    <3>1. \A i \in 1..Len(p \o q) : (p \o q)[i] \in FileNames \ {".."}
      BY <1>2, ElementOfSeq DEF Plain
    <3> QED
      BY <2>1, <3>1
  <2>3. \A i \in 1..Len(p) : p[i] # ".."
    BY <2>1, <2>2
  <2>4. ASSUME NEW i \in 1..Len(q) PROVE q[i] # ".."
    <3>1. /\ Len(p) + i \in 1..Len(p) + Len(q) /\ ~(Len(p) + i <= Len(p))
          /\ (Len(p) + i) - Len(p) = i
      BY <2>1
    <3>2. (p \o q)[Len(p) + i] = q[i]
      BY <2>1, <3>1
    <3> QED
      BY <2>2, <3>1, <3>2
  <2> QED
    BY <2>1, <2>3, <2>4, PlainNames DEF ToSet
<1> QED
  BY <1>1, <1>2

LEMMA DeepestExists ==
  ASSUME Sound(disk), NEW p \in Paths
  PROVE  /\ DeepestAt(p) \in 0..Len(p)
         /\ Exists(SubSeq(p, 1, DeepestAt(p)))
         /\ \A j \in DeepestAt(p) + 1..Len(p) : ~Exists(SubSeq(p, 1, j))
<1> DEFINE Left == {j \in 0..Len(p) : Exists(SubSeq(p, 1, Len(p) - j))}
<1>1. Len(p) \in Nat
  BY LenProperties DEF Paths
<1>2. Len(p) \in Left
  <2>1. Len(p) - Len(p) = 0 /\ Len(p) \in 0..Len(p) /\ SubSeq(p, 1, 0) = <<>>
    BY <1>1, SubSeqEmpty
  <2>2. Walk(<<>>) = <<>> /\ <<>> # Nowhere
    <3>1. Len(Nowhere) = 1 /\ Len(<<>>) = 0
      BY DEF Nowhere
    <3> QED
      BY <3>1, WalkEmpty DEF Walk
  <2>3. Exists(SubSeq(p, 1, Len(p) - Len(p)))
    BY <2>1, <2>2 DEF Exists
  <2> HIDE DEF Exists
  <2> QED
    BY <2>1, <2>3
<1>3. PICK j \in Left : \A i \in Left : j <= i
  <2>1. Left \subseteq Nat
    OBVIOUS
  <2> HIDE DEF Left
  <2> QED
    BY <1>2, <2>1, LeastElement
<1>4. PICK k \in Nat : k = Len(p) - j /\ k \in 0..Len(p) /\ j \in 0..Len(p)
  BY <1>1
<1>5. Exists(SubSeq(p, 1, k))
  BY <1>3, <1>4
<1>6. ASSUME NEW i \in k + 1..Len(p), Exists(SubSeq(p, 1, i)) PROVE FALSE
  <2>1. PICK m \in Nat : m = Len(p) - i /\ m \in 0..Len(p) /\ Len(p) - m = i /\ m < j
    <3>1. Len(p) - i \in 0..Len(p) /\ Len(p) - (Len(p) - i) = i /\ Len(p) - i < j
      <4> HIDE DEF Left
      <4>1. i > k /\ i <= Len(p) /\ i \in Int
        BY <1>1, <1>4
      <4> QED
        BY <1>1, <1>4, <4>1
    <3> QED
      BY <3>1
  <2>2. m \in Left
    <3>1. Exists(SubSeq(p, 1, Len(p) - m))
      BY <1>6, <2>1, Zenon
    <3> HIDE DEF Exists
    <3> QED
      BY <2>1, <3>1
  <2> HIDE DEF Left
  <2> QED
    BY <1>3, <2>1, <2>2
<1>7. \E n \in 0..Len(p) :
        Exists(SubSeq(p, 1, n)) /\ \A i \in n + 1..Len(p) : ~Exists(SubSeq(p, 1, i))
  BY <1>4, <1>5, <1>6
<1> QED
  BY <1>7 DEF DeepestAt

\* A path is the deepest ancestor that exists and what is left below it.
Split(p, a, c, b) ==
  /\ a \in Paths /\ b \in Paths /\ p = a \o b /\ Len(a) = DeepestAt(p)
  /\ c = Walk(a) /\ c = Walk(SubSeq(p, 1, DeepestAt(p))) /\ Placed(disk, c) /\ c \in Plain
  /\ b = Below(p) /\ Joined(p) = c \o b
  /\ b # <<>> => b[1] \in FileNames /\ StepTo(disk, c, b[1]) = Nowhere
  /\ Exists(p) <=> b = <<>>
  /\ Exists(p) => a = p /\ c = Walk(p) /\ Joined(p) = c

LEMMA Splits ==
  ASSUME Sound(disk), NEW p \in Paths
  PROVE  \E a, c, b : Split(p, a, c, b)
<1>1. PICK k \in Nat : k = DeepestAt(p) /\ k \in 0..Len(p)
  BY DeepestExists, LenProperties DEF Paths
<1>2. Exists(SubSeq(p, 1, k)) /\ \A j \in k + 1..Len(p) : ~Exists(SubSeq(p, 1, j))
  BY <1>1, DeepestExists
<1>3. PICK a, c, b : a = SubSeq(p, 1, k) /\ b = SubSeq(p, k + 1, Len(p)) /\ c = Walk(a)
  OBVIOUS
<1>4. a \in Paths /\ b \in Paths /\ p = a \o b /\ Len(a) = k /\ Len(b) = Len(p) - k
  BY <1>1, <1>3, TakeFacts, DropFacts DEF Paths
<1>5. Placed(disk, c) /\ c \in Plain
  BY <1>2, <1>3, <1>4, WalkPlace, TreePaths DEF Walk, Exists, Placed, Sound
<1>6. b = Below(p) /\ Joined(p) = c \o b
  BY <1>1, <1>3 DEF Below, Joined
<1>0. Len(p) \in Nat /\ SubSeq(p, 1, Len(p)) = p
  BY SubSeqFull, LenProperties DEF Paths
<1>7. ASSUME b # <<>> PROVE b[1] \in FileNames /\ StepTo(disk, c, b[1]) = Nowhere /\ ~Exists(p)
  <2>1. Len(b) > 0 /\ Len(b) \in Nat
    <3>1. Len(b) \in Nat \ {0}
      BY <1>4, <1>7, EmptySeq DEF Paths
    <3> QED
      BY <3>1
  <2>9. k \in Nat /\ Len(p) \in Nat /\ Len(p) - k > 0
    BY <1>0, <1>1, <1>4, <2>1
  <2>2. k \in 0..Len(p) - 1 /\ k + 1 \in k + 1..Len(p) /\ Len(p) \in k + 1..Len(p) /\ 1 \in 1..Len(p) - k
    BY <2>9
  <2>3. b[1] = p[k + 1]
    BY <1>1, <1>3, <2>2, DropFacts DEF Paths
  <2>4. SubSeq(p, 1, k + 1) = Append(a, b[1]) /\ b[1] \in FileNames
    BY <1>3, <2>2, <2>3, TakeNext DEF Paths
  <2>5. Walk(Append(a, b[1])) = StepTo(disk, c, b[1])
    <3>1. WalkIn(disk, Append(a, b[1])) = StepTo(disk, WalkIn(disk, a), b[1])
      BY <1>4, <2>4, WalkAppend DEF Paths
    <3> QED
      BY <1>3, <3>1 DEF Walk
  <2>6. ~Exists(SubSeq(p, 1, k + 1)) /\ ~Exists(SubSeq(p, 1, Len(p)))
    BY <1>2, <2>2
  <2> QED
    BY <1>0, <2>4, <2>5, <2>6 DEF Exists
<1>8. ASSUME b = <<>> PROVE a = p /\ c \o b = c /\ Exists(p) /\ c = Walk(p)
  <2>1. a = p
    BY <1>4, <1>8, ConcatEmptySeq DEF Paths
  <2>2. c \o b = c
    BY <1>5, <1>8, ConcatEmptySeq DEF Plain
  <2>3. Exists(p)
    BY <1>2, <1>3, <2>1
  <2> QED
    BY <1>3, <2>1, <2>2, <2>3
<1>9. Split(p, a, c, b)
  BY <1>1, <1>3, <1>4, <1>5, <1>6, <1>7, <1>8 DEF Split
<1> QED
  BY <1>9

-----------------------------------------------------------------------------
(* What is made: directories below one that exists, and files                *)

LEMMA FrontIsShorter ==
  ASSUME NEW p \in Plain, p # <<>>
  PROVE  Front(p) \in Plain /\ Front(p) # p
<1>1. Front(p) \in Plain /\ Len(Front(p)) = Len(p) - 1 /\ Len(p) \in Nat
  BY FrontFacts DEF Plain
<1> QED
  BY <1>1

LEMMA DirIsNoLink == Dir.kind = "dir" /\ \A bytes : FileOf(bytes).kind = "file" /\ FileOf(bytes).bytes = bytes
BY DEF Dir, FileOf

LEMMA FileMade ==
  ASSUME Sound(disk), NEW at \in Plain, at # <<>>, Front(at) \in DOMAIN disk, disk[Front(at)] = Dir,
         at \in DOMAIN disk => disk[at].kind = "file",
         NEW bytes \in Seq(Byte),
         NEW d, d = [p \in DOMAIN disk \cup {at} |-> IF p = at THEN FileOf(bytes) ELSE disk[p]]
  PROVE  IsTree(d) /\ Grown(disk, d)
<1>1. /\ DOMAIN d = DOMAIN disk \cup {at} /\ d[at] = FileOf(bytes)
      /\ \A p \in DOMAIN disk : p # at => d[p] = disk[p]
  OBVIOUS
<1>2. Grown(disk, d)
  BY <1>1, DirIsNoLink DEF Grown
<1>3. IsFiniteSet(DOMAIN d) /\ DOMAIN d \subseteq Plain /\ <<>> \in DOMAIN d /\ d[<<>>] = Dir
  <2>1. IsFiniteSet(DOMAIN disk) /\ DOMAIN disk \subseteq Plain /\ <<>> \in DOMAIN disk /\ disk[<<>>] = Dir
    BY TreePaths DEF Sound, IsTree
  <2>2. IsFiniteSet(DOMAIN disk \cup {at})
    BY <2>1, FS_AddElement
  <2> QED
    BY <1>1, <2>1, <2>2
<1>4. ASSUME NEW p \in DOMAIN d
      PROVE  /\ \/ d[p] = Dir
                \/ d[p].kind = "file" /\ d[p] = FileOf(d[p].bytes) /\ d[p].bytes \in Seq(Byte)
                \/ d[p].kind = "link" /\ d[p] = LinkTo(d[p].to) /\ d[p].to \in Plain
             /\ p # <<>> => Front(p) \in DOMAIN d /\ d[Front(p)] = Dir
  <2>1. CASE p = at
    <3>1. d[p].kind = "file" /\ d[p] = FileOf(d[p].bytes) /\ d[p].bytes \in Seq(Byte)
      BY <1>1, <2>1, DirIsNoLink
    <3>2. Front(p) \in DOMAIN d /\ d[Front(p)] = Dir
      BY <1>1, <2>1, FrontIsShorter
    <3> QED
      BY <3>1, <3>2
  <2>2. CASE p # at
    <3>1. p \in DOMAIN disk /\ d[p] = disk[p]
      BY <1>1, <2>2
    <3>2. p # <<>> => Front(p) \in DOMAIN disk /\ disk[Front(p)] = Dir
      BY <3>1 DEF Sound, IsTree
    <3>3. Front(p) = at => p = <<>>
      BY <3>2, DirIsNoLink
    <3>4. p # <<>> => Front(p) \in DOMAIN d /\ d[Front(p)] = Dir
      BY <1>1, <3>2, <3>3
    <3>5. \/ disk[p] = Dir
          \/ disk[p].kind = "file" /\ disk[p] = FileOf(disk[p].bytes) /\ disk[p].bytes \in Seq(Byte)
          \/ disk[p].kind = "link" /\ disk[p] = LinkTo(disk[p].to) /\ disk[p].to \in Plain
      BY <3>1 DEF Sound, IsTree, Plain
    <3> QED
      BY <3>1, <3>4, <3>5
  <2> QED
    BY <2>1, <2>2

<1>5. IsTree(d)
  BY <1>3, <1>4 DEF IsTree, Plain
<1> QED
  BY <1>2, <1>5

LEMMA DirsAreMade ==
  ASSUME Sound(disk), NEW path \in Paths, Below(path) \in Plain, CanMakeDirs(path),
         NEW d, d = DirsMade(path)
  PROVE  /\ IsTree(d) /\ Grown(disk, d)
         /\ \A p \in DOMAIN d : p \notin DOMAIN disk => d[p] = Dir
         /\ \A p \in DOMAIN disk : d[p] = disk[p]
         /\ Joined(path) \in DOMAIN d /\ d[Joined(path)] = Dir
         /\ WalkIn(d, path) = Joined(path)
<1>1. PICK a, c, b : Split(path, a, c, b)
  BY Splits
<1>2. PICK m \in Nat, n \in Nat : m = Len(b) /\ n = Len(c)
  BY <1>1, LenProperties DEF Split, Paths, Plain
<1>3. /\ b \in Plain /\ c \in Plain /\ a \in Paths /\ c \in DOMAIN disk /\ disk[c].kind = "dir"
      /\ b # <<>> => Append(c, b[1]) \notin DOMAIN disk
  <2>1. IsDir(c) /\ (b # <<>> => Append(c, Head(b)) \notin DOMAIN disk)
    BY <1>1 DEF Split, CanMakeDirs
  <2>2. b \in Plain /\ c \in Plain /\ a \in Paths
    BY <1>1 DEF Split
  <2>3. Head(b) = b[1]
    BY <2>2 DEF Plain
  <2> QED
    BY <2>1, <2>2, <2>3 DEF IsDir
<1>4. disk[c] = Dir
  BY <1>3, Kinds DEF Sound
<1> DEFINE M(i) == c \o SubSeq(b, 1, i)
           made == {M(i) : i \in 1..m}
<1>5. M(0) = c /\ M(m) = c \o b
  BY <1>2, <1>3, TakeFacts, ConcatEmptySeq DEF Plain
<1>6. ASSUME NEW i \in 1..m
      PROVE  /\ M(i) \in Plain /\ M(i) # <<>> /\ Front(M(i)) = M(i - 1) /\ Len(M(i)) = n + i
             /\ SubSeq(M(i), 1, n + 1) = Append(c, b[1])
  <2>1. i - 1 \in 0..m - 1 /\ i \in 0..m /\ (i - 1) + 1 = i /\ i - 1 \in 0..m /\ m >= 1 /\ 1 \in 0..m
    BY <1>6
  <2>2. PICK u, v, x, y : u = SubSeq(b, 1, i - 1) /\ v = SubSeq(b, 1, i) /\ x = b[i] /\ y = SubSeq(b, 1, 1)
    OBVIOUS
  <2>3. v = Append(u, x) /\ x \in FileNames \ {".."} /\ u \in Plain /\ v \in Plain /\ Len(v) = i
    <3>1. SubSeq(b, 1, (i - 1) + 1) = Append(SubSeq(b, 1, i - 1), b[(i - 1) + 1]) /\ b[(i - 1) + 1] \in FileNames \ {".."}
      BY <1>2, <1>3, <2>1, TakeNext DEF Plain
    <3>2. u \in Plain /\ v \in Plain /\ Len(v) = i
      BY <1>2, <1>3, <2>1, <2>2, TakeFacts DEF Plain
    <3> QED
      BY <2>1, <2>2, <3>1, <3>2
  <2>4. c \o v = Append(c \o u, x) /\ c \o u \in Plain
    BY <1>3, <2>3, ConcatAppend DEF Plain
  <2>5. c \o v \in Plain /\ c \o v # <<>> /\ Front(c \o v) = c \o u
    <3>1. PICK t \in Plain : t = c \o u
      BY <2>4
    <3>2. Append(t, x) \in Plain /\ Append(t, x) # <<>> /\ Front(Append(t, x)) = t
      BY <2>3, FrontOfAppend DEF Plain
    <3> QED
      BY <2>4, <3>1, <3>2
  <2>6. Len(c \o v) = n + i
    BY <1>2, <1>3, <2>3, ConcatProperties DEF Plain
  <2>7. SubSeq(c \o v, 1, n + 1) = c \o SubSeq(v, 1, 1)
    <3>1. 1 \in 0..Len(v) /\ c \in Seq(FileNames \ {".."}) /\ v \in Seq(FileNames \ {".."})
      BY <1>3, <2>1, <2>3 DEF Plain
    <3>2. SubSeq(c \o v, 1, Len(c) + 1) = c \o SubSeq(v, 1, 1)
      BY <3>1, TakeOfConcat
    <3> QED
      BY <1>2, <3>2
  <2>8. SubSeq(v, 1, 1) = SubSeq(b, 1, 1)
    <3>1. 1 \in 0..Len(v) /\ 1 \in 0..Len(b)
      BY <1>2, <2>1, <2>3
    <3>2. /\ SubSeq(v, 1, 1) \in Plain /\ Len(SubSeq(v, 1, 1)) = 1 /\ \A j \in 1..1 : SubSeq(v, 1, 1)[j] = v[j]
          /\ SubSeq(b, 1, 1) \in Plain /\ Len(SubSeq(b, 1, 1)) = 1 /\ \A j \in 1..1 : SubSeq(b, 1, 1)[j] = b[j]
      BY <1>3, <2>3, <3>1, TakeFacts DEF Plain
    <3>3. v[1] = b[1]
      <4>1. i \in 0..Len(b) /\ 1 \in 1..i
        BY <1>2, <2>1
      <4> QED
        BY <1>3, <2>2, <4>1, TakeFacts DEF Plain
    <3> QED
      BY <3>2, <3>3, SeqEqual DEF Plain
  <2>9. c \o SubSeq(b, 1, 1) = Append(c, b[1])
    <3>1. 0 \in 0..Len(b) - 1
      BY <1>2, <2>1
    <3>2. SubSeq(b, 1, 0 + 1) = Append(SubSeq(b, 1, 0), b[0 + 1]) /\ b[0 + 1] \in FileNames \ {".."}
      BY <1>3, <3>1, TakeNext DEF Plain
    <3>3. SubSeq(b, 1, 0) = <<>> /\ <<>> \in Plain
      BY SubSeqEmpty, PlainPaths
    <3>4. c \o Append(<<>>, b[1]) = Append(c \o <<>>, b[1])
      BY <1>3, <3>2, <3>3, ConcatAppend DEF Plain
    <3>5. c \o <<>> = c
      BY <1>3, ConcatEmptySeq DEF Plain
    <3> QED
      BY <3>2, <3>3, <3>4, <3>5
  <2> QED
    BY <2>2, <2>4, <2>5, <2>6, <2>7, <2>8, <2>9
<1> SUFFICES ASSUME TRUE PROVE
         /\ IsTree(d) /\ Grown(disk, d)
         /\ \A p \in DOMAIN d : p \notin DOMAIN disk => d[p] = Dir
         /\ \A p \in DOMAIN disk : d[p] = disk[p]
         /\ Joined(path) \in DOMAIN d /\ d[Joined(path)] = Dir
         /\ WalkIn(d, path) = Joined(path)
  OBVIOUS
<1>7. made \cap DOMAIN disk = {}
  <2> SUFFICES ASSUME NEW i \in 1..m, M(i) \in DOMAIN disk PROVE FALSE
    OBVIOUS
  <2>1. PICK q : q = M(i) /\ q \in DOMAIN disk
    OBVIOUS
  <2>2. /\ Len(q) = n + i /\ SubSeq(q, 1, n + 1) = Append(c, b[1]) /\ n + 1 \in 0..Len(q)
        /\ b # <<>>
    <3> HIDE DEF M
    <3>1. Len(q) = n + i /\ SubSeq(q, 1, n + 1) = Append(c, b[1])
      BY <1>6, <2>1
    <3>2. n + 1 \in 0..n + i
      OBVIOUS
    <3>3. b # <<>>
      BY <1>2
    <3> QED
      BY <3>1, <3>2, <3>3
  <2>3. SubSeq(q, 1, n + 1) \in DOMAIN disk
    BY <2>1, <2>2, Ancestors DEF Sound
  <2> QED
    BY <1>3, <2>2, <2>3
<1>8. d = [p \in DOMAIN disk \cup made |-> IF p \in DOMAIN disk THEN disk[p] ELSE Dir]
  <2> DEFINE J == c \o b
             all == {SubSeq(J, 1, k) : k \in n + 1..Len(J)}
  <2>1. J \in Plain /\ Len(J) = n + m /\ Len(J) - m = n
    BY <1>2, <1>3, ConcatProperties DEF Plain
  <2>2. \A i \in 0..m : SubSeq(J, 1, n + i) = M(i)
    BY <1>2, <1>3, TakeOfConcat, SMTT(30) DEF Plain
  <2>3. Joined(path) = J /\ Below(path) = b
    BY <1>1 DEF Split
  <2> HIDE DEF J, M
  <2>4. all = made
    <3>1. \A k \in n + 1..n + m : k - n \in 1..m /\ n + (k - n) = k
      OBVIOUS
    <3>2. \A i \in 1..m : n + i \in n + 1..n + m /\ i \in 0..m
      OBVIOUS
    <3>3. ASSUME NEW x \in all PROVE x \in made
      <4>1. PICK k \in n + 1..n + m : x = SubSeq(J, 1, k)
        BY <2>1, <3>3
      <4>2. k - n \in 1..m /\ k - n \in 0..m /\ n + (k - n) = k
        BY <3>1, <3>2
      <4>3. x = M(k - n)
        BY <2>2, <4>1, <4>2
      <4> QED
        BY <4>2, <4>3
    <3>4. ASSUME NEW x \in made PROVE x \in all
      <4>1. PICK i \in 1..m : x = M(i)
        BY <3>4
      <4>2. n + i \in n + 1..Len(J) /\ x = SubSeq(J, 1, n + i)
        BY <2>1, <2>2, <3>2, <4>1
      <4> QED
        BY <4>2
    <3> QED
      BY <3>3, <3>4
  <2>5. DirsMade(path) = [p \in DOMAIN disk \cup all |-> IF p \in DOMAIN disk THEN disk[p] ELSE Dir]
    <3>1. Len(Joined(path)) - Len(Below(path)) = n
      BY <1>2, <2>1, <2>3
    <3> QED
      BY <2>3, <3>1 DEF DirsMade
  <2> QED
    BY <2>4, <2>5
<1>9. /\ DOMAIN d = DOMAIN disk \cup made
      /\ \A p \in DOMAIN disk : d[p] = disk[p]
      /\ \A p \in made : d[p] = Dir
  BY <1>7, <1>8
<1>10. \A p \in DOMAIN d : p \notin DOMAIN disk => d[p] = Dir
  BY <1>9
<1>11. Grown(disk, d)
  BY <1>9, <1>10, DirIsNoLink DEF Grown
<1>12. IsFiniteSet(DOMAIN d) /\ DOMAIN d \subseteq Plain /\ <<>> \in DOMAIN d /\ d[<<>>] = Dir
  <2>1. IsFiniteSet(DOMAIN disk) /\ DOMAIN disk \subseteq Plain /\ <<>> \in DOMAIN disk /\ disk[<<>>] = Dir
    BY TreePaths DEF Sound, IsTree
  <2>2. IsFiniteSet(made)
    <3>1. IsFiniteSet(1..m)
      BY FS_Interval
    <3> DEFINE f == [i \in 1..m |-> M(i)]
    <3> HIDE DEF M
    <3>2. f \in Surjection(1..m, made)
      BY DEF Surjection
    <3> QED
      BY <3>1, <3>2, FS_Surjection
  <2>3. made \subseteq Plain
    BY <1>6
  <2>4. IsFiniteSet(DOMAIN disk \cup made)
    BY <2>1, <2>2, FS_Union
  <2> HIDE DEF made
  <2> QED
    BY <1>9, <2>1, <2>3, <2>4
<1>13. \A i \in 0..m : M(i) \in DOMAIN d /\ d[M(i)] = Dir
  <2> SUFFICES ASSUME NEW i \in 0..m PROVE M(i) \in DOMAIN d /\ d[M(i)] = Dir
    OBVIOUS
  <2>1. CASE i = 0
    BY <1>3, <1>4, <1>5, <1>9, <2>1
  <2>2. CASE i # 0
    <3>1. M(i) \in made
      BY <2>2, SMTT(30)
    <3> HIDE DEF made, M
    <3> QED
      BY <1>9, <3>1
  <2> QED
    BY <2>1, <2>2
<1>14. ASSUME NEW p \in DOMAIN d
       PROVE  /\ \/ d[p] = Dir
                 \/ d[p].kind = "file" /\ d[p] = FileOf(d[p].bytes) /\ d[p].bytes \in Seq(Byte)
                 \/ d[p].kind = "link" /\ d[p] = LinkTo(d[p].to) /\ d[p].to \in Plain
              /\ p # <<>> => Front(p) \in DOMAIN d /\ d[Front(p)] = Dir
  <2>1. CASE p \in DOMAIN disk
    <3>1. \/ disk[p] = Dir
          \/ disk[p].kind = "file" /\ disk[p] = FileOf(disk[p].bytes) /\ disk[p].bytes \in Seq(Byte)
          \/ disk[p].kind = "link" /\ disk[p] = LinkTo(disk[p].to) /\ disk[p].to \in Plain
      BY <2>1 DEF Sound, IsTree, Plain
    <3>2. p # <<>> => Front(p) \in DOMAIN disk /\ disk[Front(p)] = Dir
      BY <2>1 DEF Sound, IsTree
    <3> HIDE DEF made
    <3> QED
      BY <1>9, <2>1, <3>1, <3>2
  <2>2. CASE p \notin DOMAIN disk
    <3>1. PICK i \in 1..m : p = M(i)
      BY <1>9, <2>2
    <3>2. Front(p) = M(i - 1) /\ i - 1 \in 0..m
      BY <1>6, <3>1
    <3> HIDE DEF M
    <3> QED
      BY <1>10, <1>13, <2>2, <3>2
  <2> QED
    BY <2>1, <2>2
<1>15. IsTree(d)
  <2> HIDE DEF made
  <2> QED
    BY <1>12, <1>14 DEF IsTree, Plain
<1>16. Joined(path) = M(m)
  BY <1>1, <1>5 DEF Split
<1>17. Joined(path) \in DOMAIN d /\ d[Joined(path)] = Dir
  <2>1. m \in 0..m
    OBVIOUS
  <2> HIDE DEF M
  <2> QED
    BY <1>13, <1>16, <2>1
<1>18. WalkIn(d, path) = Joined(path)
  <2>1. Sound(d)
    BY <1>11, <1>15, GrownSound
  <2>2. WalkIn(d, c \o b) = c \o b
    BY <1>5, <1>16, <1>17, <2>1, WalkCanonical, DirIsNoLink DEF Placed
  <2>3. c # Nowhere /\ c = WalkIn(disk, a)
    BY <1>1, <1>3, TreePaths DEF Split, Sound, Walk
  <2>4. WalkIn(d, a) = c
    BY <1>3, <1>11, <1>15, <2>3, WalkGrown
  <2>5. WalkIn(d, c) = c
    BY <1>3, <1>4, <1>9, <2>1, WalkCanonical, DirIsNoLink DEF Placed
  <2>6. c \in Paths /\ b \in Paths /\ path = a \o b
    BY <1>1, <1>3, PlainPaths DEF Split
  <2>7. WalkIn(d, a \o b) = WalkIn(d, c \o b)
    BY <1>3, <2>4, <2>5, <2>6, WalkJoin DEF Paths
  <2> QED
    BY <1>5, <1>16, <2>2, <2>6, <2>7
<1> QED
  BY <1>9, <1>10, <1>11, <1>15, <1>17, <1>18

-----------------------------------------------------------------------------
(* Paths that were resolved inside a root stay inside one                    *)

FilesBase ==
  /\ Sound(disk) /\ firstDisk \in Disks /\ Grown(firstDisk, disk)
  /\ roots = CanonicalRoots(firstDisk)
  /\ Walk(DataDir) = WalkIn(firstDisk, DataDir)
  /\ Walk(DataDir) \in DOMAIN disk /\ disk[Walk(DataDir)] = Dir

\* A place that was not on the disk at the start, except as a link into nothing.
Edge(at) ==
  at \in DOMAIN firstDisk =>
    at \in Links(firstDisk) /\ firstDisk[at].to \notin DOMAIN firstDisk
\* What is found below an enterable place inside a root.
Held(c, b) ==
  /\ Placed(disk, c) /\ c \in Plain /\ b \in Plain /\ Inside(c)
  /\ b # <<>> => Edge(Append(c, b[1]))

LEMMA FirstDiskFacts ==
  ASSUME FilesBase
  PROVE  /\ Sound(firstDisk) /\ LinksStayInside(firstDisk)
         /\ roots \subseteq Plain /\ \A dir \in roots : Placed(firstDisk, dir)
         /\ DataDir \in Paths /\ Walk(DataDir) \in Plain
<1>1. firstDisk \in Disks
  BY DEF FilesBase
<1>2. IsTree(firstDisk) /\ LinksLead(firstDisk) /\ LinksStayInside(firstDisk) /\ DataDir \in Paths
  BY <1>1, FilesAssumption DEF Paths
<1>3. Sound(firstDisk)
  BY <1>2 DEF Sound
<1>4. ASSUME NEW dir \in roots PROVE dir \in Plain /\ Placed(firstDisk, dir)
  <2>1. PICK e \in RawRoots : dir = WalkIn(firstDisk, e.path) /\ WalkIn(firstDisk, e.path) # Nowhere
    BY <1>4 DEF FilesBase, CanonicalRoots
  <2>2. e.path \in Paths
    BY FilesAssumption DEF Paths
  <2>3. Placed(firstDisk, dir)
    BY <1>3, <2>1, <2>2, WalkPlace
  <2> QED
    BY <1>2, <2>3, TreePaths DEF Placed
<1>5. Walk(DataDir) \in Plain
  BY TreePaths DEF FilesBase, Sound
<1> QED
  BY <1>2, <1>3, <1>4, <1>5

\* The first place below a node.
LEMMA FirstBelow ==
  ASSUME NEW c \in Plain, NEW b \in Plain, b # <<>>
  PROVE  /\ b[1] \in FileNames \ {".."} /\ Append(c, b[1]) \in Plain
         /\ Len(c) + 1 \in 0..Len(c \o b) /\ SubSeq(c \o b, 1, Len(c) + 1) = Append(c, b[1])
         /\ Len(Append(c, b[1])) = Len(c) + 1 /\ Front(Append(c, b[1])) = c /\ Append(c, b[1]) # <<>>
         /\ SubSeq(b, 1, 1) = <<b[1]>> /\ 1 \in 0..Len(b)
<1>1. Len(b) \in Nat /\ Len(b) > 0 /\ Len(c) \in Nat /\ Len(c \o b) = Len(c) + Len(b)
  BY FrontFacts, ConcatProperties, LenProperties DEF Plain
<1>2. 0 \in 0..Len(b) - 1 /\ 1 \in 0..Len(b) /\ 0 \in 0..Len(b)
  BY <1>1
<1>3. SubSeq(b, 1, 0 + 1) = Append(SubSeq(b, 1, 0), b[0 + 1]) /\ b[0 + 1] \in FileNames \ {".."}
  BY <1>2, TakeNext DEF Plain
<1>4. SubSeq(b, 1, 0) = <<>>
  BY SubSeqEmpty
<1>5. SubSeq(b, 1, 1) = <<b[1]>> /\ b[1] \in FileNames \ {".."} /\ <<b[1]>> \in Plain
  <2>1. Append(<<>>, b[1]) = <<b[1]>>
    OBVIOUS
  <2>2. SubSeq(b, 1, 1) \in Plain
    BY <1>2, TakeFacts DEF Plain
  <2>3. 0 + 1 = 1
    OBVIOUS
  <2>4. SubSeq(b, 1, 1) = Append(<<>>, b[1]) /\ b[1] \in FileNames \ {".."}
    BY <1>3, <1>4, <2>3
  <2> QED
    BY <2>1, <2>2, <2>4
<1>6. SubSeq(c \o b, 1, Len(c) + 1) = c \o SubSeq(b, 1, 1)
  BY <1>2, TakeOfConcat DEF Plain
<1>7. Append(c, b[1]) = c \o <<b[1]>>
  BY <1>5, AppendIsConcat DEF Plain
<1>8. /\ Append(c, b[1]) \in Plain /\ Len(Append(c, b[1])) = Len(c) + 1
      /\ Front(Append(c, b[1])) = c /\ Append(c, b[1]) # <<>>
  BY <1>5, FrontOfAppend DEF Plain
<1>9. Len(c) + 1 \in 0..Len(c \o b)
  BY <1>1
<1> QED
  BY <1>2, <1>5, <1>6, <1>7, <1>8, <1>9

LEMMA HeldWhenResolved ==
  ASSUME FilesBase, NEW p \in Paths, NEW a, NEW c, NEW b, Split(p, a, c, b), b \in Plain, Inside(c \o b)
  PROVE  Held(c, b)
<1>1. Placed(disk, c) /\ c \in Plain /\ (b # <<>> => StepTo(disk, c, b[1]) = Nowhere)
  BY DEF Split
<1>0. Sound(disk) /\ Grown(firstDisk, disk)
  BY DEF FilesBase
<1> DEFINE x == Append(c, b[1])
<1>2. ASSUME b # <<>> PROVE Edge(x)
  <2>1. b[1] # ".." /\ x \in Plain /\ Front(x) = c /\ x # <<>>
    BY <1>1, <1>2, FirstBelow
  <2> HIDE DEF x
  <2>2. ASSUME x \in DOMAIN firstDisk
        PROVE  x \in Links(firstDisk) /\ firstDisk[x].to \notin DOMAIN firstDisk
    <3>1. x \in DOMAIN disk /\ x # Nowhere
      BY <1>0, <2>2, TreePaths DEF Grown, Sound
    <3>2. c \in DOMAIN disk /\ disk[c].kind = "dir"
      BY <1>0, <2>1, <3>1, DirIsNoLink DEF Sound, IsTree
    <3>3. disk[x].kind = "link" /\ disk[x].to \notin DOMAIN disk
      <4>1. StepTo(disk, c, b[1]) = Nowhere
        BY <1>1, <1>2
      <4>2. disk[x].kind = "link"
        BY <2>1, <3>1, <3>2, <4>1 DEF StepTo, x
      <4>3. disk[x].to \in DOMAIN disk => disk[x].to # Nowhere
        BY <1>0, TreePaths DEF Sound
      <4> QED
        BY <2>1, <3>1, <3>2, <4>1, <4>2, <4>3 DEF StepTo, x
    <3>4. disk[x] = firstDisk[x]
      BY <1>0, <2>2, <3>3 DEF Grown
    <3> QED
      BY <1>0, <2>2, <3>3, <3>4 DEF Grown, Links
  <2> QED
    BY <2>2 DEF Edge
<1>3. Inside(c)
  <2>1. PICK dir \in roots : IsPrefix(dir, c \o b)
    BY DEF Inside, Under
  <2>2. dir \in Plain /\ Placed(firstDisk, dir) /\ Sound(firstDisk)
    BY FirstDiskFacts
  <2>3. Len(dir) \in 0..Len(c \o b) /\ SubSeq(c \o b, 1, Len(dir)) = dir /\ c \o b \in Plain
    <3>1. c \o b \in Plain
      BY <1>1, ConcatProperties DEF Plain
    <3> QED
      BY <2>1, <2>2, <3>1, PrefixFacts, PlainPaths
  <2>0. PICK n \in Nat, m \in Nat : n = Len(c) /\ m = Len(dir)
    BY <1>1, <2>2, LenProperties DEF Plain
  <2>4. CASE m <= n
    <3>1. SubSeq(c, 1, m) = dir
      <4>1. m \in 0..Len(c)
        BY <2>0, <2>4
      <4>2. c = SubSeq(c, 1, m) \o SubSeq(c, m + 1, Len(c)) /\ SubSeq(c, m + 1, Len(c)) \in Plain /\ SubSeq(c, 1, m) \in Plain /\ Len(SubSeq(c, 1, m)) = m
        BY <1>1, <4>1, DropFacts, TakeFacts, ZenonT(30) DEF Plain
      <4>3. PICK u \in Plain, v \in Plain : u = SubSeq(c, 1, m) /\ v = SubSeq(c, m + 1, Len(c)) /\ c = u \o v /\ Len(u) = m
        BY <4>2
      <4>4. c \o b = u \o (v \o b) /\ v \o b \in Plain
        <5>1. (u \o v) \o b = u \o (v \o b)
          <6>1. u \in Seq(FileNames \ {".."}) /\ v \in Seq(FileNames \ {".."}) /\ b \in Seq(FileNames \ {".."})
            BY DEF Plain
          <6> QED
            BY <6>1, ConcatAssociative
        <5>2. v \o b \in Plain
          BY ConcatProperties DEF Plain
        <5>3. c \o b = (u \o v) \o b
          BY <4>3, Zenon
        <5> QED
          BY <5>1, <5>2, <5>3, Zenon
      <4>5. SubSeq(u \o (v \o b), 1, Len(u)) = u
        <5>1. PICK w \in Plain : w = v \o b
          BY <4>4
        <5>2. IsPrefix(u, u \o w) /\ u \o w \in Paths
          BY PrefixConcat, PlainPaths
        <5>3. SubSeq(u \o w, 1, Len(u)) = u
          BY <5>2, PrefixFacts, PlainPaths
        <5> QED
          BY <5>1, <5>3
      <4> QED
        BY <2>0, <2>3, <4>3, <4>4, <4>5
    <3>2. IsPrefix(dir, c)
      <4>1. m \in 0..Len(c)
        BY <2>0, <2>4
      <4> QED
        BY <1>1, <2>0, <2>2, <3>1, <4>1, PrefixFacts, PlainPaths
    <3> QED
      BY <3>2 DEF Inside, Under
  <2>5. CASE ~(m <= n)
    <3>1. b # <<>>
      <4>1. b = <<>> => c \o b = c
        BY <1>1, ConcatEmptySeq DEF Plain
      <4> QED
        BY <2>0, <2>3, <2>5, <4>1
    <3>2. SubSeq(c \o b, 1, n + 1) = x /\ Edge(x) /\ Len(x) = n + 1
      BY <1>1, <1>2, <2>0, <3>1, FirstBelow
    <3> HIDE DEF x
    <3>3. SubSeq(dir, 1, n + 1) = x
      <4>1. PICK q \in Plain : q = c \o b /\ m \in 0..Len(q) /\ SubSeq(q, 1, m) = dir /\ SubSeq(q, 1, n + 1) = x
        BY <2>0, <2>3, <3>2
      <4>2. q = dir \o SubSeq(q, m + 1, Len(q)) /\ SubSeq(q, m + 1, Len(q)) \in Plain
        BY <4>1, DropFacts DEF Plain
      <4>3. n + 1 \in 1..m /\ 1 \in 1..m
        BY <2>5
      <4>4. SubSeq(dir \o SubSeq(q, m + 1, Len(q)), 1, n + 1) = SubSeq(dir, 1, n + 1)
        BY <2>0, <2>2, <4>2, <4>3, SubSeqOfConcat1 DEF Plain
      <4> QED
        BY <4>1, <4>2, <4>4
    <3>4. n + 1 \in 0..Len(dir)
      BY <2>0, <2>5
    <3>5. x \in DOMAIN firstDisk /\ (n + 1 < Len(dir) => firstDisk[x] = Dir)
      BY <2>2, <3>3, <3>4, Ancestors DEF Sound, Placed
    <3>6. x \in Links(firstDisk)
      BY <3>2, <3>5 DEF Edge
    <3>7. n + 1 = Len(dir)
      BY <3>4, <3>5, <3>6, <2>0, DirIsNoLink DEF Links
    <3>8. x = dir
      BY <2>2, <3>3, <3>7, SubSeqFull DEF Plain
    <3> QED
      BY <2>2, <3>6, <3>8 DEF Links, Placed
  <2> QED
    BY <2>4, <2>5
<1> QED
  BY <1>1, <1>2, <1>3 DEF Held

\* The existing part of a path begins with any prefix that exists.
Beyond(q, r, a, b) == \E k \in 0..Len(r) : a = q \o SubSeq(r, 1, k) /\ b = SubSeq(r, k + 1, Len(r))

LEMMA SplitBelow ==
  ASSUME Sound(disk), NEW q \in Paths, NEW r \in Paths, Exists(q),
         NEW p \in Paths, p = q \o r, NEW a, NEW c, NEW b, Split(p, a, c, b)
  PROVE  Beyond(q, r, a, b)
<1>1. p \in Paths /\ p = q \o r
  BY ConcatProperties DEF Paths
<1>2. PICK l \in Nat, m \in Nat, n \in Nat : l = Len(q) /\ m = Len(r) /\ n = DeepestAt(p) /\ Len(p) = l + m
  <2>1. Len(q) \in Nat /\ Len(r) \in Nat /\ Len(p) = Len(q) + Len(r) /\ Len(p) \in Nat
    BY <1>1, ConcatProperties, LenProperties DEF Paths
  <2>2. DeepestAt(p) \in Nat
    BY <2>1, DeepestExists
  <2> QED
    BY <2>1, <2>2
<1>3. n \in 0..l + m /\ \A j \in n + 1..l + m : ~Exists(SubSeq(p, 1, j))
  BY <1>2, DeepestExists
<1>4. SubSeq(p, 1, l) = q
  BY <1>1, <1>2, PrefixConcat, PrefixFacts
<1>5. n >= l
  <2> SUFFICES ASSUME ~(n >= l) PROVE FALSE
    OBVIOUS
  <2>1. l \in n + 1..l + m
    BY <1>3
  <2> QED
    BY <1>3, <1>4, <2>1
<1>6. PICK k \in 0..m : l + k = n
  <2>1. n - l \in 0..m /\ l + (n - l) = n
    BY <1>3, <1>5
  <2> QED
    BY <2>1
<1>7. PICK u \in Paths, v \in Paths : u = SubSeq(r, 1, k) /\ v = SubSeq(r, k + 1, Len(r)) /\ r = u \o v
  <2>1. k \in 0..Len(r)
    BY <1>2
  <2>2. SubSeq(r, 1, k) \in Paths
    BY <2>1, TakeFacts DEF Paths
  <2>3. SubSeq(r, k + 1, Len(r)) \in Paths /\ r = SubSeq(r, 1, k) \o SubSeq(r, k + 1, Len(r))
    BY <2>1, DropFacts DEF Paths
  <2> QED
    BY <2>2, <2>3
<1>8. SubSeq(p, 1, n) = q \o u
  <2>1. k \in 0..Len(r)
    BY <1>2
  <2>2. SubSeq(q \o r, 1, Len(q) + k) = q \o SubSeq(r, 1, k)
    BY <2>1, TakeOfConcat DEF Paths
  <2> QED
    BY <1>1, <1>2, <1>6, <1>7, <2>2
<1>9. a \in Paths /\ b \in Paths /\ p = a \o b /\ Len(a) = n
  BY <1>1, <1>2 DEF Split
<1>10. a = q \o u
  <2>1. SubSeq(a \o b, 1, Len(a)) = a
    BY <1>9, PrefixConcat, PrefixFacts
  <2> QED
    BY <1>8, <1>9, <2>1
<1>11. b = v
  <2>1. (q \o u) \o v = q \o (u \o v)
    <3>1. q \in Seq(FileNames) /\ u \in Seq(FileNames) /\ v \in Seq(FileNames)
      BY DEF Paths
    <3> QED
      BY <3>1, ConcatAssociative
  <2>2. a \o b = a \o v
    <3>1. a \o b = q \o (u \o v)
      BY <1>1, <1>7, <1>9, Zenon
    <3>2. a \o v = (q \o u) \o v
      BY <1>10, Zenon
    <3> QED
      BY <2>1, <3>1, <3>2, Zenon
  <2>3. \A S : \A s, t, w \in Seq(S) : s \o t = s \o w => t = w
    BY ConcatSimplifications
  <2>4. a \in Seq(FileNames) /\ b \in Seq(FileNames) /\ v \in Seq(FileNames)
    BY <1>9 DEF Paths
  <2> QED
    BY <2>2, <2>3, <2>4
<1> QED
  BY <1>2, <1>7, <1>10, <1>11 DEF Beyond

\* Where a held path leads: inside a root, and nowhere that was there before.
LEMMA HeldLeads ==
  ASSUME FilesBase, NEW c, NEW b, Held(c, b), NEW k \in 0..Len(b),
         NEW to, to = Walk(c \o SubSeq(b, 1, k)), to # Nowhere
  PROVE  Inside(to) /\ (k > 0 => to \notin DOMAIN firstDisk)
<1>0. /\ Sound(disk) /\ Grown(firstDisk, disk) /\ Sound(firstDisk) /\ LinksStayInside(firstDisk)
      /\ roots = CanonicalRoots(firstDisk) /\ roots \subseteq Paths
  BY FirstDiskFacts, PlainPaths DEF FilesBase
<1>1. Placed(disk, c) /\ c \in Plain /\ b \in Plain /\ Inside(c) /\ (b # <<>> => Edge(Append(c, b[1])))
  BY DEF Held
<1>2. c \in Paths /\ b \in Paths /\ Walk(c) = c
  BY <1>0, <1>1, PlainPaths, WalkCanonical DEF Walk
<1>3. PICK m \in Nat : m = Len(b)
  BY <1>2, LenProperties DEF Paths
<1> DEFINE At(i) == Walk(c \o SubSeq(b, 1, i))
           Safe(i) == At(i) # Nowhere => Inside(At(i)) /\ (i > 0 => At(i) \notin DOMAIN firstDisk)
           S == {i \in Nat : i <= m => Safe(i)}
<1>4. At(0) = c
  <2>1. SubSeq(b, 1, 0) = <<>>
    BY SubSeqEmpty
  <2>2. c \o <<>> = c
    BY <1>2, ConcatEmptySeq DEF Paths
  <2> QED
    BY <1>2, <2>1, <2>2
<1>5. 0 \in S
  BY <1>1, <1>4
\* One name further, from where nothing was at the start.
<1>6. ASSUME NEW i \in 0..m - 1
      PROVE  b[i + 1] \in FileNames \ {".."} /\ At(i + 1) = StepTo(disk, At(i), b[i + 1])
  <2>1. PICK u, v, n : u = SubSeq(b, 1, i) /\ v = SubSeq(b, 1, i + 1) /\ n = b[i + 1]
    OBVIOUS
  <2>2. v = Append(u, n) /\ n \in FileNames \ {".."} /\ u \in Paths
    <3>1. i \in 0..Len(b) - 1 /\ i \in 0..Len(b)
      BY <1>3
    <3>2. v = Append(u, n) /\ n \in FileNames \ {".."} /\ u \in Plain
      BY <1>1, <2>1, <3>1, TakeNext, TakeFacts DEF Plain
    <3> QED
      BY <3>2, PlainPaths
  <2>3. c \o v = Append(c \o u, n) /\ c \o u \in Paths
    BY <1>2, <2>2, ConcatAppend DEF Paths
  <2>4. WalkIn(disk, Append(c \o u, n)) = StepTo(disk, WalkIn(disk, c \o u), n)
    <3>1. PICK t \in Paths : t = c \o u
      BY <2>3
    <3>2. WalkIn(disk, Append(t, n)) = StepTo(disk, WalkIn(disk, t), n)
      BY <2>2, WalkAppend DEF Paths
    <3> QED
      BY <3>1, <3>2
  <2> QED
    BY <2>1, <2>2, <2>3, <2>4 DEF Walk
<1>7. ASSUME NEW at, NEW n \in FileNames \ {".."}, Placed(disk, at), Inside(at), Edge(Append(at, n)),
             NEW next, next = StepTo(disk, at, n), next # Nowhere
      PROVE  Inside(next) /\ next \notin DOMAIN firstDisk
  <2>0. PICK x : x = Append(at, n)
    OBVIOUS
  <2>1. /\ x \in DOMAIN disk /\ next \in DOMAIN disk /\ disk[next].kind # "link"
        /\ disk[x].kind # "link" => next = x
        /\ disk[x].kind = "link" => next = disk[x].to
    BY <1>0, <1>7, <2>0, StepFacts DEF Sound
  <2>2. at \in Plain
    BY <1>0, <1>7, TreePaths DEF Sound, Placed
  <2>3. Inside(x)
    BY <1>0, <1>7, <2>0, <2>2, UnderAppend, PlainPaths DEF Inside
  <2>4. CASE disk[x].kind # "link"
    <3>1. x \in DOMAIN firstDisk => firstDisk[x].kind # "link"
      BY <1>0, <2>4 DEF Grown
    <3>2. x \notin DOMAIN firstDisk
      BY <1>7, <2>0, <3>1 DEF Edge, Links
    <3> QED
      BY <2>1, <2>3, <2>4, <3>2
  <2>5. CASE disk[x].kind = "link"
    <3>1. x \in DOMAIN firstDisk /\ firstDisk[x] = disk[x] /\ x \in Links(firstDisk)
      BY <1>0, <2>1, <2>5 DEF Grown, Links
    <3>2. firstDisk[x].to \notin DOMAIN firstDisk
      BY <1>7, <2>0, <3>1 DEF Edge
    <3>3. Inside(firstDisk[x].to)
      BY <1>0, <2>3, <3>1, <3>2 DEF LinksStayInside, Inside
    <3> QED
      BY <2>1, <2>5, <3>1, <3>2, <3>3
  <2> QED
    BY <2>4, <2>5
<1>8. ASSUME NEW i \in 0..m - 1, i \in S PROVE i + 1 \in S
  <2> SUFFICES ASSUME At(i + 1) # Nowhere
               PROVE  Inside(At(i + 1)) /\ At(i + 1) \notin DOMAIN firstDisk
    OBVIOUS
  <2>1. PICK at, n, next : at = At(i) /\ n = b[i + 1] /\ next = At(i + 1)
    OBVIOUS
  <2>2. n \in FileNames \ {".."} /\ next = StepTo(disk, at, n) /\ next # Nowhere
    BY <1>6, <2>1
  <2>3. at # Nowhere
    <3>1. StepTo(disk, Nowhere, n) = Nowhere
      BY <1>0, TreePaths DEF StepTo, Sound
    <3> QED
      BY <2>2, <3>1
  <2>4. Inside(at) /\ (i > 0 => at \notin DOMAIN firstDisk)
    BY <1>8, <2>1, <2>3
  <2>5. Placed(disk, at)
    <3>1. c \o SubSeq(b, 1, i) \in Paths
      <4>1. i \in 0..Len(b)
        BY <1>3
      <4>2. SubSeq(b, 1, i) \in Paths
        BY <1>2, <4>1, TakeFacts DEF Paths
      <4> QED
        BY <1>2, <4>2, ConcatProperties DEF Paths
    <3> QED
      BY <1>0, <2>1, <2>3, <3>1, WalkPlace DEF Walk
  <2>6. Edge(Append(at, n))
    <3>1. CASE i = 0
      <4>1. at = c /\ n = b[1] /\ b # <<>>
        BY <1>3, <1>4, <2>1, <3>1
      <4> QED
        BY <1>1, <4>1
    <3>2. CASE i # 0
      <4>1. at \notin DOMAIN firstDisk
        BY <2>4, <3>2
      <4>2. at \in Plain
        BY <1>0, <2>5, TreePaths DEF Sound, Placed
      <4>3. Append(at, n) # <<>> /\ Front(Append(at, n)) = at
        BY <2>2, <4>2, FrontOfAppend DEF Plain
      <4>4. Append(at, n) \notin DOMAIN firstDisk
        BY <1>0, <4>1, <4>3 DEF Sound, IsTree
      <4> QED
        BY <4>4 DEF Edge
    <3> QED
      BY <3>1, <3>2
  <2> HIDE DEF At
  <2> QED
    BY <1>7, <2>1, <2>2, <2>4, <2>5, <2>6
<1>9. k \in S
  <2>1. 0..m \subseteq S
    <3> HIDE DEF S
    <3> QED
      BY <1>5, <1>8, UpTo
  <2> HIDE DEF S
  <2> QED
    BY <1>3, <2>1
<1>10. Safe(k) /\ to = At(k)
  BY <1>3, <1>9
<1> QED
  BY <1>10

LEMMA PlainAppend ==
  ASSUME NEW p \in Plain, NEW n \in FileNames \ {".."}
  PROVE  /\ Append(p, n) \in Plain /\ Append(p, n) # <<>>
         /\ Front(Append(p, n)) = p /\ Last(Append(p, n)) = n
BY FrontOfAppend DEF Plain

LEMMA PlainConcat ==
  ASSUME NEW p \in Plain, NEW q \in Plain, NEW n \in FileNames \ {".."}
  PROVE  p \o q \in Plain /\ p \o Append(q, n) = Append(p \o q, n)
BY ConcatAppend DEF Plain

\* What a handler of filesystem knows of the path it has resolved.
Resolved(asked, path) ==
  \E a \in Paths : \E c, b :
    /\ asked = a \o b /\ Walk(a) = c /\ path = c \o b /\ Held(c, b)

LEMMA ResolvedWhenTaken ==
  ASSUME FilesBase, NEW r, r.path \in Paths, Resolves(r)
  PROVE  Resolved(r.path, Joined(r.path)) /\ Joined(r.path) \in Plain
<1>1. Sound(disk)
  BY DEF FilesBase
<1>2. PICK a, c, b : Split(r.path, a, c, b)
  BY <1>1, Splits
<1>3. /\ a \in Paths /\ b \in Paths /\ r.path = a \o b /\ Walk(a) = c /\ Joined(r.path) = c \o b
      /\ b = Below(r.path) /\ c \in Plain
  BY <1>2 DEF Split
<1>4. b \in Plain /\ Inside(c \o b)
  BY <1>3, PlainNames DEF Resolves
<1>5. Held(c, b)
  BY <1>2, <1>4, HeldWhenResolved
<1>6. c \o b \in Plain
  BY <1>3, <1>4, ConcatProperties DEF Plain
<1> QED
  BY <1>3, <1>5, <1>6 DEF Resolved

LEMMA ResolvedLeads ==
  ASSUME FilesBase, NEW asked, NEW path, Resolved(asked, path)
  PROVE  /\ path \in Plain /\ asked \in Paths /\ Walk(asked) = Walk(path)
         /\ Exists(path) => Inside(Walk(path))
         /\ Below(path) \in Plain /\ Joined(path) \in Plain /\ Inside(Joined(path))
         /\ path = <<>> => path \in roots
<1>1. PICK a, c, b : a \in Paths /\ asked = a \o b /\ Walk(a) = c /\ path = c \o b /\ Held(c, b)
  BY DEF Resolved
<1>2. /\ Sound(disk) /\ Placed(disk, c) /\ c \in Plain /\ b \in Plain /\ Inside(c) /\ c \in Paths /\ b \in Paths
      /\ roots \subseteq Paths
  BY <1>1, FirstDiskFacts, PlainPaths DEF FilesBase, Held
<1>3. path \in Plain /\ asked \in Paths
  BY <1>1, <1>2, ConcatProperties DEF Plain, Paths
<1>4. Walk(c) = c /\ c # Nowhere
  BY <1>2, WalkCanonical, TreePaths DEF Walk, Placed, Sound
<1>5. Walk(asked) = Walk(path)
  <2>1. WalkIn(disk, a) = WalkIn(disk, c)
    BY <1>1, <1>4 DEF Walk
  <2>2. WalkIn(disk, a \o b) = WalkIn(disk, c \o b)
    BY <1>1, <1>2, <2>1, WalkJoin DEF Paths
  <2> QED
    BY <1>1, <2>2 DEF Walk
<1>6. Len(b) \in 0..Len(b) /\ SubSeq(b, 1, Len(b)) = b
  BY <1>2, SubSeqFull, LenProperties DEF Paths
<1>7. Exists(path) => Inside(Walk(path))
  <2>1. ASSUME NEW to, to = Walk(c \o SubSeq(b, 1, Len(b))), to # Nowhere PROVE Inside(to)
    BY <1>1, <1>6, <2>1, HeldLeads
  <2> QED
    BY <1>1, <1>6, <2>1 DEF Exists
<1>8. PICK a1, c1, b1 : Split(c \o b, a1, c1, b1)
  BY <1>1, <1>2, <1>3, Splits, PlainPaths
<1>9. PICK k \in 0..Len(b) : a1 = c \o SubSeq(b, 1, k) /\ b1 = SubSeq(b, k + 1, Len(b))
  <2>1. Exists(c) /\ Sound(disk) /\ c \in Paths /\ b \in Paths
    BY <1>2, <1>4 DEF Exists
  <2>2. Split(path, a1, c1, b1) /\ path = c \o b /\ path \in Paths
    BY <1>1, <1>3, <1>8, PlainPaths
  <2>3. Beyond(c, b, a1, b1)
    BY <2>1, <2>2, SplitBelow
  <2> QED
    BY <2>3 DEF Beyond
<1>10. b1 \in Plain /\ c1 \in Plain /\ c1 = Walk(c \o SubSeq(b, 1, k)) /\ c1 # Nowhere
  <2>1. b1 \in Plain
    BY <1>2, <1>9, DropFacts DEF Plain
  <2>2. c1 \in Plain /\ c1 = Walk(a1) /\ c1 \in DOMAIN disk
    BY <1>8 DEF Split, Placed
  <2> QED
    BY <1>2, <1>9, <2>1, <2>2, TreePaths DEF Sound
<1>11. Inside(c1)
  BY <1>1, <1>10, HeldLeads
<1>12. Joined(path) = c1 \o b1 /\ Below(path) = b1
  BY <1>1, <1>8 DEF Split
<1>13. Joined(path) \in Plain /\ Inside(Joined(path))
  BY <1>2, <1>10, <1>11, <1>12, UnderConcat, ConcatProperties, PlainPaths DEF Inside, Plain
<1>14. ASSUME path = <<>> PROVE path \in roots
  <2>1. c = <<>>
    <3>1. \A S : \A s, t \in Seq(S) : s \o t = <<>> => s = <<>> /\ t = <<>>
      BY ConcatSimplifications
    <3> QED
      BY <1>1, <1>2, <1>14, <3>1 DEF Paths
  <2>2. PICK dir \in roots : IsPrefix(dir, <<>>)
    BY <1>2, <2>1 DEF Inside, Under
  <2>3. Len(dir) \in 0..Len(<<>>) /\ dir \in Paths
    BY <1>2, <2>2, PrefixFacts, PlainPaths
  <2>4. dir = <<>>
    BY <2>3, EmptySeq DEF Paths
  <2> QED
    BY <1>14, <2>2, <2>4
<1> QED
  BY <1>3, <1>5, <1>7, <1>10, <1>12, <1>13, <1>14

LEMMA ResolvedStays ==
  ASSUME FilesBase, IsTree(disk'), Grown(disk, disk'), roots' = roots, firstDisk' = firstDisk,
         NEW asked, NEW path, Resolved(asked, path)
  PROVE  Resolved(asked, path)'
<1>1. PICK a, c, b : a \in Paths /\ asked = a \o b /\ Walk(a) = c /\ path = c \o b /\ Held(c, b)
  BY DEF Resolved
<1>2. Sound(disk) /\ Placed(disk, c) /\ c \in Plain /\ b \in Plain /\ Inside(c) /\ (b # <<>> => Edge(Append(c, b[1])))
  BY <1>1 DEF FilesBase, Held
<1>3. Placed(disk', c)
  BY <1>2, GrownPlaced
<1>4. WalkIn(disk, a) # Nowhere
  BY <1>1, <1>2, TreePaths DEF Walk, Placed, Sound
<1>5. WalkIn(disk', a) = WalkIn(disk, a)
  BY <1>1, <1>2, <1>4, WalkGrown
<1>6. Inside(c)' /\ (b # <<>> => Edge(Append(c, b[1]))')
  BY <1>2 DEF Inside, Edge
<1>7. Held(c, b)'
  BY <1>2, <1>3, <1>6 DEF Held
<1>8. Walk(a)' = c
  BY <1>1, <1>5 DEF Walk
<1> QED
  BY <1>1, <1>7, <1>8 DEF Resolved

\* A parent that exists already counts as made.
LEMMA NothingToMake ==
  ASSUME Sound(disk), NEW path \in Paths, IsDir(Walk(path))
  PROVE  CanMakeDirs(path) /\ Below(path) = <<>>
<1>1. PICK a, c, b : Split(path, a, c, b)
  BY Splits
<1>2. Exists(path)
  BY TreePaths DEF Exists, IsDir, Sound
<1>3. b = <<>> /\ c = Walk(path) /\ c = Walk(SubSeq(path, 1, DeepestAt(path))) /\ b = Below(path)
  BY <1>1, <1>2 DEF Split
<1> QED
  BY <1>3 DEF CanMakeDirs

\* What fs_write opens: a file, or nothing yet, in a directory.
LEMMA WhatIsOpened ==
  ASSUME Sound(disk), NEW p \in Plain, p # <<>>, MayWriteTo(p), CanMakeDirs(Front(p)),
         Joined(p) \in Plain,
         NEW d, d = DirsMade(Front(p)), NEW J, J = Joined(p)
  PROVE  /\ IsTree(d) /\ Grown(disk, d)
         /\ \A x \in DOMAIN d : x \notin DOMAIN disk => d[x] = Dir
         /\ \A x \in DOMAIN disk : d[x] = disk[x]
         /\ J # <<>> /\ Front(J) \in DOMAIN d /\ d[Front(J)] = Dir
         /\ J \in DOMAIN d => d[J].kind # "link"
<1>1. PICK q, n : q = Front(p) /\ n = Last(p) /\ q \in Plain /\ n \in FileNames \ {".."} /\ p = Append(q, n)
  BY FrontFacts DEF Plain
<1>2. p \in Paths /\ q \in Paths /\ n \in FileNames /\ n # ".."
  BY <1>1, PlainPaths
<1>3. Walk(p) = StepTo(disk, Walk(q), n)
  BY <1>1, <1>2, WalkAppend DEF Walk, Paths
<1>4. Below(q) \in Plain
  <2>1. PICK a, c, b : Split(q, a, c, b)
    BY <1>2, Splits
  <2>2. b = Below(q) /\ q = a \o b /\ a \in Paths /\ b \in Paths
    BY <2>1 DEF Split
  <2>3. a \o b \in Plain
    BY <1>1, <2>2
  <2>4. b \in Plain
    BY <2>2, <2>3, PlainParts, Zenon
  <2> QED
    BY <2>2, <2>4
<1>5. /\ IsTree(d) /\ Grown(disk, d)
      /\ \A x \in DOMAIN d : x \notin DOMAIN disk => d[x] = Dir
      /\ \A x \in DOMAIN disk : d[x] = disk[x]
      /\ Joined(q) \in DOMAIN d /\ d[Joined(q)] = Dir
  BY <1>1, <1>2, <1>4, DirsAreMade
<1>6. EntryAt(p) = IF IsDir(Walk(q)) THEN Append(Walk(q), n) ELSE Nowhere
  BY <1>1 DEF EntryAt
<1>7. CASE Exists(p)
  <2>1. PICK to : to = Walk(p) /\ to # Nowhere
    BY <1>7 DEF Exists
  <2>2. /\ Walk(q) \in DOMAIN disk /\ disk[Walk(q)] = Dir /\ Append(Walk(q), n) \in DOMAIN disk
        /\ disk[Append(Walk(q), n)].kind # "link" => to = Append(Walk(q), n)
    BY <1>2, <1>3, <2>1, StepFacts DEF Sound
  <2>3. EntryAt(p) = Append(Walk(q), n)
    BY <1>6, <2>2, DirIsNoLink DEF IsDir
  <2>4. disk[Append(Walk(q), n)].kind # "link"
    BY <2>2, <2>3 DEF MayWriteTo, IsLink
  <2>5. Walk(q) \in Plain
    BY <2>2, TreePaths DEF Sound
  <2>6. J = to
    <3>1. PICK a, c, b : Split(p, a, c, b)
      BY <1>2, Splits
    <3> QED
      BY <1>7, <2>1, <3>1 DEF Split
  <2>7. J = Append(Walk(q), n) /\ J # <<>> /\ Front(J) = Walk(q)
    <3>1. PICK w \in Plain : w = Walk(q)
      BY <2>5
    <3>2. Append(w, n) # <<>> /\ Front(Append(w, n)) = w
      BY <1>1, PlainAppend
    <3> QED
      BY <2>2, <2>4, <2>6, <3>1, <3>2
  <2>8. Front(J) \in DOMAIN d /\ d[Front(J)] = Dir
    BY <1>5, <2>2, <2>7 DEF Grown
  <2>9. d[J].kind # "link"
    BY <1>5, <2>2, <2>4, <2>7
  <2> QED
    BY <1>5, <2>7, <2>8, <2>9
<1>8. CASE ~Exists(p)
  <2>1. PICK a, c, b : Split(p, a, c, b)
    BY <1>2, Splits
  <2>2. /\ a \in Paths /\ b \in Plain /\ p = a \o b /\ Len(a) = DeepestAt(p) /\ c = Walk(a) /\ Placed(disk, c)
        /\ c \in Plain /\ J = c \o b /\ b # <<>>
    BY <1>2, <1>8, <2>1, PlainParts DEF Split
  <2>3. PICK f, l : f = Front(b) /\ l = Last(b) /\ f \in Plain /\ l \in FileNames \ {".."} /\ b = Append(f, l)
    BY <2>2, FrontFacts, ZenonT(30) DEF Plain
  <2>4. f \in Paths /\ c \in Paths /\ l \in FileNames /\ a \o f \in Paths /\ c \o f \in Plain /\ c \o f \in Paths
    BY <2>2, <2>3, PlainPaths, ConcatProperties DEF Plain, Paths
  <2>5. q = a \o f /\ l = n
    <3>1. a \o Append(f, l) = Append(a \o f, l)
      BY <2>2, <2>4, ConcatAppend DEF Paths
    <3>2. Append(a \o f, l) = Append(q, n)
      BY <1>1, <2>2, <2>3, <3>1
    <3>3. PICK t \in Paths : t = a \o f
      BY <2>4
    <3>4. Append(t, l) = Append(q, n)
      BY <3>2, <3>3
    <3>5. t = q /\ l = n
      BY <1>2, <2>4, <3>4, AppendInjective DEF Paths
    <3> QED
      BY <3>3, <3>5
  <2>6. J = Append(c \o f, n) /\ J # <<>> /\ Front(J) = c \o f
    <3>1. c \o Append(f, l) = Append(c \o f, l)
      <4>1. c \in Plain /\ f \in Plain /\ l \in FileNames \ {".."}
        BY <2>2, <2>3
      <4> QED
        BY <4>1, PlainConcat, Zenon
    <3>2. PICK t \in Plain : t = c \o f
      BY <2>4
    <3>3. Append(t, n) # <<>> /\ Front(Append(t, n)) = t
      BY <1>1, PlainAppend
    <3> QED
      BY <2>2, <2>3, <2>5, <3>1, <3>2, <3>3
  <2>7. Joined(q) = c \o f
    <3>1. PICK a1, c1, b1 : Split(a \o f, a1, c1, b1)
      BY <2>4, Splits
    <3>2. Exists(a)
      BY <2>2, TreePaths DEF Exists, Placed, Sound
    <3>3. PICK k \in 0..Len(f) : a1 = a \o SubSeq(f, 1, k) /\ b1 = SubSeq(f, k + 1, Len(f))
      <4>1. Split(q, a1, c1, b1) /\ q = a \o f /\ a \in Paths /\ f \in Paths
        BY <2>2, <2>4, <2>5, <3>1
      <4>2. Beyond(a, f, a1, b1)
        BY <1>2, <3>2, <4>1, SplitBelow
      <4> QED
        BY <4>2 DEF Beyond
    <3>4. Exists(a1) /\ a1 \in Paths /\ b1 \in Paths /\ a \o f = a1 \o b1 /\ c1 = Walk(a1) /\ Joined(a \o f) = c1 \o b1
      BY <3>1, TreePaths DEF Split, Exists, Placed, Sound
    <3>5. PICK la \in Nat, lf \in Nat : la = Len(a) /\ lf = Len(f) /\ Len(a1) = la + k /\ Len(p) = la + lf + 1
      <4>1. Len(a) \in Nat /\ Len(f) \in Nat /\ SubSeq(f, 1, k) \in Paths /\ Len(SubSeq(f, 1, k)) = k
        BY <2>2, <2>4, LenProperties, TakeFacts DEF Paths
      <4>2. Len(a1) = Len(a) + k
        BY <2>2, <3>3, <4>1, ConcatProperties DEF Paths
      <4>3. Len(b) = Len(f) + 1
        BY <2>3, FrontOfAppend DEF Plain
      <4>4. Len(p) = Len(a) + Len(b)
        BY <2>2, PlainPaths, ConcatProperties DEF Paths
      <4> QED
        BY <4>1, <4>2, <4>3, <4>4
    <3>6. SubSeq(p, 1, la + k) = a1
      <4>1. p = a1 \o Append(b1, n) /\ Append(b1, n) \in Paths
        <5>1. a1 \o Append(b1, n) = Append(a1 \o b1, n)
          BY <1>2, <3>4, ConcatAppend, SMTT(30) DEF Paths
        <5>2. Append(b1, n) \in Paths
          BY <1>2, <3>4, AppendProperties DEF Paths
        <5> QED
          BY <1>1, <2>5, <3>4, <5>1, <5>2
      <4>2. PICK w \in Paths : w = Append(b1, n) /\ p = a1 \o w
        BY <4>1
      <4>3. IsPrefix(a1, p)
        BY <3>4, <4>2, PrefixConcat
      <4> QED
        BY <1>2, <3>4, <3>5, <4>3, PrefixFacts
    <3>7. k = 0
      <4>1. k # 0 => la + k \in la + 1..la + lf + 1
        BY <3>5
      <4>2. \A j \in la + 1..la + lf + 1 : ~Exists(SubSeq(p, 1, j))
        BY <1>2, <2>2, <3>5, DeepestExists
      <4> QED
        BY <3>4, <3>6, <4>1, <4>2
    <3>8. a1 = a
      <4>1. SubSeq(f, 1, 0) = <<>>
        BY SubSeqEmpty
      <4>2. a \o <<>> = a
        BY <2>2, ConcatEmptySeq DEF Paths
      <4> QED
        BY <3>3, <3>7, <4>1, <4>2
    <3>9. b1 = f
      <4>1. 0 + 1 = 1 /\ SubSeq(f, 1, Len(f)) = f
        BY <2>4, SubSeqFull DEF Paths
      <4> QED
        BY <3>3, <3>7, <4>1
    <3> QED
      BY <2>2, <2>5, <3>4, <3>8, <3>9
  <2>8. ASSUME J \in DOMAIN d, d[J].kind = "link" PROVE FALSE
    <3>1. J \in DOMAIN disk /\ disk[J].kind = "link"
      BY <1>5, <2>8, DirIsNoLink
    <3>2. c \o f \in DOMAIN disk /\ disk[c \o f] = Dir
      BY <2>6, <3>1 DEF Sound, IsTree
    <3>3. WalkIn(disk, c \o f) = c \o f
      BY <3>2, WalkCanonical, DirIsNoLink DEF Placed
    <3>4. WalkIn(disk, c) = c
      BY <2>2, WalkCanonical
    <3>5. WalkIn(disk, a \o f) = WalkIn(disk, c \o f)
      BY <2>2, <2>4, <3>4, WalkJoin DEF Paths, Walk
    <3>6. Walk(q) = c \o f
      BY <2>5, <3>3, <3>5 DEF Walk
    <3>7. EntryAt(p) = J
      BY <1>6, <2>6, <3>2, <3>6, DirIsNoLink DEF IsDir
    <3> QED
      BY <3>1, <3>7 DEF MayWriteTo, IsLink
  <2> QED
    BY <1>5, <2>6, <2>7, <2>8
<1> QED
  BY <1>7, <1>8

-----------------------------------------------------------------------------
(* The invariant                                                             *)

Shaped(w) ==
  /\ w = [at |-> w.at, r |-> w.r, path |-> w.path, was |-> w.was, alone |-> w.alone,
          size |-> w.size, data |-> w.data]
  /\ w.alone \in BOOLEAN

\* A request of filesystem whose path is resolved.
Asked(h, w) ==
  /\ w.at \in {"fs_list", "fs_read", "fs_write"} /\ h # Gated
  /\ w.r \in FileRequests /\ w.at = w.r.action /\ ValidFileRequest(w.r)
  /\ Resolved(w.r.path, w.path)
\* A file is read: it is inside a root, and the data is what it held.
ReadingIt(w) ==
  /\ w.at = "reading" /\ w.r \in FileRequests /\ w.r.action = "fs_read"
  /\ IsFile(w.path) /\ Inside(w.path) /\ Walk(w.r.path) = w.path
  /\ w.was \in Seq(Byte) /\ w.size = Len(w.was)
  /\ w.alone => /\ w.was = BytesAt(w.path)
                /\ w.data \in {<<>>, Slice(w.was, w.r.offset + 1, w.r.offset + Window(w.r))}
\* A file is about to be written: it is not a link, and lies in a directory
\* inside a root or below the data directory.
Opening(w) ==
  /\ w.path \in Plain /\ w.path # <<>>
  /\ Front(w.path) \in DOMAIN disk /\ disk[Front(w.path)] = Dir /\ ~IsLink(w.path)
  /\ Inside(w.path) \/ IsPrefix(Walk(DataDir), w.path)
  /\ w.data \in Seq(Byte)
Putting(w) == w.at = "put" /\ Opening(w) /\ IsFile(w.path) /\ (w.alone => BytesAt(w.path) = <<>>)
Appending(h, w) ==
  w.at = "append" /\ h = Gated /\ Opening(w) /\ (w.alone => w.was = BytesAt(w.path))
\* A confirmed write: a path below the data directory, by its text.
Confirmed(h, w) ==
  /\ w.at \in {"parents", "escape"} /\ h = Gated /\ w.r \in GatedRequests
  /\ \E p \in Plain : p # <<>> /\ w.path = DataDir \o p
  /\ w.at = "escape" => IsDir(Walk(Front(w.path)))

WorkOK(h, w) ==
  \/ w = NoWork
  \/ /\ Shaped(w)
     /\ \/ Asked(h, w) \/ ReadingIt(w) \/ (w.at = "empty" /\ Opening(w)) \/ Putting(w)
        \/ Appending(h, w) \/ Confirmed(h, w)

ReplyOK(w, reply) ==
  reply.ok =>
    /\ "data" \in DOMAIN reply => /\ w.r.path \in Paths /\ Exists(w.r.path) /\ Inside(Walk(w.r.path))
                                  /\ w.alone => ReadIsTrue(w, reply)
    /\ "holds" \in DOMAIN reply => (w.alone => WriteIsTrue(w, reply))
    /\ "shown" \in DOMAIN reply => reply.truncated = (ToSet(reply.entries) # reply.shown)

Kept ==
  \A p \in DOMAIN disk :
    Elsewhere(p) => IF p \in DOMAIN firstDisk THEN disk[p] = firstDisk[p] ELSE disk[p] = Dir

FilesInv ==
  /\ FilesBase /\ Kept
  /\ DOMAIN fileWork = FileHandlers \cup {Gated}
  /\ \A h \in FileHandlers \cup {Gated} : WorkOK(h, fileWork[h])
  /\ \E S : fileReplies \in Seq(S)
  /\ \A i \in DOMAIN fileReplies : ReplyOK(fileReplies[i].work, fileReplies[i].reply)
  /\ gatePending \subseteq GatedRequests

LEMMA RequestPaths ==
  /\ \A r \in FileRequests : r.path \in Paths
  /\ \A p \in GatedRequests : p.path \in Paths /\ p.bytes \in Seq(Byte)
  /\ DataDir \in Paths
BY FilesAssumption DEF Paths

LEMMA WorkPath ==
  ASSUME FilesBase, NEW h, NEW w, WorkOK(h, w)
  PROVE  w.path \in Paths
<1>1. CASE w = NoWork
  BY <1>1, PlainPaths DEF NoWork
<1>2. CASE Asked(h, w)
  BY <1>2, ResolvedLeads, PlainPaths DEF Asked
<1>3. CASE ReadingIt(w)
  BY <1>3, TreePaths DEF ReadingIt, IsFile, FilesBase, Sound
<1>4. CASE Opening(w)
  BY <1>4, PlainPaths DEF Opening
<1>5. CASE Confirmed(h, w)
  BY <1>5, RequestPaths, PlainPaths, ConcatProperties DEF Confirmed, Paths
<1> QED
  BY <1>1, <1>2, <1>3, <1>4, <1>5 DEF WorkOK, Putting, Appending

\* What a step does to the disk: one file may be written, directories made.
DiskStep(at) ==
  /\ IsTree(disk') /\ Grown(disk, disk') /\ roots' = roots /\ firstDisk' = firstDisk
  /\ \A p \in DOMAIN disk : p # at => disk'[p] = disk[p]
  /\ \A p \in DOMAIN disk' : p \notin DOMAIN disk => p = at \/ disk'[p] = Dir

LEMMA BaseStays ==
  ASSUME FilesBase, NEW at, DiskStep(at)
  PROVE  /\ FilesBase' /\ Walk(DataDir)' = Walk(DataDir)
         /\ \A p : Elsewhere(p)' <=> Elsewhere(p)
         /\ \A p : Inside(p)' <=> Inside(p)
         /\ \A p \in Paths : Exists(p) => Walk(p)' = Walk(p) /\ Exists(p)'
<1>1. Sound(disk) /\ IsTree(disk') /\ Grown(disk, disk') /\ roots' = roots /\ firstDisk' = firstDisk
  BY DEF FilesBase, DiskStep
<1>2. Sound(disk')
  BY <1>1, GrownSound
<1>3. \A p \in Paths : Exists(p) => Walk(p)' = Walk(p) /\ Exists(p)'
  <2> SUFFICES ASSUME NEW p \in Paths, Exists(p) PROVE Walk(p)' = Walk(p) /\ Exists(p)'
    OBVIOUS
  <2>1. WalkIn(disk, p) # Nowhere
    BY DEF Exists, Walk
  <2>2. WalkIn(disk', p) = WalkIn(disk, p)
    BY <1>1, <2>1, WalkGrown
  <2> QED
    BY <2>1, <2>2 DEF Exists, Walk
<1>4. Exists(DataDir)
  BY TreePaths DEF FilesBase, Exists, Sound
<1>5. Walk(DataDir)' = Walk(DataDir)
  BY <1>3, <1>4, RequestPaths
<1>6. Grown(firstDisk, disk')
  BY <1>1, GrownFacts DEF FilesBase
<1>7. Walk(DataDir) \in DOMAIN disk' /\ disk'[Walk(DataDir)] = Dir
  BY <1>1, DirIsNoLink DEF FilesBase, Grown
<1>8. FilesBase'
  <2>1. firstDisk' \in Disks /\ roots' = CanonicalRoots(firstDisk')
    BY <1>1 DEF FilesBase
  <2>2. Walk(DataDir)' = WalkIn(firstDisk', DataDir)
    BY <1>1, <1>5 DEF FilesBase
  <2>3. Walk(DataDir)' \in DOMAIN disk' /\ disk'[Walk(DataDir)'] = Dir
    BY <1>5, <1>7
  <2> QED
    BY <1>1, <1>2, <1>6, <2>1, <2>2, <2>3 DEF FilesBase
<1>9. \A p : Inside(p)' <=> Inside(p)
  BY <1>1 DEF Inside
<1>10. \A p : Elsewhere(p)' <=> Elsewhere(p)
  BY <1>5, <1>9 DEF Elsewhere
<1> QED
  BY <1>3, <1>5, <1>8, <1>9, <1>10

LEMMA KeptStays ==
  ASSUME FilesBase, Kept, NEW at, DiskStep(at), at \in DOMAIN disk' => ~Elsewhere(at)
  PROVE  Kept'
<1> SUFFICES ASSUME NEW p \in DOMAIN disk', Elsewhere(p)
             PROVE  IF p \in DOMAIN firstDisk THEN disk'[p] = firstDisk[p] ELSE disk'[p] = Dir
  BY BaseStays DEF Kept, DiskStep
<1>1. p # at
  OBVIOUS
<1>2. DOMAIN firstDisk \subseteq DOMAIN disk
  BY DEF FilesBase, Grown
<1> QED
  BY <1>1, <1>2 DEF Kept, DiskStep

\* Files that are not written hold what they held.
LEMMA BytesStay ==
  ASSUME FilesBase, NEW at, DiskStep(at), NEW p, p # at
  PROVE  BytesAt(p)' = BytesAt(p) /\ (IsFile(p)' <=> IsFile(p)) /\ (IsLink(p)' <=> IsLink(p))
<1>1. CASE p \in DOMAIN disk
  <2>1. disk'[p] = disk[p] /\ p \in DOMAIN disk'
    BY <1>1 DEF DiskStep, Grown
  <2> QED
    BY <1>1, <2>1 DEF BytesAt, IsFile, IsLink
<1>2. CASE p \notin DOMAIN disk
  <2>1. p \in DOMAIN disk' => disk'[p] = Dir
    BY <1>2 DEF DiskStep
  <2> QED
    BY <1>2, <2>1, DirIsNoLink DEF BytesAt, IsFile, IsLink
<1> QED
  BY <1>1, <1>2

LEMMA OpeningStays ==
  ASSUME FilesBase, NEW at, DiskStep(at), NEW w, Opening(w)
  PROVE  Opening(w)'
<1>1. Walk(DataDir)' = Walk(DataDir) /\ (Inside(w.path)' <=> Inside(w.path))
  BY BaseStays
<1>2. Front(w.path) \in DOMAIN disk' /\ disk'[Front(w.path)] = Dir
  BY DirIsNoLink DEF Opening, DiskStep, Grown
<1>3. ~IsLink(w.path)'
  BY DEF Opening, DiskStep, Grown, IsLink
<1> QED
  BY <1>1, <1>2, <1>3 DEF Opening

\* The work of a handler, and that of one whose file another has written.
LEMMA WorkStays ==
  ASSUME FilesBase, NEW at, DiskStep(at), NEW h, NEW w, WorkOK(h, w)
  PROVE  /\ w.path # at => WorkOK(h, w)'
         /\ w # NoWork => WorkOK(h, [w EXCEPT !.alone = FALSE])'
<1>0. FilesBase' /\ Walk(DataDir)' = Walk(DataDir) /\ \A p : Inside(p)' <=> Inside(p)
  BY BaseStays
<1>1. CASE w = NoWork
  BY <1>1 DEF WorkOK
<1>2. CASE w # NoWork
  <2>0. Shaped(w)
    BY <1>2 DEF WorkOK
  <2>1. PICK v : v = [w EXCEPT !.alone = FALSE]
    OBVIOUS
  <2>2. /\ v.at = w.at /\ v.r = w.r /\ v.path = w.path /\ v.was = w.was /\ v.alone = FALSE
        /\ v.size = w.size /\ v.data = w.data /\ Shaped(v)
    BY <2>0, <2>1 DEF Shaped
  <2>3. CASE Asked(h, w)
    <3>1. Resolved(w.r.path, w.path)'
      BY <2>3, ResolvedStays DEF Asked, DiskStep
    <3>2. Asked(h, w)' /\ Asked(h, v)'
      BY <2>2, <2>3, <3>1 DEF Asked, ValidFileRequest
    <3> QED
      BY <2>0, <2>1, <2>2, <3>2 DEF WorkOK, Shaped
  <2>4. CASE ReadingIt(w)
    <3>1. IsFile(w.path)'
      BY <2>4 DEF ReadingIt, IsFile, DiskStep, Grown
    <3>2. Walk(w.r.path)' = w.path
      <4>1. w.r.path \in Paths
        BY <2>4, RequestPaths DEF ReadingIt
      <4>2. Exists(w.r.path)
        BY <2>4, TreePaths DEF ReadingIt, Exists, IsFile, FilesBase, Sound
      <4> QED
        BY <2>4, <4>1, <4>2, BaseStays DEF ReadingIt
    <3>3. ReadingIt(v)'
      BY <1>0, <2>2, <2>4, <3>1, <3>2 DEF ReadingIt
    <3>4. w.path # at => BytesAt(w.path)' = BytesAt(w.path)
      BY BytesStay
    <3>5. w.path # at => ReadingIt(w)'
      BY <1>0, <2>4, <3>1, <3>2, <3>4 DEF ReadingIt
    <3> QED
      BY <2>0, <2>1, <2>2, <3>3, <3>5 DEF WorkOK, Shaped
  <2>5. CASE w.at = "empty" /\ Opening(w)
    <3>1. Opening(w)'
      BY <2>5, OpeningStays
    <3>2. Opening(v)'
      BY <2>2, <3>1 DEF Opening
    <3> QED
      BY <2>0, <2>1, <2>2, <2>5, <3>1, <3>2 DEF WorkOK, Shaped
  <2>6. CASE Putting(w)
    <3>1. Opening(w)' /\ IsFile(w.path)'
      BY <2>6, OpeningStays DEF Putting, IsFile, DiskStep, Grown
    <3>2. Putting(v)'
      BY <2>2, <2>6, <3>1 DEF Opening, Putting
    <3>3. w.path # at => Putting(w)'
      BY <2>6, <3>1, BytesStay DEF Putting
    <3> QED
      BY <2>0, <2>1, <2>2, <3>2, <3>3 DEF WorkOK, Shaped
  <2>7. CASE Appending(h, w)
    <3>1. Opening(w)'
      BY <2>7, OpeningStays DEF Appending
    <3>2. Appending(h, v)'
      BY <2>2, <2>7, <3>1 DEF Opening, Appending
    <3>3. w.path # at => Appending(h, w)'
      BY <2>7, <3>1, BytesStay DEF Appending
    <3> QED
      BY <2>0, <2>1, <2>2, <3>2, <3>3 DEF WorkOK, Shaped
  <2>8. CASE Confirmed(h, w)
    <3>1. ASSUME w.at = "escape" PROVE IsDir(Walk(Front(w.path)))'
      <4>1. IsDir(Walk(Front(w.path)))
        BY <2>8, <3>1 DEF Confirmed
      <4>2. Front(w.path) \in Paths
        <5>1. PICK p \in Plain : p # <<>> /\ w.path = DataDir \o p
          BY <2>8 DEF Confirmed
        <5>2. p \in Paths /\ DataDir \in Paths
          BY PlainPaths, RequestPaths
        <5>3. w.path \in Paths /\ w.path # <<>>
          <6>1. \A S : \A s, t \in Seq(S) : s \o t = <<>> => s = <<>> /\ t = <<>>
            BY ConcatSimplifications
          <6>2. DataDir \o p \in Paths
            BY <5>2, ConcatProperties DEF Paths
          <6> QED
            BY <5>1, <5>2, <6>1, <6>2 DEF Paths
        <5> QED
          BY <5>3, FrontFacts DEF Paths
      <4>3. Exists(Front(w.path))
        BY <4>1, TreePaths DEF Exists, IsDir, FilesBase, Sound
      <4>4. Walk(Front(w.path))' = Walk(Front(w.path))
        BY <4>2, <4>3, BaseStays
      <4> QED
        BY <4>1, <4>4 DEF IsDir, DiskStep, Grown
    <3>2. Confirmed(h, w)' /\ Confirmed(h, v)'
      BY <2>2, <2>8, <3>1 DEF Confirmed
    <3> QED
      BY <2>0, <2>1, <2>2, <3>2 DEF WorkOK, Shaped
  <2> QED
    BY <1>2, <2>3, <2>4, <2>5, <2>6, <2>7, <2>8 DEF WorkOK
<1> QED
  BY <1>1, <1>2

LEMMA ReplyStays ==
  ASSUME FilesBase, NEW at, DiskStep(at), NEW w, NEW reply, ReplyOK(w, reply)
  PROVE  ReplyOK(w, reply)'
<1>1. ASSUME w.r.path \in Paths, Exists(w.r.path), Inside(Walk(w.r.path))
      PROVE  Exists(w.r.path)' /\ Inside(Walk(w.r.path))'
  <2>1. Walk(w.r.path)' = Walk(w.r.path) /\ Exists(w.r.path)'
    BY <1>1, BaseStays
  <2>2. roots' = roots
    BY DEF DiskStep
  <2> QED
    BY <1>1, <2>1, <2>2 DEF Inside
<1> QED
  BY <1>1 DEF ReplyOK, ReadIsTrue, WriteIsTrue

\* A step is sound when its disk step is, and what the handler that makes it
\* is left with and answers.
LEMMA StepKeepsInv ==
  ASSUME FilesInv, NEW at, DiskStep(at), at \in DOMAIN disk' => ~Elsewhere(at),
         gatePending' \subseteq GatedRequests,
         DOMAIN fileWork' = DOMAIN fileWork, NEW h,
         h \in DOMAIN fileWork => WorkOK(h, fileWork[h])',
         \A g \in DOMAIN fileWork : g # h =>
           \/ fileWork'[g] = fileWork[g] /\ (fileWork[g].path # at \/ fileWork[g] = NoWork)
           \/ fileWork[g] # NoWork /\ fileWork'[g] = [fileWork[g] EXCEPT !.alone = FALSE],
         \/ fileReplies' = fileReplies
         \/ \E w, reply : fileReplies' = Append(fileReplies, [work |-> w, reply |-> reply])
                          /\ ReplyOK(w, reply)'
  PROVE  FilesInv'
<1>0. FilesBase /\ Kept /\ DOMAIN fileWork = FileHandlers \cup {Gated}
  BY DEF FilesInv
<1>1. FilesBase' /\ Kept'
  BY <1>0, BaseStays, KeptStays
<1>2. ASSUME NEW g \in FileHandlers \cup {Gated} PROVE WorkOK(g, fileWork[g])'
  <2>1. WorkOK(g, fileWork[g])
    BY DEF FilesInv
  <2>2. CASE g = h
    BY <1>0, <2>2
  <2>3. CASE g # h
    <3>1. CASE fileWork'[g] = fileWork[g] /\ fileWork[g].path # at
      <4>1. PICK w : w = fileWork[g]
        OBVIOUS
      <4>2. WorkOK(g, w)'
        BY <1>0, <2>1, <3>1, <4>1, WorkStays
      <4> QED
        BY <3>1, <4>1, <4>2
    <3>2. CASE fileWork'[g] = fileWork[g] /\ fileWork[g] = NoWork
      BY <3>2 DEF WorkOK
    <3>3. CASE fileWork[g] # NoWork /\ fileWork'[g] = [fileWork[g] EXCEPT !.alone = FALSE]
      <4>1. PICK w : w = fileWork[g]
        OBVIOUS
      <4>2. WorkOK(g, [w EXCEPT !.alone = FALSE])'
        BY <1>0, <2>1, <3>3, <4>1, WorkStays
      <4>3. PICK v : v = [w EXCEPT !.alone = FALSE]
        OBVIOUS
      <4>4. WorkOK(g, v)' /\ fileWork'[g] = v
        BY <3>3, <4>1, <4>2, <4>3
      <4> QED
        BY <4>4
    <3> QED
      BY <1>0, <2>3, <3>1, <3>2, <3>3
  <2> QED
    BY <2>2, <2>3
<1>3. ASSUME NEW i \in DOMAIN fileReplies PROVE ReplyOK(fileReplies[i].work, fileReplies[i].reply)'
        \/ fileReplies'[i] # fileReplies[i]
  <2>1. PICK w, reply : w = fileReplies[i].work /\ reply = fileReplies[i].reply
    OBVIOUS
  <2>2. ReplyOK(w, reply)
    BY <2>1 DEF FilesInv
  <2>3. ReplyOK(w, reply)'
    BY <1>0, <2>2, ReplyStays
  <2> QED
    BY <2>1, <2>3
<1>4. /\ \E S : fileReplies' \in Seq(S)
      /\ \A i \in DOMAIN fileReplies' : ReplyOK(fileReplies[i].work, fileReplies[i].reply)'
  <2>1. CASE fileReplies' = fileReplies
    BY <1>3, <2>1 DEF FilesInv
  <2>2. ASSUME NEW w, NEW reply, fileReplies' = Append(fileReplies, [work |-> w, reply |-> reply]), ReplyOK(w, reply)'
        PROVE  /\ \E S : fileReplies' \in Seq(S)
               /\ \A i \in DOMAIN fileReplies' : ReplyOK(fileReplies[i].work, fileReplies[i].reply)'
    <3>1. PICK S : fileReplies \in Seq(S)
      BY DEF FilesInv
    <3>2. PICK e : e = [work |-> w, reply |-> reply]
      OBVIOUS
    <3>3. fileReplies \in Seq(S \cup {e}) /\ e \in S \cup {e}
      BY <3>1, SeqMonotonic
    <3>4. /\ fileReplies' \in Seq(S \cup {e}) /\ Len(fileReplies') = Len(fileReplies) + 1
          /\ \A i \in 1..Len(fileReplies) : fileReplies'[i] = fileReplies[i]
          /\ fileReplies'[Len(fileReplies) + 1] = e
      BY <2>2, <3>2, <3>3, AppendProperties
    <3>5. /\ DOMAIN fileReplies = 1..Len(fileReplies) /\ Len(fileReplies) \in Nat
          /\ DOMAIN fileReplies' = 1..Len(fileReplies) + 1
      BY <3>1, <3>4, LenProperties
    <3>6. ASSUME NEW i \in DOMAIN fileReplies' PROVE ReplyOK(fileReplies[i].work, fileReplies[i].reply)'
      <4>1. CASE i \in DOMAIN fileReplies
        BY <1>3, <3>4, <3>5, <4>1
      <4>2. CASE i \notin DOMAIN fileReplies
        <5>1. fileReplies'[i] = e
          BY <3>4, <3>5, <3>6, <4>2
        <5>2. fileReplies'[i].work = w /\ fileReplies'[i].reply = reply
          BY <3>2, <5>1
        <5> QED
          BY <2>2, <5>2
      <4> QED
        BY <4>1, <4>2
    <3> QED
      BY <3>4, <3>6
  <2> QED
    BY <2>1, <2>2
<1> QED
  BY <1>0, <1>1, <1>2, <1>4 DEF FilesInv

-----------------------------------------------------------------------------
(* The bytes of a read, and the entries of a list                            *)

\* What one read takes: a second one from its end on takes nothing.
IsSlice(was, from, size, s) ==
  /\ s \in Seq(Byte) /\ <<>> \o s = s
  /\ Slice(was, from + Len(<<>>) + 1, from + size) = s
  /\ Slice(was, from + Len(s) + 1, from + size) = <<>>
  /\ from = 0 /\ ~(from + Len(s) < Len(was)) => s = was

LEMMA SliceFacts ==
  ASSUME NEW was \in Seq(Byte), NEW from \in Nat, NEW size \in Nat,
         NEW s, s = Slice(was, from + 1, from + size)
  PROVE  IsSlice(was, from, size, s)
<1>0. PICK n \in Nat : n = Len(was)
  BY LenProperties
<1>1. PICK to \in Nat : (from + size > n => to = n) /\ (~(from + size > n) => to = from + size)
  <2>1. from + size \in Nat
    OBVIOUS
  <2>2. CASE from + size > n
    BY <2>2
  <2>3. CASE ~(from + size > n)
    BY <2>1, <2>3
  <2> QED
    BY <2>2, <2>3
<1>2. s = SubSeq(was, from + 1, to)
  BY <1>0, <1>1 DEF Slice
<1>3. \A i \in from + 1..to : was[i] \in Byte
  <2> SUFFICES ASSUME NEW i \in from + 1..to PROVE was[i] \in Byte
    OBVIOUS
  <2>1. i \in 1..Len(was)
    BY <1>0, <1>1
  <2> QED
    BY <2>1, ElementOfSeq
<1>4. s \in Seq(Byte) /\ Len(s) = IF from + 1 <= to THEN to - (from + 1) + 1 ELSE 0
  <2>1. PICK lo \in Int : lo = from + 1
    OBVIOUS
  <2>2. \A i \in lo..to : was[i] \in Byte
    BY <1>3, <2>1
  <2>3. /\ SubSeq(was, lo, to) \in Seq(Byte)
        /\ Len(SubSeq(was, lo, to)) = IF lo <= to THEN to - lo + 1 ELSE 0
    BY <2>2, SubSeqProperties
  <2> QED
    BY <1>2, <2>1, <2>3
<1>5. <<>> \o s = s
  BY <1>4, ConcatEmptySeq
<1>6. Slice(was, from + Len(<<>>) + 1, from + size) = s
  <2>1. Len(<<>>) = 0 /\ from + 0 + 1 = from + 1
    OBVIOUS
  <2> QED
    BY <2>1
<1>7. Slice(was, from + Len(s) + 1, from + size) = <<>>
  <2>1. PICK l \in Nat : l = Len(s)
    BY <1>4, LenProperties
  <2>2. to < from + l + 1
    BY <1>4, <2>1
  <2>3. SubSeq(was, from + l + 1, to) = <<>>
    <3>1. from + l + 1 \in Int /\ to \in Int
      OBVIOUS
    <3> QED
      BY <2>2, <3>1, SubSeqEmpty
  <2>4. Slice(was, from + l + 1, from + size) = SubSeq(was, from + l + 1, to)
    BY <1>0, <1>1 DEF Slice
  <2> QED
    BY <2>1, <2>3, <2>4
<1>8. ASSUME from = 0, ~(from + Len(s) < Len(was)) PROVE s = was
  <2>1. PICK l \in Nat : l = Len(s)
    BY <1>4, LenProperties
  <2>2. to = n
    BY <1>0, <1>1, <1>4, <1>8, <2>1
  <2>3. from + 1 = 1
    BY <1>8
  <2> QED
    BY <1>0, <1>2, <2>2, <2>3, SubSeqFull
<1> QED
  BY <1>4, <1>5, <1>6, <1>7, <1>8, Zenon DEF IsSlice

LEMMA WindowIsNat ==
  ASSUME NEW r \in FileRequests, r.action = "fs_read"
  PROVE  Window(r) \in Nat /\ r.offset \in Nat
<1>1. r.offset \in Nat /\ r.max \in Nat \cup {NoLimit} /\ ReadCap \in Nat /\ HardCap \in Nat
  BY FilesAssumption
<1> QED
  BY <1>1 DEF Window, Clamped, NoLimit

\* Some order of a finite set: all of its elements, each once.
LEMMA SomeOrder ==
  ASSUME NEW S, IsFiniteSet(S)
  PROVE  /\ SetToSeq(S) \in Seq(S) /\ Len(SetToSeq(S)) = Cardinality(S) /\ Cardinality(S) \in Nat
         /\ \A i, j \in 1..Cardinality(S) : SetToSeq(S)[i] = SetToSeq(S)[j] => i = j
         /\ \A x \in S : \E i \in 1..Cardinality(S) : SetToSeq(S)[i] = x
<1>1. Cardinality(S) \in Nat /\ ExistsBijection(1..Cardinality(S), S)
  BY FS_CardinalityType
<1>2. PICK n \in Nat : n = Cardinality(S)
  BY <1>1
<1>3. PICK g : g \in Bijection(1..n, S)
  BY <1>1, <1>2 DEF ExistsBijection
<1>4. g \in [1..n -> S] /\ IsInjective(g)
  BY <1>3 DEF Bijection, Injection
<1>5. PICK f : f = SetToSeq(S)
  OBVIOUS
<1>6. f \in [1..n -> S] /\ IsInjective(f)
  BY <1>2, <1>4, <1>5 DEF SetToSeq
<1>7. f \in Seq(S) /\ Len(f) = n
  BY <1>6, SeqDef
<1>8. \A i, j \in 1..n : f[i] = f[j] => i = j
  BY <1>6 DEF IsInjective
<1>9. \A x \in S : \E i \in 1..n : f[i] = x
  <2>1. f \in Injection(1..n, S)
    BY <1>6 DEF Injection
  <2>2. Cardinality(1..n) = n /\ IsFiniteSet(1..n)
    BY FS_Interval
  <2>3. f \in Surjection(1..n, S)
    BY <1>2, <2>1, <2>2, FS_Injection
  <2> QED
    BY <2>3 DEF Surjection
<1> QED
  BY <1>2, <1>5, <1>7, <1>8, <1>9

LEMMA ListingIsWhole ==
  ASSUME NEW shown, IsFiniteSet(shown), NEW L, L = Listing(shown)
  PROVE  (Len(L) > ListCap) = (ToSet(Slice(L, 1, ListCap)) # shown)
<1> DEFINE D == {p \in shown : IsDir(p)}
           E == {p \in shown : ~IsDir(p)}
<1>0. IsFiniteSet(D) /\ IsFiniteSet(E) /\ D \cap E = {} /\ D \cup E = shown
  <2>1. D \in SUBSET shown /\ E \in SUBSET shown
    OBVIOUS
  <2> QED
    BY <2>1, FS_Subset
<1>1. PICK a, b : a = SetToSeq(D) /\ b = SetToSeq(E)
  OBVIOUS
<1>2. L = a \o b
  BY <1>1 DEF Listing
<1> HIDE DEF D, E
<1>3. PICK m \in Nat, n \in Nat :
        /\ a \in Seq(D) /\ Len(a) = m /\ b \in Seq(E) /\ Len(b) = n
        /\ \A i, j \in 1..m : a[i] = a[j] => i = j
        /\ \A i, j \in 1..n : b[i] = b[j] => i = j
        /\ \A x \in D : \E i \in 1..m : a[i] = x
        /\ \A x \in E : \E i \in 1..n : b[i] = x
  <2>1. /\ SetToSeq(D) \in Seq(D) /\ Len(SetToSeq(D)) = Cardinality(D) /\ Cardinality(D) \in Nat
        /\ \A i, j \in 1..Cardinality(D) : SetToSeq(D)[i] = SetToSeq(D)[j] => i = j
        /\ \A x \in D : \E i \in 1..Cardinality(D) : SetToSeq(D)[i] = x
    BY <1>0, SomeOrder
  <2>2. /\ SetToSeq(E) \in Seq(E) /\ Len(SetToSeq(E)) = Cardinality(E) /\ Cardinality(E) \in Nat
        /\ \A i, j \in 1..Cardinality(E) : SetToSeq(E)[i] = SetToSeq(E)[j] => i = j
        /\ \A x \in E : \E i \in 1..Cardinality(E) : SetToSeq(E)[i] = x
    BY <1>0, SomeOrder
  <2> QED
    BY <1>1, <2>1, <2>2
<1>4. /\ L \in Seq(shown) /\ Len(L) = m + n /\ DOMAIN L = 1..m + n
      /\ \A i \in 1..m + n : L[i] = IF i <= m THEN a[i] ELSE b[i - m]
  <2>1. a \in Seq(shown) /\ b \in Seq(shown)
    BY <1>0, <1>3, SeqMonotonic
  <2>2. /\ a \o b \in Seq(shown) /\ Len(a \o b) = m + n
        /\ \A i \in 1..m + n : (a \o b)[i] = IF i <= m THEN a[i] ELSE b[i - m]
    <3>1. /\ a \o b \in Seq(shown) /\ Len(a \o b) = Len(a) + Len(b)
          /\ \A i \in 1..Len(a) + Len(b) : (a \o b)[i] = IF i <= Len(a) THEN a[i] ELSE b[i - Len(a)]
      BY <2>1, ConcatProperties
    <3>2. Len(a) = m /\ Len(b) = n
      BY <1>3
    <3> QED
      BY <3>1, <3>2
  <2> QED
    BY <1>2, <2>2, LenProperties
<1>5. \A i, j \in 1..m + n : L[i] = L[j] => i = j
  <2>1. \A i \in 1..m : a[i] \in D
    BY <1>3, ElementOfSeq
  <2>2. \A i \in 1..n : b[i] \in E
    BY <1>3, ElementOfSeq
  <2>3. ASSUME NEW i \in 1..m + n, NEW j \in 1..m + n, L[i] = L[j] PROVE i = j
    <3>1. CASE i <= m /\ j <= m
      BY <1>3, <1>4, <2>3, <3>1
    <3>2. CASE i > m /\ j > m
      <4>1. i - m \in 1..n /\ j - m \in 1..n /\ b[i - m] = b[j - m]
        BY <1>4, <2>3, <3>2
      <4>2. i - m = j - m
        BY <1>3, <4>1
      <4> QED
        BY <4>2
    <3>3. CASE i <= m /\ j > m
      <4>1. j - m \in 1..n /\ a[i] = b[j - m] /\ i \in 1..m
        BY <1>4, <2>3, <3>3
      <4> QED
        BY <1>0, <2>1, <2>2, <4>1
    <3>4. CASE i > m /\ j <= m
      <4>1. i - m \in 1..n /\ b[i - m] = a[j] /\ j \in 1..m
        BY <1>4, <2>3, <3>4
      <4> QED
        BY <1>0, <2>1, <2>2, <4>1
    <3> QED
      BY <3>1, <3>2, <3>3, <3>4
  <2> QED
    BY <2>3
<1>6. \A x \in shown : \E i \in 1..m + n : L[i] = x
  <2> SUFFICES ASSUME NEW x \in shown PROVE \E i \in 1..m + n : L[i] = x
    OBVIOUS
  <2>1. CASE x \in D
    BY <1>3, <1>4, <2>1
  <2>2. CASE x \in E
    <3>1. PICK i \in 1..n : b[i] = x
      BY <1>3, <2>2
    <3>2. m + i \in 1..m + n /\ ~(m + i <= m) /\ (m + i) - m = i
      OBVIOUS
    <3>3. L[m + i] = x
      BY <1>4, <3>1, <3>2
    <3> QED
      BY <3>2, <3>3
  <2> QED
    BY <1>0, <2>1, <2>2
<1>7. PICK k \in Nat, c \in Nat : k = m + n /\ c = ListCap
  BY FilesAssumption
<1>8. CASE k > c
  <2>1. PICK s : s = Slice(L, 1, c)
    OBVIOUS
  <2>2. s \in Seq(shown) /\ Len(s) = c /\ \A i \in 1..c : s[i] = L[i]
    <3>1. s = SubSeq(L, 1, c) /\ c \in 0..Len(L)
      BY <1>4, <1>7, <1>8, <2>1 DEF Slice
    <3> QED
      BY <1>4, <3>1, TakeFacts
  <2>3. DOMAIN s = 1..c
    BY <2>2, LenProperties
  <2>4. L[c + 1] \in shown
    <3>1. c + 1 \in 1..Len(L)
      BY <1>4, <1>7, <1>8
    <3> QED
      BY <1>4, <3>1, ElementOfSeq
  <2>5. \A i \in 1..c : s[i] # L[c + 1]
    <3>1. \A i \in 1..c : i \in 1..m + n /\ c + 1 \in 1..m + n /\ i # c + 1
      BY <1>7, <1>8
    <3> QED
      BY <1>5, <2>2, <3>1
  <2>6. ToSet(s) # shown
    BY <2>3, <2>4, <2>5 DEF ToSet
  <2> QED
    BY <1>4, <1>7, <1>8, <2>1, <2>6
<1>9. CASE ~(k > c)
  <2>1. Slice(L, 1, c) = L
    <3>1. Slice(L, 1, c) = SubSeq(L, 1, Len(L))
      BY <1>4, <1>7, <1>9 DEF Slice
    <3> QED
      BY <1>4, <3>1, SubSeqFull
  <2>2. ToSet(L) = shown
    <3>1. \A i \in 1..m + n : L[i] \in shown
      BY <1>4, ElementOfSeq
    <3> QED
      BY <1>4, <1>6, <3>1 DEF ToSet
  <2> QED
    BY <1>4, <1>7, <1>9, <2>1, <2>2
<1> QED
  BY <1>8, <1>9

\* The one choice of content a valid write has.
LEMMA ContentIsBytes ==
  ASSUME NEW r \in FileRequests, r.action = "fs_write", ValidFileRequest(r)
  PROVE  Content(r) \in Seq(Byte)
<1>1. /\ DOMAIN r.content \subseteq {"text", "base64"}
      /\ \A k \in DOMAIN r.content : r.content[k] \in Seq(Byte)
      /\ Cardinality(DOMAIN r.content) = 1
  BY FilesAssumption DEF ValidFileRequest
<1>2. DOMAIN r.content # {}
  <2> SUFFICES ASSUME DOMAIN r.content = {} PROVE FALSE
    OBVIOUS
  <2>1. Cardinality({}) = 1
    BY <1>1
  <2>2. Cardinality({}) = 0
    BY FS_EmptySet
  <2> QED
    BY <2>1, <2>2
<1>3. CASE "text" \in DOMAIN r.content
  BY <1>1, <1>3 DEF Content
<1>4. CASE "text" \notin DOMAIN r.content
  <2>1. "base64" \in DOMAIN r.content
    BY <1>1, <1>2, <1>4
  <2> QED
    BY <1>1, <1>4, <2>1 DEF Content
<1> QED
  BY <1>3, <1>4

-----------------------------------------------------------------------------
(* The steps that leave the disk alone                                       *)

LEMMA FilesInvInit == FilesInit => FilesInv
<1> SUFFICES ASSUME FilesInit PROVE FilesInv
  OBVIOUS
<1>1. disk \in Disks /\ firstDisk = disk /\ roots = CanonicalRoots(disk)
  BY DEF FilesInit
<1>2. IsTree(disk) /\ LinksLead(disk) /\ WalkIn(disk, DataDir) \in DOMAIN disk /\ disk[WalkIn(disk, DataDir)] = Dir
  BY <1>1, FilesAssumption
<1>3. FilesBase
  BY <1>1, <1>2, GrownFacts DEF FilesBase, Sound, Walk
<1>4. Kept
  BY <1>1 DEF Kept
<1>5. /\ DOMAIN fileWork = FileHandlers \cup {Gated}
      /\ \A h \in FileHandlers \cup {Gated} : WorkOK(h, fileWork[h])
  BY DEF FilesInit, WorkOK
<1>6. fileReplies \in Seq({}) /\ DOMAIN fileReplies = {}
  BY EmptySeq DEF FilesInit
<1>7. gatePending \subseteq GatedRequests
  BY DEF FilesInit
<1> QED
  BY <1>3, <1>4, <1>5, <1>6, <1>7 DEF FilesInv

LEMMA StillDisk ==
  ASSUME FilesBase, UNCHANGED <<disk, roots, firstDisk>>
  PROVE  DiskStep(Nowhere) /\ Nowhere \notin DOMAIN disk'
<1>1. IsTree(disk') /\ Nowhere \notin DOMAIN disk
  BY TreePaths DEF FilesBase, Sound
<1> QED
  BY <1>1, GrownFacts DEF DiskStep

LEMMA NotNowhere ==
  ASSUME FilesInv, NEW h \in FileHandlers \cup {Gated}
  PROVE  WorkOK(h, fileWork[h]) /\ fileWork[h].path \in Paths /\ fileWork[h].path # Nowhere
<1>1. FilesBase /\ WorkOK(h, fileWork[h])
  BY DEF FilesInv
<1>2. fileWork[h].path \in Paths
  BY <1>1, WorkPath
<1> QED
  BY <1>1, <1>2, TreePaths DEF FilesBase, Sound

\* A handler goes on, the disk as it was or with more directories.
LEMMA HandlerStep ==
  ASSUME FilesInv, DiskStep(Nowhere), Nowhere \notin DOMAIN disk',
         gatePending' \subseteq GatedRequests,
         NEW h \in FileHandlers \cup {Gated}, NEW v, fileWork' = [fileWork EXCEPT ![h] = v], WorkOK(h, v)',
         \/ fileReplies' = fileReplies
         \/ \E w, reply : fileReplies' = Append(fileReplies, [work |-> w, reply |-> reply])
                          /\ ReplyOK(w, reply)'
  PROVE  FilesInv'
<1>1. DOMAIN fileWork = FileHandlers \cup {Gated}
  BY DEF FilesInv
<1>2. DOMAIN fileWork' = DOMAIN fileWork /\ \A g \in DOMAIN fileWork : g # h => fileWork'[g] = fileWork[g]
  OBVIOUS
<1>3. \A g \in DOMAIN fileWork : g # h => fileWork'[g] = fileWork[g] /\ fileWork[g].path # Nowhere
  BY <1>1, <1>2, NotNowhere
<1>4. WorkOK(h, fileWork[h])'
  <2>1. fileWork'[h] = v
    BY <1>1
  <2> QED
    BY <2>1
<1> QED
  BY <1>2, <1>3, <1>4, StepKeepsInv

LEMMA NoHandlerStep ==
  ASSUME FilesInv, UNCHANGED <<disk, roots, firstDisk, fileWork>>, gatePending' \subseteq GatedRequests,
         \/ fileReplies' = fileReplies
         \/ \E w, reply : fileReplies' = Append(fileReplies, [work |-> w, reply |-> reply])
                          /\ ReplyOK(w, reply)'
  PROVE  FilesInv'
<1>0. FilesBase /\ DOMAIN fileWork = FileHandlers \cup {Gated}
  BY DEF FilesInv
<1>1. DiskStep(Nowhere) /\ Nowhere \notin DOMAIN disk'
  BY <1>0, StillDisk
<1>2. \A g \in DOMAIN fileWork : fileWork'[g] = fileWork[g] /\ fileWork[g].path # Nowhere
  BY <1>0, NotNowhere
<1>3. WorkOK(Gated, fileWork[Gated])'
  <2>1. PICK w : w = fileWork[Gated] /\ WorkOK(Gated, w) /\ w.path # Nowhere
    BY NotNowhere
  <2>2. WorkOK(Gated, w)'
    BY <1>0, <1>1, <2>1, WorkStays
  <2>3. fileWork'[Gated] = w
    BY <2>1
  <2> QED
    BY <2>2, <2>3
<1> QED
  BY <1>0, <1>1, <1>2, <1>3, StepKeepsInv

\* A request is refused, or ends without having done anything.
LEMMA RefusalIsOK == \A w : ReplyOK(w, FileRefused)' /\ \A h : WorkOK(h, NoWork)'
BY DEF ReplyOK, FileRefused, WorkOK

LEMMA RefusedStep ==
  ASSUME FilesInv, UNCHANGED <<disk, roots, firstDisk, gatePending>>,
         NEW h \in FileHandlers \cup {Gated}, FileReply(h, FileRefused)
  PROVE  FilesInv'
<1>1. FilesBase /\ gatePending' \subseteq GatedRequests
  BY DEF FilesInv
<1>2. DiskStep(Nowhere) /\ Nowhere \notin DOMAIN disk'
  BY <1>1, StillDisk
<1>3. PICK w : w = fileWork[h] /\ fileReplies' = Append(fileReplies, [work |-> w, reply |-> FileRefused])
  BY DEF FileReply, Recorded
<1>4. fileWork' = [fileWork EXCEPT ![h] = NoWork]
  BY DEF FileReply
<1>5. \E x, reply : fileReplies' = Append(fileReplies, [work |-> x, reply |-> reply]) /\ ReplyOK(x, reply)'
  BY <1>3, RefusalIsOK
<1>6. WorkOK(h, NoWork)'
  BY RefusalIsOK
<1> QED
  BY <1>1, <1>2, <1>4, <1>5, <1>6, HandlerStep

LEMMA RecordedRefusal ==
  ASSUME FilesInv, UNCHANGED <<disk, roots, firstDisk, fileWork>>, gatePending' \subseteq GatedRequests,
         NEW w, Recorded(w, FileRefused)
  PROVE  FilesInv'
<1>1. \E x, reply : fileReplies' = Append(fileReplies, [work |-> x, reply |-> reply]) /\ ReplyOK(x, reply)'
  BY RefusalIsOK DEF Recorded
<1> QED
  BY <1>1, NoHandlerStep

\* A handler goes on without an answer.
LEMMA GoesOn ==
  ASSUME FilesInv, UNCHANGED <<disk, roots, firstDisk, fileReplies>>, gatePending' \subseteq GatedRequests,
         NEW h \in FileHandlers \cup {Gated}, NEW v, fileWork' = [fileWork EXCEPT ![h] = v], WorkOK(h, v)
  PROVE  FilesInv'
<1>1. FilesBase
  BY DEF FilesInv
<1>2. DiskStep(Nowhere) /\ Nowhere \notin DOMAIN disk'
  BY <1>1, StillDisk
<1>3. WorkOK(h, v)'
  <2>1. v.path # Nowhere
    BY <1>1, WorkPath, TreePaths DEF FilesBase, Sound
  <2> QED
    BY <1>1, <1>2, <2>1, WorkStays
<1> QED
  BY <1>2, <1>3, HandlerStep

\* The work of a handler nobody has disturbed yet.
Begun(at, r, path, was, data, size) ==
  [at |-> at, r |-> r, path |-> path, was |-> was, alone |-> TRUE, size |-> size, data |-> data]

LEMMA BegunFacts ==
  ASSUME NEW at, NEW r, NEW path, NEW was, NEW data, NEW size, NEW w, w = Begun(at, r, path, was, data, size)
  PROVE  /\ w.at = at /\ w.r = r /\ w.path = path /\ w.was = was /\ w.alone
         /\ w.size = size /\ w.data = data /\ Shaped(w)
<1>0. w = [at |-> at, r |-> r, path |-> path, was |-> was, alone |-> TRUE, size |-> size, data |-> data]
  BY DEF Begun
<1>1. /\ w.at = at /\ w.r = r /\ w.path = path /\ w.was = was
      /\ w.size = size /\ w.data = data
  BY <1>0
<1>2. w.alone = TRUE
  BY <1>0
<1>3. w = [at |-> w.at, r |-> w.r, path |-> w.path, was |-> w.was, alone |-> w.alone,
           size |-> w.size, data |-> w.data]
  BY <1>0, <1>1, <1>2, Zenon
<1> QED
  BY <1>1, <1>2, <1>3 DEF Shaped

LEMMA WorkingBegun ==
  ASSUME NEW at, NEW r, NEW path
  PROVE  /\ Working(at, r, path) = Begun(at, r, path, BytesAt(path), <<>>, 0)
         /\ \A x : [Working(at, r, path) EXCEPT !.data = x] = Begun(at, r, path, BytesAt(path), x, 0)
         /\ \A x : [Working(at, r, path) EXCEPT !.size = x] = Begun(at, r, path, BytesAt(path), <<>>, x)
<1>1. PICK was : was = BytesAt(path)
  OBVIOUS
<1>2. Working(at, r, path) = Begun(at, r, path, was, <<>>, 0)
  BY <1>1, Zenon DEF Working, Begun
<1>7. \A b, x :
        LET w == [at |-> at, r |-> r, path |-> path, was |-> was, alone |-> b, size |-> 0, data |-> <<>>]
        IN  /\ [w EXCEPT !.data = x] = [at |-> at, r |-> r, path |-> path, was |-> was, alone |-> b,
                                        size |-> 0, data |-> x]
            /\ [w EXCEPT !.size = x] = [at |-> at, r |-> r, path |-> path, was |-> was, alone |-> b,
                                        size |-> x, data |-> <<>>]
  OBVIOUS
<1>3. ASSUME NEW x
      PROVE  [Begun(at, r, path, was, <<>>, 0) EXCEPT !.data = x] = Begun(at, r, path, was, x, 0)
  BY <1>7, Zenon DEF Begun
<1>4. ASSUME NEW x
      PROVE  [Begun(at, r, path, was, <<>>, 0) EXCEPT !.size = x] = Begun(at, r, path, was, <<>>, x)
  BY <1>7, Zenon DEF Begun
<1>5. ASSUME NEW x
      PROVE  /\ [Working(at, r, path) EXCEPT !.data = x] = Begun(at, r, path, BytesAt(path), x, 0)
             /\ [Working(at, r, path) EXCEPT !.size = x] = Begun(at, r, path, BytesAt(path), <<>>, x)
  <2>1. [Working(at, r, path) EXCEPT !.data = x] = Begun(at, r, path, was, x, 0)
    BY <1>2, <1>3, Zenon
  <2>2. [Working(at, r, path) EXCEPT !.size = x] = Begun(at, r, path, was, <<>>, x)
    BY <1>2, <1>4, Zenon
  <2> QED
    BY <1>1, <2>1, <2>2, Zenon
<1>6. Working(at, r, path) = Begun(at, r, path, BytesAt(path), <<>>, 0)
  BY <1>1, <1>2, Zenon
<1> QED
  BY <1>5, <1>6, Zenon

LEMMA BytesAreBytes ==
  ASSUME Sound(disk), NEW path
  PROVE  BytesAt(path) \in Seq(Byte)
<1>1. IsFile(path) => disk[path].bytes \in Seq(Byte)
  BY Kinds DEF IsFile, Sound
<1> QED
  BY <1>1, EmptySeq DEF BytesAt

LEMMA TakeKeeps ==
  ASSUME FilesInv, NEW h \in FileHandlers, NEW r \in FileRequests, FileTake(h, r)
  PROVE  FilesInv'
<1>1. FilesBase /\ gatePending' \subseteq GatedRequests /\ UNCHANGED <<disk, roots, firstDisk>>
  BY DEF FilesInv, FileTake
<1>2. CASE ValidFileRequest(r) /\ Resolves(r)
  <2>1. PICK v : v = Working(r.action, r, Joined(r.path))
    OBVIOUS
  <2>2. fileWork' = [fileWork EXCEPT ![h] = v] /\ UNCHANGED fileReplies
    BY <1>2, <2>1 DEF FileTake
  <2>3. Resolved(r.path, Joined(r.path))
    BY <1>1, <1>2, RequestPaths, ResolvedWhenTaken
  <2>4. h # Gated /\ r.action \in {"fs_list", "fs_read", "fs_write"}
    BY FilesAssumption
  <2>5. Asked(h, v) /\ Shaped(v)
    <3>1. v.at = r.action /\ v.r = r /\ v.path = Joined(r.path) /\ Shaped(v)
      <4>1. v = Begun(r.action, r, Joined(r.path), BytesAt(Joined(r.path)), <<>>, 0)
        BY <2>1, WorkingBegun
      <4> QED
        BY <4>1, BegunFacts
    <3> QED
      BY <1>2, <2>3, <2>4, <3>1 DEF Asked
  <2>6. WorkOK(h, v)
    BY <2>5 DEF WorkOK
  <2> QED
    BY <1>1, <2>2, <2>6, GoesOn
<1>3. CASE ~(ValidFileRequest(r) /\ Resolves(r))
  <2>1. Recorded(Working("refused", r, <<>>), FileRefused) /\ UNCHANGED fileWork
    BY <1>3 DEF FileTake
  <2> QED
    BY <1>1, <2>1, RecordedRefusal
<1> QED
  BY <1>2, <1>3

LEMMA ListKeeps ==
  ASSUME FilesInv, NEW h \in FileHandlers, FileList(h)
  PROVE  FilesInv'
<1>1. FilesBase /\ gatePending' \subseteq GatedRequests /\ UNCHANGED <<disk, roots, firstDisk, gatePending>>
  BY DEF FilesInv, FileList
<1> DEFINE at == Walk(fileWork[h].path)
           shown == {p \in Children(at) : fileWork[h].r.hidden \/ Last(p) # ".hidden"}
           reply == [ok |-> TRUE, entries |-> Slice(Listing(shown), 1, ListCap),
                     truncated |-> Len(Listing(shown)) > ListCap, shown |-> shown]
<1>2. FileReply(h, IF ~IsDir(at) THEN FileRefused ELSE reply)
  BY DEF FileList
<1>3. CASE ~IsDir(at)
  <2>1. FileReply(h, FileRefused)
    BY <1>2, <1>3
  <2> QED
    BY <1>1, <2>1, RefusedStep
<1>4. CASE IsDir(at)
  <2>1. IsFiniteSet(shown)
    <3>1. IsFiniteSet(DOMAIN disk) /\ shown \in SUBSET (DOMAIN disk)
      BY <1>1 DEF FilesBase, Sound, IsTree, Children
    <3> QED
      BY <3>1, FS_Subset
  <2>2. PICK s : s = shown /\ IsFiniteSet(s)
    BY <2>1
  <2>3. (Len(Listing(s)) > ListCap) = (ToSet(Slice(Listing(s), 1, ListCap)) # s)
    BY <2>2, ListingIsWhole
  <2>4. PICK e, y : e = reply /\ y = Listing(s) /\ e = [ok |-> TRUE, entries |-> Slice(y, 1, ListCap),
                                                         truncated |-> Len(y) > ListCap, shown |-> s]
    BY <2>2
  <2>5. e.truncated = (ToSet(e.entries) # e.shown) /\ "data" \notin DOMAIN e /\ "holds" \notin DOMAIN e
    <3>1. e.truncated = (Len(y) > ListCap) /\ e.entries = Slice(y, 1, ListCap) /\ e.shown = s
      BY <2>4
    <3>2. (Len(y) > ListCap) = (ToSet(Slice(y, 1, ListCap)) # s)
      BY <2>3, <2>4
    <3>3. DOMAIN e = {"ok", "entries", "truncated", "shown"}
      BY <2>4
    <3>4. e.truncated = (ToSet(e.entries) # e.shown)
      BY <3>1, <3>2, Zenon
    <3> QED
      BY <3>3, <3>4
  <2>6. FileReply(h, e)
    BY <1>2, <1>4, <2>4
  <2> HIDE DEF at, shown, reply
  <2>7. ReplyOK(fileWork[h], e)
    BY <2>5 DEF ReplyOK
  <2>8. PICK w : w = fileWork[h] /\ fileReplies' = Append(fileReplies, [work |-> w, reply |-> e]) /\ ReplyOK(w, e)
    BY <2>6, <2>7 DEF FileReply, Recorded
  <2>9. DiskStep(Nowhere) /\ Nowhere \notin DOMAIN disk'
    BY <1>1, StillDisk
  <2>10. ReplyOK(w, e)'
    BY <1>1, <2>8, <2>9, ReplyStays
  <2>11. \E x, f : fileReplies' = Append(fileReplies, [work |-> x, reply |-> f]) /\ ReplyOK(x, f)'
    BY <2>8, <2>10
  <2>12. fileWork' = [fileWork EXCEPT ![h] = NoWork] /\ WorkOK(h, NoWork)'
    BY <2>6, RefusalIsOK DEF FileReply
  <2> QED
    BY <1>1, <2>9, <2>11, <2>12, HandlerStep
<1> QED
  BY <1>3, <1>4

\* At which point a handler is says which part of the invariant holds of it.
LEMMA WorkAt ==
  ASSUME FilesInv, NEW h \in FileHandlers \cup {Gated}, NEW w, w = fileWork[h]
  PROVE  /\ w.at \in {"fs_list", "fs_read", "fs_write"} => Asked(h, w) /\ Shaped(w)
         /\ w.at = "reading" => ReadingIt(w) /\ Shaped(w)
         /\ w.at = "empty" => Opening(w) /\ Shaped(w)
         /\ w.at = "put" => Putting(w) /\ Shaped(w)
         /\ w.at = "append" => Appending(h, w) /\ Shaped(w)
         /\ w.at \in {"parents", "escape"} => Confirmed(h, w) /\ Shaped(w)
<1>1. WorkOK(h, w)
  BY DEF FilesInv
<1>2. NoWork.at = "idle"
  BY DEF NoWork
<1> QED
  BY <1>1, <1>2 DEF WorkOK, Asked, ReadingIt, Putting, Appending, Confirmed

LEMMA StatKeeps ==
  ASSUME FilesInv, NEW h \in FileHandlers, FileStat(h)
  PROVE  FilesInv'
<1>1. FilesBase /\ gatePending' \subseteq GatedRequests /\ UNCHANGED <<disk, roots, firstDisk, gatePending>>
  BY DEF FilesInv, FileStat
<1>2. PICK w, path : w = fileWork[h] /\ path = Walk(w.path) /\ w.at = "fs_read"
  BY DEF FileStat, FileAt
<1>3. Asked(h, w)
  BY <1>2, WorkAt
<1>4. CASE IsFile(path)
  <2>1. PICK v : v = [Working("reading", w.r, path) EXCEPT !.size = Len(BytesAt(path))]
    OBVIOUS
  <2>2. fileWork' = [fileWork EXCEPT ![h] = v] /\ UNCHANGED fileReplies
    <3>1. fileWork' = [fileWork EXCEPT ![h] = [Working("reading", @.r, path) EXCEPT !.size = Len(BytesAt(path))]]
      BY <1>2, <1>4 DEF FileStat
    <3>2. UNCHANGED fileReplies
      BY <1>2, <1>4 DEF FileStat
    <3>3. h \in DOMAIN fileWork
      BY DEF FilesInv
    <3> QED
      BY <1>2, <2>1, <3>1, <3>2, <3>3
  <2>3. /\ v.at = "reading" /\ v.r = w.r /\ v.path = path /\ v.was = BytesAt(path) /\ v.alone
        /\ v.size = Len(BytesAt(path)) /\ v.data = <<>> /\ Shaped(v)
    <3>1. v = Begun("reading", w.r, path, BytesAt(path), <<>>, Len(BytesAt(path)))
      BY <2>1, WorkingBegun
    <3> QED
      BY <3>1, BegunFacts
  <2>4. w.r \in FileRequests /\ w.r.action = "fs_read" /\ Walk(w.r.path) = path
    BY <1>1, <1>2, <1>3, ResolvedLeads DEF Asked
  <2>5. Inside(path)
    <3>1. Exists(w.path)
      BY <1>1, <1>2, <1>4, TreePaths DEF Exists, IsFile, FilesBase, Sound
    <3> QED
      BY <1>1, <1>2, <1>3, <3>1, ResolvedLeads DEF Asked
  <2>6. BytesAt(path) \in Seq(Byte)
    BY <1>1, BytesAreBytes DEF FilesBase
  <2>7. ReadingIt(v)
    BY <1>4, <2>3, <2>4, <2>5, <2>6 DEF ReadingIt
  <2>8. WorkOK(h, v)
    BY <2>3, <2>7 DEF WorkOK
  <2> QED
    BY <1>1, <2>2, <2>8, GoesOn
<1>5. CASE ~IsFile(path)
  <2>1. FileReply(h, FileRefused)
    BY <1>2, <1>5 DEF FileStat
  <2> QED
    BY <1>1, <2>1, RefusedStep
<1> QED
  BY <1>4, <1>5

\* An answer, and the handler is idle again.
LEMMA AnswerStep ==
  ASSUME FilesInv, UNCHANGED <<disk, roots, firstDisk, gatePending>>,
         NEW h \in FileHandlers \cup {Gated}, NEW reply, FileReply(h, reply), ReplyOK(fileWork[h], reply)
  PROVE  FilesInv'
<1>1. FilesBase /\ gatePending' \subseteq GatedRequests
  BY DEF FilesInv
<1>2. DiskStep(Nowhere) /\ Nowhere \notin DOMAIN disk'
  BY <1>1, StillDisk
<1>3. PICK w : w = fileWork[h] /\ ReplyOK(w, reply) /\ fileReplies' = Append(fileReplies, [work |-> w, reply |-> reply])
  BY DEF FileReply, Recorded
<1>4. ReplyOK(w, reply)'
  BY <1>1, <1>2, <1>3, ReplyStays
<1>5. \E x, f : fileReplies' = Append(fileReplies, [work |-> x, reply |-> f]) /\ ReplyOK(x, f)'
  BY <1>3, <1>4
<1>6. fileWork' = [fileWork EXCEPT ![h] = NoWork] /\ WorkOK(h, NoWork)'
  BY RefusalIsOK DEF FileReply
<1> QED
  BY <1>1, <1>2, <1>5, <1>6, HandlerStep

LEMMA ReadKeeps ==
  ASSUME FilesInv, NEW h \in FileHandlers, FileRead(h)
  PROVE  FilesInv'
<1>1. FilesBase /\ gatePending' \subseteq GatedRequests /\ UNCHANGED <<disk, roots, firstDisk, gatePending>>
  BY DEF FilesInv, FileRead
<1>2. PICK w : w = fileWork[h] /\ w.at = "reading"
  BY DEF FileRead, FileAt
<1>3. ReadingIt(w) /\ Shaped(w)
  BY <1>2, WorkAt
<1>4. PICK from, size : from = w.r.offset /\ size = Window(w.r) /\ from \in Nat /\ size \in Nat
  BY <1>3, WindowIsNat DEF ReadingIt
<1>5. PICK more : more = Slice(BytesAt(w.path), from + Len(w.data) + 1, from + size)
  OBVIOUS
<1>6. PICK s : s = Slice(w.was, from + 1, from + size)
  OBVIOUS
<1>7. /\ <<>> \o s = s /\ Slice(w.was, from + Len(<<>>) + 1, from + size) = s
      /\ Slice(w.was, from + Len(s) + 1, from + size) = <<>>
      /\ from = 0 /\ ~(from + Len(s) < Len(w.was)) => s = w.was
  <2>1. PICK was \in Seq(Byte) : was = w.was
    BY <1>3 DEF ReadingIt
  <2>2. s = Slice(was, from + 1, from + size)
    BY <1>6, <2>1
  <2>3. IsSlice(was, from, size, s)
    BY <1>4, <2>2, SliceFacts
  <2>4. /\ <<>> \o s = s /\ Slice(was, from + Len(<<>>) + 1, from + size) = s
        /\ Slice(was, from + Len(s) + 1, from + size) = <<>>
        /\ from = 0 /\ ~(from + Len(s) < Len(was)) => s = was
    BY <2>3, Zenon DEF IsSlice
  <2> QED
    BY <2>1, <2>4, Zenon
<1>8. ASSUME w.alone
      PROVE  /\ w.data = <<>> \/ w.data = s
             /\ w.data = <<>> => more = s
             /\ w.data = s /\ w.data # <<>> => more = <<>>
  <2>1. w.was = BytesAt(w.path) /\ w.data \in {<<>>, s}
    BY <1>3, <1>4, <1>6, <1>8 DEF ReadingIt
  <2>2. w.data = <<>> => more = s
    BY <1>5, <1>7, <2>1
  <2>3. w.data = s => more = <<>>
    BY <1>5, <1>7, <2>1
  <2> QED
    BY <2>1, <2>2, <2>3
<1>9. CASE more # <<>>
  <2>1. PICK v : v = [w EXCEPT !.data = w.data \o more]
    OBVIOUS
  <2>2. fileWork' = [fileWork EXCEPT ![h] = v] /\ UNCHANGED fileReplies
    <3>1. fileWork' = [fileWork EXCEPT ![h].data = @ \o more] /\ UNCHANGED fileReplies
      BY <1>2, <1>4, <1>5, <1>9 DEF FileRead
    <3>2. h \in DOMAIN fileWork
      BY DEF FilesInv
    <3> QED
      BY <1>2, <2>1, <3>1, <3>2
  <2>3. /\ v.at = w.at /\ v.r = w.r /\ v.path = w.path /\ v.was = w.was /\ (v.alone <=> w.alone)
        /\ v.size = w.size /\ v.data = w.data \o more /\ Shaped(v)
    <3>1. w = [at |-> w.at, r |-> w.r, path |-> w.path, was |-> w.was, alone |-> w.alone,
               size |-> w.size, data |-> w.data] /\ w.alone \in BOOLEAN
      BY <1>3 DEF Shaped
    <3>2. v = [at |-> w.at, r |-> w.r, path |-> w.path, was |-> w.was, alone |-> w.alone,
               size |-> w.size, data |-> w.data \o more]
      BY <2>1, <3>1
    <3>3. /\ v.at = w.at /\ v.r = w.r /\ v.path = w.path /\ v.was = w.was
          /\ v.size = w.size /\ v.data = w.data \o more
      BY <3>2
    <3>4. v.alone = w.alone
      BY <3>2
    <3>5. v = [at |-> v.at, r |-> v.r, path |-> v.path, was |-> v.was, alone |-> v.alone,
               size |-> v.size, data |-> v.data]
      BY <3>2, <3>3, <3>4, Zenon
    <3> QED
      BY <3>1, <3>3, <3>4, <3>5 DEF Shaped
  <2>4. ASSUME v.alone PROVE v.data = s
    <3>1. w.data = <<>> /\ more = s
      BY <1>8, <1>9, <2>3, <2>4
    <3>2. v.data = <<>> \o s
      BY <2>3, <3>1
    <3> QED
      BY <1>7, <3>2
  <2>5. ReadingIt(v)
    <3>1. v.alone => v.was = BytesAt(v.path) /\ v.data \in {<<>>, Slice(v.was, v.r.offset + 1, v.r.offset + Window(v.r))}
      BY <1>3, <1>4, <1>6, <2>3, <2>4 DEF ReadingIt
    <3> QED
      BY <1>3, <2>3, <3>1 DEF ReadingIt
  <2>6. WorkOK(h, v)
    BY <2>3, <2>5 DEF WorkOK
  <2> QED
    BY <1>1, <2>2, <2>6, GoesOn
<1>10. CASE more = <<>>
  <2>1. PICK reply : reply = [ok |-> TRUE, data |-> w.data, encoding |-> Encoding(w), truncated |-> Truncated(w)]
    OBVIOUS
  <2>2. FileReply(h, reply)
    BY <1>2, <1>4, <1>5, <1>10, <2>1 DEF FileRead
  <2>3. "holds" \notin DOMAIN reply /\ "shown" \notin DOMAIN reply /\ reply.data = w.data
        /\ reply.encoding = Encoding(w)
    BY <2>1
  <2>4. reply.truncated = Truncated(w)
    BY <2>1
  <2>5. ASSUME w.alone PROVE ReadIsTrue(w, reply)
    <3>1. w.data = s
      BY <1>8, <1>10, <2>5
    <3>2. reply.truncated = (w.r.offset + Len(reply.data) < Len(w.was))
      BY <1>3, <2>3, <2>4 DEF Truncated, ReadingIt
    <3>3. ASSUME reply.encoding = "utf8" PROVE reply.data = w.was
      <4>1. from = 0 /\ ~Truncated(w)
        BY <1>4, <2>3, <3>3 DEF Encoding
      <4>2. ~(from + Len(s) < Len(w.was))
        BY <1>3, <1>4, <3>1, <4>1 DEF Truncated, ReadingIt
      <4> QED
        BY <1>7, <2>3, <3>1, <4>1, <4>2
    <3> QED
      BY <1>4, <1>6, <2>3, <3>1, <3>2, <3>3 DEF ReadIsTrue
  <2>6. w.r.path \in Paths /\ Exists(w.r.path) /\ Inside(Walk(w.r.path))
    BY <1>1, <1>3, RequestPaths, TreePaths DEF ReadingIt, Exists, IsFile, FilesBase, Sound
  <2>7. ReplyOK(w, reply)
    BY <2>3, <2>5, <2>6 DEF ReplyOK
  <2> QED
    BY <1>1, <1>2, <2>2, <2>7, AnswerStep
<1> QED
  BY <1>9, <1>10

LEMMA PutFailsKeeps ==
  ASSUME FilesInv, NEW h \in FileHandlers \cup {Gated}, FilePutFails(h)
  PROVE  FilesInv'
BY RefusedStep DEF FilePutFails

LEMMA GatedRequestKeeps ==
  ASSUME FilesInv, NEW p \in GatedRequests, GatedRequest(p)
  PROVE  FilesInv'
<1>1. UNCHANGED <<disk, roots, firstDisk, fileWork>> /\ fileReplies' = fileReplies
  BY DEF GatedRequest
<1>2. gatePending' \subseteq GatedRequests
  BY DEF GatedRequest, FilesInv
<1> QED
  BY <1>1, <1>2, NoHandlerStep

LEMMA GatedConfirmKeeps ==
  ASSUME FilesInv, NEW p \in GatedRequests, NEW caller \in Confirmers, GatedConfirm(p, caller)
  PROVE  FilesInv'
<1>1. FilesBase /\ gatePending' \subseteq GatedRequests /\ UNCHANGED <<disk, roots, firstDisk>>
  BY DEF FilesInv, GatedConfirm
<1>2. CASE caller.allowed /\ ValidGated(p) /\ SafeTarget(p)
  <2>1. PICK v : v = Working("parents", p, DataDir \o p.path)
    OBVIOUS
  <2>2. fileWork' = [fileWork EXCEPT ![Gated] = v] /\ UNCHANGED fileReplies
    BY <1>2, <2>1 DEF GatedConfirm
  <2>3. v.at = "parents" /\ v.r = p /\ v.path = DataDir \o p.path /\ Shaped(v)
    <3>1. PICK to : to = DataDir \o p.path
      OBVIOUS
    <3>2. PICK was : was = BytesAt(to)
      OBVIOUS
    <3>3. v = Begun("parents", p, to, was, <<>>, 0)
      BY <2>1, <3>1, <3>2, WorkingBegun
    <3>4. v.at = "parents" /\ v.r = p /\ v.path = to /\ Shaped(v)
      BY <3>3, BegunFacts
    <3> QED
      BY <3>1, <3>4, Zenon
  <2>4. p.path \in Plain /\ p.path # <<>>
    BY <1>2, RequestPaths, PlainNames DEF SafeTarget, ValidGated
  <2>5. Confirmed(Gated, v)
    BY <2>3, <2>4 DEF Confirmed
  <2>6. WorkOK(Gated, v)
    BY <2>3, <2>5 DEF WorkOK
  <2> QED
    BY <1>1, <2>2, <2>6, GoesOn
<1>3. CASE ~(caller.allowed /\ ValidGated(p) /\ SafeTarget(p))
  <2>1. Recorded(Working("refused", p, <<>>), FileRefused) /\ UNCHANGED fileWork
    BY <1>3 DEF GatedConfirm
  <2> QED
    BY <1>1, <2>1, RecordedRefusal
<1> QED
  BY <1>2, <1>3

LEMMA GatedCheckKeeps ==
  ASSUME FilesInv, GatedCheck
  PROVE  FilesInv'
<1>1. FilesBase /\ gatePending' \subseteq GatedRequests /\ UNCHANGED <<disk, roots, firstDisk, gatePending>>
  BY DEF FilesInv, GatedCheck
<1>2. PICK w : w = fileWork[Gated] /\ w.at = "escape"
  BY DEF GatedCheck, FileAt
<1>3. Confirmed(Gated, w)
  BY <1>2, WorkAt
<1>4. CASE StaysInData(w.path)
  <2>1. PICK at, to, v : /\ at = (IF w.r.mode = "append" THEN "append" ELSE "empty") /\ to = EntryAt(w.path)
                         /\ v = [Working(at, w.r, to) EXCEPT !.data = w.r.bytes]
    OBVIOUS
  <2>2. fileWork' = [fileWork EXCEPT ![Gated] = v] /\ UNCHANGED fileReplies
    BY <1>2, <1>4, <2>1 DEF GatedCheck
  <2>3. v.at = at /\ v.r = w.r /\ v.path = to /\ v.was = BytesAt(to) /\ v.data = w.r.bytes /\ Shaped(v)
    <3>1. v = Begun(at, w.r, to, BytesAt(to), w.r.bytes, 0)
      BY <2>1, WorkingBegun
    <3> QED
      BY <3>1, BegunFacts
  <2>4. PICK q, n : /\ q = Walk(Front(w.path)) /\ n = Last(w.path) /\ IsDir(q) /\ to = Append(q, n)
                    /\ n \in FileNames \ {".."}
    <3>1. PICK p \in Plain : p # <<>> /\ w.path = DataDir \o p
      BY <1>3 DEF Confirmed
    <3>2. PICK f, l : f \in Plain /\ l \in FileNames \ {".."} /\ p = Append(f, l)
      BY <3>1, FrontFacts DEF Plain
    <3>3. f \in Paths /\ l \in FileNames /\ DataDir \in Paths
      BY <3>2, PlainPaths, RequestPaths
    <3>4. DataDir \o Append(f, l) = Append(DataDir \o f, l) /\ DataDir \o f \in Paths
      BY <3>3, ConcatAppend DEF Paths
    <3>5. PICK t \in Paths : t = DataDir \o f /\ w.path = Append(t, l)
      BY <3>1, <3>2, <3>4
    <3>6. Last(Append(t, l)) = l
      BY <3>3, FrontOfAppend DEF Paths
    <3>7. IsDir(Walk(Front(w.path)))
      BY <1>2, <1>3 DEF Confirmed
    <3> QED
      BY <2>1, <3>2, <3>5, <3>6, <3>7 DEF EntryAt
  <2>5. q \in DOMAIN disk /\ disk[q] = Dir /\ q \in Plain
    BY <1>1, <2>4, Kinds, TreePaths DEF IsDir, FilesBase, Sound
  <2>6. to \in Plain /\ to # <<>> /\ Front(to) = q
    BY <2>4, <2>5, PlainAppend
  <2>7. IsPrefix(Walk(DataDir), q) /\ ~IsLink(to)
    BY <1>4, <2>1, <2>4 DEF StaysInData
  <2>8. IsPrefix(Walk(DataDir), to)
    <3>1. Walk(DataDir) \in Paths /\ q \in Paths /\ n \in FileNames
      BY <1>1, <2>4, <2>5, FirstDiskFacts, PlainPaths
    <3>2. Append(q, n) = q \o <<n>> /\ <<n>> \in Paths
      BY <3>1, AppendIsConcat DEF Paths
    <3>3. PICK u \in Paths : u = <<n>>
      BY <3>2
    <3>4. IsPrefix(q, q \o u) /\ q \o u \in Paths
      BY <3>1, PrefixConcat
    <3> QED
      BY <2>4, <2>7, <3>1, <3>2, <3>3, <3>4, PrefixTrans
  <2>9. w.r.bytes \in Seq(Byte)
    BY <1>3, RequestPaths DEF Confirmed
  <2>10. Opening(v)
    BY <2>3, <2>5, <2>6, <2>7, <2>8, <2>9 DEF Opening
  <2>11. Appending(Gated, v) \/ (v.at = "empty" /\ Opening(v))
    BY <2>1, <2>3, <2>10 DEF Appending
  <2>12. WorkOK(Gated, v)
    BY <2>3, <2>11 DEF WorkOK
  <2> QED
    BY <1>1, <2>2, <2>12, GoesOn
<1>5. CASE ~StaysInData(w.path)
  <2>1. FileReply(Gated, FileRefused)
    BY <1>2, <1>5 DEF GatedCheck
  <2> QED
    BY <1>1, <2>1, RefusedStep
<1> QED
  BY <1>4, <1>5

-----------------------------------------------------------------------------
(* The steps that change the disk                                            *)

LEMMA CheckKeeps ==
  ASSUME FilesInv, NEW h \in FileHandlers, FileCheck(h)
  PROVE  FilesInv'
<1>1. /\ FilesBase /\ gatePending' \subseteq GatedRequests
      /\ roots' = roots /\ firstDisk' = firstDisk /\ gatePending' = gatePending
  BY DEF FilesInv, FileCheck
<1>2. PICK w, p, J : w = fileWork[h] /\ p = w.path /\ J = Joined(p) /\ w.at = "fs_write"
  BY DEF FileCheck, FileAt
<1>3. Asked(h, w)
  BY <1>2, WorkAt
<1>4. p \in Plain /\ J \in Plain /\ Inside(J) /\ (p = <<>> => p \in roots)
  <2>1. Resolved(w.r.path, p)
    BY <1>2, <1>3 DEF Asked
  <2> QED
    BY <1>1, <1>2, <2>1, ResolvedLeads
<1>5. CASE MayWriteTo(p) /\ (IF w.r.parents THEN CanMakeDirs(Front(p)) ELSE IsDir(Walk(Front(p))))
  <2>1. p # <<>>
    BY <1>4, <1>5 DEF MayWriteTo
  <2>2. CanMakeDirs(Front(p))
    <3>1. Front(p) \in Paths
      BY <1>4, <2>1, FrontIsShorter, PlainPaths
    <3> QED
      BY <1>1, <1>5, <3>1, NothingToMake DEF FilesBase
  <2>3. PICK d, v : /\ d = DirsMade(Front(p))
                    /\ v = [Working("empty", w.r, J) EXCEPT !.data = Content(w.r)]
    OBVIOUS
  <2>4. disk' = d /\ fileWork' = [fileWork EXCEPT ![h] = v] /\ fileReplies' = fileReplies
    BY <1>2, <1>5, <2>3 DEF FileCheck
  <2>5. /\ IsTree(d) /\ Grown(disk, d)
        /\ \A x \in DOMAIN d : x \notin DOMAIN disk => d[x] = Dir
        /\ \A x \in DOMAIN disk : d[x] = disk[x]
        /\ J # <<>> /\ Front(J) \in DOMAIN d /\ d[Front(J)] = Dir
        /\ J \in DOMAIN d => d[J].kind # "link"
    <3>1. Sound(disk) /\ MayWriteTo(p)
      BY <1>1, <1>5 DEF FilesBase
    <3> QED
      BY <1>2, <1>4, <2>1, <2>2, <2>3, <3>1, WhatIsOpened
  <2>6. DiskStep(Nowhere) /\ Nowhere \notin DOMAIN disk'
    BY <1>1, <2>4, <2>5, TreePaths DEF DiskStep
  <2>7. v.at = "empty" /\ v.path = J /\ v.data = Content(w.r) /\ Shaped(v)
    <3>1. PICK was : was = BytesAt(J)
      OBVIOUS
    <3>2. v = Begun("empty", w.r, J, was, Content(w.r), 0)
      BY <2>3, <3>1, WorkingBegun
    <3> QED
      BY <3>2, BegunFacts
  <2>8. Content(w.r) \in Seq(Byte)
    BY <1>2, <1>3, ContentIsBytes DEF Asked
  <2>9. Opening(v)'
    <3>1. Inside(J)'
      BY <1>1, <1>4, <2>6, BaseStays
    <3> QED
      BY <1>4, <2>4, <2>5, <2>7, <2>8, <3>1 DEF Opening, IsLink
  <2>10. WorkOK(h, v)'
    BY <2>7, <2>9 DEF WorkOK
  <2> QED
    BY <1>1, <2>4, <2>6, <2>10, HandlerStep
<1>6. CASE ~(MayWriteTo(p) /\ (IF w.r.parents THEN CanMakeDirs(Front(p)) ELSE IsDir(Walk(Front(p)))))
  <2>1. FileReply(h, FileRefused) /\ UNCHANGED disk
    BY <1>2, <1>6 DEF FileCheck
  <2> QED
    BY <1>1, <2>1, RefusedStep
<1> QED
  BY <1>5, <1>6

\* A path below the data directory, by its text: its parent, and what is
\* missing of that.
LEMMA ConfirmedPath ==
  ASSUME FilesBase, NEW h, NEW w, Confirmed(h, w)
  PROVE  /\ w.path \in Paths /\ w.path # <<>> /\ Front(w.path) \in Paths
         /\ Below(Front(w.path)) \in Plain
<1>1. PICK p \in Plain : p # <<>> /\ w.path = DataDir \o p
  BY DEF Confirmed
<1>2. PICK f, n : f \in Plain /\ n \in FileNames \ {".."} /\ p = Append(f, n)
  BY <1>1, FrontFacts DEF Plain
<1>3. f \in Paths /\ n \in FileNames /\ DataDir \in Paths
  BY <1>2, PlainPaths, RequestPaths
<1>4. DataDir \o Append(f, n) = Append(DataDir \o f, n) /\ DataDir \o f \in Paths
  BY <1>3, ConcatAppend DEF Paths
<1>5. PICK t \in Paths : t = DataDir \o f /\ w.path = Append(t, n)
  BY <1>1, <1>2, <1>4
<1>6. Append(t, n) \in Paths /\ Append(t, n) # <<>> /\ Front(Append(t, n)) = t
  BY <1>3, FrontOfAppend DEF Paths
<1>7. Sound(disk) /\ Exists(DataDir)
  BY TreePaths DEF FilesBase, Exists, Sound
<1>8. Below(t) \in Plain
  <2>1. PICK a, c, b : Split(t, a, c, b)
    BY <1>7, Splits
  <2>2. Beyond(DataDir, f, a, b)
    BY <1>3, <1>5, <1>7, <2>1, SplitBelow
  <2>3. PICK k \in 0..Len(f) : b = SubSeq(f, k + 1, Len(f))
    BY <2>2 DEF Beyond
  <2>4. SubSeq(f, k + 1, Len(f)) \in Plain
    BY <1>2, DropFacts DEF Plain
  <2> QED
    BY <2>1, <2>3, <2>4 DEF Split
<1> QED
  BY <1>5, <1>6, <1>8

LEMMA GatedParentsKeeps ==
  ASSUME FilesInv, GatedParents
  PROVE  FilesInv'
<1>1. /\ FilesBase /\ gatePending' \subseteq GatedRequests
      /\ roots' = roots /\ firstDisk' = firstDisk /\ gatePending' = gatePending
  BY DEF FilesInv, GatedParents
<1>2. PICK w, q : w = fileWork[Gated] /\ q = Front(w.path) /\ w.at = "parents"
  BY DEF GatedParents, FileAt
<1>3. Confirmed(Gated, w) /\ Shaped(w)
  BY <1>2, WorkAt
<1>4. q \in Paths /\ Below(q) \in Plain
  BY <1>1, <1>2, <1>3, ConfirmedPath
<1>5. CASE CanMakeDirs(q)
  <2>1. PICK d, v : d = DirsMade(q) /\ v = [w EXCEPT !.at = "escape"]
    OBVIOUS
  <2>2. disk' = d /\ fileReplies' = fileReplies /\ FileGoto(Gated, "escape")
    BY <1>2, <1>5, <2>1 DEF GatedParents
  <2>3. fileWork' = [fileWork EXCEPT ![Gated] = v]
    <3>1. Gated \in DOMAIN fileWork
      BY DEF FilesInv
    <3> QED
      BY <1>2, <2>1, <2>2, <3>1 DEF FileGoto
  <2>4. /\ IsTree(d) /\ Grown(disk, d)
        /\ \A x \in DOMAIN d : x \notin DOMAIN disk => d[x] = Dir
        /\ \A x \in DOMAIN disk : d[x] = disk[x]
        /\ Joined(q) \in DOMAIN d /\ d[Joined(q)] = Dir
        /\ WalkIn(d, q) = Joined(q)
    BY <1>1, <1>4, <1>5, <2>1, DirsAreMade DEF FilesBase
  <2>5. DiskStep(Nowhere) /\ Nowhere \notin DOMAIN disk'
    BY <1>1, <2>2, <2>4, TreePaths DEF DiskStep
  <2>6. v.at = "escape" /\ v.r = w.r /\ v.path = w.path /\ Shaped(v)
    BY <1>3, <2>1 DEF Shaped
  <2>7. IsDir(Walk(Front(v.path)))'
    <3>1. WalkIn(disk', q) \in DOMAIN disk' /\ disk'[WalkIn(disk', q)] = Dir
      BY <2>2, <2>4
    <3> QED
      BY <1>2, <2>6, <3>1, DirIsNoLink DEF IsDir, Walk
  <2>8. Confirmed(Gated, v)'
    BY <1>3, <2>6, <2>7 DEF Confirmed
  <2>9. WorkOK(Gated, v)'
    BY <2>6, <2>8 DEF WorkOK
  <2> QED
    BY <1>1, <2>2, <2>3, <2>5, <2>9, HandlerStep
<1>6. CASE ~CanMakeDirs(q)
  <2>1. FileReply(Gated, FileRefused) /\ UNCHANGED disk
    BY <1>2, <1>6 DEF GatedParents
  <2> QED
    BY <1>1, <2>1, RefusedStep
<1> QED
  BY <1>5, <1>6

LEMMA FileDiskStep ==
  ASSUME FilesBase, NEW w, Opening(w), ~IsDir(w.path), NEW bytes \in Seq(Byte), WithFile(w.path, bytes),
         roots' = roots, firstDisk' = firstDisk, NEW at, at = w.path
  PROVE  DiskStep(at) /\ at \in DOMAIN disk' /\ ~Elsewhere(at)
<1>1. at \in DOMAIN disk => disk[at].kind = "file"
  BY Kinds DEF FilesBase, Sound, IsDir, IsLink, Opening
<1>2. IsTree(disk') /\ Grown(disk, disk')
  <2>1. disk' = [p \in DOMAIN disk \cup {at} |-> IF p = at THEN FileOf(bytes) ELSE disk[p]]
    BY DEF WithFile
  <2>2. at \in Plain /\ at # <<>> /\ Front(at) \in DOMAIN disk /\ disk[Front(at)] = Dir
    BY DEF Opening
  <2> QED
    BY <1>1, <2>1, <2>2, FileMade DEF FilesBase
<1>3. ~Elsewhere(at)
  BY DEF Elsewhere, Opening
<1> QED
  BY <1>2, <1>3 DEF DiskStep, WithFile

\* A file is written: the disk, and the other handlers.
LEMMA FileStep ==
  ASSUME FilesInv, NEW h \in FileHandlers \cup {Gated}, NEW w, w = fileWork[h], Opening(w), ~IsDir(w.path),
         NEW bytes \in Seq(Byte), WithFile(w.path, bytes), UNCHANGED <<roots, firstDisk, gatePending>>,
         NEW v, Moved(h, w.path, v), WorkOK(h, v)',
         \/ fileReplies' = fileReplies
         \/ \E x, reply : fileReplies' = Append(fileReplies, [work |-> x, reply |-> reply])
                          /\ ReplyOK(x, reply)'
  PROVE  FilesInv'
<1>1. FilesBase /\ gatePending' \subseteq GatedRequests /\ DOMAIN fileWork = FileHandlers \cup {Gated}
  BY DEF FilesInv
<1>2. PICK at : at = w.path
  OBVIOUS
<1>3. DiskStep(at) /\ at \in DOMAIN disk' /\ ~Elsewhere(at)
  BY <1>1, <1>2, FileDiskStep
<1>5. DOMAIN fileWork' = DOMAIN fileWork /\ fileWork'[h] = v
  BY <1>1 DEF Moved
<1>6. ASSUME NEW g \in DOMAIN fileWork, g # h
      PROVE  \/ fileWork'[g] = fileWork[g] /\ (fileWork[g].path # at \/ fileWork[g] = NoWork)
             \/ fileWork[g] # NoWork /\ fileWork'[g] = [fileWork[g] EXCEPT !.alone = FALSE]
  <2>1. CASE g \in Disturbed(h, at)
    <3>1. fileWork'[g] = [fileWork[g] EXCEPT !.alone = FALSE]
      BY <1>2, <1>6, <2>1 DEF Moved
    <3>2. fileWork[g] # NoWork
      BY <2>1 DEF Disturbed, Busy, FileAt, NoWork
    <3> QED
      BY <3>1, <3>2
  <2>2. CASE g \notin Disturbed(h, at)
    <3>1. fileWork'[g] = fileWork[g]
      BY <1>2, <1>6, <2>2 DEF Moved
    <3>2. fileWork[g].path # at \/ fileWork[g].at = "idle"
      BY <1>6, <2>2 DEF Disturbed, Busy, FileAt
    <3>3. fileWork[g].at = "idle" => fileWork[g] = NoWork
      <4>1. WorkOK(g, fileWork[g])
        BY <1>1 DEF FilesInv
      <4> QED
        BY <4>1 DEF WorkOK, Asked, ReadingIt, Putting, Appending, Confirmed
    <3> QED
      BY <3>1, <3>2, <3>3
  <2> QED
    BY <2>1, <2>2
<1>7. WorkOK(h, fileWork[h])'
  BY <1>5
<1>8. \A g \in DOMAIN fileWork : g # h =>
        \/ fileWork'[g] = fileWork[g] /\ (fileWork[g].path # at \/ fileWork[g] = NoWork)
        \/ fileWork[g] # NoWork /\ fileWork'[g] = [fileWork[g] EXCEPT !.alone = FALSE]
  BY <1>6
<1>9. gatePending' \subseteq GatedRequests
  BY <1>1
<1>10. \/ fileReplies' = fileReplies
       \/ \E x, reply : fileReplies' = Append(fileReplies, [work |-> x, reply |-> reply])
                        /\ ReplyOK(x, reply)'
  OBVIOUS
<1> QED
  BY <1>3, <1>5, <1>7, <1>8, <1>9, <1>10, StepKeepsInv

LEMMA EmptyKeeps ==
  ASSUME FilesInv, NEW h \in FileHandlers \cup {Gated}, FileEmpty(h)
  PROVE  FilesInv'
<1>1. FilesBase /\ UNCHANGED <<roots, firstDisk, gatePending>>
  BY DEF FilesInv, FileEmpty
<1>2. PICK w, at : w = fileWork[h] /\ at = w.path /\ w.at = "empty"
  BY DEF FileEmpty, FileAt
<1>3. Opening(w) /\ Shaped(w)
  BY <1>2, WorkAt
<1>4. CASE IsDir(at)
  <2>1. FileReply(h, FileRefused) /\ UNCHANGED disk
    BY <1>2, <1>4 DEF FileEmpty
  <2> QED
    BY <1>1, <2>1, RefusedStep
<1>5. CASE ~IsDir(at)
  <2>1. PICK v : v = [w EXCEPT !.at = "put"]
    OBVIOUS
  <2>2. WithFile(at, <<>>) /\ Moved(h, at, v) /\ fileReplies' = fileReplies
    BY <1>2, <1>5, <2>1 DEF FileEmpty
  <2>3. v.at = "put" /\ v.path = at /\ v.data = w.data /\ Shaped(v)
    BY <1>2, <1>3, <2>1 DEF Shaped
  <2>4. <<>> \in Seq(Byte)
    BY EmptySeq
  <2>5. IsFile(at)' /\ BytesAt(at)' = <<>>
    <3>1. at \in DOMAIN disk' /\ disk'[at] = FileOf(<<>>)
      BY <2>2 DEF WithFile
    <3> QED
      BY <3>1, DirIsNoLink DEF IsFile, BytesAt
  <2>6. Opening(v)'
    <3>1. DiskStep(at)
      BY <1>1, <1>2, <1>3, <1>5, <2>2, <2>4, FileDiskStep
    <3>2. Opening(w)'
      BY <1>1, <1>3, <3>1, OpeningStays
    <3> QED
      BY <1>2, <2>3, <3>2 DEF Opening
  <2>7. WorkOK(h, v)'
    BY <2>3, <2>5, <2>6 DEF WorkOK, Putting
  <2> QED
    BY <1>1, <1>2, <1>3, <1>5, <2>2, <2>4, <2>7, FileStep
<1> QED
  BY <1>4, <1>5

LEMMA OverlaidFacts ==
  ASSUME NEW old \in Seq(Byte), NEW new \in Seq(Byte)
  PROVE  Overlaid(old, new) \in Seq(Byte) /\ (old = <<>> => Overlaid(old, new) = new)
<1>1. PICK m \in Nat, n \in Nat : m = Len(new) /\ n = Len(old)
  BY LenProperties
<1>2. CASE m <= n
  <2>1. m \in 0..Len(old)
    BY <1>1, <1>2
  <2>2. SubSeq(old, m + 1, Len(old)) \in Seq(Byte)
    BY <2>1, DropFacts
  <2>3. new \o SubSeq(old, m + 1, Len(old)) \in Seq(Byte)
    BY <2>2, ConcatProperties
  <2>4. old = <<>> => new \o SubSeq(old, m + 1, Len(old)) = new
    <3>1. ASSUME old = <<>> PROVE SubSeq(old, m + 1, Len(old)) = <<>>
      <4>1. m + 1 \in Int /\ n \in Int /\ n < m + 1
        BY <1>1, <3>1
      <4> QED
        BY <1>1, <4>1, SubSeqEmpty
    <3> QED
      BY <3>1, ConcatEmptySeq
  <2> QED
    BY <1>1, <2>3, <2>4 DEF Overlaid
<1>3. CASE ~(m <= n)
  <2>1. SubSeq(old, m + 1, n) = <<>>
    <3>1. m + 1 \in Int /\ n \in Int /\ n < m + 1
      BY <1>3
    <3> QED
      BY <3>1, SubSeqEmpty
  <2>2. Overlaid(old, new) = new \o <<>>
    BY <1>1, <2>1 DEF Overlaid
  <2> QED
    BY <2>2, ConcatEmptySeq
<1> QED
  BY <1>2, <1>3

\* The answer of a write.
LEMMA WriteAnswer ==
  ASSUME NEW w, NEW bytes, w.alone => bytes = IF w.at = "append" THEN w.was \o w.data ELSE w.data,
         NEW n, NEW reply, reply = [ok |-> TRUE, written |-> n, holds |-> bytes]
  PROVE  ReplyOK(w, reply)'
<1>1. "data" \notin DOMAIN reply /\ "shown" \notin DOMAIN reply /\ reply.holds = bytes
  OBVIOUS
<1> QED
  BY <1>1 DEF ReplyOK, WriteIsTrue

LEMMA PutKeeps ==
  ASSUME FilesInv, NEW h \in FileHandlers \cup {Gated}, FilePut(h)
  PROVE  FilesInv'
<1>1. FilesBase /\ UNCHANGED <<roots, firstDisk, gatePending>>
  BY DEF FilesInv, FilePut
<1>2. PICK w, at : w = fileWork[h] /\ at = w.path /\ w.at = "put"
  BY DEF FilePut, FileAt
<1>3. Putting(w)
  BY <1>2, WorkAt
<1>4. Opening(w) /\ ~IsDir(at) /\ w.data \in Seq(Byte) /\ (w.alone => BytesAt(at) = <<>>)
  BY <1>2, <1>3 DEF Putting, Opening, IsFile, IsDir
<1>5. PICK old, bytes : old = BytesAt(at) /\ bytes = Overlaid(old, w.data)
  OBVIOUS
<1>6. bytes \in Seq(Byte) /\ (w.alone => bytes = w.data)
  <2>1. old \in Seq(Byte)
    BY <1>1, <1>5, BytesAreBytes DEF FilesBase
  <2> QED
    BY <1>4, <1>5, <2>1, OverlaidFacts
<1>7. PICK reply : reply = [ok |-> TRUE, written |-> Len(w.data), holds |-> bytes]
  OBVIOUS
<1>8. WithFile(at, bytes) /\ Moved(h, at, NoWork) /\ fileReplies' = Append(fileReplies, [work |-> w, reply |-> reply])
  BY <1>2, <1>5, <1>7 DEF FilePut, Recorded
<1>9. ReplyOK(w, reply)'
  <2>1. w.alone => bytes = IF w.at = "append" THEN w.was \o w.data ELSE w.data
    BY <1>2, <1>6
  <2> QED
    BY <1>7, <2>1, WriteAnswer
<1>10. WorkOK(h, NoWork)'
  BY RefusalIsOK
<1>11. \E x, f : fileReplies' = Append(fileReplies, [work |-> x, reply |-> f]) /\ ReplyOK(x, f)'
  BY <1>8, <1>9
<1> QED
  BY <1>1, <1>2, <1>4, <1>6, <1>8, <1>10, <1>11, FileStep

LEMMA AppendKeeps ==
  ASSUME FilesInv, GatedAppend
  PROVE  FilesInv'
<1>1. FilesBase /\ UNCHANGED <<roots, firstDisk, gatePending>> /\ Gated \in FileHandlers \cup {Gated}
  BY DEF FilesInv, GatedAppend
<1>2. PICK w, at : w = fileWork[Gated] /\ at = w.path /\ w.at = "append"
  BY DEF GatedAppend, FileAt
<1>3. Appending(Gated, w)
  BY <1>2, WorkAt
<1>4. Opening(w) /\ w.data \in Seq(Byte) /\ (w.alone => w.was = BytesAt(at))
  BY <1>2, <1>3 DEF Appending, Opening
<1>5. PICK old, bytes : old = BytesAt(at) /\ bytes = old \o w.data
  OBVIOUS
<1>6. bytes \in Seq(Byte)
  <2>1. old \in Seq(Byte)
    BY <1>1, <1>5, BytesAreBytes DEF FilesBase
  <2> QED
    BY <1>4, <1>5, <2>1, ConcatProperties
<1>7. CASE IsDir(at)
  <2>1. FileReply(Gated, FileRefused) /\ UNCHANGED disk
    BY <1>2, <1>7 DEF GatedAppend
  <2> QED
    BY <1>1, <2>1, RefusedStep
<1>8. CASE ~IsDir(at)
  <2>1. PICK reply : reply = [ok |-> TRUE, written |-> Len(w.data), holds |-> bytes]
    OBVIOUS
  <2>2. WithFile(at, bytes) /\ Moved(Gated, at, NoWork) /\ fileReplies' = Append(fileReplies, [work |-> w, reply |-> reply])
    BY <1>2, <1>5, <1>8, <2>1 DEF GatedAppend, Recorded
  <2>3. ReplyOK(w, reply)'
    <3>1. w.alone => bytes = IF w.at = "append" THEN w.was \o w.data ELSE w.data
      BY <1>2, <1>4, <1>5
    <3> QED
      BY <2>1, <3>1, WriteAnswer
  <2>4. WorkOK(Gated, NoWork)'
    BY RefusalIsOK
  <2>5. \E x, f : fileReplies' = Append(fileReplies, [work |-> x, reply |-> f]) /\ ReplyOK(x, f)'
    BY <2>2, <2>3
  <2> QED
    BY <1>1, <1>2, <1>4, <1>6, <1>8, <2>2, <2>4, <2>5, FileStep
<1> QED
  BY <1>7, <1>8

-----------------------------------------------------------------------------
(* The theorem                                                               *)

LEMMA FilesInvNext ==
  ASSUME FilesInv, [FilesNext]_filesVars
  PROVE  FilesInv'
<1>1. CASE UNCHANGED filesVars
  <2>1. /\ UNCHANGED <<disk, roots, firstDisk, fileWork>> /\ fileReplies' = fileReplies
        /\ gatePending' = gatePending
    BY <1>1 DEF filesVars
  <2>2. gatePending' \subseteq GatedRequests
    BY <2>1 DEF FilesInv
  <2> QED
    BY <2>1, <2>2, NoHandlerStep
<1>2. ASSUME NEW h \in FileHandlers, NEW r \in FileRequests, FileTake(h, r) PROVE FilesInv'
  BY <1>2, TakeKeeps
<1>3. ASSUME NEW h \in FileHandlers, FileList(h) \/ FileStat(h) \/ FileRead(h) \/ FileCheck(h)
      PROVE  FilesInv'
  BY <1>3, ListKeeps, StatKeeps, ReadKeeps, CheckKeeps
<1>4. ASSUME NEW h \in FileHandlers \cup {Gated}, FileEmpty(h) \/ FilePut(h) \/ FilePutFails(h)
      PROVE  FilesInv'
  BY <1>4, EmptyKeeps, PutKeeps, PutFailsKeeps
<1>5. ASSUME NEW p \in GatedRequests, GatedRequest(p) PROVE FilesInv'
  BY <1>5, GatedRequestKeeps
<1>6. ASSUME NEW p \in GatedRequests, NEW caller \in Confirmers, GatedConfirm(p, caller) PROVE FilesInv'
  BY <1>6, GatedConfirmKeeps
<1>7. CASE GatedParents \/ GatedCheck \/ GatedAppend
  BY <1>7, GatedParentsKeeps, GatedCheckKeeps, AppendKeeps
<1> QED
  BY <1>1, <1>2, <1>3, <1>4, <1>5, <1>6, <1>7 DEF FilesNext

LEMMA FilesInvTells ==
  ASSUME FilesInv
  PROVE  FilesTellTheTruth
<1>1. ASSUME NEW p \in DOMAIN disk \cup DOMAIN firstDisk, Elsewhere(p)
      PROVE  IF p \in DOMAIN firstDisk THEN p \in DOMAIN disk /\ disk[p] = firstDisk[p]
             ELSE disk[p] = Dir
  BY <1>1 DEF FilesInv, FilesBase, Grown, Kept
<1>2. ASSUME NEW i \in DOMAIN fileReplies, NEW w, NEW reply,
             w = fileReplies[i].work, reply = fileReplies[i].reply, reply.ok
      PROVE  /\ "data" \in DOMAIN reply => /\ Inside(Walk(w.r.path))
                                           /\ w.alone => ReadIsTrue(w, reply)
             /\ "holds" \in DOMAIN reply => (w.alone => WriteIsTrue(w, reply))
             /\ "shown" \in DOMAIN reply => reply.truncated = (ToSet(reply.entries) # reply.shown)
  <2>1. ReplyOK(w, reply)
    BY <1>2 DEF FilesInv
  <2> QED
    BY <1>2, <2>1 DEF ReplyOK
<1> QED
  BY <1>1, <1>2 DEF FilesTellTheTruth

\* No file outside the roots and the data directory is made or changed,
\* whatever links the paths go through and whatever directories the handlers
\* make between a check and the write it allows; and a request whose file
\* nobody else writes meanwhile is answered truly.
THEOREM FilesAreTrue == FilesSpec => []FilesTellTheTruth
<1>1. FilesInit => FilesInv
  BY FilesInvInit
<1>2. FilesInv /\ [FilesNext]_filesVars => FilesInv'
  BY FilesInvNext
<1>3. FilesInv => FilesTellTheTruth
  BY FilesInvTells
<1> QED
  BY <1>1, <1>2, <1>3, PTL DEF FilesSpec
=============================================================================
