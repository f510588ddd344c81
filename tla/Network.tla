------------------------------ MODULE Network --------------------------------
(***************************************************************************)
(* The network plugin: concurrent http_request tasks with a cap per        *)
(* caller, a response cache and a cookie jar, retries, redirects, and the  *)
(* address policy that is asked before the request, for every redirect and *)
(* again by the resolver of every connection. Names may resolve to other   *)
(* addresses each time. Literal hosts are IPv4 addresses.                  *)
(***************************************************************************)
EXTENDS Integers, Sequences, SequencesExt, FiniteSets, FiniteSetsExt, Functions

CONSTANTS
  NetTasks,           \* handler tasks
  NetCallers,
  HttpRequests,       \* the requests callers send
  Literals,           \* hosts that are addresses
  HostNames,          \* hosts that are resolved
  BlockedRanges,      \* loopback, private, link-local, multicast, broadcast
  ExtraBlocklist,     \* hosts and addresses the operator blocks
  NetAllowlist,       \* hosts and addresses the operator allows, {}: no list
  InflightLimit,      \* NETWORK_PLUGIN_MAX_INFLIGHT_PER_CALLER, 0: no cap
  CacheMaxEntries,    \* 128 in the code
  CacheMaxBytes,      \* 8 MiB in the code
  NotSet,             \* a field that is absent
  MaxHttpRequests,    \* bound: requests
  MaxNetFaults,       \* bound: failed attempts and panics
  MaxNetTime          \* bound: the clock

ASSUME NetworkAssumption ==
  /\ InflightLimit \in Nat /\ CacheMaxEntries \in Nat /\ CacheMaxBytes \in Nat
  /\ Literals \cap HostNames = {}
  /\ \A r \in HttpRequests : r.host \in Literals \cup HostNames /\ r.cache_ttl_ms \in Nat
  /\ IsFiniteSet(NetTasks)

VARIABLES
  netTask,      \* what each handler task is doing
  netActive,    \* slots taken per caller
  netCache,     \* the stored responses, a set with one entry per key
  netBytes,     \* total_bytes of the cache
  netJar,       \* per caller and host, the value of the session cookie
  netStats,     \* per caller, requests and errors
  netClock,
  contacted,    \* history: addresses connected to
  origin,       \* history: the responses origins have given
  netReplies,   \* history: the answers
  capRaced,     \* history: a caller's task passed the cap while another was between check and increment
  netSpent      \* requests and faults so far

netVars == <<netTask, netActive, netCache, netBytes, netJar, netStats, netClock,
             contacted, origin, netReplies, capRaced, netSpent>>

netStores == <<netCache, netBytes, netJar>>
netPast == <<contacted, origin, netReplies, capRaced>>

-----------------------------------------------------------------------------
(* Parsing: sizes are numbers, a refused request changes nothing.          *)

MAX_URL_LEN == 8192
MAX_HEADER_COUNT == 100
MAX_HEADERS_TOTAL_BYTES == 32768
MAX_REQUEST_BODY_BYTES == 26214400
MAX_RETRIES == 5
MAX_REDIRECTS == 10
MAX_MULTIPART_NAME_BYTES == 256
MAX_MULTIPART_FILENAME_BYTES == 1024
ALLOWED_METHODS == {"GET", "POST", "PUT", "DELETE", "PATCH", "HEAD", "OPTIONS"}

PartBytes(p) == IF p.value # NotSet THEN p.value ELSE (p.file_base64 * 3) \div 4

ValidMultipart(parts) ==
  /\ \A p \in Range(parts) :
       /\ p.name \in 1..MAX_MULTIPART_NAME_BYTES
       /\ p.filename <= MAX_MULTIPART_FILENAME_BYTES
       /\ (p.value = NotSet) # (p.file_base64 = NotSet)
  /\ MapThenSumSet(LAMBDA i : PartBytes(parts[i]), DOMAIN parts) <= MAX_REQUEST_BODY_BYTES

ValidHttp(r) ==
  /\ r.method \in ALLOWED_METHODS
  /\ r.url <= MAX_URL_LEN /\ r.scheme \in {"http", "https"}
  /\ r.headers <= MAX_HEADER_COUNT /\ r.headerBytes <= MAX_HEADERS_TOTAL_BYTES
  /\ Cardinality({b \in {"body", "body_base64", "multipart"} : r[b] # NotSet}) <= 1
  /\ r.multipart # NotSet => ValidMultipart(r.multipart)
  /\ r.body_base64 # NotSet => r.body_base64 <= (MAX_REQUEST_BODY_BYTES \div 3) * 4 + 4

Retries(r) == Min({r.max_retries, MAX_RETRIES})
Redirects(r) == IF r.follow_redirects THEN Min({r.max_redirects, MAX_REDIRECTS}) ELSE 0

\* One caller's request: the key ignores everything but method, url and body.
\* Mutant: the callers share the entries.
CacheKey_Shared(c, r) == <<r.method, r.host, r.body, r.body_base64, r.multipart>>
CacheKey(c, r) == <<c, r.method, r.host, r.body, r.body_base64, r.multipart>>

-----------------------------------------------------------------------------
(* The address policy                                                      *)

\* filter_allowed_addrs, and check_literal_ip_host with the address as host.
Permitted(host, a) ==
  /\ a \notin ExtraBlocklist
  /\ IF NetAllowlist # {} THEN {host, a} \cap NetAllowlist # {} ELSE a \notin BlockedRanges

LiteralOk(host) == host \in Literals => Permitted(host, host)

\* The addresses a resolution leaves, whatever the name resolves to this time.
\* Mutant: the resolver trusts the check made before the request.
Resolutions_Unfiltered(host) ==
  IF host \in Literals THEN {{host}} ELSE SUBSET Literals \ {{}}
Resolutions(host) ==
  IF host \in Literals THEN {{host}}
  ELSE IF host \in ExtraBlocklist THEN {{}}
  ELSE {{a \in s : Permitted(host, a)} : s \in SUBSET Literals \ {{}}}

-----------------------------------------------------------------------------
(* The tasks                                                               *)

NetIdle == [pc |-> "idle"]
NetAt(t, pc) == netTask[t].pc = pc
NetGoto(t, pc) == netTask' = [netTask EXCEPT ![t].pc = pc]
HoldsSlot(t) == netTask[t].pc \notin {"idle", "check", "reserve"}
Holders(c) == {t \in NetTasks : HoldsSlot(t) /\ netTask[t].caller = c}

NetFault == /\ netSpent.faults < MaxNetFaults
            /\ netSpent' = [netSpent EXCEPT !.faults = @ + 1]

NetInit ==
  /\ netTask = [t \in NetTasks |-> NetIdle]
  /\ netActive = [c \in NetCallers |-> 0]
  /\ netCache = {} /\ netBytes = 0
  /\ netJar = [c \in NetCallers |-> [h \in Literals \cup HostNames |-> NotSet]]
  /\ netStats = [c \in NetCallers |-> [requests |-> 0, errors |-> 0]]
  /\ netClock = 0
  /\ contacted = {} /\ origin = {} /\ netReplies = {} /\ capRaced = FALSE
  /\ netSpent = [requests |-> 0, faults |-> 0]

\* The cap as accept and acquire look at it.
BelowCap(c) == InflightLimit = 0 \/ netActive[c] < InflightLimit

\* The loop's gate: no task is spawned for a caller at its cap.
NetAccept(t) ==
  /\ NetAt(t, "idle")
  /\ netSpent.requests < MaxHttpRequests
  /\ netSpent' = [netSpent EXCEPT !.requests = @ + 1]
  /\ \E c \in NetCallers, r \in HttpRequests :
       netTask' = IF BelowCap(c)
                    THEN [netTask EXCEPT ![t] =
                            [pc |-> "check", caller |-> c, params |-> r, attempt |-> 0,
                             cookie |-> NotSet, got |-> NotSet, setCookie |-> NotSet]]
                    ELSE netTask
  /\ UNCHANGED <<netActive, netStores, netStats, netClock, netPast>>

\* acquire looks at the counter again, under the lock,
AcquireCheck(t) ==
  /\ NetAt(t, "check")
  /\ netTask' = [netTask EXCEPT ![t] = IF BelowCap(@.caller) THEN [@ EXCEPT !.pc = "reserve"]
                                       ELSE NetIdle]
  /\ capRaced' = (capRaced \/ \E u \in NetTasks \ {t} :
                    NetAt(u, "reserve") /\ netTask[u].caller = netTask[t].caller)
  /\ UNCHANGED <<netActive, netStores, netStats, netClock, contacted, origin, netReplies, netSpent>>

\* and takes the slot under the lock a second time.
AcquireReserve(t) ==
  /\ NetAt(t, "reserve")
  /\ netActive' = [netActive EXCEPT ![netTask[t].caller] = IF InflightLimit > 0 THEN @ + 1 ELSE @]
  /\ NetGoto(t, "start")
  /\ UNCHANGED <<netStores, netStats, netClock, netPast, netSpent>>

\* The end of a task: the counters, the response and its event, and the slot,
\* which the guard frees when it is dropped.
\* Mutant: a task that panics does not free its slot.
Released_Leaks(t, panics) ==
  [netActive EXCEPT ![netTask[t].caller] = IF InflightLimit > 0 /\ ~panics THEN @ - 1 ELSE @]
Released(t, panics) ==
  [netActive EXCEPT ![netTask[t].caller] = IF InflightLimit > 0 THEN @ - 1 ELSE @]

Finish(t, failed, reply) ==
  /\ netActive' = Released(t, FALSE)
  /\ netStats' = [netStats EXCEPT ![netTask[t].caller].requests = @ + 1,
                                  ![netTask[t].caller].errors = IF failed THEN @ + 1 ELSE @]
  /\ netReplies' = netReplies \cup reply
  /\ netTask' = [netTask EXCEPT ![t] = NetIdle]

NetReply(t, entry, hit) ==
  [caller |-> netTask[t].caller, host |-> netTask[t].params.host,
   serial |-> entry.serial, hit |-> hit, age |-> IF hit THEN netClock - entry.stored ELSE 0]

NetPanic(t) ==
  /\ HoldsSlot(t)
  /\ NetFault
  /\ netActive' = Released(t, TRUE)
  /\ netTask' = [netTask EXCEPT ![t] = NetIdle]
  /\ UNCHANGED <<netStores, netStats, netClock, netPast>>

\* Parse, then look into the cache. The age that counts is the one the storing
\* request has allowed.
Fresh(c, r) == {e \in netCache : e.key = CacheKey(c, r) /\ netClock <= e.expires}

Start(t) ==
  LET c == netTask[t].caller
      r == netTask[t].params
  IN  /\ NetAt(t, "start")
      /\ \/ ~ValidHttp(r) /\ Finish(t, TRUE, {})
         \/ /\ ValidHttp(r) /\ r.cache_ttl_ms > 0
            /\ \E e \in Fresh(c, r) : Finish(t, FALSE, {NetReply(t, e, TRUE)})
         \/ /\ ValidHttp(r) /\ (r.cache_ttl_ms = 0 \/ Fresh(c, r) = {})
            /\ NetGoto(t, "gate")
            /\ UNCHANGED <<netActive, netStats, netReplies>>
      /\ UNCHANGED <<netStores, netClock, contacted, origin, capRaced, netSpent>>

\* The policy is asked once before anything is sent, which spares the retries;
\* then the cookies of the caller's jar are copied, unless it sends its own.
Gate(t) ==
  LET c == netTask[t].caller
      r == netTask[t].params
  IN  /\ NetAt(t, "gate")
      /\ \/ (~LiteralOk(r.host) \/ {} \in Resolutions(r.host)) /\ Finish(t, TRUE, {})
         \/ /\ LiteralOk(r.host) /\ \E s \in Resolutions(r.host) : s # {}
            /\ netTask' = [netTask EXCEPT ![t].pc = "attempt",
                 ![t].cookie = IF r.use_cookies /\ ~r.ownCookie THEN netJar[c][r.host] ELSE NotSet]
            /\ UNCHANGED <<netActive, netStats, netReplies>>
      /\ UNCHANGED <<netStores, netClock, contacted, origin, capRaced, netSpent>>

-----------------------------------------------------------------------------
(* One attempt: a connection, up to Redirects further ones, and a response *)
(* or an error.                                                            *)

\* The connections an attempt that reaches a response makes: the resolver
\* filters each, the redirect policy looks at literal targets.
Chains(r) ==
  {<<r.host>>} \cup {<<r.host, hop>> : hop \in IF Redirects(r) > 0
                                            THEN {h \in Literals \cup HostNames : LiteralOk(h)} ELSE {}}
Connections(chain) ==
  {choice \in [DOMAIN chain -> Literals] :
     \A i \in DOMAIN chain : \E s \in Resolutions(chain[i]) : choice[i] \in s}

Retryable(status) == status \in {429, 500, 502, 503, 504}
Cacheable(resp) == resp.status \in 200..299 /\ ~resp.noStore

\* What an origin may answer; bytes is the size of the body.
OriginAnswers == {[status |-> 200, noStore |-> FALSE, bytes |-> 1],
                  [status |-> 200, noStore |-> FALSE, bytes |-> 2],
                  [status |-> 200, noStore |-> TRUE, bytes |-> 1],
                  [status |-> 503, noStore |-> FALSE, bytes |-> 1]}

CanRetry(t) == netTask[t].attempt < Retries(netTask[t].params)

\* A response that is not retried, or the last one; its cookie is kept for the
\* jar, a new one with every response. A retry keeps the cookies of the
\* attempt before it until another attempt gets a response.
Attempt(t) ==
  /\ NetAt(t, "attempt")
  /\ \E chain \in Chains(netTask[t].params) : \E choice \in Connections(chain) :
       contacted' = contacted \cup Range(choice)
  /\ \E a \in OriginAnswers :
       LET serial == 1 + Cardinality(origin)
           retry == CanRetry(t) /\ Retryable(a.status)
       IN  /\ Retryable(a.status) => netSpent.faults < MaxNetFaults
           /\ netSpent' = [netSpent EXCEPT !.faults = IF Retryable(a.status) THEN @ + 1 ELSE @]
           /\ origin' = origin \cup {[serial |-> serial, caller |-> netTask[t].caller,
                                      host |-> netTask[t].params.host, answer |-> a,
                                      ttl |-> netTask[t].params.cache_ttl_ms]}
           /\ netTask' = [netTask EXCEPT ![t].pc = IF retry THEN "attempt" ELSE "cookies",
                ![t].attempt = IF retry THEN @ + 1 ELSE @,
                ![t].got = IF retry THEN NotSet ELSE [serial |-> serial, answer |-> a],
                ![t].setCookie = IF netTask[t].params.use_cookies THEN serial ELSE NotSet]
  /\ UNCHANGED <<netActive, netStores, netStats, netClock, netReplies, capRaced>>

\* No connection, a timeout, a torn body: retried. A refused redirect or a body
\* over the cap: not.
AttemptFails(t) ==
  /\ NetAt(t, "attempt")
  /\ NetFault
  /\ \E transient \in BOOLEAN :
       netTask' = IF transient /\ CanRetry(t)
                    THEN [netTask EXCEPT ![t].attempt = @ + 1]
                    ELSE [netTask EXCEPT ![t].pc = "cookies", ![t].got = NotSet]
  /\ UNCHANGED <<netActive, netStores, netStats, netClock, netPast>>

\* The cookies are merged in the order in which requests complete.
MergeCookies(t) ==
  /\ NetAt(t, "cookies")
  /\ LET n == netTask[t] IN
       netJar' = IF n.setCookie # NotSet
                   THEN [netJar EXCEPT ![n.caller][n.params.host] = n.setCookie] ELSE netJar
  /\ NetGoto(t, "store")
  /\ UNCHANGED <<netActive, netCache, netBytes, netStats, netClock, netPast, netSpent>>

\* put: the entry replaces the one of its key, then the oldest go until both
\* bounds hold; of equally old ones any may go.
Replaced(key) == MapThenSumSet(LAMBDA e : e.bytes, {x \in netCache : x.key = key})

WithinBounds(s, bytes) == Cardinality(s) <= CacheMaxEntries /\ bytes <= CacheMaxBytes
BytesOf(s) == MapThenSumSet(LAMBDA e : e.bytes, s)

PutEntry(e) ==
  LET kept == {x \in netCache : x.key # e.key} \cup {e}
      bytes == netBytes - Replaced(e.key) + e.bytes
  IN  IF e.bytes > CacheMaxBytes THEN UNCHANGED <<netCache, netBytes>>
      ELSE \E s \in SUBSET kept :
             /\ \A x \in kept \ s, y \in s : x.stored <= y.stored
             /\ WithinBounds(s, bytes - BytesOf(kept \ s))
             /\ \A x \in kept \ s :
                  (\A y \in kept \ s : y.stored <= x.stored) =>
                     ~WithinBounds(s \cup {x}, bytes - BytesOf(kept \ s) + x.bytes)
             /\ netCache' = s
             /\ netBytes' = bytes - BytesOf(kept \ s)

StoreAndReply(t) ==
  LET n == netTask[t]
      r == n.params
  IN  /\ NetAt(t, "store")
      /\ IF n.got # NotSet /\ r.cache_ttl_ms > 0 /\ Cacheable(n.got.answer)
           THEN PutEntry([key |-> CacheKey(n.caller, r), serial |-> n.got.serial,
                          bytes |-> n.got.answer.bytes, stored |-> netClock,
                          expires |-> netClock + r.cache_ttl_ms])
           ELSE UNCHANGED <<netCache, netBytes>>
      /\ IF n.got = NotSet THEN Finish(t, TRUE, {})
         ELSE Finish(t, n.got.answer.status >= 400, {NetReply(t, n.got, FALSE)})
      /\ UNCHANGED <<netJar, netClock, contacted, origin, capRaced, netSpent>>

NetTick ==
  /\ netClock < MaxNetTime
  /\ netClock' = netClock + 1
  /\ UNCHANGED <<netTask, netActive, netStores, netStats, netPast, netSpent>>

NetNext ==
  \/ \E t \in NetTasks :
       \/ NetAccept(t) \/ AcquireCheck(t) \/ AcquireReserve(t) \/ Start(t) \/ Gate(t)
       \/ Attempt(t) \/ AttemptFails(t) \/ MergeCookies(t) \/ StoreAndReply(t) \/ NetPanic(t)
  \/ NetTick

NetSpec == NetInit /\ [][NetNext]_netVars

-----------------------------------------------------------------------------
(* Whatever a name resolves to between the check and the connection, and   *)
(* wherever a redirect leads, no connection is made to an address that the *)
(* policy forbids under every host.                                        *)
NoBlockedConnection ==
  \A a \in contacted : \E h \in Literals \cup HostNames : Permitted(h, a)

(* A caller's counter is the number of its tasks that hold a slot, so no    *)
(* slot leaks, whatever fails or panics; the cap holds unless two tasks of  *)
(* the caller were between the check and the increment at once.             *)
SlotsBalance ==
  InflightLimit > 0 =>
    \A c \in NetCallers : /\ netActive[c] = Cardinality(Holders(c))
                          /\ ~capRaced => netActive[c] <= InflightLimit

(* The cap and the cache keep their books: the cache stays within its      *)
(* bounds and knows its size.                                              *)
BooksBalance ==
  SlotsBalance /\ WithinBounds(netCache, netBytes) /\ netBytes = BytesOf(netCache)

(* A cached answer is what an origin gave the same caller for the same     *)
(* host, was allowed to be kept, and is not older than the request that    *)
(* stored it allowed; every other answer is the request's own.             *)
RepliesAreOwn ==
  \A a \in netReplies :
    \E o \in origin : /\ o.serial = a.serial /\ o.caller = a.caller /\ o.host = a.host
                      /\ a.hit => Cacheable(o.answer) /\ a.age <= o.ttl

(* A cookie that is sent was set for this caller by this host.             *)
CookiesAreOwn ==
  \A t \in NetTasks :
    HoldsSlot(t) /\ netTask[t].cookie # NotSet =>
      \E o \in origin : /\ o.serial = netTask[t].cookie
                        /\ o.caller = netTask[t].caller /\ o.host = netTask[t].params.host

(* Callers that share the plugin share nothing else: each has its own cap, *)
(* its own cached answers and its own cookies, and the plugin's accounts   *)
(* of them stay right whatever fails.                                      *)
CallersAreApart == BooksBalance /\ RepliesAreOwn /\ CookiesAreOwn
=============================================================================
