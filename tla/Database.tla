------------------------------ MODULE Database -------------------------------
(***************************************************************************)
(* The `database` plugin as one calling plugin sees it: the file of that   *)
(* caller, the cached pool of connections to it, and the handler tasks     *)
(* that the SDK's concurrent loop spawns, one per request.                 *)
(*                                                                         *)
(* A handler gets the pool (opening the file, creating and migrating its   *)
(* table on the first access), sweeps expired rows, and runs the request.  *)
(* Each statement is a step; get, set, delete, keys, query and the sweep   *)
(* are statements of their own, incr, append and patch are deferred        *)
(* transactions that read, then write, then commit. As in SyncHost, a      *)
(* transaction that has read may write only while nobody else holds the    *)
(* write lock and nothing was committed since it read.                     *)
(*                                                                         *)
(* Values are a type and a number: an integer, a list by its length, a     *)
(* document by one field.                                                  *)
(***************************************************************************)
EXTENDS Integers, Sequences, FiniteSets

CONSTANTS
  Keys,         \* keys of the kv table, ordered: a subset of Nat
  Tasks,        \* handler tasks that may run at the same time
  NoTask,       \* nobody holds the write lock
  Requests,     \* the requests callers make; see Request
  FirstRows,    \* the tables an earlier session may have left
  MaxInt,       \* the largest i64
  MaxRequests,  \* bound: requests accepted in a behaviour
  MaxTime,      \* bound: the last reading of the clock
  MaxFaults,    \* bound: statements that fail for reasons of their own
  MaxCrashes    \* bound: crashes of the plugin

VARIABLES
  schema,    \* of the file: "none", "old" (no expires_at) or "new"
  rows,      \* committed rows of table kv
  log,       \* history: log[v] is the operation that produced version v
  cached,    \* the pool of this caller is in DbPools::pools
  writer,    \* the task whose transaction holds the write lock
  task,      \* what each handler task is doing; see Idle
  replies,   \* history: what was answered, and the change event with it
  now,       \* wall clock
  accepted,  \* number of requests accepted so far
  faults,    \* number of faults so far
  crashes    \* number of crashes so far

fileVars == <<schema, rows, log>>
boundVars == <<now, accepted, faults, crashes>>
dbVars == <<fileVars, cached, writer, task, replies, boundVars>>

-----------------------------------------------------------------------------
(* Data *)

\* A request as parse_request leaves it; ttl 0 stands for none. `type` and `n`
\* are the value of a set, a query or a patch, `n` the delta of an incr. "bad"
\* is rejected before any file is touched: no or an unsafe caller id, unknown
\* action, malformed params, empty key.
Request(op, key, type, n, ttl) ==
  [op |-> op, key |-> key, type |-> type, n |-> n, ttl |-> ttl]

NoRequest == Request("bad", 0, "none", 0, 0)

\* What the sweep is in the history, and the table that was found at the start.
SweepRequest == Request("sweep", 0, "none", 0, 0)
FoundRequest == Request("found", 0, "none", 0, 0)

Absent == [type |-> "none", n |-> 0, exp |-> 0]

\* A key without a row has neither a value nor a deadline; an integer is an i64.
TypedRows ==
  {r \in [type : {"none", "int", "list", "doc"}, n : Int, exp : Nat] :
     /\ r.type = "none" => r = Absent
     /\ r.type = "int" => r.n \in -MaxInt - 1..MaxInt}

RequestType ==
  [op : {"bad", "set", "get", "batch", "keys", "del", "query", "incr", "append",
         "patch"},
   key : Nat, type : {"none", "int", "list", "doc"}, n : -MaxInt - 1..MaxInt,
   ttl : Nat]

\* parse_request and serde let nothing else through: numbers are i64, what is
\* stored is a value, and whatever works on one key names it.
ASSUME DatabaseAssumption ==
  /\ NoTask \notin Tasks
  /\ MaxInt \in Nat /\ MaxRequests \in Nat
  /\ FirstRows \subseteq [Keys -> TypedRows]
  /\ \A r \in Requests :
       /\ r \in RequestType
       /\ r.op \in {"bad", "batch", "keys"} \/ r.key \in Keys
       /\ r.op \in {"set", "query"} => r.type # "none"

\* A batch reads the keys from 1 on, as many as there are; see KeyAt.
ASSUME BatchAssumption ==
  (\E r \in Requests : r.op = "batch") =>
    IsFiniteSet(Keys) /\ Keys # {} /\ Keys = 1..Cardinality(Keys)

\* `expires_at` is null where exp is 0.
Row(type, n, exp) == [type |-> type, n |-> n, exp |-> exp]

EmptyTable == [k \in Keys |-> Absent]

\* `expires_at is not null and expires_at <= t`
Expired(row, t) == row.exp # 0 /\ row.exp <= t

\* Mutant: the accessors do not filter expired rows.
Select_Unfiltered(row, t) == IF row.type = "none" THEN Absent ELSE row

\* `select value ... where expires_at is null or expires_at > t`
Select(row, t) == IF Expired(row, t) THEN Absent ELSE row

\* Two's complement: what an addition leaves in an i64 in a release build.
Wrap(n) == ((n + MaxInt + 1) % (2 * (MaxInt + 1))) - MaxInt - 1

\* Mutant: the length of a list is not carried over.
NewValue_Forgets(r, old) ==
  CASE r.op = "incr" -> Row("int", Wrap(old.n + r.n), 0)
    [] r.op = "append" -> Row("list", 1, 0)
    [] r.op = "patch" -> Row(old.type, IF old.type = "doc" THEN r.n ELSE old.n, 0)

\* What incr, append and patch write over the value `old` they have read. A
\* missing integer or list counts as zero or empty; json_set leaves a value
\* that is no document as it is.
NewValue(r, old) ==
  CASE r.op = "incr" -> Row("int", Wrap(old.n + r.n), 0)
    [] r.op = "append" -> Row("list", old.n + 1, 0)
    [] r.op = "patch" -> Row(old.type, IF old.type = "doc" THEN r.n ELSE old.n, 0)

\* The value has the type the operation needs.
Fits(r, old) ==
  CASE r.op = "incr" -> old.type \in {"none", "int"}
    [] r.op = "append" -> old.type \in {"none", "list"}
    [] r.op = "patch" -> old.type # "none"

Overflows(r, old) == r.op = "incr" /\ Wrap(old.n + r.n) # old.n + r.n

\* The conflict clause leaves expires_at alone.
Upserted(r, old) == [NewValue(r, old) EXCEPT !.exp = rows[r.key].exp]

ReadModifyWrite == {"incr", "append", "patch"}

-----------------------------------------------------------------------------
(* Tasks *)

Idle == [pc |-> "idle", req |-> NoRequest, rid |-> 0, from |-> 0, first |-> 0,
         since |-> 0, base |-> 0, got |-> << >>]

\* The i-th key a request reads.
KeyAt(r, i) == IF r.op = "batch" THEN i ELSE r.key

KeysRead(r) == IF r.op = "batch" THEN Cardinality(Keys) ELSE 1

\* The task continues at pc.
Goto(t, pc) == task' = [task EXCEPT ![t].pc = pc]

\* The task continues at pc with a fresh now_ms.
StampAndGoto(t, pc) == task' = [task EXCEPT ![t].pc = pc, ![t].since = now]

\* The reply leaves with its event, and the task ends.
Answer(t, status, got, event) ==
  /\ replies' = replies \cup
       {[req |-> task[t].req, rid |-> task[t].rid, from |-> task[t].from,
         upto |-> now, first |-> task[t].first, last |-> Len(log),
         status |-> status, got |-> got, event |-> event]}
  /\ task' = [task EXCEPT ![t] = Idle]

Succeed(t, got) == Answer(t, "ok", got, FALSE)
Refuse(t) == Answer(t, "error", << >>, FALSE)

\* A statement outside a transaction may write.
LockFree == writer = NoTask

\* Mutant: the transaction does not notice that it was overtaken.
MayWrite_Overtaken(t) == writer = NoTask

\* The write of a transaction that has read.
MayWrite(t) == writer = NoTask /\ task[t].base = Len(log)

Unlocked(t) == IF writer = t THEN NoTask ELSE writer

\* The table becomes `table` by request r of task t, committed at once.
Commit(t, r, table) ==
  /\ rows' = table
  /\ log' = Append(log, [req |-> r, at |-> task[t].since, rid |-> task[t].rid,
                         rows |-> table])
  /\ UNCHANGED schema

-----------------------------------------------------------------------------
(* Accepting a request and opening the file *)

\* A fresh file, one left by a version before 0.3, or one in use.
DbInit ==
  /\ \/ schema = "none" /\ rows = EmptyTable
     \/ schema \in {"old", "new"} /\ rows \in FirstRows
  /\ log = << [req |-> FoundRequest, at |-> 0, rid |-> 0, rows |-> rows] >>
  /\ cached = FALSE
  /\ writer = NoTask
  /\ task = [t \in Tasks |-> Idle]
  /\ replies = {}
  /\ now = 0 /\ accepted = 0 /\ faults = 0 /\ crashes = 0

\* The loop spawns a handler task.
Accept(t) ==
  /\ task[t].pc = "idle"
  /\ accepted < MaxRequests
  /\ \E r \in Requests :
       task' = [task EXCEPT ![t] =
                  [Idle EXCEPT !.pc = "open", !.req = r, !.rid = accepted + 1,
                               !.from = now, !.first = Len(log)]]
  /\ accepted' = accepted + 1
  /\ UNCHANGED <<fileVars, cached, writer, replies, now, faults, crashes>>

\* handle_with_events returns before any file is touched.
Reject(t) ==
  /\ task[t].pc = "open"
  /\ task[t].req.op = "bad"
  /\ Refuse(t)
  /\ UNCHANGED <<fileVars, cached, writer, boundVars>>

\* pool_for: the pool is there, or the file has to be opened.
LookUpPool(t) ==
  /\ task[t].pc = "open"
  /\ task[t].req.op # "bad"
  /\ IF cached THEN StampAndGoto(t, "sweep") ELSE Goto(t, "create")
  /\ UNCHANGED <<fileVars, cached, writer, replies, boundVars>>

\* `create table if not exists kv`. Two first requests may both get here.
CreateTable(t) ==
  /\ task[t].pc = "create"
  /\ schema = "none" => LockFree
  /\ schema' = IF schema = "none" THEN "new" ELSE schema
  /\ Goto(t, "probe")
  /\ UNCHANGED <<rows, log, cached, writer, replies, boundVars>>

\* Mutant: the probe is dropped, as if every table had the column.
ProbeColumn_Assumes(t) ==
  /\ task[t].pc = "probe"
  /\ Goto(t, "cache")
  /\ UNCHANGED <<fileVars, cached, writer, replies, boundVars>>

\* `select count(*) from pragma_table_info`
ProbeColumn(t) ==
  /\ task[t].pc = "probe"
  /\ Goto(t, IF schema = "old" THEN "migrate" ELSE "cache")
  /\ UNCHANGED <<fileVars, cached, writer, replies, boundVars>>

\* `alter table kv add column`. It fails for the second of two tasks that have
\* both seen the old table: the column is there already.
Migrate(t) ==
  /\ task[t].pc = "migrate"
  /\ LockFree
  /\ IF schema = "old"
     THEN schema' = "new" /\ Goto(t, "cache") /\ UNCHANGED replies
     ELSE Refuse(t) /\ UNCHANGED schema
  /\ UNCHANGED <<rows, log, cached, writer, boundVars>>

\* The pool is cached unless another task was first.
CachePool(t) ==
  /\ task[t].pc = "cache"
  /\ cached' = TRUE
  /\ StampAndGoto(t, "sweep")
  /\ UNCHANGED <<fileVars, writer, replies, boundVars>>

-----------------------------------------------------------------------------
(* The sweep, and the requests of one statement *)

\* sweep_expired, with the time read when the pool was obtained.
Sweep(t) ==
  /\ task[t].pc = "sweep"
  /\ LockFree
  /\ LET dead == {k \in Keys : Expired(rows[k], task[t].since)} IN
       IF dead = {} THEN UNCHANGED fileVars
       ELSE Commit(t, SweepRequest,
                   [k \in Keys |-> IF k \in dead THEN Absent ELSE rows[k]])
  /\ Goto(t, "stamp")
  /\ UNCHANGED <<cached, writer, replies, boundVars>>

\* The handler of the request starts, or goes on to its next key: it reads the
\* clock before it waits for a connection.
Stamp(t) ==
  /\ task[t].pc = "stamp"
  /\ StampAndGoto(t, "run")
  /\ UNCHANGED <<fileVars, cached, writer, replies, boundVars>>

\* handle_get, and one key of handle_batch_get. The keys of a batch are read by
\* statements of their own, outside a transaction.
Get(t) ==
  LET r == task[t].req
      got == Append(task[t].got,
               Select(rows[KeyAt(r, Len(task[t].got) + 1)], task[t].since))
  IN /\ task[t].pc = "run"
     /\ r.op \in {"get", "batch"}
     /\ IF Len(got) = KeysRead(r)
        THEN Succeed(t, got)
        ELSE /\ task' = [task EXCEPT ![t].got = got, ![t].pc = "stamp"]
             /\ UNCHANGED replies
     /\ UNCHANGED <<fileVars, cached, writer, boundVars>>

\* handle_keys: every key that has a row, expired or not.
ListKeys(t) ==
  /\ task[t].pc = "run"
  /\ task[t].req.op = "keys"
  /\ Succeed(t, [k \in Keys |-> rows[k].type # "none"])
  /\ UNCHANGED <<fileVars, cached, writer, boundVars>>

\* The deadline a set gives its key.
Deadline(t) ==
  IF task[t].req.ttl = 0 THEN 0 ELSE task[t].since + task[t].req.ttl

\* handle_set: one upsert that replaces value and deadline.
Set(t) ==
  LET r == task[t].req IN
  /\ task[t].pc = "run"
  /\ r.op = "set"
  /\ LockFree
  /\ Commit(t, r, [rows EXCEPT ![r.key] = Row(r.type, r.n, Deadline(t))])
  /\ Answer(t, "ok", << >>, TRUE)
  /\ UNCHANGED <<cached, writer, boundVars>>

\* Mutant: the event is published whether or not a row was deleted.
Delete_AlwaysAnnounces(t) ==
  LET r == task[t].req IN
  /\ task[t].pc = "run"
  /\ r.op = "del"
  /\ LockFree
  /\ IF rows[r.key] # Absent THEN Commit(t, r, [rows EXCEPT ![r.key] = Absent])
                             ELSE UNCHANGED fileVars
  /\ Answer(t, "ok", << >>, TRUE)
  /\ UNCHANGED <<cached, writer, boundVars>>

\* handle_delete: an event only if a row was deleted.
Delete(t) ==
  LET r == task[t].req IN
  /\ task[t].pc = "run"
  /\ r.op = "del"
  /\ LockFree
  /\ IF rows[r.key] # Absent
     THEN /\ Commit(t, r, [rows EXCEPT ![r.key] = Absent])
          /\ Answer(t, "ok", << >>, TRUE)
     ELSE /\ Succeed(t, << >>)
          /\ UNCHANGED fileVars
  /\ UNCHANGED <<cached, writer, boundVars>>

\* handle_query, for an SQL text that writes the kv table itself. A later
\* statement of the text may fail, or its rows exceed max_response_bytes, when
\* the write is done: then an error is the answer. No event is published.
Query(t) ==
  LET r == task[t].req IN
  /\ task[t].pc = "run"
  /\ r.op = "query"
  /\ LockFree
  /\ Commit(t, r, [rows EXCEPT ![r.key] = Row(r.type, r.n, 0)])
  /\ Succeed(t, << >>) \/ Refuse(t)
  /\ UNCHANGED <<cached, writer, boundVars>>

-----------------------------------------------------------------------------
(* Read-modify-write: handle_incr, handle_append, handle_patch *)

\* The first statement of the transaction takes its snapshot. A value of the
\* wrong type, or none to patch, ends the request; so does the overflow of an
\* incr in a build that checks for it.
Read(t) ==
  LET r == task[t].req
      old == Select(rows[r.key], task[t].since)
  IN /\ task[t].pc = "run"
     /\ r.op \in ReadModifyWrite
     /\ \/ /\ Fits(r, old)
           /\ task' = [task EXCEPT ![t].pc = "write", ![t].base = Len(log),
                                   ![t].got = << old >>]
           /\ UNCHANGED replies
        \/ /\ ~Fits(r, old) \/ Overflows(r, old)
           /\ Refuse(t)
     /\ UNCHANGED <<fileVars, cached, writer, boundVars>>

\* The upsert gets the write lock, or fails: the lock is taken, or somebody
\* committed since the read.
Write(t) ==
  /\ task[t].pc = "write"
  /\ IF MayWrite(t)
     THEN writer' = t /\ Goto(t, "commit") /\ UNCHANGED replies
     ELSE Refuse(t) /\ UNCHANGED writer
  /\ UNCHANGED <<fileVars, cached, boundVars>>

\* The transaction commits and the new value is the answer.
CommitWrite(t) ==
  LET r == task[t].req
      new == Upserted(r, task[t].got[1])
  IN /\ task[t].pc = "commit"
     /\ Commit(t, r, [rows EXCEPT ![r.key] = new])
     /\ writer' = NoTask
     /\ Answer(t, "ok", << new >>, TRUE)
     /\ UNCHANGED <<cached, boundVars>>

-----------------------------------------------------------------------------
(* What may go wrong *)

\* A statement fails for a reason of its own: busy for too long, disk or quota
\* full, a value or a response too large, a text that does not parse. A
\* transaction is rolled back.
Fail(t) ==
  /\ task[t].pc \notin {"idle", "open"}
  /\ faults < MaxFaults
  /\ faults' = faults + 1
  /\ Refuse(t)
  /\ writer' = Unlocked(t)
  /\ UNCHANGED <<fileVars, cached, now, accepted, crashes>>

\* The process dies; the supervisor starts it again with no pool cached.
Crash ==
  /\ crashes < MaxCrashes
  /\ crashes' = crashes + 1
  /\ task' = [t \in Tasks |-> Idle]
  /\ writer' = NoTask
  /\ cached' = FALSE
  /\ UNCHANGED <<fileVars, replies, now, accepted, faults>>

Tick ==
  /\ now < MaxTime
  /\ now' = now + 1
  /\ UNCHANGED <<fileVars, cached, writer, task, replies, accepted, faults,
                 crashes>>

OpenStep(t) ==
  LookUpPool(t) \/ CreateTable(t) \/ ProbeColumn(t) \/ Migrate(t) \/ CachePool(t)

RunStep(t) ==
  \/ Sweep(t) \/ Stamp(t) \/ Get(t) \/ ListKeys(t) \/ Set(t) \/ Delete(t)
  \/ Query(t) \/ Read(t) \/ Write(t) \/ CommitWrite(t)

TaskStep(t) == Reject(t) \/ OpenStep(t) \/ RunStep(t)

DbNext ==
  \/ \E t \in Tasks : Accept(t) \/ TaskStep(t) \/ Fail(t)
  \/ Crash
  \/ Tick

DbSpec == DbInit /\ [][DbNext]_dbVars

-----------------------------------------------------------------------------
(* Properties *)

PCs == {"idle", "open", "create", "probe", "migrate", "cache", "sweep",
        "stamp", "run", "write", "commit"}

\* Every variable has its type, and the write lock is held by the task that is
\* about to commit.
TypeOK ==
  /\ schema \in {"none", "old", "new"}
  /\ rows \in [Keys -> TypedRows]
  /\ cached \in BOOLEAN
  /\ \A t \in Tasks :
       /\ task[t].pc \in PCs
       /\ task[t].pc = "idle" <=> task[t] = Idle
       /\ task[t].pc = "commit" <=> writer = t
  /\ writer \in Tasks \cup {NoTask}

\* db.rs:158-207: however first requests, failures and crashes interleave, a
\* request that is past the opening, and every later one that takes the pool
\* from the cache, finds the kv table with its expires_at column.
PoolHasSchema ==
  (cached \/ \E t \in Tasks :
     task[t].pc \in {"cache", "sweep", "stamp", "run", "write", "commit"})
  => schema = "new"

\* USAGE.md:107-108 "each db_incr sees the latest committed value": the history
\* of the table is one of KvStore, where each operation applies to what the one
\* before it left. db_append and db_patch, too, never build on a value that was
\* overtaken between their two statements.
Kv == INSTANCE KvStore
ImplementsKv == Kv!KvSpec

\* What the table shows of key k at time t in version v.
Shown(v, k, t) ==
  IF Kv!Alive(log[v].rows[k], t) THEN log[v].rows[k] ELSE Absent

\* USAGE.md:327-331: what db_get and db_batch_get show of a key is what some
\* version of the table, current while the request ran, held for it, and it had
\* not expired when the request was accepted - although a set that waited may
\* store a deadline that has passed behind the sweep. db_keys lists the keys of
\* one version.
ReadsAreRecent ==
  \A p \in {q \in replies : q.status = "ok"} :
    /\ p.req.op \in {"get", "batch"} =>
         \A i \in DOMAIN p.got :
           \E v \in p.first..p.last, t \in p.from..p.upto :
             p.got[i] = Shown(v, KeyAt(p.req, i), t)
    /\ p.req.op = "keys" =>
         \E v \in p.first..p.last :
           \A k \in Keys : p.got[k] = (log[v].rows[k].type # "none")

\* README.md "Change events": exactly the requests that changed the table
\* through a kv action, and only when they did, are announced, with the answer
\* "ok"; an error means that nothing was changed (db_query excepted, whose text
\* may hold several statements).
AnnouncedIffCommitted ==
  \A p \in replies :
    LET changed == \E v \in DOMAIN log :
                     log[v].rid = p.rid /\ log[v].req.op # "sweep"
    IN /\ p.event <=> changed /\ p.req.op # "query"
       /\ p.event => p.status = "ok"
       /\ changed /\ p.status = "error" => p.req.op = "query"

\* Nobody but db_incr, by one, has touched key k, it never had a deadline, and
\* it had room for what is asked of it.
OnlyCounted(k) ==
  /\ log[1].rows[k].type \in {"none", "int"}
  /\ log[1].rows[k].n + MaxRequests <= MaxInt
  /\ \A v \in DOMAIN log :
       /\ log[v].rows[k].exp = 0
       /\ log[v].req.key = k => log[v].req.op = "incr" /\ log[v].req.n = 1

\* The ids of scheduler, calendar and notes rest on this: a counter gives no
\* value out twice, whatever races, fails or crashes (USAGE.md:98-110).
IdsNeverRepeat ==
  \A p, q \in {r \in replies : r.req.op = "incr" /\ r.status = "ok"} :
    p.rid # q.rid /\ p.req.key = q.req.key /\ OnlyCounted(p.req.key)
      => p.got[1].n # q.got[1].n
=============================================================================
