------------------------------ MODULE SyncHost -------------------------------
(***************************************************************************)
(* The host-side `sync` plugin: one SQLite store (WAL mode) shared by the  *)
(* handler tasks of the concurrent message loop.                           *)
(*                                                                         *)
(* A request is accepted by the loop and handled by a task of its own. The *)
(* handler opens a DEFERRED transaction on a pooled connection, prunes     *)
(* expired heartbeats, applies the caller's mutation, commits, and returns *)
(* the reply followed by one delta per mutation; the task then pushes      *)
(* these envelopes one by one into the channel the loop drains towards the *)
(* kernel. Every `.await` of the handler is a boundary between two actions *)
(* here, so the statements of concurrent transactions interleave.          *)
(*                                                                         *)
(* Of SQLite the module keeps what the code relies on: a transaction reads *)
(* the snapshot of its first statement, one transaction at a time holds    *)
(* the write lock, and a transaction that has read may start writing only  *)
(* if the lock is free and nothing was committed since its snapshot.       *)
(***************************************************************************)
EXTENDS Integers, Sequences, FiniteSets, Functions

CONSTANTS
  Keys,             \* keys of the store; ordered, so a subset of Nat
  HeartbeatKeys,    \* the keys matching `heartbeat.%`
  Values,           \* JSON values that occur in requests
  BigValues,        \* the values longer than max_value_bytes
  NoKey, NoValue,   \* fillers for a request or a row without key or value
  Tasks,            \* handler tasks that may run at the same time
  Callers,          \* who calls: 0 for some plugin, n > 0 for one of interest
  NoTask,           \* nobody holds the write lock
  TTL,              \* heartbeat_ttl_secs; 0 disables the prune
  PoolSize,         \* connections in the SQLite pool
  ChanCap,          \* capacity of the loop's channel
  MaxSnapshotRows,  \* rows a snapshot may have under max_response_bytes
  MaxRequests,      \* bound: requests accepted in a behaviour
  MaxTime,          \* bound: the last reading of the clock
  MaxCrashes        \* bound: crashes of the plugin process

ASSUME HostAssumption ==
  /\ Keys \subseteq Nat
  /\ HeartbeatKeys \subseteq Keys
  /\ BigValues \subseteq Values
  /\ NoValue \notin Values
  /\ NoTask \notin Tasks
  /\ 0 \in Callers /\ Callers \subseteq Nat
  /\ {TTL, MaxRequests, MaxTime, MaxCrashes, MaxSnapshotRows} \subseteq Nat
  /\ {PoolSize, ChanCap} \subseteq Nat \ {0}

VARIABLES
  db,         \* committed database: rows, their updated_at, the version
  log,        \* history: log[v] is the mutation that produced version v
  writer,     \* the task whose transaction holds the write lock
  pc,         \* where each handler task is
  req,        \* the request it handles
  since,      \* its now_ms, read before the transaction is opened
  view,       \* the database as its transaction sees it
  base,       \* the version its snapshot was taken at
  stale,      \* the expired heartbeats it still has to delete
  muts,       \* the mutations of its open transaction, in order
  outbox,     \* envelopes it still has to push into the channel
  chan,       \* the mpsc channel of the loop
  published,  \* history: versions of the deltas sent to the kernel, in order
  lost,       \* history: versions whose delta died with the process
  now,        \* wall clock
  accepted,   \* number of requests accepted so far
  crashes     \* number of crashes so far

txVars == <<view, base, stale, muts>>
ghostVars == <<published, lost>>
boundVars == <<now, accepted, crashes>>
hostVars == <<db, log, writer, pc, req, since, txVars, outbox, chan,
              ghostVars, boundVars>>

-----------------------------------------------------------------------------
(* Data *)

EmptyRows == [k \in Keys |-> NoValue]

\* A file without tables has no meta row either, hence no version.
NewFile == [rows |-> EmptyRows, at |-> [k \in Keys |-> 0], version |-> -1]

\* Mutant: opening seeds the version again.
OpenPool_Reseeds(d) == [d EXCEPT !.version = 0]

\* open_pool: tables are created and the version seeded only where absent.
OpenPool(d) == IF d.version >= 0 THEN d ELSE [d EXCEPT !.version = 0]

EmptyDb == OpenPool(NewFile)

ContentAt(h, v) == IF v = 0 THEN EmptyRows ELSE h[v].rows

\* A request as parse_request leaves it. "bad" stands for everything rejected
\* before the store is touched: no caller id, unknown action, malformed
\* params, empty key. `from` stands for the action id, by which the kernel
\* returns the reply to its caller.
Request(op, key, value, from) ==
  [op |-> op, key |-> key, value |-> value, from |-> from]

Requests ==
  {Request("set", k, v, c) : k \in Keys, v \in Values, c \in Callers}
    \cup {Request(op, k, NoValue, c) :
            op \in {"get", "del"}, k \in Keys, c \in Callers}
    \cup {Request(op, NoKey, NoValue, c) :
            op \in {"snapshot", "bad"}, c \in Callers}

NoRequest == Request("bad", NoKey, NoValue, 0)

Rejected(r) == r.op = "bad" \/ (r.op = "set" /\ r.value \in BigValues)

\* A mutation, with the content it leaves behind.
Mutation(op, key, value, d) ==
  [op |-> op, key |-> key, value |-> value, version |-> d.version,
   rows |-> d.rows]

Delta(m) ==
  [type |-> "delta", op |-> m.op, key |-> m.key, value |-> m.value,
   version |-> m.version]

Deltas(ms) == [i \in 1..Len(ms) |-> Delta(ms[i])]

Reply(r, status, version, rows) ==
  [type |-> "reply", req |-> r, status |-> status, version |-> version,
   rows |-> rows]

ErrorReply(r) == Reply(r, "error", 0, EmptyRows)

BumpVersion(version) == version + 1

PutRow(d, k, v, at) ==
  [rows |-> [d.rows EXCEPT ![k] = v], at |-> [d.at EXCEPT ![k] = at],
   version |-> BumpVersion(d.version)]

\* Mutant: the delete forgets the version.
DeleteRow_NoBump(d, k) ==
  [rows |-> [d.rows EXCEPT ![k] = NoValue], at |-> [d.at EXCEPT ![k] = 0],
   version |-> d.version]

DeleteRow(d, k) ==
  [rows |-> [d.rows EXCEPT ![k] = NoValue], at |-> [d.at EXCEPT ![k] = 0],
   version |-> BumpVersion(d.version)]

\* Mutants: the key pattern is dropped; the cutoff itself counts as expired.
Expired_AnyKey(d) == {k \in Keys : d.rows[k] # NoValue /\ d.at[k] < now - TTL}
Expired_Inclusive(d) ==
  {k \in HeartbeatKeys : d.rows[k] # NoValue /\ d.at[k] <= now - TTL}

\* Rows matching `heartbeat.%` whose updated_at lies before now - TTL.
Expired(d) ==
  {k \in HeartbeatKeys : d.rows[k] # NoValue /\ d.at[k] < now - TTL}

\* `order by key`
FirstKey(S) == CHOOSE k \in S : \A j \in S : k <= j

RowCount(rows) == Cardinality({k \in Keys : rows[k] # NoValue})

-----------------------------------------------------------------------------
(* Transactions *)

InTx(t) == pc[t] \in {"begun", "reading", "commit"}

\* The connection pool: `pool.begin()` waits while every connection is taken.
PoolFree == Cardinality({t \in Tasks : InTx(t)}) < PoolSize

\* Mutant: rows selected outside the transaction, so nothing ties the write to
\* what was read.
MayWrite_Overtaken(t) == writer \in {t, NoTask}

\* A write statement may run: the task has the write lock, or the lock is free
\* and the transaction either has not read yet or read the current version.
MayWrite(t) ==
  \/ writer = t
  \/ /\ writer = NoTask
     /\ pc[t] = "begun" \/ base[t] = db.version

\* What the next statement sees: the first one takes its snapshot.
Source(t) == IF pc[t] = "begun" THEN db ELSE view[t]

TakeLock(t) ==
  /\ MayWrite(t)
  /\ writer' = t
  /\ base' = [base EXCEPT ![t] = IF pc[t] = "begun" THEN db.version ELSE @]

\* The prune is done (or disabled), so the caller's statement is next.
PruneDone(t) ==
  \/ pc[t] = "begun" /\ TTL = 0
  \/ pc[t] = "reading" /\ stale[t] = {}

\* The next statement of the open transaction writes.
WritesNext(t) ==
  \/ pc[t] = "begun" /\ req[t].op = "del"
  \/ pc[t] = "begun" /\ req[t].op = "set" /\ TTL = 0
  \/ pc[t] = "reading" /\ (req[t].op = "set" \/ stale[t] # {})

ResetTx(t) ==
  /\ view' = [view EXCEPT ![t] = EmptyDb]
  /\ base' = [base EXCEPT ![t] = 0]
  /\ stale' = [stale EXCEPT ![t] = {}]
  /\ muts' = [muts EXCEPT ![t] = << >>]

Unlocked(t) == IF writer = t THEN NoTask ELSE writer

\* The handler returns; the task starts pushing its envelopes.
Answer(t, envelopes) ==
  /\ outbox' = [outbox EXCEPT ![t] = envelopes]
  /\ pc' = [pc EXCEPT ![t] = "sending"]
  /\ writer' = Unlocked(t)
  /\ ResetTx(t)

-----------------------------------------------------------------------------
(* The handler, one action per statement *)

\* The loop receives a request and spawns a task; handle_set and handle_del
\* read the clock before they wait for a connection.
Accept(t, r) ==
  /\ pc[t] = "idle"
  /\ accepted < MaxRequests
  /\ req' = [req EXCEPT ![t] = r]
  /\ since' = [since EXCEPT ![t] = IF r.op \in {"set", "del"} THEN now ELSE 0]
  /\ pc' = [pc EXCEPT ![t] = "accepted"]
  /\ accepted' = accepted + 1
  /\ UNCHANGED <<db, log, writer, txVars, outbox, chan, ghostVars, now, crashes>>

\* Parsing or the value cap rejects the request before any statement.
Refuse(t) ==
  /\ pc[t] = "accepted"
  /\ Rejected(req[t])
  /\ Answer(t, <<ErrorReply(req[t])>>)
  /\ UNCHANGED <<db, log, req, since, chan, ghostVars, boundVars>>

\* handle_get: one statement outside any transaction.
Get(t) ==
  /\ pc[t] = "accepted"
  /\ req[t].op = "get"
  /\ PoolFree
  /\ Answer(t, <<Reply(req[t], "ok", 0,
                       [EmptyRows EXCEPT ![req[t].key] = db.rows[req[t].key]])>>)
  /\ UNCHANGED <<db, log, req, since, chan, ghostVars, boundVars>>

Begin(t) ==
  /\ pc[t] = "accepted"
  /\ req[t].op \in {"set", "del", "snapshot"}
  /\ ~Rejected(req[t])
  /\ PoolFree
  /\ pc' = [pc EXCEPT ![t] = "begun"]
  /\ UNCHANGED <<db, log, writer, req, since, txVars, outbox, chan, ghostVars,
                 boundVars>>

\* prune_heartbeats reads the clock and selects the expired rows. This read
\* fixes the transaction's snapshot.
SelectStale(t) ==
  /\ pc[t] = "begun"
  /\ req[t].op \in {"set", "snapshot"}
  /\ TTL > 0
  /\ view' = [view EXCEPT ![t] = db]
  /\ base' = [base EXCEPT ![t] = db.version]
  /\ stale' = [stale EXCEPT ![t] = Expired(db)]
  /\ pc' = [pc EXCEPT ![t] = "reading"]
  /\ UNCHANGED <<db, log, writer, req, since, muts, outbox, chan, ghostVars,
                 boundVars>>

\* One turn of the loop that deletes the selected rows in key order.
PruneRow(t) ==
  /\ pc[t] = "reading"
  /\ stale[t] # {}
  /\ TakeLock(t)
  /\ LET k == FirstKey(stale[t])
         d == DeleteRow(view[t], k)
     IN /\ view' = [view EXCEPT ![t] = d]
        /\ muts' = [muts EXCEPT ![t] = Append(@, Mutation("del", k, NoValue, d))]
        /\ stale' = [stale EXCEPT ![t] = @ \ {k}]
  /\ UNCHANGED <<db, log, pc, req, since, outbox, chan, ghostVars, boundVars>>

\* handle_set: the upsert and the version bump.
Upsert(t) ==
  /\ req[t].op = "set"
  /\ PruneDone(t)
  /\ TakeLock(t)
  /\ LET d == PutRow(Source(t), req[t].key, req[t].value, since[t])
     IN /\ view' = [view EXCEPT ![t] = d]
        /\ muts' = [muts EXCEPT
                      ![t] = Append(@, Mutation("set", req[t].key, req[t].value, d))]
  /\ pc' = [pc EXCEPT ![t] = "commit"]
  /\ UNCHANGED <<db, log, req, since, stale, outbox, chan, ghostVars, boundVars>>

\* handle_del: the delete, and the bump if a row was affected.
Delete(t) ==
  /\ req[t].op = "del"
  /\ pc[t] = "begun"
  /\ TakeLock(t)
  /\ LET k == req[t].key
         d == DeleteRow(db, k)
     IN IF db.rows[k] # NoValue
        THEN /\ view' = [view EXCEPT ![t] = d]
             /\ muts' = [muts EXCEPT
                           ![t] = Append(@, Mutation("del", k, NoValue, d))]
        ELSE /\ view' = [view EXCEPT ![t] = db]
             /\ UNCHANGED muts
  /\ pc' = [pc EXCEPT ![t] = "commit"]
  /\ UNCHANGED <<db, log, req, since, stale, outbox, chan, ghostVars, boundVars>>

\* handle_snapshot: version and rows, read in the transaction of the prune.
ReadSnapshot(t) ==
  /\ req[t].op = "snapshot"
  /\ PruneDone(t)
  /\ view' = [view EXCEPT ![t] = Source(t)]
  /\ base' = [base EXCEPT ![t] = IF pc[t] = "begun" THEN db.version ELSE @]
  /\ pc' = [pc EXCEPT ![t] = "commit"]
  /\ UNCHANGED <<db, log, writer, req, since, stale, muts, outbox, chan,
                 ghostVars, boundVars>>

\* Mutant: the snapshot's version is read after its rows, outside the transaction.
Envelopes_LateVersion(t) ==
  <<Reply(req[t], "ok", db.version,
          IF req[t].op = "snapshot" THEN view[t].rows ELSE EmptyRows)>>
    \o Deltas(muts[t])

\* The envelopes of a handler whose transaction has just committed. A snapshot
\* over max_response_bytes is refused after the commit of its prune, and the
\* error return drops the deltas.
Envelopes(t) ==
  LET r == req[t]
      d == view[t]
  IN IF r.op = "snapshot" /\ RowCount(d.rows) > MaxSnapshotRows
     THEN <<ErrorReply(r)>>
     ELSE <<Reply(r, "ok", d.version,
                  IF r.op = "snapshot" THEN d.rows ELSE EmptyRows)>>
            \o Deltas(muts[t])

\* Mutant: committing a read-only snapshot writes its view back.
Commit_WritesView(t) ==
  /\ pc[t] = "commit"
  /\ db' = view[t]
  /\ log' = log \o muts[t]
  /\ Answer(t, Envelopes(t))
  /\ UNCHANGED <<req, since, chan, ghostVars, boundVars>>

Commit(t) ==
  /\ pc[t] = "commit"
  /\ db' = IF writer = t THEN view[t] ELSE db
  /\ log' = log \o muts[t]
  /\ Answer(t, Envelopes(t))
  /\ UNCHANGED <<req, since, chan, ghostVars, boundVars>>

\* Mutant: the transaction waits for a snapshot that can no longer be current.
LoseRace_Waits(t) ==
  /\ pc[t] = "reading"
  /\ WritesNext(t)
  /\ ~MayWrite(t)
  /\ UNCHANGED hostVars

\* A write finds the lock taken, or the snapshot overtaken by a commit: a
\* transaction that has read cannot wait, it fails and is rolled back.
LoseRace(t) ==
  /\ pc[t] = "reading"
  /\ WritesNext(t)
  /\ ~MayWrite(t)
  /\ Answer(t, <<ErrorReply(req[t])>>)
  /\ UNCHANGED <<db, log, req, since, chan, ghostVars, boundVars>>

\* Mutant: a failed handler still returns the deltas it had prepared.
Fail_KeepsDeltas(t) ==
  /\ InTx(t)
  /\ Answer(t, <<ErrorReply(req[t])>> \o Deltas(muts[t]))
  /\ UNCHANGED <<db, log, req, since, chan, ghostVars, boundVars>>

\* Any other failure: no connection in time, the busy timeout of a first
\* write, a full disk or quota, an I/O error. The transaction is rolled back.
Fail(t) ==
  /\ \/ pc[t] = "accepted" /\ ~Rejected(req[t]) /\ ~PoolFree
     \/ InTx(t)
  /\ Answer(t, <<ErrorReply(req[t])>>)
  /\ UNCHANGED <<db, log, req, since, chan, ghostVars, boundVars>>

\* Mutant: try_send, which drops the envelope while the channel is full.
Push_Drops(t) ==
  /\ pc[t] = "sending" /\ outbox[t] # << >>
  /\ chan' = IF Len(chan) < ChanCap THEN Append(chan, Head(outbox[t])) ELSE chan
  /\ outbox' = [outbox EXCEPT ![t] = Tail(@)]
  /\ pc' = [pc EXCEPT ![t] = IF Len(outbox[t]) = 1 THEN "idle" ELSE @]
  /\ UNCHANGED <<db, log, writer, req, since, txVars, ghostVars, boundVars>>

\* The task pushes its next envelope, waiting while the channel is full.
Push(t) ==
  /\ pc[t] = "sending" /\ outbox[t] # << >>
  /\ Len(chan) < ChanCap
  /\ chan' = Append(chan, Head(outbox[t]))
  /\ outbox' = [outbox EXCEPT ![t] = Tail(@)]
  /\ IF Len(outbox[t]) = 1
     THEN /\ pc' = [pc EXCEPT ![t] = "idle"]
          /\ req' = [req EXCEPT ![t] = NoRequest]
          /\ since' = [since EXCEPT ![t] = 0]
     ELSE UNCHANGED <<pc, req, since>>
  /\ UNCHANGED <<db, log, writer, txVars, ghostVars, boundVars>>

-----------------------------------------------------------------------------
(* The loop, the process and the clock *)

\* Mutant: an envelope already sent is queued again.
LoopSend_Requeues ==
  /\ chan # << >>
  /\ chan' = Append(Tail(chan), Head(chan))
  /\ published' = IF Head(chan).type = "delta"
                  THEN Append(published, Head(chan).version)
                  ELSE published
  /\ UNCHANGED <<db, log, writer, pc, req, since, txVars, outbox, lost, boundVars>>

\* The loop sends the next envelope to the kernel.
LoopSend ==
  /\ chan # << >>
  /\ chan' = Tail(chan)
  /\ published' = IF Head(chan).type = "delta"
                  THEN Append(published, Head(chan).version)
                  ELSE published
  /\ UNCHANGED <<db, log, writer, pc, req, since, txVars, outbox, lost, boundVars>>

DeltaVersions(s) == {s[i].version : i \in {j \in DOMAIN s : s[j].type = "delta"}}

\* The process dies and the supervisor starts it again: open transactions roll
\* back, everything that was still on its way to the kernel is gone.
Crash ==
  /\ crashes < MaxCrashes
  /\ crashes' = crashes + 1
  /\ db' = OpenPool(db)
  /\ writer' = NoTask
  /\ pc' = [t \in Tasks |-> "idle"]
  /\ req' = [t \in Tasks |-> NoRequest]
  /\ since' = [t \in Tasks |-> 0]
  /\ view' = [t \in Tasks |-> EmptyDb]
  /\ base' = [t \in Tasks |-> 0]
  /\ stale' = [t \in Tasks |-> {}]
  /\ muts' = [t \in Tasks |-> << >>]
  /\ outbox' = [t \in Tasks |-> << >>]
  /\ chan' = << >>
  /\ lost' = lost \cup DeltaVersions(chan)
                  \cup UNION {DeltaVersions(outbox[t]) : t \in Tasks}
  /\ UNCHANGED <<log, published, now, accepted>>

Tick ==
  /\ now < MaxTime
  /\ now' = now + 1
  /\ UNCHANGED <<db, log, writer, pc, req, since, txVars, outbox, chan, ghostVars,
                 accepted, crashes>>

HostInit ==
  /\ db = EmptyDb
  /\ log = << >>
  /\ writer = NoTask
  /\ pc = [t \in Tasks |-> "idle"]
  /\ req = [t \in Tasks |-> NoRequest]
  /\ since = [t \in Tasks |-> 0]
  /\ view = [t \in Tasks |-> EmptyDb]
  /\ base = [t \in Tasks |-> 0]
  /\ stale = [t \in Tasks |-> {}]
  /\ muts = [t \in Tasks |-> << >>]
  /\ outbox = [t \in Tasks |-> << >>]
  /\ chan = << >>
  /\ published = << >>
  /\ lost = {}
  /\ now = 0
  /\ accepted = 0
  /\ crashes = 0

\* The steps a spawned task takes by itself once it runs.
TaskStep(t) ==
  \/ Refuse(t) \/ Get(t) \/ Begin(t) \/ SelectStale(t) \/ PruneRow(t)
  \/ Upsert(t) \/ Delete(t) \/ ReadSnapshot(t) \/ Commit(t) \/ LoseRace(t)
  \/ Push(t)

HostNext ==
  \/ \E t \in Tasks, r \in Requests : Accept(t, r)
  \/ \E t \in Tasks : TaskStep(t) \/ Fail(t)
  \/ LoopSend
  \/ Crash
  \/ Tick

HostSpec == HostInit /\ [][HostNext]_hostVars

\* The runtime runs every ready task and the loop drains its channel.
HostFairSpec ==
  HostSpec /\ (\A t \in Tasks : WF_hostVars(TaskStep(t))) /\ WF_hostVars(LoopSend)

-----------------------------------------------------------------------------
(* Properties *)

\* Everything that is on its way to the kernel.
InFlight == Range(chan) \cup UNION {Range(outbox[t]) : t \in Tasks}

Announced == Range(published)

DbType == [rows : [Keys -> Values \cup {NoValue}], at : [Keys -> Nat],
           version : Nat]

MutationType ==
  [op : {"set", "del"}, key : Keys, value : Values \cup {NoValue},
   version : Nat, rows : [Keys -> Values \cup {NoValue}]]

EnvelopeType ==
  [type : {"delta"}, op : {"set", "del"}, key : Keys,
   value : Values \cup {NoValue}, version : Nat]
  \cup
  [type : {"reply"}, req : Requests, status : {"ok", "error"}, version : Nat,
   rows : [Keys -> Values \cup {NoValue}]]

\* The shape of every variable.
TypeOK ==
  /\ db \in DbType
  /\ log \in Seq(MutationType)
  /\ writer \in Tasks \cup {NoTask}
  /\ pc \in [Tasks -> {"idle", "accepted", "begun", "reading", "commit", "sending"}]
  /\ req \in [Tasks -> Requests]
  /\ since \in [Tasks -> Nat]
  /\ view \in [Tasks -> DbType]
  /\ base \in [Tasks -> Nat]
  /\ stale \in [Tasks -> SUBSET HeartbeatKeys]
  /\ muts \in [Tasks -> Seq(MutationType)]
  /\ outbox \in [Tasks -> Seq(EnvelopeType)]
  /\ chan \in Seq(EnvelopeType)
  /\ published \in Seq(Nat)
  /\ lost \subseteq Nat
  /\ now \in Nat /\ accepted \in Nat /\ crashes \in Nat

\* The version meta row counts exactly the committed mutations and the rows are
\* what those mutations leave, whatever the interleaving of the statements of
\* concurrent transactions, prunes, failures and restarts.
StoreMatchesHistory ==
  /\ db.version = Len(log)
  /\ db.rows = ContentAt(log, Len(log))
  /\ \A v \in 1..Len(log) : log[v].version = v

\* A transaction that has written holds the write lock, nothing was committed
\* since its snapshot, and it is ahead of the database by its own mutations:
\* no commit can overwrite another one's.
NoLostUpdate ==
  \A t \in Tasks :
    muts[t] # << >> => /\ writer = t
                       /\ base[t] = db.version
                       /\ view[t].version = db.version + Len(muts[t])

\* A successful reply still on its way tells the truth about the history: a set
\* names the version that stored its value, a snapshot pairs a version with
\* exactly the content of that version, a del names a version at which its key
\* is absent.
ReplyIsTrue(e) ==
  LET r == e.req
  IN /\ e.version <= Len(log)
     /\ r.op = "set" =>
          /\ e.version > 0
          /\ log[e.version].op = "set"
          /\ <<log[e.version].key, log[e.version].value>> = <<r.key, r.value>>
     /\ r.op = "del" => ContentAt(log, e.version)[r.key] = NoValue
     /\ r.op = "snapshot" => e.rows = ContentAt(log, e.version)

RepliesAreTrue ==
  \A e \in InFlight :
    e.type = "reply" /\ e.status = "ok" => ReplyIsTrue(e)

\* A delta on its way repeats a committed mutation: a transaction that failed or
\* rolled back publishes nothing.
DeltasAreCommitted ==
  \A e \in InFlight :
    e.type = "delta" => /\ e.version \in 1..Len(log)
                        /\ e = Delta(log[e.version])

\* Every committed mutation has its delta: sent, on its way, or lost when the
\* process died (README: `sync_set` and `sync_del` "publish a `sync.delta`
\* event"; every pruned row produces one), and none is announced twice or while
\* its delta is still on its way a second time. It is checked with room for
\* every snapshot: one over MaxSnapshotRows drops the deltas of its committed
\* prune.
AnnouncedExactlyOnce ==
  /\ \A v \in 1..Len(log) :
       \/ v \in Announced \cup lost
       \/ \E e \in InFlight : e.type = "delta" /\ e.version = v
  /\ \A i, j \in DOMAIN published : published[i] = published[j] => i = j
  /\ \A e \in InFlight : e.type = "delta" => e.version \notin Announced

\* A row only disappears because its key was deleted by a caller or because it
\* is a heartbeat that is expired in the database at the moment of the commit:
\* the rows selected for the prune are still the expired ones when it commits,
\* although other tasks may have refreshed heartbeats in between.
FreshRowsSurvive ==
  [][\A k \in Keys :
       (db.rows[k] # NoValue /\ db'.rows[k] = NoValue) =>
         \/ \E t \in Tasks : pc[t] = "commit" /\ req[t].op = "del" /\ req[t].key = k
         \/ k \in HeartbeatKeys /\ db.at[k] < now - TTL]_hostVars

\* The plugin implements the abstract store.
Store == INSTANCE SyncStore WITH rows <- db.rows, announced <- Announced

ImplementsStore == Store!StoreSpec

\* The transaction has run a statement, hence has a snapshot.
HasSnapshot(t) == pc[t] \in {"reading", "commit"}

\* The content mutation i of the transaction is applied to.
ContentBefore(t, i) ==
  IF i = 1 THEN ContentAt(log, base[t]) ELSE muts[t][i - 1].rows

\* A transaction without the write lock shows one version of the history; with
\* it, the current version and on top of it its own mutations: expired
\* heartbeats first, then at most one mutation of the caller's.
TxInv(t) ==
  /\ writer = t => HasSnapshot(t) /\ base[t] = db.version
  /\ muts[t] # << >> => writer = t
  /\ HasSnapshot(t) =>
       /\ base[t] <= Len(log)
       /\ view[t].version = base[t] + Len(muts[t])
       /\ view[t].rows = ContentBefore(t, Len(muts[t]) + 1)
       /\ \A i \in 1..Len(muts[t]) :
            /\ muts[t][i].version = base[t] + i
            /\ Store!Mutates(muts[t][i], ContentBefore(t, i))
            /\ i < Len(muts[t]) \/ pc[t] = "reading" =>
                 muts[t][i].op = "del" /\ muts[t][i].key \in HeartbeatKeys
  /\ pc[t] = "reading" => \A k \in stale[t] : view[t].rows[k] # NoValue

\* The inductive invariant behind the safety theorems of Sync_proofs.
StoreInv ==
  /\ StoreMatchesHistory
  /\ \A t \in Tasks : TxInv(t)
  /\ DeltasAreCommitted

\* Every request is answered: nobody waits forever for a connection, the write
\* lock or a place in the channel.
RequestsAnswered ==
  \A t \in Tasks : (pc[t] # "idle") ~> (pc[t] = "idle")

\* Every committed mutation is announced, unless the process dies first.
MutationsAnnounced ==
  \A v \in 1..(MaxRequests + 1) :
    (v <= Len(log)) ~> (v \in Announced \cup lost)
=============================================================================
