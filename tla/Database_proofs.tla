--------------------------- MODULE Database_proofs ---------------------------
(***************************************************************************)
(* Theorems about the database plugin for every value of the constants:    *)
(* types, the schema behind a cached pool, the refinement of KvStore, the  *)
(* events, and the values of counters.                                     *)
(*                                                                         *)
(* The refinement rests on one fact: a transaction that may still write    *)
(* holds, in what it has read, the row that is in the table now.           *)
(***************************************************************************)
EXTENDS Database, FiniteSetTheorems, SequenceTheorems, TLAPS

-----------------------------------------------------------------------------
(* The inductive invariant *)

\* An operation that is, or may become, an entry of the history.
LoggedRequests ==
  {r \in Requests : r.op \notin {"bad", "get", "batch", "keys"}}
    \cup {SweepRequest, FoundRequest}

Versions ==
  [req : LoggedRequests, at : Nat, rid : Nat, rows : [Keys -> TypedRows]]

\* A record with the fields of a task.
Shaped(x) ==
  x = [pc |-> x.pc, req |-> x.req, rid |-> x.rid, from |-> x.from,
       first |-> x.first, since |-> x.since, base |-> x.base, got |-> x.got]

Files ==
  /\ schema \in {"none", "old", "new"}
  /\ rows \in [Keys -> TypedRows]
  /\ log \in Seq(Versions)
  /\ Len(log) >= 1
  /\ cached \in BOOLEAN
  /\ writer \in Tasks \cup {NoTask}
  /\ now \in Nat
  /\ accepted \in Nat

\* What a transaction has read is what the table shows.
Prepared(x, table) ==
  /\ x.got[1] = Select(table[x.req.key], x.since)
  /\ Fits(x.req, x.got[1])

TaskOk(x, table, n) ==
  /\ Shaped(x)
  /\ x.pc \in PCs
  /\ x.rid \in Nat /\ x.since \in Nat
  /\ x.base \in Nat /\ x.base <= n
  /\ x.pc = "idle" => x = Idle
  /\ x.pc # "idle" => x.req \in Requests
  /\ x.pc \notin {"idle", "open"} => x.req.op # "bad"
  /\ x.pc \in {"write", "commit"} => x.req.op \in ReadModifyWrite
  /\ x.pc = "write" /\ x.base = n => Prepared(x, table)
  /\ x.pc = "commit" => Prepared(x, table)

TasksOk ==
  /\ task = [t \in Tasks |-> task[t]]
  /\ \A t \in Tasks : TaskOk(task[t], rows, Len(log))
  /\ \A t \in Tasks : task[t].pc = "commit" <=> writer = t

DbInv == Files /\ TasksOk

\* Whoever is past a statement of the opening finds what it left.
SchemaInv ==
  /\ PoolHasSchema
  /\ \A t \in Tasks : task[t].pc \in {"probe", "migrate"} => schema # "none"

\* Request i changed the table.
Changed(i, lg) == \E v \in DOMAIN lg : lg[v].rid = i /\ lg[v].req.op # "sweep"

\* What a reply says of the history.
Honest(p, lg) ==
  /\ p.event <=> Changed(p.rid, lg) /\ p.req.op # "query"
  /\ p.event => p.status = "ok"
  /\ Changed(p.rid, lg) /\ p.status = "error" => p.req.op = "query"

\* The number of a request is its own, and it has one answer.
RidInv ==
  /\ \A t \in Tasks :
       task[t].pc # "idle" =>
         /\ task[t].rid \in 1..accepted
         /\ ~Changed(task[t].rid, log)
         /\ \A u \in Tasks \ {t} : task[u].pc # "idle" => task[u].rid # task[t].rid
         /\ \A p \in replies : p.rid # task[t].rid
  /\ \A v \in DOMAIN log : log[v].rid \in 0..accepted
  /\ \A p \in replies : p.rid \in 1..accepted /\ Honest(p, log)

-----------------------------------------------------------------------------
(* Values *)

\* Two's complement stays within the width of an i64.
LEMMA WrapInRange ==
  ASSUME NEW n \in Int
  PROVE  Wrap(n) \in -MaxInt - 1..MaxInt
<1> DEFINE w == 2 * (MaxInt + 1)
<1>1. w \in Nat /\ w > 0
  BY DatabaseAssumption
<1>2. \A m \in Int, v \in Nat : v > 0 => m % v \in 0..v - 1
  OBVIOUS
<1>3. (n + MaxInt + 1) % w \in 0..w - 1
  BY <1>1, <1>2, DatabaseAssumption
<1> QED
  BY <1>3, DatabaseAssumption DEF Wrap

\* What an update writes is a row.
LEMMA NewRowIsTyped ==
  ASSUME NEW r \in Requests, r.op \in ReadModifyWrite, rows \in [Keys -> TypedRows],
         NEW t \in Nat, NEW old, old = Select(rows[r.key], t), Fits(r, old)
  PROVE  Upserted(r, old) \in TypedRows
<1>1. r.key \in Keys /\ rows[r.key] \in TypedRows /\ r \in RequestType
  BY DatabaseAssumption DEF ReadModifyWrite
<1>2. old \in TypedRows
  BY <1>1, DatabaseAssumption DEF Select, Absent, TypedRows
<1>3. Wrap(old.n + r.n) \in -MaxInt - 1..MaxInt
  BY <1>1, <1>2, WrapInRange, DatabaseAssumption DEF TypedRows, RequestType
<1>4. CASE r.op = "incr"
  BY <1>1, <1>2, <1>3, <1>4 DEF Upserted, NewValue, Row, TypedRows, Absent
<1>5. CASE r.op = "append"
  BY <1>1, <1>2, <1>5 DEF Upserted, NewValue, Row, TypedRows, Absent, Fits
<1>6. CASE r.op = "patch"
  BY <1>1, <1>2, <1>6 DEF Upserted, NewValue, Row, TypedRows, Absent, Fits, RequestType
<1> QED
  BY <1>4, <1>5, <1>6 DEF ReadModifyWrite

-----------------------------------------------------------------------------
(* How a task changes *)

LEMMA IdleIsOk ==
  ASSUME NEW table, NEW n \in Nat
  PROVE  TaskOk(Idle, table, n) /\ Idle.pc # "commit"
  BY DEF TaskOk, Idle, Shaped, PCs

\* The task of a step that leaves the file and the write lock alone.
LEMMA TaskChanges ==
  ASSUME DbInv, NEW t \in Tasks, NEW y, task' = [task EXCEPT ![t] = y],
         TaskOk(y, rows, Len(log)), task[t].pc = "commit" <=> y.pc = "commit",
         UNCHANGED <<rows, log, writer>>
  PROVE  TasksOk'
<1>1. task' = [u \in Tasks |-> task'[u]] /\ task'[t] = y
      /\ \A u \in Tasks \ {t} : task'[u] = task[u]
  BY DEF DbInv, TasksOk
<1>2. \A u \in Tasks : TaskOk(task'[u], rows, Len(log))
  BY <1>1 DEF DbInv, TasksOk
<1>3. \A u \in Tasks : task'[u].pc = "commit" <=> writer = u
  BY <1>1 DEF DbInv, TasksOk
<1> QED
  BY <1>1, <1>2, <1>3 DEF TasksOk

LEMMA GotoKeeps ==
  ASSUME DbInv, NEW t \in Tasks, NEW pc \in PCs \ {"idle", "write", "commit"},
         task[t].pc \notin {"idle", "commit"}, pc # "open" => task[t].req.op # "bad",
         Goto(t, pc), UNCHANGED <<rows, log, writer>>
  PROVE  TasksOk'
<1> DEFINE y == [task[t] EXCEPT !.pc = pc]
<1>1. task' = [task EXCEPT ![t] = y]
  BY DEF Goto
<1>2. TaskOk(task[t], rows, Len(log))
  BY DEF DbInv, TasksOk
<1>3. TaskOk(y, rows, Len(log)) /\ y.pc # "commit"
  BY <1>2 DEF TaskOk, Shaped
<1> QED
  BY <1>1, <1>3, TaskChanges

LEMMA StampKeeps ==
  ASSUME DbInv, NEW t \in Tasks, NEW pc \in PCs \ {"idle", "write", "commit"},
         task[t].pc \notin {"idle", "commit"}, pc # "open" => task[t].req.op # "bad",
         StampAndGoto(t, pc), UNCHANGED <<rows, log, writer>>
  PROVE  TasksOk'
<1> DEFINE y == [task[t] EXCEPT !.pc = pc, !.since = now]
<1>1. task' = [task EXCEPT ![t] = y]
  BY DEF StampAndGoto
<1>2. TaskOk(task[t], rows, Len(log)) /\ now \in Nat
  BY DEF DbInv, TasksOk, Files
<1>3. TaskOk(y, rows, Len(log)) /\ y.pc # "commit"
  <2>1. Shaped(task[t])
    BY <1>2 DEF TaskOk
  <2>2. y = [pc |-> pc, req |-> task[t].req, rid |-> task[t].rid,
             from |-> task[t].from, first |-> task[t].first, since |-> now,
             base |-> task[t].base, got |-> task[t].got]
    <3> DEFINE z == [task[t] EXCEPT !.pc = pc]
    <3>1. z = [pc |-> pc, req |-> task[t].req, rid |-> task[t].rid,
               from |-> task[t].from, first |-> task[t].first,
               since |-> task[t].since, base |-> task[t].base, got |-> task[t].got]
      BY <2>1 DEF Shaped
    <3>2. y = [z EXCEPT !.since = now]
      OBVIOUS
    <3> HIDE DEF z
    <3> QED
      BY <3>1, <3>2
  <2> QED
    BY <1>2, <2>2 DEF TaskOk, Shaped
<1> QED
  BY <1>1, <1>3, TaskChanges

LEMMA AnswerKeeps ==
  ASSUME DbInv, NEW t \in Tasks, task[t].pc # "commit",
         NEW status, NEW got, NEW event, Answer(t, status, got, event),
         UNCHANGED <<rows, log, writer>>
  PROVE  TasksOk'
<1>1. Len(log) \in Nat
  BY DEF DbInv, Files
<1> QED
  BY <1>1, IdleIsOk, TaskChanges DEF Answer

\* A commit ends what every other transaction has read.
LEMMA CommitKeeps ==
  ASSUME DbInv, NEW t \in Tasks, NEW r \in LoggedRequests,
         NEW table \in [Keys -> TypedRows], Commit(t, r, table),
         writer \in {NoTask, t}, writer' = NoTask,
         NEW y, task' = [task EXCEPT ![t] = y],
         TaskOk(y, table, Len(log) + 1), y.pc \notin {"write", "commit"},
         UNCHANGED <<cached, boundVars>>
  PROVE  DbInv'
<1>1. log \in Seq(Versions) /\ Len(log) >= 1 /\ Len(log) \in Nat
  BY DEF DbInv, Files
<1> DEFINE e == [req |-> r, at |-> task[t].since, rid |-> task[t].rid, rows |-> table]
<1>2. e \in Versions
  BY DEF Versions, DbInv, TasksOk, TaskOk
<1>3. log' = Append(log, e) /\ log' \in Seq(Versions) /\ Len(log') = Len(log) + 1
  BY <1>1, <1>2 DEF Commit
<1>4. Files'
  <2>1. rows' = table /\ schema' = schema
    BY DEF Commit
  <2> QED
    BY <1>1, <1>3, <2>1 DEF DbInv, Files, boundVars
<1>5. task' = [u \in Tasks |-> task'[u]] /\ task'[t] = y
      /\ \A u \in Tasks \ {t} : task'[u] = task[u]
  BY DEF DbInv, TasksOk
<1>6. \A u \in Tasks \ {t} : task[u].pc # "commit"
  BY DatabaseAssumption DEF DbInv, TasksOk
<1>7. \A u \in Tasks \ {t} : TaskOk(task[u], table, Len(log) + 1)
  BY <1>1, <1>6 DEF DbInv, TasksOk, TaskOk
<1>8. \A u \in Tasks : TaskOk(task'[u], rows', Len(log'))
  BY <1>3, <1>5, <1>7 DEF Commit
<1>9. \A u \in Tasks : task'[u].pc # "commit" /\ writer' # u
  BY <1>5, <1>6, DatabaseAssumption
<1> QED
  BY <1>4, <1>5, <1>8, <1>9 DEF DbInv, TasksOk

-----------------------------------------------------------------------------
(* A commit is an operation of KvStore *)

LEMMA CommitIsOperation ==
  ASSUME DbInv, NEW t \in Tasks, NEW r, NEW table, Commit(t, r, table),
         table = Kv!Effect(r, task[t].since, rows)
  PROVE  Kv!KvNext
<1> DEFINE e == [req |-> r, at |-> task[t].since, rid |-> task[t].rid, rows |-> table]
<1>1. log' = Append(log, e) /\ rows' = table
  BY DEF Commit
<1>2. log \in Seq(Versions) /\ Len(log) \in Nat
  BY DEF DbInv, Files
<1>3. log' \in Seq(Versions \cup {e}) /\ log \in Seq(Versions \cup {e})
  BY <1>1, <1>2
<1>4. Len(log') = Len(log) + 1 /\ log'[Len(log')] = e
  BY <1>1, <1>2
<1>5. SubSeq(log', 1, Len(log)) = log
  <2>1. \A i \in 1..Len(log) : log'[i] = log[i]
    BY <1>1, <1>2
  <2>2. /\ SubSeq(log', 1, Len(log)) \in Seq(Versions \cup {e})
        /\ Len(SubSeq(log', 1, Len(log))) = Len(log)
        /\ \A i \in 1..Len(log) : SubSeq(log', 1, Len(log))[i] = log'[i]
    BY <1>2, <1>3, <1>4
  <2> QED
    BY <2>1, <2>2, <1>2, <1>3, SeqEqual
<1> QED
  BY <1>1, <1>4, <1>5 DEF Kv!KvNext

LEMMA SameWrap ==
  ASSUME NEW n
  PROVE  Wrap(n) = Kv!Wrap(n)
  BY DEF Wrap, Kv!Wrap

\* Over the row a transaction has read, NewValue is the update of KvStore.
LEMMA UpsertIsUpdate ==
  ASSUME NEW r \in Requests, r.op \in ReadModifyWrite, rows \in [Keys -> TypedRows],
         NEW t \in Nat, NEW old, old = Select(rows[r.key], t), Fits(r, old)
  PROVE  [rows EXCEPT ![r.key] = Upserted(r, old)] = Kv!Effect(r, t, rows)
<1> DEFINE row == rows[r.key]
<1>1. r.key \in Keys /\ row \in TypedRows /\ r \in RequestType
  BY DatabaseAssumption DEF ReadModifyWrite
<1>2. Upserted(r, old) = Kv!Updated(r, row, t)
  <2>1. row.n \in Int /\ r.n \in Int /\ row.exp \in Nat
    BY <1>1, DatabaseAssumption DEF TypedRows, RequestType
  <2>2. IF Kv!Alive(row, t) THEN old = row ELSE old = Absent
    BY <1>1 DEF Kv!Alive, Kv!Dead, Select, Expired, Absent, TypedRows
  <2>3. 0 + r.n = r.n /\ Absent.n = 0 /\ Absent.type = "none"
    BY <2>1 DEF Absent
  <2>4. CASE r.op = "incr"
    <3>1. Upserted(r, old) = [type |-> "int", n |-> Wrap(old.n + r.n), exp |-> row.exp]
      BY <2>4 DEF Upserted, NewValue, Row
    <3>2. Wrap(old.n + r.n) = Kv!Wrap(IF Kv!Alive(row, t) THEN row.n + r.n ELSE r.n)
      BY <2>2, <2>3, SameWrap
    <3>3. Kv!Updated(r, row, t) =
            [row EXCEPT !.type = "int",
                        !.n = Kv!Wrap(IF Kv!Alive(row, t) THEN row.n + r.n ELSE r.n)]
      BY <2>4 DEF Kv!Updated
    <3> QED
      BY <1>1, <3>1, <3>2, <3>3 DEF TypedRows
  <2>5. CASE r.op = "append"
    <3>1. Upserted(r, old) = [type |-> "list", n |-> old.n + 1, exp |-> row.exp]
      BY <2>5 DEF Upserted, NewValue, Row
    <3>2. old.n + 1 = IF Kv!Alive(row, t) THEN row.n + 1 ELSE 1
      BY <2>2, <2>3
    <3> QED
      BY <1>1, <2>5, <3>1, <3>2 DEF Kv!Updated, TypedRows
  <2>6. CASE r.op = "patch"
    <3>1. old = row
      BY <2>2, <2>3, <2>6 DEF Fits
    <3> QED
      BY <1>1, <2>6, <3>1 DEF Upserted, NewValue, Row, Kv!Updated, TypedRows
  <2> QED
    BY <2>4, <2>5, <2>6 DEF ReadModifyWrite
<1>3. Kv!Effect(r, t, rows) = [rows EXCEPT ![r.key] = Kv!Updated(r, row, t)]
  BY DEF Kv!Effect, ReadModifyWrite
<1> QED
  BY <1>2, <1>3

-----------------------------------------------------------------------------
(* Every step keeps the invariant and is a step of KvStore *)

KvStep == Kv!KvNext \/ UNCHANGED <<rows, log>>

Step == DbInv' /\ KvStep

LEMMA AcceptStep ==
  ASSUME DbInv, NEW t \in Tasks, Accept(t)
  PROVE  Step
<1>1. PICK r \in Requests :
        task' = [task EXCEPT ![t] =
                   [Idle EXCEPT !.pc = "open", !.req = r, !.rid = accepted + 1,
                                !.from = now, !.first = Len(log)]]
  BY DEF Accept
<1> DEFINE y == [pc |-> "open", req |-> r, rid |-> accepted + 1, from |-> now,
                 first |-> Len(log), since |-> 0, base |-> 0, got |-> << >>]
<1>2. task' = [task EXCEPT ![t] = y]
  <2>1. [Idle EXCEPT !.pc = "open", !.req = r, !.rid = accepted + 1, !.from = now,
                     !.first = Len(log)] = y
    <3> DEFINE m == accepted + 1
               n == Len(log)
               a == [Idle EXCEPT !.pc = "open"]
               b == [a EXCEPT !.req = r]
               c == [b EXCEPT !.rid = m]
               d == [c EXCEPT !.from = now]
    <3>1. a = [pc |-> "open", req |-> NoRequest, rid |-> 0, from |-> 0,
               first |-> 0, since |-> 0, base |-> 0, got |-> << >>]
      BY DEF Idle
    <3>2. b = [pc |-> "open", req |-> r, rid |-> 0, from |-> 0,
               first |-> 0, since |-> 0, base |-> 0, got |-> << >>]
      <4> HIDE DEF a, m, n
      <4> QED
        BY <3>1
    <3>3. c = [pc |-> "open", req |-> r, rid |-> m, from |-> 0,
               first |-> 0, since |-> 0, base |-> 0, got |-> << >>]
      <4> HIDE DEF b, m, n
      <4> QED
        BY <3>2
    <3>4. d = [pc |-> "open", req |-> r, rid |-> m, from |-> now,
               first |-> 0, since |-> 0, base |-> 0, got |-> << >>]
      <4> HIDE DEF c, m, n
      <4> QED
        BY <3>3
    <3>5. [d EXCEPT !.first = n] = [pc |-> "open", req |-> r, rid |-> m, from |-> now,
                                    first |-> n, since |-> 0, base |-> 0, got |-> << >>]
      <4> HIDE DEF d, m, n
      <4> QED
        BY <3>4
    <3> QED
      BY <3>5
  <2> QED
    BY <1>1, <2>1
<1>3. accepted \in Nat /\ Len(log) \in Nat
  BY DEF DbInv, Files
<1>4. TaskOk(y, rows, Len(log)) /\ y.pc # "commit"
  BY <1>3 DEF TaskOk, Shaped, PCs
<1>5. TasksOk'
  BY <1>2, <1>4, TaskChanges DEF Accept, fileVars, Idle, DbInv, TasksOk
<1> QED
  BY <1>3, <1>5 DEF Accept, DbInv, Files, fileVars, Step, KvStep

LEMMA RejectStep ==
  ASSUME DbInv, NEW t \in Tasks, Reject(t)
  PROVE  Step
<1>1. TasksOk'
  BY AnswerKeeps DEF Reject, Refuse, fileVars
<1> QED
  BY <1>1 DEF Reject, DbInv, Files, fileVars, boundVars, Step, KvStep

LEMMA OpenSteps ==
  ASSUME DbInv, NEW t \in Tasks, OpenStep(t)
  PROVE  Step
<1>1. CASE LookUpPool(t)
  <2>1. TasksOk'
    BY <1>1, GotoKeeps, StampKeeps DEF LookUpPool, fileVars, PCs
  <2> QED
    BY <1>1, <2>1 DEF LookUpPool, DbInv, Files, fileVars, boundVars, Step, KvStep
<1>2. CASE CreateTable(t)
  <2>1. TasksOk'
    BY <1>2, GotoKeeps DEF CreateTable, PCs, DbInv, TasksOk, TaskOk
  <2> QED
    BY <1>2, <2>1 DEF CreateTable, DbInv, Files, boundVars, Step, KvStep
<1>3. CASE ProbeColumn(t)
  <2>1. TasksOk'
    BY <1>3, GotoKeeps DEF ProbeColumn, fileVars, PCs, DbInv, TasksOk, TaskOk
  <2> QED
    BY <1>3, <2>1 DEF ProbeColumn, DbInv, Files, fileVars, boundVars, Step, KvStep
<1>4. CASE Migrate(t)
  <2>1. TasksOk'
    BY <1>4, GotoKeeps, AnswerKeeps DEF Migrate, Refuse, PCs, DbInv, TasksOk, TaskOk
  <2> QED
    BY <1>4, <2>1 DEF Migrate, DbInv, Files, boundVars, Step, KvStep
<1>5. CASE CachePool(t)
  <2>1. TasksOk'
    BY <1>5, StampKeeps DEF CachePool, fileVars, PCs, DbInv, TasksOk, TaskOk
  <2> QED
    BY <1>5, <2>1 DEF CachePool, DbInv, Files, fileVars, boundVars, Step, KvStep
<1> QED
  BY <1>1, <1>2, <1>3, <1>4, <1>5 DEF OpenStep

LEMMA SweepStep ==
  ASSUME DbInv, NEW t \in Tasks, Sweep(t)
  PROVE  Step
<1> DEFINE dead == {k \in Keys : Expired(rows[k], task[t].since)}
           table == [k \in Keys |-> IF k \in dead THEN Absent ELSE rows[k]]
           y == [task[t] EXCEPT !.pc = "stamp"]
<1>1. CASE dead = {}
  <2>1. UNCHANGED fileVars
    BY <1>1 DEF Sweep
  <2>2. TasksOk'
    BY <2>1, GotoKeeps DEF Sweep, fileVars, PCs, DbInv, TasksOk, TaskOk
  <2> QED
    BY <2>1, <2>2 DEF Sweep, DbInv, Files, fileVars, boundVars, Step, KvStep
<1>2. CASE dead # {}
  <2>1. Commit(t, SweepRequest, table) /\ task' = [task EXCEPT ![t] = y]
    BY <1>2 DEF Sweep, Goto
  <2>2. table \in [Keys -> TypedRows]
    BY DatabaseAssumption DEF DbInv, Files, TypedRows, Absent
  <2>3. Len(log) \in Nat /\ TaskOk(task[t], rows, Len(log))
    BY DEF DbInv, Files, TasksOk
  <2>4. TaskOk(y, table, Len(log) + 1) /\ y.pc = "stamp"
    BY <2>3 DEF TaskOk, Shaped, PCs, Sweep
  <2>5. DbInv'
    BY <2>1, <2>2, <2>4, CommitKeeps DEF Sweep, LockFree, LoggedRequests
  <2>6. table = Kv!Effect(SweepRequest, task[t].since, rows)
    BY DEF Kv!Effect, Kv!Dead, Expired, SweepRequest, Request, Kv!Absent, Absent
  <2> QED
    BY <2>1, <2>5, <2>6, CommitIsOperation DEF Step, KvStep
<1> QED
  BY <1>1, <1>2

LEMMA StampStep ==
  ASSUME DbInv, NEW t \in Tasks, Stamp(t)
  PROVE  Step
<1>1. TasksOk'
  BY StampKeeps DEF Stamp, fileVars, PCs, DbInv, TasksOk, TaskOk
<1> QED
  BY <1>1 DEF Stamp, DbInv, Files, fileVars, boundVars, Step, KvStep

LEMMA GetStep ==
  ASSUME DbInv, NEW t \in Tasks, Get(t)
  PROVE  Step
<1> DEFINE r == task[t].req
           got == Append(task[t].got,
                    Select(rows[KeyAt(r, Len(task[t].got) + 1)], task[t].since))
           z == [task[t] EXCEPT !.got = got]
           y == [z EXCEPT !.pc = "stamp"]
<1>1. CASE Succeed(t, got)
  BY <1>1, AnswerKeeps DEF Get, Succeed, fileVars, boundVars, DbInv, Files, Step, KvStep
<1>2. CASE task' = [task EXCEPT ![t] = y]
  <2>1. TaskOk(task[t], rows, Len(log)) /\ task[t].pc = "run"
    BY DEF DbInv, TasksOk, Get
  <2>2. z = [pc |-> "run", req |-> r, rid |-> task[t].rid, from |-> task[t].from,
             first |-> task[t].first, since |-> task[t].since,
             base |-> task[t].base, got |-> got]
    <3> HIDE DEF got
    <3> QED
      BY <2>1 DEF TaskOk, Shaped
  <2>3. TaskOk(y, rows, Len(log)) /\ y.pc = "stamp"
    <3> HIDE DEF z, got
    <3>1. y = [pc |-> "stamp", req |-> r, rid |-> task[t].rid, from |-> task[t].from,
               first |-> task[t].first, since |-> task[t].since,
               base |-> task[t].base, got |-> got]
      BY <2>2
    <3> QED
      BY <2>1, <3>1 DEF TaskOk, Shaped, PCs
  <2>4. TasksOk'
    BY <1>2, <2>1, <2>3, TaskChanges DEF Get, fileVars
  <2> QED
    BY <2>4 DEF Get, fileVars, boundVars, DbInv, Files, Step, KvStep
<1> QED
  BY <1>1, <1>2 DEF Get

LEMMA ListKeysStep ==
  ASSUME DbInv, NEW t \in Tasks, ListKeys(t)
  PROVE  Step
  BY AnswerKeeps
     DEF ListKeys, Succeed, fileVars, boundVars, DbInv, Files, Step, KvStep

\* The statement of a request commits, and the answer ends the task.
LEMMA CommitAndAnswer ==
  ASSUME DbInv, NEW t \in Tasks, task[t].pc \in {"run", "commit"},
         task[t].req.op \in {"set", "del", "query", "incr", "append", "patch"},
         NEW table \in [Keys -> TypedRows],
         Commit(t, task[t].req, table), writer \in {NoTask, t}, writer' = NoTask,
         NEW status, NEW got, NEW event, Answer(t, status, got, event),
         table = Kv!Effect(task[t].req, task[t].since, rows),
         UNCHANGED <<cached, boundVars>>
  PROVE  Step
<1>1. Len(log) + 1 \in Nat /\ TaskOk(task[t], rows, Len(log))
  BY DEF DbInv, Files, TasksOk
<1>2. task[t].req \in LoggedRequests
  BY <1>1 DEF TaskOk, LoggedRequests
<1>3. DbInv'
  BY <1>1, <1>2, IdleIsOk, CommitKeeps DEF Answer, Idle
<1> QED
  BY <1>3, CommitIsOperation DEF Step, KvStep

LEMMA SetStep ==
  ASSUME DbInv, NEW t \in Tasks, Set(t)
  PROVE  Step
<1> DEFINE r == task[t].req
           new == Row(r.type, r.n, Deadline(t))
           table == [rows EXCEPT ![r.key] = new]
<1>1. r \in Requests /\ r.op = "set" /\ task[t].since \in Nat
  BY DEF DbInv, TasksOk, TaskOk, Set
<1>2. new \in TypedRows
  BY <1>1, DatabaseAssumption DEF Row, TypedRows, Deadline, RequestType
<1>3. table \in [Keys -> TypedRows]
  BY <1>2 DEF DbInv, Files
<1>4. table = Kv!Effect(r, task[t].since, rows)
  BY <1>1 DEF Kv!Effect, Row, Deadline
<1>5. Commit(t, r, table) /\ Answer(t, "ok", << >>, TRUE)
  BY DEF Set
<1> QED
  BY <1>1, <1>3, <1>4, <1>5, CommitAndAnswer DEF Set, LockFree

LEMMA DeleteStep ==
  ASSUME DbInv, NEW t \in Tasks, Delete(t)
  PROVE  Step
<1> DEFINE r == task[t].req
           table == [rows EXCEPT ![r.key] = Absent]
<1>1. CASE rows[r.key] # Absent
  <2>1. table \in [Keys -> TypedRows]
    <3>1. Absent \in TypedRows /\ rows \in [Keys -> TypedRows]
      BY DatabaseAssumption DEF DbInv, Files, TypedRows, Absent
    <3> QED
      BY <3>1
  <2>2. table = Kv!Effect(r, task[t].since, rows)
    BY DEF Delete, Kv!Effect, Kv!Absent, Absent
  <2>3. Commit(t, r, table) /\ Answer(t, "ok", << >>, TRUE)
    BY <1>1 DEF Delete
  <2> QED
    BY <2>1, <2>2, <2>3, CommitAndAnswer DEF Delete, LockFree
<1>2. CASE rows[r.key] = Absent
  BY <1>2, AnswerKeeps
     DEF Delete, Succeed, fileVars, boundVars, DbInv, Files, Step, KvStep
<1> QED
  BY <1>1, <1>2

LEMMA QueryStep ==
  ASSUME DbInv, NEW t \in Tasks, Query(t)
  PROVE  Step
<1> DEFINE r == task[t].req
           new == Row(r.type, r.n, 0)
           table == [rows EXCEPT ![r.key] = new]
<1>1. r \in Requests /\ r.op = "query"
  BY DEF DbInv, TasksOk, TaskOk, Query
<1>2. new \in TypedRows
  BY <1>1, DatabaseAssumption DEF Row, TypedRows, RequestType
<1>3. table \in [Keys -> TypedRows]
  BY <1>2 DEF DbInv, Files
<1>4. table = Kv!Effect(r, task[t].since, rows)
  BY <1>1 DEF Kv!Effect, Row
<1>5. Commit(t, r, table)
  BY DEF Query
<1>6. \E status : Answer(t, status, << >>, FALSE)
  BY DEF Query, Succeed, Refuse
<1> QED
  BY <1>1, <1>3, <1>4, <1>5, <1>6, CommitAndAnswer DEF Query, LockFree

LEMMA ReadStep ==
  ASSUME DbInv, NEW t \in Tasks, Read(t)
  PROVE  Step
<1> DEFINE r == task[t].req
           old == Select(rows[r.key], task[t].since)
           y == [pc |-> "write", req |-> r, rid |-> task[t].rid, from |-> task[t].from,
                 first |-> task[t].first, since |-> task[t].since,
                 base |-> Len(log), got |-> << old >>]
<1>1. TaskOk(task[t], rows, Len(log)) /\ task[t].pc = "run" /\ r.op \in ReadModifyWrite
  BY DEF DbInv, TasksOk, Read
<1>2. CASE Refuse(t)
  BY <1>1, <1>2, AnswerKeeps
     DEF Read, Refuse, fileVars, boundVars, DbInv, Files, Step, KvStep
<1>3. CASE /\ Fits(r, old)
           /\ task' = [task EXCEPT ![t].pc = "write", ![t].base = Len(log),
                                   ![t].got = << old >>]
  <2> DEFINE a == [task[t] EXCEPT !.pc = "write"]
             b == [a EXCEPT !.base = Len(log)]
  <2>1. task' = [task EXCEPT ![t] = [b EXCEPT !.got = << old >>]]
    BY <1>3
  <2>2. a = [pc |-> "write", req |-> r, rid |-> task[t].rid, from |-> task[t].from,
             first |-> task[t].first, since |-> task[t].since,
             base |-> task[t].base, got |-> task[t].got]
    BY <1>1 DEF TaskOk, Shaped
  <2>3. b = [pc |-> "write", req |-> r, rid |-> task[t].rid, from |-> task[t].from,
             first |-> task[t].first, since |-> task[t].since,
             base |-> Len(log), got |-> task[t].got]
    <3> HIDE DEF a
    <3> QED
      BY <2>2
  <2>4. task' = [task EXCEPT ![t] = y]
    <3>1. [b EXCEPT !.got = << old >>] = y
      <4> HIDE DEF b, old
      <4> QED
        BY <2>3
    <3> QED
      BY <2>1, <3>1
  <2>5. Len(log) \in Nat
    BY DEF DbInv, Files
  <2>6. Prepared(y, rows)
    BY <1>3 DEF Prepared
  <2>7. TaskOk(y, rows, Len(log)) /\ y.pc # "commit"
    BY <1>1, <2>5, <2>6 DEF TaskOk, Shaped, PCs
  <2>8. TasksOk'
    BY <1>1, <2>4, <2>7, TaskChanges DEF Read, fileVars
  <2> QED
    BY <2>8 DEF Read, fileVars, boundVars, DbInv, Files, Step, KvStep
<1> QED
  BY <1>2, <1>3 DEF Read

LEMMA WriteStep ==
  ASSUME DbInv, NEW t \in Tasks, Write(t)
  PROVE  Step
<1>1. TaskOk(task[t], rows, Len(log)) /\ task[t].pc = "write"
  BY DEF DbInv, TasksOk, Write
<1>2. CASE MayWrite(t)
  <2> DEFINE y == [task[t] EXCEPT !.pc = "commit"]
  <2>1. task' = [task EXCEPT ![t] = y] /\ writer' = t /\ UNCHANGED <<rows, log>>
    BY <1>2 DEF Write, Goto, fileVars
  <2>2. TaskOk(y, rows, Len(log)) /\ y.pc = "commit"
    BY <1>1, <1>2 DEF TaskOk, Shaped, PCs, Prepared, MayWrite
  <2>3. task' = [u \in Tasks |-> task'[u]] /\ task'[t] = y
        /\ \A u \in Tasks \ {t} : task'[u] = task[u]
    BY <2>1 DEF DbInv, TasksOk
  <2>4. \A u \in Tasks : task[u].pc # "commit"
    BY <1>2, DatabaseAssumption DEF MayWrite, DbInv, TasksOk
  <2>5. \A u \in Tasks : TaskOk(task'[u], rows', Len(log'))
    BY <2>1, <2>2, <2>3 DEF DbInv, TasksOk
  <2>6. \A u \in Tasks : task'[u].pc = "commit" <=> writer' = u
    BY <2>1, <2>2, <2>3, <2>4
  <2>7. TasksOk'
    BY <2>3, <2>5, <2>6 DEF TasksOk
  <2> QED
    BY <1>2, <2>7 DEF Write, fileVars, boundVars, DbInv, Files, Step, KvStep
<1>3. CASE ~MayWrite(t)
  BY <1>1, <1>3, AnswerKeeps
     DEF Write, Refuse, fileVars, boundVars, DbInv, Files, Step, KvStep
<1> QED
  BY <1>2, <1>3

LEMMA CommitWriteStep ==
  ASSUME DbInv, NEW t \in Tasks, CommitWrite(t)
  PROVE  Step
<1> DEFINE r == task[t].req
           old == task[t].got[1]
           new == Upserted(r, old)
           table == [rows EXCEPT ![r.key] = new]
<1>1. task[t].pc = "commit" /\ writer = t /\ TaskOk(task[t], rows, Len(log))
  BY DEF DbInv, TasksOk, CommitWrite
<1>2. /\ r \in Requests /\ r.op \in ReadModifyWrite /\ task[t].since \in Nat
      /\ old = Select(rows[r.key], task[t].since) /\ Fits(r, old)
  BY <1>1 DEF TaskOk, Prepared
<1>3. rows \in [Keys -> TypedRows]
  BY DEF DbInv, Files
<1>4. new \in TypedRows
  BY <1>2, <1>3, NewRowIsTyped
<1>5. table \in [Keys -> TypedRows]
  BY <1>3, <1>4
<1>6. table = Kv!Effect(r, task[t].since, rows)
  BY <1>2, <1>3, UpsertIsUpdate
<1>7. Commit(t, r, table) /\ Answer(t, "ok", << new >>, TRUE)
  BY DEF CommitWrite
<1> QED
  BY <1>1, <1>2, <1>5, <1>6, <1>7, CommitAndAnswer DEF CommitWrite, ReadModifyWrite

LEMMA FailStep ==
  ASSUME DbInv, NEW t \in Tasks, Fail(t)
  PROVE  Step
<1>1. task' = [task EXCEPT ![t] = Idle] /\ UNCHANGED <<rows, log>>
  BY DEF Fail, Refuse, Answer, fileVars
<1>2. Len(log) \in Nat
  BY DEF DbInv, Files
<1>3. task' = [u \in Tasks |-> task'[u]] /\ task'[t] = Idle
      /\ \A u \in Tasks \ {t} : task'[u] = task[u]
  BY <1>1 DEF DbInv, TasksOk
<1>4. \A u \in Tasks : TaskOk(task'[u], rows', Len(log'))
  BY <1>1, <1>2, <1>3, IdleIsOk DEF DbInv, TasksOk
<1>5. \A u \in Tasks : task'[u].pc = "commit" <=> writer' = u
  BY <1>3, IdleIsOk, DatabaseAssumption DEF Fail, Unlocked, DbInv, TasksOk
<1>6. TasksOk'
  BY <1>3, <1>4, <1>5 DEF TasksOk
<1> QED
  BY <1>6 DEF Fail, Unlocked, fileVars, DbInv, Files, Step, KvStep

LEMMA CrashStep ==
  ASSUME DbInv, Crash
  PROVE  Step
<1>1. Len(log) \in Nat
  BY DEF DbInv, Files
<1>2. TasksOk'
  BY <1>1, IdleIsOk, DatabaseAssumption DEF Crash, fileVars, TasksOk
<1> QED
  BY <1>2 DEF Crash, fileVars, DbInv, Files, Step, KvStep

LEMMA TickStep ==
  ASSUME DbInv, Tick
  PROVE  Step
  BY DEF Tick, fileVars, DbInv, Files, TasksOk, Step, KvStep

LEMMA NextStep ==
  ASSUME DbInv, [DbNext]_dbVars
  PROVE  Step
<1>1. CASE UNCHANGED dbVars
  BY <1>1 DEF dbVars, fileVars, boundVars, DbInv, Files, TasksOk, Step, KvStep
<1>2. ASSUME NEW t \in Tasks, Accept(t) \/ TaskStep(t) \/ Fail(t)
      PROVE  Step
  BY <1>2, AcceptStep, RejectStep, OpenSteps, SweepStep, StampStep, GetStep,
     ListKeysStep, SetStep, DeleteStep, QueryStep, ReadStep, WriteStep,
     CommitWriteStep, FailStep
     DEF TaskStep, RunStep
<1> QED
  BY <1>1, <1>2, CrashStep, TickStep DEF DbNext

LEMMA InitHolds ==
  ASSUME DbInit
  PROVE  DbInv /\ Kv!KvInit
<1>1. rows \in [Keys -> TypedRows]
  BY DatabaseAssumption DEF DbInit, EmptyTable, Absent, TypedRows
<1> DEFINE e == [req |-> FoundRequest, at |-> 0, rid |-> 0, rows |-> rows]
<1>2. log = << e >> /\ e \in Versions
  BY <1>1 DEF DbInit, Versions, LoggedRequests
<1>3. log \in Seq(Versions) /\ Len(log) = 1 /\ log[1].rows = rows
  BY <1>2
<1>4. Files
  <2>1. schema \in {"none", "old", "new"} /\ cached \in BOOLEAN /\ writer = NoTask
        /\ now \in Nat /\ accepted \in Nat
    BY DEF DbInit
  <2>2. Len(log) >= 1
    BY <1>3
  <2> QED
    BY <1>1, <1>3, <2>1, <2>2 DEF Files
<1>5. TasksOk
  BY <1>3, IdleIsOk, DatabaseAssumption DEF DbInit, TasksOk
<1> QED
  BY <1>3, <1>4, <1>5 DEF DbInv, Kv!KvInit

LEMMA DbInvHolds == DbSpec => []DbInv
<1>1. DbInit => DbInv
  BY InitHolds
<1>2. DbInv /\ [DbNext]_dbVars => DbInv'
  BY NextStep DEF Step
<1> QED
  BY <1>1, <1>2, PTL DEF DbSpec

\* Every variable keeps its type, and the write lock is held by the one task
\* that is about to commit, whatever fails and crashes.
THEOREM DatabaseTypeCorrect == DbSpec => []TypeOK
<1>1. DbInv => TypeOK
  BY DEF DbInv, Files, TasksOk, TaskOk, TypeOK, Idle
<1> QED
  BY <1>1, DbInvHolds, PTL

\* The database plugin, whose increments, appends and patches are transactions
\* of two statements that race with writes, sweeps, failures and crashes,
\* implements KvStore: each change is one operation on what the last one left.
THEOREM DatabaseImplementsKv == DbSpec => ImplementsKv
<1>1. DbInit => Kv!KvInit
  BY InitHolds
<1>2. DbInv /\ [DbNext]_dbVars => [Kv!KvNext]_(Kv!kvVars)
  BY NextStep DEF Step, KvStep, Kv!kvVars
<1> QED
  BY <1>1, <1>2, DbInvHolds, PTL DEF DbSpec, ImplementsKv, Kv!KvSpec

-----------------------------------------------------------------------------
(* The schema is there *)

LEMMA PcAfter ==
  ASSUME DbInv, NEW t \in Tasks
  PROVE  /\ \A pc : Goto(t, pc) \/ StampAndGoto(t, pc) =>
              task'[t].pc = pc /\ task'[t].rid = task[t].rid
         /\ \A status, got, event : Answer(t, status, got, event) =>
              task'[t] = Idle /\ task'[t].pc = "idle"
         /\ (\E pc : Goto(t, pc) \/ StampAndGoto(t, pc))
              \/ (\E status, got, event : Answer(t, status, got, event))
            => \A u \in Tasks \ {t} : task'[u] = task[u]
<1>1. task = [u \in Tasks |-> task[u]] /\ Shaped(task[t])
  BY DEF DbInv, TasksOk, TaskOk
<1>2. ASSUME NEW pc, Goto(t, pc)
      PROVE  /\ task'[t].pc = pc /\ task'[t].rid = task[t].rid
             /\ \A u \in Tasks \ {t} : task'[u] = task[u]
  BY <1>1, <1>2 DEF Goto, Shaped
<1>3. ASSUME NEW pc, StampAndGoto(t, pc)
      PROVE  /\ task'[t].pc = pc /\ task'[t].rid = task[t].rid
             /\ \A u \in Tasks \ {t} : task'[u] = task[u]
  <2> DEFINE z == [task[t] EXCEPT !.pc = pc]
  <2>1. z = [pc |-> pc, req |-> task[t].req, rid |-> task[t].rid,
             from |-> task[t].from, first |-> task[t].first,
             since |-> task[t].since, base |-> task[t].base, got |-> task[t].got]
    BY <1>1 DEF Shaped
  <2>2. task' = [task EXCEPT ![t] = [z EXCEPT !.since = now]]
    BY <1>3 DEF StampAndGoto
  <2> HIDE DEF z
  <2> QED
    BY <1>1, <2>1, <2>2
<1>4. ASSUME NEW status, NEW got, NEW event, Answer(t, status, got, event)
      PROVE  /\ task'[t] = Idle /\ task'[t].pc = "idle"
             /\ \A u \in Tasks \ {t} : task'[u] = task[u]
  BY <1>1, <1>4 DEF Answer, Idle
<1> QED
  BY <1>2, <1>3, <1>4

\* The steps of a task on its own.
LEMMA SchemaMoves ==
  ASSUME SchemaInv, NEW t \in Tasks,
         \A u \in Tasks \ {t} : task'[u] = task[u],
         schema = "new" => schema' = "new",
         schema # "none" => schema' # "none",
         cached' => cached \/ schema' = "new",
         task'[t].pc \in {"probe", "migrate"} => schema' # "none",
         task'[t].pc \in {"cache", "sweep", "stamp", "run", "write", "commit"}
           => schema' = "new"
  PROVE  SchemaInv'
  BY DEF SchemaInv, PoolHasSchema

LEMMA SchemaTask ==
  ASSUME DbInv, SchemaInv, NEW t \in Tasks, TaskStep(t)
  PROVE  SchemaInv'
<1>1. CASE Reject(t)
  BY <1>1, SchemaMoves, PcAfter DEF Reject, Refuse, fileVars
<1>2. CASE LookUpPool(t)
  BY <1>2, SchemaMoves, PcAfter DEF LookUpPool, fileVars, SchemaInv, PoolHasSchema
<1>3. CASE CreateTable(t)
  BY <1>3, SchemaMoves, PcAfter DEF CreateTable
<1>4. CASE ProbeColumn(t)
  <2>1. schema \in {"old", "new"} /\ schema' = schema /\ cached' = cached
    BY <1>4 DEF ProbeColumn, fileVars, SchemaInv, DbInv, Files
  <2> QED
    BY <1>4, <2>1, SchemaMoves, PcAfter DEF ProbeColumn
<1>5. CASE Migrate(t)
  BY <1>5, SchemaMoves, PcAfter DEF Migrate, Refuse
<1>6. CASE CachePool(t)
  BY <1>6, SchemaMoves, PcAfter DEF CachePool, fileVars, SchemaInv, PoolHasSchema
<1>7. CASE RunStep(t)
  <2>1. task[t].pc \in {"sweep", "stamp", "run", "write", "commit"}
    BY <1>7 DEF RunStep, Sweep, Stamp, Get, ListKeys, Set, Delete, Query, Read,
       Write, CommitWrite
  <2>2. schema = "new"
    BY <2>1 DEF SchemaInv, PoolHasSchema
  <2>3. schema' = schema /\ cached' = cached
    BY <1>7 DEF RunStep, Sweep, Stamp, Get, ListKeys, Set, Delete, Query, Read,
       Write, CommitWrite, Commit, fileVars
  <2>4. \A u \in Tasks \ {t} : task'[u] = task[u]
    <3>1. task = [u \in Tasks |-> task[u]]
      BY DEF DbInv, TasksOk
    <3>2. CASE Get(t)
      BY <3>1, <3>2 DEF Get, Succeed, Answer
    <3>3. CASE Read(t)
      BY <3>1, <3>3 DEF Read, Refuse, Answer
    <3>4. CASE Sweep(t) \/ Stamp(t) \/ ListKeys(t)
      BY <3>4, PcAfter DEF Sweep, Stamp, ListKeys, Succeed
    <3>5. CASE Set(t) \/ Delete(t) \/ Query(t)
      BY <3>5, PcAfter DEF Set, Delete, Query, Succeed, Refuse
    <3>6. CASE Write(t) \/ CommitWrite(t)
      BY <3>6, PcAfter DEF Write, CommitWrite, Refuse
    <3> QED
      BY <1>7, <3>2, <3>3, <3>4, <3>5, <3>6 DEF RunStep
  <2> QED
    BY <2>2, <2>3, <2>4, SchemaMoves
<1> QED
  BY <1>1, <1>2, <1>3, <1>4, <1>5, <1>6, <1>7 DEF TaskStep, OpenStep

LEMMA AcceptedTask ==
  ASSUME DbInv, NEW t \in Tasks, Accept(t)
  PROVE  /\ task'[t].pc = "open" /\ task'[t].rid = accepted + 1
         /\ \A u \in Tasks \ {t} : task'[u] = task[u]
<1>1. DbInv'
  BY AcceptStep DEF Step
<1>2. task = [u \in Tasks |-> task[u]]
  BY DEF DbInv, TasksOk
<1> QED
  BY <1>2 DEF Accept, Idle

LEMMA SchemaInvStep ==
  ASSUME DbInv, SchemaInv, [DbNext]_dbVars
  PROVE  SchemaInv'
<1>1. ASSUME NEW t \in Tasks, Accept(t)
      PROVE  SchemaInv'
  BY <1>1, AcceptedTask, SchemaMoves DEF Accept, fileVars
<1>2. ASSUME NEW t \in Tasks, Fail(t)
      PROVE  SchemaInv'
  BY <1>2, PcAfter, SchemaMoves DEF Fail, Refuse, fileVars
<1>3. CASE Crash
  BY <1>3 DEF Crash, Idle, SchemaInv, PoolHasSchema
<1>4. CASE Tick
  BY <1>4 DEF Tick, fileVars, SchemaInv, PoolHasSchema
<1>5. CASE UNCHANGED dbVars
  BY <1>5 DEF dbVars, fileVars, SchemaInv, PoolHasSchema
<1> QED
  BY <1>1, <1>2, <1>3, <1>4, <1>5, SchemaTask DEF DbNext

\* However first requests of a caller race, fail and crash while they open and
\* migrate its file, whoever is past the opening finds the current schema.
THEOREM PoolHasSchemaHolds == DbSpec => []PoolHasSchema
<1>1. DbInit => SchemaInv
  BY DEF DbInit, SchemaInv, PoolHasSchema, Idle
<1>2. DbInv /\ SchemaInv /\ [DbNext]_dbVars => SchemaInv'
  BY SchemaInvStep
<1>3. SchemaInv => PoolHasSchema
  BY DEF SchemaInv
<1> QED
  BY <1>1, <1>2, <1>3, DbInvHolds, PTL DEF DbSpec

-----------------------------------------------------------------------------
(* What is announced is what was committed *)

RidsIn(lg, n) == \A v \in DOMAIN lg : lg[v].rid \in 0..n

\* A commit changes the table for one request, the sweep for none.
LEMMA ChangedByCommit ==
  ASSUME DbInv, RidInv, NEW t \in Tasks, task[t].pc # "idle", NEW r, NEW table,
         Commit(t, r, table)
  PROVE  /\ RidsIn(log', accepted)
         /\ \A i : Changed(i, log') <=>
                    Changed(i, log) \/ (i = task[t].rid /\ r.op # "sweep")
<1> DEFINE e == [req |-> r, at |-> task[t].since, rid |-> task[t].rid, rows |-> table]
<1>1. log' = Append(log, e) /\ log \in Seq(Versions) /\ Len(log) \in Nat
  BY DEF Commit, DbInv, Files
<1>2. /\ DOMAIN log' = 1..Len(log) + 1 /\ DOMAIN log = 1..Len(log)
      /\ \A v \in 1..Len(log) : log'[v] = log[v]
      /\ log'[Len(log) + 1] = e
  <2> HIDE DEF e
  <2> QED
    BY <1>1
<1>3. e.rid = task[t].rid /\ e.req = r /\ task[t].rid \in 1..accepted
  BY DEF RidInv
<1>4. RidsIn(log, accepted) /\ accepted \in Nat
  BY DEF RidInv, RidsIn, DbInv, Files
<1> HIDE DEF e
<1>5. RidsIn(log', accepted)
  BY <1>1, <1>2, <1>3, <1>4 DEF RidsIn
<1>6. ASSUME NEW i
      PROVE  Changed(i, log') <=>
               Changed(i, log) \/ (i = task[t].rid /\ r.op # "sweep")
  BY <1>1, <1>2, <1>3 DEF Changed
<1> QED
  BY <1>5, <1>6

\* A step that answers nobody.
LEMMA RidQuiet ==
  ASSUME DbInv, RidInv, NEW t \in Tasks, task[t].pc # "idle",
         \A u \in Tasks \ {t} : task'[u] = task[u],
         task'[t].rid = task[t].rid,
         RidsIn(log', accepted), \A i : Changed(i, log') <=> Changed(i, log),
         UNCHANGED <<replies, accepted>>
  PROVE  RidInv'
<1>1. \A p \in replies : Honest(p, log')
  BY DEF RidInv, Honest
<1>2. \A u \in Tasks : task'[u].pc # "idle" =>
        /\ task'[u].rid \in 1..accepted
        /\ ~Changed(task'[u].rid, log')
        /\ \A w \in Tasks \ {u} : task'[w].pc # "idle" => task'[w].rid # task'[u].rid
        /\ \A p \in replies : p.rid # task'[u].rid
  BY DEF RidInv
<1> QED
  BY <1>1, <1>2 DEF RidInv, RidsIn

\* A step that answers: `done` says whether it changes the table.
LEMMA RidAnswer ==
  ASSUME DbInv, RidInv, NEW t \in Tasks, task[t].pc # "idle", NEW done \in BOOLEAN,
         NEW status, NEW got, NEW event, Answer(t, status, got, event),
         RidsIn(log', accepted),
         \A i : Changed(i, log') <=> Changed(i, log) \/ (i = task[t].rid /\ done),
         event <=> done /\ task[t].req.op # "query",
         event => status = "ok",
         done /\ status = "error" => task[t].req.op = "query",
         accepted' = accepted
  PROVE  RidInv'
<1> DEFINE x == task[t]
           a == [req |-> x.req, rid |-> x.rid, from |-> x.from, upto |-> now,
                 first |-> x.first, last |-> Len(log), status |-> status,
                 got |-> got, event |-> event]
<1>1. /\ a.rid = task[t].rid /\ a.req = task[t].req /\ a.status = status
      /\ a.event = event /\ replies' = replies \cup {a}
  BY DEF Answer
<1> HIDE DEF a, x
<1>2. task'[t].pc = "idle" /\ \A u \in Tasks \ {t} : task'[u] = task[u]
  BY PcAfter
<1>3. task[t].rid \in 1..accepted /\ ~Changed(task[t].rid, log)
  BY DEF RidInv
<1>4. Honest(a, log')
  BY <1>1, <1>3 DEF Honest
<1>5. \A p \in replies : p.rid # task[t].rid /\ Honest(p, log)
  BY DEF RidInv
<1>6. \A p \in replies : Honest(p, log')
  BY <1>5 DEF Honest
<1>7. ASSUME NEW u \in Tasks, task'[u].pc # "idle"
      PROVE  /\ task'[u].rid \in 1..accepted
             /\ ~Changed(task'[u].rid, log')
             /\ \A w \in Tasks \ {u} :
                  task'[w].pc # "idle" => task'[w].rid # task'[u].rid
             /\ \A p \in replies' : p.rid # task'[u].rid
  <2>1. u # t /\ task'[u] = task[u] /\ task[u].pc # "idle"
    BY <1>2, <1>7
  <2>2. task[u].rid # task[t].rid
    BY <2>1 DEF RidInv
  <2> QED
    BY <1>1, <1>2, <2>1, <2>2 DEF RidInv
<1>8. \A p \in replies' : p.rid \in 1..accepted /\ Honest(p, log')
  BY <1>1, <1>3, <1>4, <1>6 DEF RidInv
<1> QED
  BY <1>7, <1>8 DEF RidInv, RidsIn

LEMMA SameLog ==
  ASSUME RidInv, log' = log
  PROVE  RidsIn(log', accepted) /\ \A i : Changed(i, log') <=> Changed(i, log)
  BY DEF RidInv, RidsIn

\* An answer that changes nothing.
LEMMA RidNothingDone ==
  ASSUME DbInv, RidInv, NEW t \in Tasks, task[t].pc # "idle",
         NEW status, NEW got, Answer(t, status, got, FALSE), log' = log,
         accepted' = accepted
  PROVE  RidInv'
  BY RidAnswer, SameLog

\* An answer with a commit.
LEMMA RidCommitted ==
  ASSUME DbInv, RidInv, NEW t \in Tasks, task[t].pc # "idle",
         NEW table, Commit(t, task[t].req, table), task[t].req.op # "sweep",
         NEW status, NEW got, NEW event, Answer(t, status, got, event),
         event <=> task[t].req.op # "query",
         status = "ok" \/ task[t].req.op = "query",
         accepted' = accepted
  PROVE  RidInv'
<1>1. /\ RidsIn(log', accepted)
      /\ \A i : Changed(i, log') <=> Changed(i, log) \/ (i = task[t].rid /\ TRUE)
  BY ChangedByCommit
<1>2. CASE status = "ok"
  BY <1>1, <1>2, RidAnswer
<1>3. CASE task[t].req.op = "query"
  BY <1>1, <1>3, RidAnswer
<1> QED
  BY <1>2, <1>3

LEMMA RidOpen ==
  ASSUME DbInv, RidInv, NEW t \in Tasks, Reject(t) \/ OpenStep(t)
  PROVE  RidInv'
<1>1. task[t].pc # "idle" /\ log' = log /\ accepted' = accepted
  BY DEF Reject, OpenStep, LookUpPool, CreateTable, ProbeColumn, Migrate, CachePool,
     fileVars, boundVars
<1>2. CASE Reject(t)
  BY <1>1, <1>2, RidNothingDone DEF Reject, Refuse
<1>3. CASE Migrate(t)
  BY <1>1, <1>3, RidNothingDone, RidQuiet, SameLog, PcAfter DEF Migrate, Refuse
<1>4. CASE LookUpPool(t) \/ CreateTable(t) \/ ProbeColumn(t) \/ CachePool(t)
  BY <1>1, <1>4, RidQuiet, SameLog, PcAfter
     DEF LookUpPool, CreateTable, ProbeColumn, CachePool
<1> QED
  BY <1>2, <1>3, <1>4 DEF OpenStep

LEMMA RidRun ==
  ASSUME DbInv, RidInv, NEW t \in Tasks, RunStep(t)
  PROVE  RidInv'
<1>1. task[t].pc # "idle" /\ accepted' = accepted
  BY DEF RunStep, Sweep, Stamp, Get, ListKeys, Set, Delete, Query, Read, Write,
     CommitWrite, boundVars
<1>2. task = [u \in Tasks |-> task[u]] /\ Shaped(task[t])
  BY DEF DbInv, TasksOk, TaskOk
<1>3. CASE Sweep(t)
  <2>1. /\ RidsIn(log', accepted)
        /\ \A i : Changed(i, log') <=> Changed(i, log)
    <3>1. CASE log' = log
      BY <3>1, SameLog
    <3>2. CASE \E table : Commit(t, SweepRequest, table)
      BY <1>1, <3>2, ChangedByCommit DEF SweepRequest, Request
    <3> QED
      BY <1>3, <3>1, <3>2 DEF Sweep, fileVars
  <2> QED
    BY <1>1, <1>3, <2>1, RidQuiet, PcAfter DEF Sweep
<1>4. CASE Stamp(t)
  BY <1>1, <1>4, RidQuiet, SameLog, PcAfter DEF Stamp, fileVars
<1>5. CASE Get(t)
  <2> DEFINE got == Append(task[t].got,
                      Select(rows[KeyAt(task[t].req, Len(task[t].got) + 1)],
                             task[t].since))
  <2>1. CASE Succeed(t, got)
    BY <1>1, <1>5, <2>1, RidNothingDone DEF Get, Succeed, fileVars
  <2>2. CASE /\ task' = [task EXCEPT ![t].got = got, ![t].pc = "stamp"]
             /\ UNCHANGED replies
    <3> DEFINE z == [task[t] EXCEPT !.got = got]
    <3>1. task'[t].rid = task[t].rid /\ \A u \in Tasks \ {t} : task'[u] = task[u]
      <4>1. z = [pc |-> task[t].pc, req |-> task[t].req, rid |-> task[t].rid,
                 from |-> task[t].from, first |-> task[t].first,
                 since |-> task[t].since, base |-> task[t].base, got |-> got]
        <5> HIDE DEF got
        <5> QED
          BY <1>2 DEF Shaped
      <4>2. task' = [task EXCEPT ![t] = [z EXCEPT !.pc = "stamp"]]
        BY <2>2
      <4> HIDE DEF z, got
      <4> QED
        BY <1>2, <4>1, <4>2
    <3> QED
      BY <1>1, <1>5, <2>2, <3>1, RidQuiet, SameLog DEF Get, fileVars
  <2> QED
    BY <1>5, <2>1, <2>2 DEF Get
<1>6. CASE ListKeys(t)
  BY <1>1, <1>6, RidNothingDone DEF ListKeys, Succeed, fileVars
<1>7. CASE Set(t)
  BY <1>1, <1>7, RidCommitted DEF Set
<1>8. CASE Delete(t)
  <2>1. CASE rows[task[t].req.key] # Absent
    BY <1>1, <1>8, <2>1, RidCommitted DEF Delete
  <2>2. CASE rows[task[t].req.key] = Absent
    BY <1>1, <1>8, <2>2, RidNothingDone DEF Delete, Succeed, fileVars
  <2> QED
    BY <2>1, <2>2
<1>9. CASE Query(t)
  BY <1>1, <1>9, RidCommitted DEF Query, Succeed, Refuse
<1>10. CASE Read(t)
  <2> DEFINE old == Select(rows[task[t].req.key], task[t].since)
  <2>1. CASE Refuse(t)
    BY <1>1, <1>10, <2>1, RidNothingDone DEF Read, Refuse, fileVars
  <2>2. CASE /\ task' = [task EXCEPT ![t].pc = "write", ![t].base = Len(log),
                                     ![t].got = << old >>]
             /\ UNCHANGED replies
    <3>1. task'[t].rid = task[t].rid /\ \A u \in Tasks \ {t} : task'[u] = task[u]
      <4> HIDE DEF old
      <4> QED
        BY <1>2, <2>2
    <3> QED
      BY <1>1, <1>10, <2>2, <3>1, RidQuiet, SameLog DEF Read, fileVars
  <2> QED
    BY <1>10, <2>1, <2>2 DEF Read
<1>11. CASE Write(t)
  BY <1>1, <1>11, RidNothingDone, RidQuiet, SameLog, PcAfter
     DEF Write, Refuse, fileVars
<1>12. CASE CommitWrite(t)
  <2>1. task[t].req.op \in ReadModifyWrite
    BY <1>12 DEF CommitWrite, DbInv, TasksOk, TaskOk
  <2> QED
    BY <1>1, <1>12, <2>1, RidCommitted DEF CommitWrite, ReadModifyWrite
<1> QED
  BY <1>3, <1>4, <1>5, <1>6, <1>7, <1>8, <1>9, <1>10, <1>11, <1>12 DEF RunStep

LEMMA RidAccept ==
  ASSUME DbInv, RidInv, NEW t \in Tasks, Accept(t)
  PROVE  RidInv'
<1>1. /\ task'[t].rid = accepted + 1
      /\ \A u \in Tasks \ {t} : task'[u] = task[u]
  BY AcceptedTask
<1>2. accepted \in Nat /\ accepted' = accepted + 1 /\ log' = log /\ replies' = replies
  BY DEF Accept, DbInv, Files, fileVars
<1>3. ~Changed(accepted + 1, log)
  BY <1>2 DEF Changed, RidInv
<1>4. ASSUME NEW u \in Tasks, task'[u].pc # "idle"
      PROVE  /\ task'[u].rid \in 1..accepted'
             /\ ~Changed(task'[u].rid, log')
             /\ \A w \in Tasks \ {u} :
                  task'[w].pc # "idle" => task'[w].rid # task'[u].rid
             /\ \A p \in replies' : p.rid # task'[u].rid
  <2>1. CASE u = t
    BY <1>1, <1>2, <1>3, <2>1 DEF RidInv
  <2>2. CASE u # t
    BY <1>1, <1>2, <1>4, <2>2 DEF RidInv
  <2> QED
    BY <2>1, <2>2
<1>5. (\A v \in DOMAIN log : log[v].rid \in 0..accepted)'
  BY <1>2 DEF RidInv
<1>6. (\A p \in replies : p.rid \in 1..accepted /\ Honest(p, log))'
  BY <1>2 DEF RidInv
<1> QED
  BY <1>4, <1>5, <1>6 DEF RidInv

LEMMA RidInvStep ==
  ASSUME DbInv, RidInv, [DbNext]_dbVars
  PROVE  RidInv'
<1>1. ASSUME NEW t \in Tasks, Fail(t)
      PROVE  RidInv'
  BY <1>1, RidNothingDone DEF Fail, Refuse, fileVars
<1>2. CASE Crash
  BY <1>2 DEF Crash, Idle, fileVars, RidInv
<1>3. CASE Tick
  BY <1>3 DEF Tick, fileVars, RidInv
<1>4. CASE UNCHANGED dbVars
  BY <1>4 DEF dbVars, fileVars, boundVars, RidInv
<1> QED
  BY <1>1, <1>2, <1>3, <1>4, RidAccept, RidOpen, RidRun DEF DbNext, TaskStep

LEMMA RidInvInit ==
  ASSUME DbInit
  PROVE  RidInv
  BY DEF DbInit, RidInv, Idle

LEMMA RidInvHolds == DbSpec => []RidInv
  BY RidInvInit, RidInvStep, DbInvHolds, PTL DEF DbSpec

\* A change event goes out with exactly the answers whose request changed the
\* table through a kv action, and an error (but for db_query) means that
\* nothing was changed - for any number of racing requests, failures, crashes.
THEOREM AnnouncedIffCommittedHolds == DbSpec => []AnnouncedIffCommitted
<1>1. RidInv => AnnouncedIffCommitted
  BY DEF RidInv, Honest, Changed, AnnouncedIffCommitted
<1> QED
  BY <1>1, RidInvHolds, PTL

-----------------------------------------------------------------------------
(* Counters *)

\* OnlyCounted as far as version v.
CountedTo(k, v) ==
  /\ log[1].rows[k].type \in {"none", "int"}
  /\ log[1].rows[k].n + MaxRequests <= MaxInt
  /\ \A u \in 1..v :
       /\ log[u].rows[k].exp = 0
       /\ log[u].req.key = k => log[u].req.op = "incr" /\ log[u].req.n = 1

\* The requests that changed the table up to version v.
Changers(v) ==
  {i \in 1..accepted : \E u \in 1..v : log[u].rid = i /\ log[u].req.op # "sweep"}

\* A counter grows with each increment, by no more than the requests there were.
Counter(k, v) ==
  /\ log[1].rows[k].n <= log[v].rows[k].n
  /\ log[v].rows[k].n <= log[1].rows[k].n + Cardinality(Changers(v))
  /\ \A u \in 1..v - 1 :
       /\ log[u].rows[k].n <= log[v].rows[k].n
       /\ log[v].req.key = k => log[u].rows[k].n < log[v].rows[k].n

\* An answered increment is in the history, with the value that was answered.
Recorded(p) ==
  \E v \in DOMAIN log :
    /\ log[v].rid = p.rid /\ log[v].req = p.req
    /\ p.req.key \in Keys /\ log[v].rows[p.req.key].n = p.got[1].n

CountInv ==
  /\ accepted <= MaxRequests
  /\ log[Len(log)].rows = rows
  /\ \A k \in Keys, v \in DOMAIN log : CountedTo(k, v) => Counter(k, v)
  /\ \A p \in replies : p.req.op = "incr" /\ p.status = "ok" => Recorded(p)

LEMMA WrapIsExact ==
  ASSUME NEW n \in -MaxInt - 1..MaxInt
  PROVE  Wrap(n) = n
<1> DEFINE w == 2 * (MaxInt + 1)
           x == n + MaxInt + 1
<1>1. w \in Nat /\ w > 0 /\ x \in 0..w - 1
  BY DatabaseAssumption
<1>2. \A m \in Nat, a \in Nat : m > 0 /\ a < m => a % m = a
  OBVIOUS
<1>3. x % w = x
  BY <1>1, <1>2
<1> QED
  BY <1>3, DatabaseAssumption DEF Wrap

\* What an operation leaves of a counter without a deadline.
LEMMA EffectOnCounter ==
  ASSUME rows \in [Keys -> TypedRows], NEW k \in Keys, rows[k].exp = 0,
         NEW r \in LoggedRequests, NEW t
  PROVE  /\ r.key # k => Kv!Effect(r, t, rows)[k] = rows[k]
         /\ r.key = k /\ r.op = "incr" /\ r.n = 1
              => Kv!Effect(r, t, rows)[k].n = Wrap(rows[k].n + 1)
<1> DEFINE table == Kv!Effect(r, t, rows)
<1>1. rows[k] \in TypedRows /\ ~Kv!Dead(rows[k], t)
  BY DEF Kv!Dead
<1>2. ASSUME r.key # k
      PROVE  table[k] = rows[k]
  <2>1. CASE r.op = "sweep"
    BY <1>1, <2>1 DEF Kv!Effect
  <2>2. CASE r.op \in {"set", "query", "del"}
    BY <1>2, <2>2 DEF Kv!Effect
  <2>3. CASE r.op \notin {"sweep", "set", "query", "del"}
    <3>1. table = [rows EXCEPT ![r.key] = Kv!Updated(r, rows[r.key], t)]
      BY <2>3 DEF Kv!Effect
    <3> QED
      BY <1>2, <3>1
  <2> QED
    BY <2>1, <2>2, <2>3
<1>3. ASSUME r.key = k, r.op = "incr", r.n = 1
      PROVE  table[k].n = Wrap(rows[k].n + 1)
  <2>1. table[k] = Kv!Updated(r, rows[k], t)
    BY <1>3 DEF Kv!Effect
  <2>2. table[k].n = Kv!Wrap(IF Kv!Alive(rows[k], t) THEN rows[k].n + 1 ELSE 1)
    BY <1>1, <1>3, <2>1, ZenonT(30) DEF Kv!Updated, TypedRows
  <2>3. (IF Kv!Alive(rows[k], t) THEN rows[k].n + 1 ELSE 1) = rows[k].n + 1
    BY <1>1 DEF Kv!Alive, TypedRows, Absent
  <2> QED
    BY <2>2, <2>3, SameWrap
<1> QED
  BY <1>2, <1>3

\* A step changes the history only by a commit of a task.
LEMMA LogStep ==
  ASSUME DbInv, DbNext
  PROVE  \/ log' = log /\ rows' = rows
         \/ \E t \in Tasks : \E r, table :
              task[t].pc # "idle" /\ accepted' = accepted /\ Commit(t, r, table)
<1>1. ASSUME NEW t \in Tasks, Accept(t) \/ Fail(t) \/ Reject(t) \/ OpenStep(t)
      PROVE  log' = log /\ rows' = rows
  BY <1>1 DEF Accept, Fail, Reject, OpenStep, LookUpPool, CreateTable, ProbeColumn,
     Migrate, CachePool, fileVars
<1>2. ASSUME NEW t \in Tasks,
             Stamp(t) \/ Get(t) \/ ListKeys(t) \/ Read(t) \/ Write(t)
      PROVE  log' = log /\ rows' = rows
  BY <1>2 DEF Stamp, Get, ListKeys, Read, Write, fileVars
<1>3. ASSUME NEW t \in Tasks, Sweep(t) \/ Set(t) \/ Delete(t)
      PROVE  \/ log' = log /\ rows' = rows
             \/ \E r, table :
                  task[t].pc # "idle" /\ accepted' = accepted /\ Commit(t, r, table)
  <2>1. task[t].pc # "idle" /\ accepted' = accepted
    BY <1>3 DEF Sweep, Set, Delete, boundVars
  <2>2. (log' = log /\ rows' = rows) \/ \E r, table : Commit(t, r, table)
    BY <1>3 DEF Sweep, Set, Delete, fileVars
  <2> QED
    BY <2>1, <2>2
<1>4. ASSUME NEW t \in Tasks, Query(t) \/ CommitWrite(t)
      PROVE  \E r, table :
               task[t].pc # "idle" /\ accepted' = accepted /\ Commit(t, r, table)
  <2>1. task[t].pc # "idle" /\ accepted' = accepted
    BY <1>4 DEF Query, CommitWrite, boundVars
  <2>2. \E r, table : Commit(t, r, table)
    BY <1>4 DEF Query, CommitWrite
  <2> QED
    BY <2>1, <2>2
<1>5. CASE Crash \/ Tick
  BY <1>5 DEF Crash, Tick, fileVars
<1> QED
  BY <1>1, <1>2, <1>3, <1>4, <1>5 DEF DbNext, TaskStep, RunStep

LEMMA IntervalIsFinite ==
  ASSUME NEW n \in Nat
  PROVE  IsFiniteSet(1..n) /\ Cardinality(1..n) = n
  BY FS_Interval

LEMMA ChangersFinite ==
  ASSUME accepted \in Nat, NEW v
  PROVE  IsFiniteSet(Changers(v)) /\ Cardinality(Changers(v)) \in 0..accepted
<1>1. IsFiniteSet(1..accepted) /\ Cardinality(1..accepted) = accepted
  BY IntervalIsFinite
<1>2. Changers(v) \subseteq 1..accepted
  BY DEF Changers
<1> QED
  BY <1>1, <1>2, FS_Subset, FS_CardinalityType

\* The versions there were keep their counters, whatever is accepted or added.
LEMMA OlderVersions ==
  ASSUME DbInv, RidInv, accepted' \in Nat, accepted <= accepted',
         DOMAIN log \subseteq DOMAIN log',
         \A u \in DOMAIN log : log'[u] = log[u],
         NEW k \in Keys, NEW v \in DOMAIN log
  PROVE  /\ CountedTo(k, v)' <=> CountedTo(k, v)
         /\ Changers(v)' = Changers(v)
         /\ Counter(k, v)' <=> Counter(k, v)
<1>1. 1 \in DOMAIN log /\ 1..v \subseteq DOMAIN log /\ v \in Nat
  BY DEF DbInv, Files
<1>2. CountedTo(k, v)' <=> CountedTo(k, v)
  BY <1>1 DEF CountedTo
<1>3. Changers(v)' = Changers(v)
  <2>1. accepted \in Nat /\ \A u \in 1..v : log'[u] = log[u] /\ log[u].rid \in 0..accepted
    BY <1>1 DEF DbInv, Files, RidInv
  <2> QED
    BY <2>1 DEF Changers
<1>4. Counter(k, v)' <=> Counter(k, v)
  BY <1>1, <1>3 DEF Counter
<1> QED
  BY <1>2, <1>3, <1>4

\* A commit adds a version in which every counter is one of the last version, or
\* one more.
LEMMA NewVersion ==
  ASSUME DbInv, RidInv, CountInv, DbInv', KvStep,
         NEW t \in Tasks, NEW r, NEW table, task[t].pc # "idle",
         accepted' = accepted, Commit(t, r, table),
         NEW k \in Keys, NEW L \in Nat, L = Len(log), CountedTo(k, L + 1)'
  PROVE  Counter(k, L + 1)'
<1> DEFINE e == [req |-> r, at |-> task[t].since, rid |-> task[t].rid, rows |-> table]
           first == log[1].rows[k].n
           last == log[L].rows[k].n
<1>1. log' = Append(log, e) /\ rows' = table /\ log \in Seq(Versions) /\ L >= 1
  BY DEF Commit, DbInv, Files
<1>2. /\ DOMAIN log' = 1..L + 1 /\ DOMAIN log = 1..L /\ Len(log') = L + 1
      /\ \A v \in 1..L : log'[v] = log[v]
      /\ log'[L + 1] = e
  <2> HIDE DEF e
  <2> QED
    BY <1>1
<1>3. e.rid = task[t].rid /\ e.req = r /\ e.rows = table /\ e.at = task[t].since
  OBVIOUS
<1>4. e \in Versions /\ r \in LoggedRequests
  <2>1. log' \in Seq(Versions)
    BY DEF DbInv, Files
  <2>2. log'[L + 1] \in Versions
    BY <1>1, <1>2, <2>1
  <2> QED
    BY <1>2, <1>3, <2>2 DEF Versions
<1> HIDE DEF e
<1>5. table = Kv!Effect(r, task[t].since, rows)
  <2>1. Kv!KvNext
    BY <1>2 DEF KvStep
  <2> QED
    BY <1>1, <1>2, <1>3, <2>1 DEF Kv!KvNext
<1>6. rows \in [Keys -> TypedRows] /\ log[L].rows = rows /\ accepted \in Nat
  BY DEF DbInv, Files, CountInv
<1>7. CountedTo(k, L)' /\ rows[k].exp = 0 /\ (r.key = k => r.op = "incr" /\ r.n = 1)
  <2>1. 1..L \subseteq 1..L + 1 /\ L \in 1..L /\ L \in 1..L + 1 /\ L + 1 \in 1..L + 1
    BY <1>1
  <2>2. CountedTo(k, L)'
    BY <2>1 DEF CountedTo
  <2>3. \A u \in 1..L + 1 :
          /\ log'[u].rows[k].exp = 0
          /\ log'[u].req.key = k => log'[u].req.op = "incr" /\ log'[u].req.n = 1
    BY DEF CountedTo
  <2>4. log'[L] = log[L]
    BY <1>2, <2>1
  <2>5. rows[k].exp = 0
    BY <1>6, <2>1, <2>3, <2>4
  <2> QED
    BY <1>2, <1>3, <2>1, <2>2, <2>3, <2>5
<1>8. CountedTo(k, L) /\ Changers(L)' = Changers(L)
  BY <1>1, <1>2, <1>6, <1>7, OlderVersions
<1>9. Counter(k, L)
  BY <1>1, <1>2, <1>8 DEF CountInv
<1>10. Cardinality(Changers(L)) \in Nat /\ Changers(L)' \subseteq Changers(L + 1)'
       /\ Cardinality(Changers(L + 1)') \in 0..accepted
       /\ Cardinality(Changers(L)) <= Cardinality(Changers(L + 1)')
  <2>1. IsFiniteSet(Changers(L + 1)') /\ Cardinality(Changers(L + 1)') \in 0..accepted
    <3>1. IsFiniteSet(1..accepted) /\ Cardinality(1..accepted) = accepted
      BY <1>6, IntervalIsFinite
    <3>2. Changers(L + 1)' \subseteq 1..accepted
      BY DEF Changers
    <3> QED
      BY <1>6, <3>1, <3>2, FS_Subset, FS_CardinalityType
  <2>2. Changers(L)' \subseteq Changers(L + 1)'
    BY <1>1 DEF Changers
  <2>3. Cardinality(Changers(L)) \in Nat
    BY <1>6, ChangersFinite
  <2> QED
    BY <1>8, <2>1, <2>2, <2>3, FS_Subset
<1>11. first \in Int /\ last \in Int /\ first >= -MaxInt - 1
       /\ first + MaxRequests <= MaxInt
  <2>1. \A u \in 1..L : log[u] \in Versions
    BY <1>1
  <2>2. log[1].rows[k] \in TypedRows /\ log[L].rows[k] \in TypedRows
    BY <1>1, <2>1 DEF Versions
  <2> QED
    BY <1>8, <2>2, DatabaseAssumption DEF TypedRows, Absent, CountedTo
<1>12. \A u \in 1..L : log[u].rows[k].n \in Int /\ log[u].rows[k].n <= last
  <2>1. \A u \in 1..L : log[u] \in Versions
    BY <1>1
  <2>2. \A u \in 1..L : log[u].rows[k].n \in Int
    BY <2>1 DEF Versions, TypedRows
  <2> QED
    BY <1>1, <1>9, <1>11, <2>2 DEF Counter
<1>13. CASE r.key # k
  <2>1. table[k] = rows[k]
    BY <1>4, <1>5, <1>6, <1>7, <1>13, EffectOnCounter
  <2>2. table[k].n = last
    BY <1>6, <2>1
  <2> QED
    BY <1>1, <1>2, <1>3, <1>9, <1>10, <1>11, <1>12, <1>13, <2>2 DEF Counter
<1>14. CASE r.key = k
  <2>1. table[k].n = Wrap(last + 1)
    BY <1>4, <1>5, <1>6, <1>7, <1>14, EffectOnCounter
  <2>2. Cardinality(Changers(L + 1)') = Cardinality(Changers(L)) + 1
    <3>1. /\ task[t].rid \in 1..accepted /\ ~Changed(task[t].rid, log)
          /\ r.op # "sweep"
      BY <1>7, <1>14 DEF RidInv
    <3>2. task[t].rid \notin Changers(L)
      BY <1>1, <1>2, <3>1 DEF Changers, Changed
    <3>3. Changers(L + 1)' = Changers(L) \cup {task[t].rid}
      <4>1. ASSUME NEW i \in 1..accepted
            PROVE  (\E u \in 1..L + 1 : log'[u].rid = i /\ log'[u].req.op # "sweep")
                   <=> (\E u \in 1..L : log'[u].rid = i /\ log'[u].req.op # "sweep")
                       \/ i = task[t].rid
        BY <1>1, <1>2, <1>3, <3>1
      <4>2. Changers(L + 1)' = Changers(L)' \cup {task[t].rid}
        BY <3>1, <4>1 DEF Changers
      <4> QED
        BY <1>8, <4>2
    <3> QED
      BY <1>6, <3>2, <3>3, ChangersFinite, FS_AddElement
  <2>3. Cardinality(Changers(L)) + 1 <= MaxRequests
    BY <1>6, <1>10, <2>2, DatabaseAssumption DEF CountInv
  <2>4. first <= last /\ last <= first + Cardinality(Changers(L))
    BY <1>9 DEF Counter
  <2>5. last + 1 \in -MaxInt - 1..MaxInt
    <3>1. \A f, l \in Int, c, q, m \in Nat :
            /\ f >= -m - 1 /\ f + q <= m /\ c + 1 <= q /\ f <= l /\ l <= f + c
            => l + 1 \in -m - 1..m
      OBVIOUS
    <3>2. Cardinality(Changers(L)) \in Nat
      BY <1>10
    <3> QED
      BY <1>11, <2>3, <2>4, <3>1, <3>2, DatabaseAssumption
  <2>6. table[k].n = last + 1
    BY <2>1, <2>5, WrapIsExact
  <2>7. log'[1] = log[1] /\ log'[L + 1].rows[k].n = last + 1
    BY <1>1, <1>2, <1>3, <2>6
  <2>8. \A u \in 1..L : log'[u].rows[k].n < last + 1
    BY <1>2, <1>11, <1>12
  <2>9. Cardinality(Changers(L)) \in Nat /\ (L + 1) - 1 = L
    BY <1>10
  <2>10. first <= last + 1 /\ last + 1 <= first + (Cardinality(Changers(L)) + 1)
    BY <1>11, <2>4, <2>9
  <2>11. \A u \in 1..L : log'[u].rows[k].n <= last + 1
    BY <1>2, <1>11, <1>12
  <2> QED
    BY <2>2, <2>7, <2>8, <2>9, <2>10, <2>11 DEF Counter
<1> QED
  BY <1>13, <1>14

\* An increment is answered by the step that commits it.
LEMMA ReplyStep ==
  ASSUME DbInv, DbNext, NEW p \in replies', p \notin replies,
         p.req.op = "incr", p.status = "ok"
  PROVE  \E t \in Tasks :
           /\ CommitWrite(t) /\ p.rid = task[t].rid /\ p.req = task[t].req
           /\ p.got = << Upserted(task[t].req, task[t].got[1]) >>
<1>1. PICK t \in Tasks : Accept(t) \/ TaskStep(t) \/ Fail(t)
  BY DEF DbNext, Crash, Tick
<1>2. ASSUME NEW status, NEW got, NEW event, Answer(t, status, got, event)
      PROVE  /\ p.rid = task[t].rid /\ p.req = task[t].req /\ p.got = got
             /\ p.status = status
  <2> DEFINE x == task[t]
  <2>1. p = [req |-> x.req, rid |-> x.rid, from |-> x.from, upto |-> now,
             first |-> x.first, last |-> Len(log), status |-> status,
             got |-> got, event |-> event]
    BY <1>2 DEF Answer
  <2> HIDE DEF x
  <2>2. p.rid = x.rid /\ p.req = x.req /\ p.got = got /\ p.status = status
    BY <2>1
  <2> QED
    BY <2>2 DEF x
<1>3. ~Accept(t) /\ ~Sweep(t) /\ ~Stamp(t) /\ ~LookUpPool(t) /\ ~CreateTable(t)
      /\ ~ProbeColumn(t) /\ ~CachePool(t)
  BY DEF Accept, Sweep, Stamp, LookUpPool, CreateTable, ProbeColumn, CachePool
<1>4. ~Refuse(t)
  BY <1>2 DEF Refuse
<1>5. ~Reject(t) /\ ~Migrate(t) /\ ~Fail(t) /\ ~Read(t) /\ ~Write(t)
  BY <1>4 DEF Reject, Migrate, Fail, Read, Write
<1>6. ~Get(t) /\ ~ListKeys(t) /\ ~Set(t) /\ ~Delete(t) /\ ~Query(t)
  <2>1. (\E status, got, event : Answer(t, status, got, event))
          => task[t].req.op = "incr"
    BY <1>2
  <2> QED
    BY <2>1 DEF Get, ListKeys, Set, Delete, Query, Succeed, Refuse
<1>7. CommitWrite(t)
  BY <1>1, <1>3, <1>5, <1>6 DEF TaskStep, OpenStep, RunStep
<1> QED
  BY <1>2, <1>7 DEF CommitWrite

LEMMA CountInvStep ==
  ASSUME DbInv, RidInv, CountInv, [DbNext]_dbVars
  PROVE  CountInv'
<1>1. DbInv' /\ KvStep
  BY NextStep DEF Step
<1>2. CASE UNCHANGED dbVars
  <2>1. /\ rows' = rows /\ log' = log /\ replies' = replies /\ accepted' = accepted
    BY <1>2 DEF dbVars, fileVars, boundVars
  <2>2. \A v : Changers(v)' = Changers(v)
    BY <2>1 DEF Changers
  <2>3. \A k, v : CountedTo(k, v)' = CountedTo(k, v) /\ Counter(k, v)' = Counter(k, v)
    BY <2>1, <2>2 DEF CountedTo, Counter
  <2>4. \A p : Recorded(p)' = Recorded(p)
    BY <2>1 DEF Recorded
  <2> QED
    BY <2>1, <2>3, <2>4 DEF CountInv
<1>3. CASE DbNext
  <2>1. accepted \in Nat /\ accepted' \in Nat /\ accepted <= accepted'
        /\ accepted' <= MaxRequests
    <3>1. accepted' = accepted \/ (accepted < MaxRequests /\ accepted' = accepted + 1)
      BY <1>3, ZenonT(30) DEF DbNext, Accept, TaskStep, OpenStep, RunStep, Reject, LookUpPool,
         CreateTable, ProbeColumn, Migrate, CachePool, Sweep, Stamp, Get, ListKeys,
         Set, Delete, Query, Read, Write, CommitWrite, Fail, Crash, Tick, boundVars
    <3> QED
      BY <3>1, DatabaseAssumption DEF CountInv, DbInv, Files
  <2>2. Len(log) \in Nat /\ Len(log) >= 1 /\ DOMAIN log = 1..Len(log)
        /\ log \in Seq(Versions)
    BY DEF DbInv, Files
  <2>3. ASSUME NEW t \in Tasks, NEW r, NEW table, Commit(t, r, table)
        PROVE  /\ Len(log') = Len(log) + 1 /\ DOMAIN log' = 1..Len(log) + 1
               /\ \A u \in DOMAIN log : log'[u] = log[u]
               /\ log'[Len(log) + 1] = [req |-> r, at |-> task[t].since,
                                        rid |-> task[t].rid, rows |-> table]
    <3> DEFINE e == [req |-> r, at |-> task[t].since, rid |-> task[t].rid,
                     rows |-> table]
    <3>1. log' = Append(log, e)
      BY <2>3 DEF Commit
    <3> HIDE DEF e
    <3>2. /\ Len(log') = Len(log) + 1 /\ DOMAIN log' = 1..Len(log) + 1
          /\ \A u \in DOMAIN log : log'[u] = log[u]
          /\ log'[Len(log) + 1] = e
      BY <2>2, <3>1
    <3> QED
      BY <3>2 DEF e
  <2>4. DOMAIN log \subseteq DOMAIN log' /\ \A u \in DOMAIN log : log'[u] = log[u]
    <3>1. ASSUME NEW t \in Tasks, NEW r, NEW table, Commit(t, r, table)
          PROVE  DOMAIN log \subseteq DOMAIN log'
                 /\ \A u \in DOMAIN log : log'[u] = log[u]
      <4>1. DOMAIN log' = 1..Len(log) + 1 /\ \A u \in DOMAIN log : log'[u] = log[u]
        BY <2>3, <3>1
      <4> QED
        BY <2>2, <4>1
    <3>2. CASE log' = log
      BY <3>2
    <3> QED
      BY <1>3, <3>1, <3>2, LogStep
  <2>5. log'[Len(log')].rows = rows'
    <3>1. CASE log' = log /\ rows' = rows
      BY <3>1 DEF CountInv
    <3>2. ASSUME NEW t \in Tasks, NEW r, NEW table, Commit(t, r, table)
          PROVE  log'[Len(log')].rows = rows'
      BY <2>3, <3>2 DEF Commit
    <3> QED
      BY <1>3, <3>1, <3>2, LogStep
  <2>6. ASSUME NEW k \in Keys, NEW v \in DOMAIN log', CountedTo(k, v)'
        PROVE  Counter(k, v)'
    <3>1. CASE v \in DOMAIN log
      <4>1. /\ CountedTo(k, v)' <=> CountedTo(k, v)
            /\ Counter(k, v)' <=> Counter(k, v)
        BY <2>1, <2>4, <3>1, OlderVersions
      <4> QED
        BY <2>6, <3>1, <4>1 DEF CountInv
    <3>2. CASE v \notin DOMAIN log
      <4>1. PICK t \in Tasks :
              \E r, table :
                task[t].pc # "idle" /\ accepted' = accepted /\ Commit(t, r, table)
        BY <1>3, <3>2, LogStep
      <4>2. PICK r, table :
              task[t].pc # "idle" /\ accepted' = accepted /\ Commit(t, r, table)
        BY <4>1
      <4>3. DOMAIN log' = 1..Len(log) + 1
        BY <2>3, <4>2
      <4>4. v = Len(log) + 1
        BY <2>2, <2>6, <3>2, <4>3
      <4>5. PICK L \in Nat : L = Len(log)
        BY <2>2
      <4>6. v = L + 1
        BY <4>4, <4>5
      <4> QED
        BY <1>1, <2>6, <4>2, <4>5, <4>6, NewVersion
    <3> QED
      BY <3>1, <3>2
  <2>7. ASSUME NEW p \in replies', p.req.op = "incr", p.status = "ok"
        PROVE  Recorded(p)'
    <3>1. CASE p \in replies
      BY <2>4, <2>7, <3>1 DEF CountInv, Recorded
    <3>2. CASE p \notin replies
      <4>1. PICK t \in Tasks :
              /\ CommitWrite(t) /\ p.rid = task[t].rid /\ p.req = task[t].req
              /\ p.got = << Upserted(task[t].req, task[t].got[1]) >>
        BY <1>3, <2>7, <3>2, ReplyStep
      <4> DEFINE new == Upserted(task[t].req, task[t].got[1])
                 table == [rows EXCEPT ![task[t].req.key] = new]
      <4>2. Commit(t, task[t].req, table)
        BY <4>1 DEF CommitWrite
      <4>3. task[t].req.key \in Keys /\ rows \in [Keys -> TypedRows]
        BY <4>1, DatabaseAssumption
           DEF CommitWrite, DbInv, TasksOk, TaskOk, ReadModifyWrite, Files
      <4>4. table[p.req.key].n = p.got[1].n
        BY <4>1, <4>3
      <4> HIDE DEF table
      <4>5. /\ Len(log) + 1 \in DOMAIN log'
            /\ log'[Len(log) + 1].rid = p.rid /\ log'[Len(log) + 1].req = p.req
            /\ log'[Len(log) + 1].rows = table
        <5>1. /\ DOMAIN log' = 1..Len(log) + 1
              /\ log'[Len(log) + 1] = [req |-> task[t].req, at |-> task[t].since,
                                       rid |-> task[t].rid, rows |-> table]
          BY <2>3, <4>2
        <5> QED
          BY <2>2, <4>1, <5>1
      <4> QED
        BY <4>1, <4>3, <4>4, <4>5 DEF Recorded
    <3> QED
      BY <3>1, <3>2
  <2> QED
    BY <2>1, <2>5, <2>6, <2>7 DEF CountInv
<1> QED
  BY <1>2, <1>3

LEMMA CountInvInit ==
  ASSUME DbInit
  PROVE  CountInv
<1>1. DbInv
  BY InitHolds
<1>2. DOMAIN log = {1} /\ log[1].rows = rows /\ Len(log) = 1
  BY DEF DbInit
<1>3. ASSUME NEW k \in Keys, NEW v \in DOMAIN log
      PROVE  Counter(k, v)
  <2>1. v = 1 /\ rows[k].n \in Int
    BY <1>1, <1>2 DEF DbInv, Files, TypedRows
  <2>2. Cardinality(Changers(1)) \in Nat
    BY ChangersFinite DEF DbInit
  <2> QED
    BY <1>2, <2>1, <2>2 DEF Counter
<1> QED
  BY <1>2, <1>3, DatabaseAssumption DEF CountInv, DbInit

\* The ids of scheduler, calendar and notes are counters: as long as only
\* increments by one touch a key, no two of them answer the same value, whatever
\* races, fails or crashes in between.
THEOREM IdsNeverRepeatHolds == DbSpec => []IdsNeverRepeat
<1>1. DbInv /\ CountInv => IdsNeverRepeat
  <2> SUFFICES ASSUME DbInv, CountInv,
                      NEW p \in {r \in replies : r.req.op = "incr" /\ r.status = "ok"},
                      NEW q \in {r \in replies : r.req.op = "incr" /\ r.status = "ok"},
                      p.rid # q.rid, p.req.key = q.req.key, OnlyCounted(p.req.key)
               PROVE  p.got[1].n # q.got[1].n
    BY DEF IdsNeverRepeat
  <2> DEFINE k == p.req.key
  <2>1. Len(log) \in Nat /\ DOMAIN log = 1..Len(log) /\ k \in Keys
    BY DEF DbInv, Files, CountInv, Recorded
  <2>2. PICK v \in DOMAIN log : /\ log[v].rid = p.rid /\ log[v].req = p.req
                                /\ log[v].rows[k].n = p.got[1].n
    BY DEF CountInv, Recorded
  <2>3. PICK w \in DOMAIN log : /\ log[w].rid = q.rid /\ log[w].req = q.req
                                /\ log[w].rows[k].n = q.got[1].n
    BY DEF CountInv, Recorded
  <2>4. \A u \in DOMAIN log : CountedTo(k, u)
    BY <2>1 DEF OnlyCounted, CountedTo
  <2>5. \A u \in DOMAIN log : Counter(k, u) /\ log[u].rows[k].n \in Int
    <3>1. \A u \in DOMAIN log : log[u] \in Versions
      BY DEF DbInv, Files
    <3> QED
      BY <2>1, <2>4, <3>1 DEF CountInv, Versions, TypedRows
  <2>6. log[v].req.key = k /\ log[w].req.key = k /\ v # w
    BY <2>2, <2>3
  <2>7. CASE w < v
    <3>1. log[w].rows[k].n < log[v].rows[k].n
      BY <2>1, <2>5, <2>6, <2>7 DEF Counter
    <3> QED
      BY <2>2, <2>3, <2>5, <3>1
  <2>8. CASE v < w
    <3>1. log[v].rows[k].n < log[w].rows[k].n
      BY <2>1, <2>5, <2>6, <2>8 DEF Counter
    <3> QED
      BY <2>2, <2>3, <2>5, <3>1
  <2> QED
    BY <2>1, <2>6, <2>7, <2>8
<1>2. DbSpec => []CountInv
  BY CountInvInit, CountInvStep, DbInvHolds, RidInvHolds, PTL DEF DbSpec
<1> QED
  BY <1>1, <1>2, DbInvHolds, PTL

-----------------------------------------------------------------------------
(* What reads show *)

\* Each value of g is what some version from first to last shows at some time
\* from `from` to upto of the key that request r reads in its place.
Recent(g, r, first, last, from, upto) ==
  \A i \in DOMAIN g :
    \E v \in first..last, t \in from..upto : g[i] = Shown(v, KeyAt(r, i), t)

\* What a task has read so far was current while its request ran, and the time
\* it filters by was read while it ran.
TaskRecent(x) ==
  x.pc # "idle" =>
    /\ x.from \in Nat /\ x.from <= now
    /\ x.first \in 1..Len(log)
    /\ x.pc \in {"sweep", "stamp", "run"} => x.since \in x.from..now
    /\ x.req.op \in {"get", "batch"} =>
         /\ x.got \in Seq(TypedRows)
         /\ Len(x.got) < KeysRead(x.req)
         /\ Recent(x.got, x.req, x.first, Len(log), x.from, now)

\* What a reply says of the history it was given in.
ReplyRecent(p) ==
  /\ p.req.op \in {"get", "batch"} =>
       Recent(p.got, p.req, p.first, p.last, p.from, p.upto)
  /\ p.req.op = "keys" =>
       \E v \in p.first..p.last :
         \A k \in Keys : p.got[k] = (log[v].rows[k].type # "none")

RecentInv ==
  /\ log[Len(log)].rows = rows
  /\ \A t \in Tasks : TaskRecent(task[t])
  /\ \A p \in replies :
       /\ p.first \in Nat /\ p.first >= 1 /\ p.last \in Nat /\ p.last <= Len(log)
       /\ p.status = "ok" => ReplyRecent(p)

\* A step keeps every version there is, and the table is the last one.
LEMMA HistoryStays ==
  ASSUME DbInv, RecentInv, [DbNext]_dbVars
  PROVE  /\ Len(log) \in Nat /\ Len(log') \in Nat /\ Len(log) <= Len(log')
         /\ \A v \in 1..Len(log) : log'[v] = log[v]
         /\ log'[Len(log')].rows = rows'
<1>1. log \in Seq(Versions) /\ Len(log) \in Nat
  BY DEF DbInv, Files
<1>2. CASE log' = log /\ rows' = rows
  BY <1>1, <1>2 DEF RecentInv
<1>3. ASSUME NEW t \in Tasks, NEW r, NEW table, Commit(t, r, table)
      PROVE  /\ Len(log') \in Nat /\ Len(log) <= Len(log')
             /\ \A v \in 1..Len(log) : log'[v] = log[v]
             /\ log'[Len(log')].rows = rows'
  <2> DEFINE e == [req |-> r, at |-> task[t].since, rid |-> task[t].rid, rows |-> table]
  <2>1. log' = Append(log, e) /\ rows' = table
    BY <1>3 DEF Commit
  <2>2. e.rows = table
    OBVIOUS
  <2> HIDE DEF e
  <2>3. Len(log') = Len(log) + 1 /\ log'[Len(log) + 1] = e
        /\ \A v \in 1..Len(log) : log'[v] = log[v]
    BY <1>1, <2>1
  <2> QED
    BY <1>1, <2>1, <2>2, <2>3
<1>4. CASE UNCHANGED dbVars
  BY <1>2, <1>4 DEF dbVars, fileVars
<1>5. CASE DbNext
  BY <1>1, <1>2, <1>3, <1>5, LogStep
<1> QED
  BY <1>1, <1>4, <1>5

\* What was recent stays so while the history and the clock go on.
LEMMA RecentStays ==
  ASSUME NEW g, NEW r, NEW first \in Nat, first >= 1, NEW last \in Nat,
         NEW last2 \in Nat, last <= last2, NEW from \in Nat,
         NEW upto \in Nat, NEW upto2 \in Nat, upto <= upto2,
         Recent(g, r, first, last, from, upto),
         \A v \in 1..last : log'[v] = log[v]
  PROVE  Recent(g, r, first, last2, from, upto2)'
<1> SUFFICES ASSUME NEW i \in DOMAIN g
             PROVE  \E v \in first..last2, t \in from..upto2 :
                      g[i] = Shown(v, KeyAt(r, i), t)'
  BY DEF Recent, KeyAt
<1>1. PICK v \in first..last, t \in from..upto : g[i] = Shown(v, KeyAt(r, i), t)
  BY DEF Recent
<1>2. v \in 1..last /\ v \in first..last2 /\ t \in from..upto2
  OBVIOUS
<1>3. Shown(v, KeyAt(r, i), t)' = Shown(v, KeyAt(r, i), t)
  BY <1>2 DEF Shown, KeyAt, Kv!Alive, Kv!Dead
<1> QED
  BY <1>1, <1>2, <1>3

\* A task that goes on to another statement, with the clock read anew or not.
LEMMA TaskGoesOn ==
  ASSUME DbInv, DbInv', RecentInv, [DbNext]_dbVars, now' >= now,
         NEW x, NEW y, TaskRecent(x), x.pc # "idle",
         y.req = x.req, y.from = x.from, y.first = x.first, y.got = x.got,
         y.pc \in {"sweep", "stamp", "run"} =>
           \/ y.since = x.since /\ x.pc \in {"sweep", "stamp", "run"}
           \/ y.since = now
  PROVE  TaskRecent(y)'
<1>1. now \in Nat /\ now' \in Nat
  BY DEF DbInv, Files
<1>2. /\ Len(log) \in Nat /\ Len(log') \in Nat /\ Len(log) <= Len(log')
      /\ \A v \in 1..Len(log) : log'[v] = log[v]
  BY HistoryStays
<1>3. x.from \in Nat /\ x.from <= now /\ x.first \in 1..Len(log)
  BY DEF TaskRecent
<1>4. y.from <= now' /\ y.first \in 1..Len(log')
  BY <1>1, <1>2, <1>3
<1>5. y.pc \in {"sweep", "stamp", "run"} => y.since \in y.from..now'
  BY <1>1, <1>3 DEF TaskRecent
<1>6. ASSUME y.req.op \in {"get", "batch"}
      PROVE  Recent(y.got, y.req, y.first, Len(log), y.from, now)'
  <2>1. Recent(x.got, x.req, x.first, Len(log), x.from, now)
    BY <1>6 DEF TaskRecent
  <2> QED
    BY <1>1, <1>2, <1>3, <2>1, RecentStays
<1> QED
  BY <1>3, <1>4, <1>5, <1>6 DEF TaskRecent, KeysRead

\* A statement that reads a key with the time of its task shows what the table
\* now holds at that time.
LEMMA ReadIsRecent ==
  ASSUME DbInv, RecentInv, NEW k \in Keys, NEW t \in Nat
  PROVE  /\ Select(rows[k], t) = Shown(Len(log), k, t)
         /\ Select(rows[k], t) \in TypedRows
<1>1. rows[k] \in TypedRows /\ log[Len(log)].rows = rows
  BY DEF DbInv, Files, RecentInv
<1>2. Absent \in TypedRows
  BY DatabaseAssumption DEF Absent, TypedRows
<1> QED
  BY <1>1, <1>2 DEF Select, Shown, Expired, Kv!Alive, Kv!Dead, TypedRows

LEMMA KeyIsRead ==
  ASSUME NEW r \in Requests, r.op \in {"get", "batch"}, NEW n \in Nat, n < KeysRead(r)
  PROVE  KeyAt(r, n + 1) \in Keys /\ KeysRead(r) \in Nat
<1>1. CASE r.op = "get"
  BY <1>1, DatabaseAssumption DEF KeyAt, KeysRead
<1>2. CASE r.op = "batch"
  <2>1. IsFiniteSet(Keys) /\ Keys # {} /\ Keys = 1..Cardinality(Keys)
    BY <1>2, BatchAssumption
  <2>2. Cardinality(Keys) \in Nat
    BY <2>1, FS_CardinalityType
  <2> QED
    BY <1>2, <2>1, <2>2 DEF KeyAt, KeysRead
<1> QED
  BY <1>1, <1>2

\* One more key is read by the statement that runs.
LEMMA GetIsRecent ==
  ASSUME DbInv, RecentInv, NEW t \in Tasks, task[t].pc = "run",
         task[t].req.op \in {"get", "batch"},
         NEW got, got = Append(task[t].got,
                          Select(rows[KeyAt(task[t].req, Len(task[t].got) + 1)],
                                 task[t].since))
  PROVE  /\ got \in Seq(TypedRows)
         /\ Len(got) = Len(task[t].got) + 1
         /\ Len(got) <= KeysRead(task[t].req)
         /\ KeysRead(task[t].req) \in Nat /\ Len(got) \in Nat
         /\ Recent(got, task[t].req, task[t].first, Len(log), task[t].from, now)
<1> DEFINE x == task[t]
           n == Len(x.got)
           k == KeyAt(x.req, n + 1)
           row == Select(rows[k], x.since)
<1>1. /\ x.req \in Requests /\ x.from \in Nat /\ x.first \in 1..Len(log)
      /\ x.since \in x.from..now /\ x.got \in Seq(TypedRows) /\ n \in Nat
      /\ n < KeysRead(x.req) /\ now \in Nat /\ Len(log) \in Nat
      /\ Recent(x.got, x.req, x.first, Len(log), x.from, now)
  BY DEF DbInv, Files, TasksOk, TaskOk, RecentInv, TaskRecent
<1>2. k \in Keys /\ KeysRead(x.req) \in Nat
  BY <1>1, KeyIsRead
<1>3. row = Shown(Len(log), k, x.since) /\ row \in TypedRows
  BY <1>1, <1>2, ReadIsRecent
<1>4. got = Append(x.got, row)
  OBVIOUS
<1> HIDE DEF row, n
<1>5. /\ got \in Seq(TypedRows) /\ Len(got) = n + 1 /\ got[n + 1] = row
      /\ DOMAIN got = 1..n + 1
      /\ DOMAIN x.got = 1..n
      /\ \A i \in 1..n : got[i] = x.got[i]
  BY <1>1, <1>3, <1>4, AppendProperties, LenProperties DEF n
<1>6. Recent(got, x.req, x.first, Len(log), x.from, now)
  <2> SUFFICES ASSUME NEW i \in 1..n + 1
               PROVE  \E v \in x.first..Len(log), s \in x.from..now :
                        got[i] = Shown(v, KeyAt(x.req, i), s)
    BY <1>5 DEF Recent
  <2>1. CASE i = n + 1
    <3>1. got[i] = Shown(Len(log), KeyAt(x.req, i), x.since)
      BY <1>3, <1>5, <2>1
    <3>2. Len(log) \in x.first..Len(log) /\ x.since \in x.from..now
      BY <1>1
    <3> QED
      BY <3>1, <3>2
  <2>2. CASE i \in 1..n
    BY <1>1, <1>5, <2>2 DEF Recent
  <2>3. i = n + 1 \/ i \in 1..n
    <3>1. n \in Nat
      BY <1>1
    <3> QED
      BY <3>1
  <2> QED
    BY <2>1, <2>2, <2>3
<1> QED
  BY <1>1, <1>2, <1>5, <1>6 DEF n

\* What a task keeps when it goes on.
LEMMA FieldsAfter ==
  ASSUME DbInv, NEW t \in Tasks, NEW pc, Goto(t, pc) \/ StampAndGoto(t, pc)
  PROVE  /\ task'[t].pc = pc
         /\ task'[t].req = task[t].req /\ task'[t].from = task[t].from
         /\ task'[t].first = task[t].first /\ task'[t].got = task[t].got
         /\ Goto(t, pc) => task'[t].since = task[t].since
         /\ StampAndGoto(t, pc) => task'[t].since = now
         /\ \A u \in Tasks \ {t} : task'[u] = task[u]
<1>1. task = [u \in Tasks |-> task[u]] /\ Shaped(task[t])
  BY DEF DbInv, TasksOk, TaskOk
<1> DEFINE z == [task[t] EXCEPT !.pc = pc]
<1>2. z = [pc |-> pc, req |-> task[t].req, rid |-> task[t].rid,
           from |-> task[t].from, first |-> task[t].first,
           since |-> task[t].since, base |-> task[t].base, got |-> task[t].got]
  BY <1>1 DEF Shaped
<1>3. CASE Goto(t, pc)
  <2>1. task' = [task EXCEPT ![t] = z]
    BY <1>3 DEF Goto
  <2>2. task'[t] = z /\ \A u \in Tasks \ {t} : task'[u] = task[u]
    BY <1>1, <2>1
  <2>3. StampAndGoto(t, pc) => task'[t].since = now
    <3>1. task[t].since \in Nat
      BY DEF DbInv, TasksOk, TaskOk
    <3> SUFFICES ASSUME StampAndGoto(t, pc) PROVE task'[t].since = now
      OBVIOUS
    <3>2. task' = [task EXCEPT ![t] = [z EXCEPT !.since = now]]
      BY DEF StampAndGoto
    <3> HIDE DEF z
    <3> QED
      BY <1>1, <1>2, <3>2
  <2> HIDE DEF z
  <2> QED
    BY <1>2, <2>2, <2>3
<1>4. CASE StampAndGoto(t, pc)
  <2>1. task' = [task EXCEPT ![t] = [z EXCEPT !.since = now]]
    BY <1>4 DEF StampAndGoto
  <2>2. Goto(t, pc) => task'[t].since = task[t].since
    <3> SUFFICES ASSUME Goto(t, pc) PROVE task'[t].since = task[t].since
      OBVIOUS
    <3>1. task' = [task EXCEPT ![t] = z]
      BY DEF Goto
    <3> HIDE DEF z
    <3> QED
      BY <1>1, <1>2, <3>1
  <2> HIDE DEF z
  <2>3. /\ task'[t] = [z EXCEPT !.since = now]
        /\ \A u \in Tasks \ {t} : task'[u] = task[u]
    BY <1>1, <2>1
  <2> QED
    BY <1>2, <2>2, <2>3
<1> QED
  BY <1>3, <1>4

LEMMA ClockStep ==
  ASSUME DbInv, [DbNext]_dbVars
  PROVE  now \in Nat /\ now' \in Nat /\ now' >= now
<1>1. now \in Nat
  BY DEF DbInv, Files
<1>2. CASE Tick
  BY <1>1, <1>2 DEF Tick
<1>3. CASE UNCHANGED now
  BY <1>1, <1>3
<1>4. CASE UNCHANGED dbVars \/ Crash
  BY <1>3, <1>4 DEF dbVars, boundVars, Crash
<1>5. ASSUME NEW t \in Tasks, Accept(t) \/ TaskStep(t) \/ Fail(t)
      PROVE  UNCHANGED now
  BY <1>5 DEF Accept, Fail, TaskStep, OpenStep, RunStep, Reject, LookUpPool, CreateTable,
     ProbeColumn, Migrate, CachePool, Sweep, Stamp, Get, ListKeys, Set, Delete, Query,
     Read, Write, CommitWrite, boundVars
<1> QED
  BY <1>2, <1>3, <1>4, <1>5 DEF DbNext

\* Tasks other than the one that acts stay as they are.
LEMMA OthersStay ==
  ASSUME DbInv, DbInv', RecentInv, [DbNext]_dbVars, NEW u \in Tasks, task'[u] = task[u]
  PROVE  TaskRecent(task[u])'
<1>1. CASE task[u].pc = "idle"
  BY <1>1 DEF TaskRecent
<1>2. CASE task[u].pc # "idle"
  <2> DEFINE x == task[u]
  <2>1. TaskRecent(x) /\ now' >= now
    BY ClockStep DEF RecentInv
  <2>2. \A y : y = x => TaskRecent(y)'
    <3> SUFFICES ASSUME NEW y, y = x PROVE TaskRecent(y)'
      OBVIOUS
    <3> QED
      BY <1>2, <2>1, TaskGoesOn
  <2> QED
    BY <2>2 DEF TaskRecent
<1> QED
  BY <1>1, <1>2

\* A statement that ends its task, or goes on with what it has.
LEMMA RecentGoto ==
  ASSUME DbInv, DbInv', RecentInv, [DbNext]_dbVars, NEW t \in Tasks,
         task[t].pc # "idle", NEW pc,
         \/ Goto(t, pc) /\ (pc \in {"sweep", "stamp", "run"} =>
                              task[t].pc \in {"sweep", "stamp", "run"})
         \/ StampAndGoto(t, pc)
  PROVE  \A u \in Tasks : TaskRecent(task[u])'
<1> DEFINE x == task[t]
<1>1. TaskRecent(x) /\ now' >= now
  BY ClockStep DEF RecentInv
<1>2. /\ task'[t].pc = pc
      /\ task'[t].req = x.req /\ task'[t].from = x.from
      /\ task'[t].first = x.first /\ task'[t].got = x.got
      /\ Goto(t, pc) => task'[t].since = x.since
      /\ StampAndGoto(t, pc) => task'[t].since = now
      /\ \A u \in Tasks \ {t} : task'[u] = task[u]
  BY FieldsAfter
<1>3. \A y : y = task'[t] => TaskRecent(y)'
  <2> SUFFICES ASSUME NEW y, y = task'[t] PROVE TaskRecent(y)'
    OBVIOUS
  <2>1. /\ y.req = x.req /\ y.from = x.from /\ y.first = x.first /\ y.got = x.got
        /\ y.pc \in {"sweep", "stamp", "run"} =>
             \/ y.since = x.since /\ x.pc \in {"sweep", "stamp", "run"}
             \/ y.since = now
    BY <1>2
  <2> QED
    BY <1>1, <2>1, TaskGoesOn
<1>4. TaskRecent(task[t])'
  BY <1>3 DEF TaskRecent
<1>5. \A u \in Tasks \ {t} : TaskRecent(task[u])'
  BY <1>2, OthersStay
<1> QED
  BY <1>4, <1>5

LEMMA RecentAnswer ==
  ASSUME DbInv, DbInv', RecentInv, [DbNext]_dbVars, NEW t \in Tasks,
         NEW status, NEW got, NEW event, Answer(t, status, got, event)
  PROVE  \A u \in Tasks : TaskRecent(task[u])'
<1>1. task'[t].pc = "idle" /\ \A u \in Tasks \ {t} : task'[u] = task[u]
  BY PcAfter
<1>2. TaskRecent(task[t])'
  BY <1>1 DEF TaskRecent
<1> QED
  BY <1>1, <1>2, OthersStay

\* An answer that is no reading of keys, and the reading that is one.
LEMMA RepliesStay ==
  ASSUME DbInv, RecentInv, [DbNext]_dbVars, NEW p \in replies
  PROVE  /\ p.first \in Nat /\ p.first >= 1 /\ p.last \in Nat /\ p.last <= Len(log')
         /\ p.status = "ok" => ReplyRecent(p)'
<1>1. /\ p.first \in Nat /\ p.first >= 1 /\ p.last \in Nat /\ p.last <= Len(log)
      /\ p.status = "ok" => ReplyRecent(p)
  BY DEF RecentInv
<1>2. /\ Len(log) \in Nat /\ Len(log') \in Nat /\ Len(log) <= Len(log')
      /\ \A v \in 1..Len(log) : log'[v] = log[v]
  BY HistoryStays
<1>3. \A v \in p.first..p.last : log'[v] = log[v]
  BY <1>1, <1>2
<1>4. \A v \in p.first..p.last : \A k, s : Shown(v, k, s)' = Shown(v, k, s)
  BY <1>3 DEF Shown, Kv!Alive, Kv!Dead
<1>5. ASSUME p.status = "ok"
      PROVE  ReplyRecent(p)'
  <2>1. ReplyRecent(p)
    BY <1>1, <1>5
  <2>2. ASSUME p.req.op \in {"get", "batch"}
        PROVE  Recent(p.got, p.req, p.first, p.last, p.from, p.upto)'
    <3> SUFFICES ASSUME NEW i \in DOMAIN p.got
                 PROVE  \E v \in p.first..p.last, s \in p.from..p.upto :
                          p.got[i] = Shown(v, KeyAt(p.req, i), s)'
      BY DEF Recent, KeyAt
    <3>1. PICK v \in p.first..p.last, s \in p.from..p.upto :
            p.got[i] = Shown(v, KeyAt(p.req, i), s)
      BY <2>1, <2>2 DEF ReplyRecent, Recent
    <3>2. Shown(v, KeyAt(p.req, i), s)' = Shown(v, KeyAt(p.req, i), s)
      BY <1>4 DEF KeyAt
    <3> QED
      BY <3>1, <3>2
  <2>3. p.req.op = "keys" =>
          \E v \in p.first..p.last :
            \A k \in Keys : p.got[k] = (log'[v].rows[k].type # "none")
    BY <1>3, <2>1 DEF ReplyRecent
  <2> QED
    BY <2>2, <2>3 DEF ReplyRecent
<1> QED
  BY <1>1, <1>2, <1>5

LEMMA NewReply ==
  ASSUME DbInv, RecentInv, [DbNext]_dbVars, NEW t \in Tasks, task[t].pc # "idle",
         NEW status, NEW got, NEW event, Answer(t, status, got, event),
         status = "ok" =>
           /\ task[t].req.op \in {"get", "batch"} =>
                Recent(got, task[t].req, task[t].first, Len(log), task[t].from, now)
           /\ task[t].req.op = "keys" =>
                \A k \in Keys : got[k] = (log[Len(log)].rows[k].type # "none")
  PROVE  \A p \in replies' :
           /\ p.first \in Nat /\ p.first >= 1 /\ p.last \in Nat /\ p.last <= Len(log')
           /\ p.status = "ok" => ReplyRecent(p)'
<1> DEFINE x == task[t]
           q == [req |-> x.req, rid |-> x.rid, from |-> x.from, upto |-> now,
                 first |-> x.first, last |-> Len(log), status |-> status, got |-> got,
                 event |-> event]
<1>1. /\ Len(log) \in Nat /\ Len(log') \in Nat /\ Len(log) <= Len(log')
      /\ \A v \in 1..Len(log) : log'[v] = log[v]
  BY HistoryStays
<1>2. x.first \in 1..Len(log)
  BY DEF RecentInv, TaskRecent
<1>3. replies' = replies \cup {q}
  BY DEF Answer
<1>4. /\ q.req = x.req /\ q.from = x.from /\ q.upto = now /\ q.first = x.first
      /\ q.last = Len(log) /\ q.status = status /\ q.got = got
  OBVIOUS
<1> HIDE DEF q, x
<1>5. q.first \in Nat /\ q.first >= 1 /\ q.last \in Nat /\ q.last <= Len(log')
  BY <1>1, <1>2, <1>4
<1>6. \A v \in q.first..q.last : log'[v] = log[v]
  BY <1>1, <1>2, <1>4
<1>7. \A v \in q.first..q.last : \A k, s : Shown(v, k, s)' = Shown(v, k, s)
  BY <1>6 DEF Shown, Kv!Alive, Kv!Dead
<1>8. ASSUME NEW p, p = q, q.status = "ok"
      PROVE  ReplyRecent(p)'
  <2>1. ASSUME p.req.op \in {"get", "batch"}
        PROVE  Recent(p.got, p.req, p.first, p.last, p.from, p.upto)'
    <3> SUFFICES ASSUME NEW i \in DOMAIN p.got
                 PROVE  \E v \in p.first..p.last, s \in p.from..p.upto :
                          p.got[i] = Shown(v, KeyAt(p.req, i), s)'
      BY DEF Recent, KeyAt
    <3>1. Recent(p.got, p.req, p.first, p.last, p.from, p.upto)
      BY <1>4, <1>8, <2>1 DEF x
    <3>2. PICK v \in p.first..p.last, s \in p.from..p.upto :
            p.got[i] = Shown(v, KeyAt(p.req, i), s)
      BY <3>1 DEF Recent
    <3>3. Shown(v, KeyAt(p.req, i), s)' = Shown(v, KeyAt(p.req, i), s)
      BY <1>7, <1>8 DEF KeyAt
    <3> QED
      BY <3>2, <3>3
  <2>2. ASSUME p.req.op = "keys"
        PROVE  \E v \in p.first..p.last :
                 \A k \in Keys : p.got[k] = (log'[v].rows[k].type # "none")
    <3>1. Len(log) \in p.first..p.last
      BY <1>1, <1>2, <1>4, <1>8
    <3>2. \A k \in Keys : p.got[k] = (log[Len(log)].rows[k].type # "none")
      BY <1>4, <1>8, <2>2 DEF x
    <3> QED
      BY <1>6, <1>8, <3>1, <3>2
  <2> QED
    BY <2>1, <2>2 DEF ReplyRecent
<1> QED
  BY <1>3, <1>5, <1>8, RepliesStay

\* A step whose tasks and replies stay recent keeps the invariant; so does one
\* that moves a task on, or that ends it with no keys to show.
LEMMA Assembled ==
  ASSUME DbInv, RecentInv, [DbNext]_dbVars,
         \A u \in Tasks : TaskRecent(task[u])',
         \/ UNCHANGED replies
         \/ \A p \in replies' :
              /\ p.first \in Nat /\ p.first >= 1 /\ p.last \in Nat /\ p.last <= Len(log')
              /\ p.status = "ok" => ReplyRecent(p)'
  PROVE  RecentInv'
<1>1. log'[Len(log')].rows = rows'
  BY HistoryStays
<1>2. \A p \in replies' :
        /\ p.first \in Nat /\ p.first >= 1 /\ p.last \in Nat /\ p.last <= Len(log')
        /\ p.status = "ok" => ReplyRecent(p)'
  BY RepliesStay
<1> QED
  BY <1>1, <1>2 DEF RecentInv

LEMMA RecentMove ==
  ASSUME DbInv, DbInv', RecentInv, [DbNext]_dbVars, NEW t \in Tasks,
         task[t].pc # "idle", UNCHANGED replies, NEW pc,
         \/ Goto(t, pc) /\ (pc \in {"sweep", "stamp", "run"} =>
                              task[t].pc \in {"sweep", "stamp", "run"})
         \/ StampAndGoto(t, pc)
  PROVE  RecentInv'
  BY RecentGoto, Assembled

LEMMA RecentEnd ==
  ASSUME DbInv, DbInv', RecentInv, [DbNext]_dbVars, NEW t \in Tasks,
         task[t].pc # "idle", NEW status, NEW got, NEW event,
         Answer(t, status, got, event),
         status = "error" \/ task[t].req.op \notin {"get", "batch", "keys"}
  PROVE  RecentInv'
<1>1. \A u \in Tasks : TaskRecent(task[u])'
  BY RecentAnswer
<1>2. \A p \in replies' :
        /\ p.first \in Nat /\ p.first >= 1 /\ p.last \in Nat /\ p.last <= Len(log')
        /\ p.status = "ok" => ReplyRecent(p)'
  BY NewReply
<1> QED
  BY <1>1, <1>2, Assembled

\* A request begins with the versions and the clock it finds.
LEMMA RecentAccept ==
  ASSUME DbInv, DbInv', RecentInv, [DbNext]_dbVars, NEW t \in Tasks, Accept(t)
  PROVE  RecentInv'
<1>1. PICK r \in Requests :
        task' = [task EXCEPT ![t] =
                   [Idle EXCEPT !.pc = "open", !.req = r, !.rid = accepted + 1,
                                !.from = now, !.first = Len(log)]]
  BY DEF Accept
<1>2. task = [u \in Tasks |-> task[u]] /\ now \in Nat /\ Len(log) \in Nat
      /\ Len(log) >= 1
  BY DEF DbInv, TasksOk, Files
<1> DEFINE y == [Idle EXCEPT !.pc = "open", !.req = r, !.rid = accepted + 1,
                             !.from = now, !.first = Len(log)]
<1>3. y.pc = "open" /\ y.req = r /\ y.from = now /\ y.first = Len(log)
      /\ y.got = << >>
  BY DEF Idle
<1>4. task'[t] = y /\ \A u \in Tasks \ {t} : task'[u] = task[u]
  BY <1>1, <1>2
<1> HIDE DEF y
<1>5. now' = now /\ log' = log
  BY DEF Accept, fileVars
<1>6. r.op \in {"get", "batch"} => 0 < KeysRead(r)
  <2>1. CASE r.op = "get"
    BY <2>1 DEF KeysRead
  <2>2. CASE r.op = "batch"
    <3>1. IsFiniteSet(Keys) /\ Keys # {}
      BY <2>2, BatchAssumption
    <3>2. Cardinality(Keys) \in Nat /\ Cardinality(Keys) # 0
      BY <3>1, FS_CardinalityType, FS_EmptySet
    <3>3. KeysRead(r) = Cardinality(Keys)
      BY <2>2 DEF KeysRead
    <3> QED
      BY <3>2, <3>3
  <2> QED
    BY <2>1, <2>2
<1>7. << >> \in Seq(TypedRows) /\ Len(<< >>) = 0 /\ DOMAIN << >> = {}
  OBVIOUS
<1>8. ASSUME NEW z, z = y
      PROVE  TaskRecent(z)'
  <2>1. z.from \in Nat /\ z.from <= now' /\ z.first \in 1..Len(log')
    BY <1>2, <1>3, <1>5, <1>8
  <2>2. z.req = r /\ z.got = << >> /\ z.pc = "open"
    BY <1>3, <1>8
  <2>3. Recent(z.got, z.req, z.first, Len(log), z.from, now)'
    BY <1>7, <2>2 DEF Recent
  <2>4. r.op \in {"get", "batch"} =>
          z.got \in Seq(TypedRows) /\ Len(z.got) < KeysRead(z.req)
    BY <1>6, <1>7, <2>2
  <2> QED
    BY <2>1, <2>2, <2>3, <2>4 DEF TaskRecent, KeysRead
<1>9. TaskRecent(task[t])'
  BY <1>4, <1>8 DEF TaskRecent
<1>10. \A u \in Tasks : TaskRecent(task[u])'
  BY <1>4, <1>9, OthersStay
<1> QED
  BY <1>10, Assembled DEF Accept

\* Opening the file reads no key.
LEMMA RecentOpen ==
  ASSUME DbInv, DbInv', RecentInv, [DbNext]_dbVars, NEW t \in Tasks, OpenStep(t)
  PROVE  RecentInv'
<1>1. CASE LookUpPool(t)
  BY <1>1, RecentMove DEF LookUpPool
<1>2. CASE CreateTable(t)
  BY <1>2, RecentMove DEF CreateTable
<1>3. CASE ProbeColumn(t)
  BY <1>3, RecentMove DEF ProbeColumn
<1>4. CASE Migrate(t)
  <2>1. task[t].pc = "migrate"
    BY <1>4 DEF Migrate
  <2>2. CASE Refuse(t)
    BY <2>1, <2>2, RecentEnd DEF Refuse
  <2>3. CASE Goto(t, "cache") /\ UNCHANGED replies
    BY <2>1, <2>3, RecentMove
  <2> QED
    BY <1>4, <2>2, <2>3 DEF Migrate
<1>5. CASE CachePool(t)
  BY <1>5, RecentMove DEF CachePool
<1> QED
  BY <1>1, <1>2, <1>3, <1>4, <1>5 DEF OpenStep

\* One key more is read, or the last one and the answer leaves.
LEMMA RecentGet ==
  ASSUME DbInv, DbInv', RecentInv, [DbNext]_dbVars, NEW t \in Tasks, Get(t)
  PROVE  RecentInv'
<1> DEFINE x == task[t]
           got == Append(x.got, Select(rows[KeyAt(x.req, Len(x.got) + 1)], x.since))
<1>1. x.pc = "run" /\ x.req.op \in {"get", "batch"}
  BY DEF Get
<1>2. /\ got \in Seq(TypedRows)
      /\ Len(got) <= KeysRead(x.req)
      /\ KeysRead(x.req) \in Nat /\ Len(got) \in Nat
      /\ Recent(got, x.req, x.first, Len(log), x.from, now)
  BY <1>1, GetIsRecent
<1>3. UNCHANGED <<log, now>>
  BY DEF Get, fileVars, boundVars
<1>4. \/ Succeed(t, got)
      \/ Len(got) # KeysRead(x.req) /\ UNCHANGED replies
         /\ task' = [task EXCEPT ![t].got = got, ![t].pc = "stamp"]
  BY DEF Get
<1>5. task = [u \in Tasks |-> task[u]] /\ Shaped(x)
  BY DEF DbInv, TasksOk, TaskOk
<1> HIDE DEF got
<1>6. CASE Succeed(t, got)
  <2>1. \A u \in Tasks : TaskRecent(task[u])'
    BY <1>6, RecentAnswer DEF Succeed
  <2>2. \A p \in replies' :
          /\ p.first \in Nat /\ p.first >= 1 /\ p.last \in Nat /\ p.last <= Len(log')
          /\ p.status = "ok" => ReplyRecent(p)'
    BY <1>1, <1>2, <1>6, NewReply DEF Succeed
  <2> QED
    BY <2>1, <2>2, Assembled
<1>7. CASE /\ Len(got) # KeysRead(x.req) /\ UNCHANGED replies
           /\ task' = [task EXCEPT ![t].got = got, ![t].pc = "stamp"]
  <2> DEFINE z == [x EXCEPT !.got = got]
             y == [z EXCEPT !.pc = "stamp"]
  <2>1. z = [pc |-> x.pc, req |-> x.req, rid |-> x.rid, from |-> x.from,
             first |-> x.first, since |-> x.since, base |-> x.base, got |-> got]
    BY <1>5 DEF Shaped
  <2>2. task' = [task EXCEPT ![t] = y]
    BY <1>7
  <2> HIDE DEF z
  <2>3. y.pc = "stamp" /\ y.req = x.req /\ y.from = x.from /\ y.first = x.first
        /\ y.since = x.since /\ y.got = got
    BY <2>1
  <2> HIDE DEF y
  <2>4. task'[t] = y /\ \A u \in Tasks \ {t} : task'[u] = task[u]
    BY <1>5, <2>2
  <2>5. TaskRecent(x)
    BY DEF RecentInv
  <2>6. Len(got) < KeysRead(x.req)
    BY <1>2, <1>7
  <2>7. ASSUME NEW s, s = y
        PROVE  TaskRecent(s)'
    <3>1. now \in Nat /\ Len(log) \in Nat /\ now' = now /\ log' = log
      BY <1>3 DEF DbInv, Files
    <3>2. /\ s.pc = "stamp" /\ s.req = x.req /\ s.from = x.from /\ s.first = x.first
          /\ s.since = x.since /\ s.got = got
      BY <2>3, <2>7
    <3>3. Recent(s.got, s.req, s.first, Len(log), s.from, now)
      BY <1>2, <3>2
    <3>4. TaskRecent(s)
      BY <1>1, <1>2, <2>5, <2>6, <3>2, <3>3 DEF TaskRecent
    <3> QED
      BY <3>1, <3>4 DEF TaskRecent, Recent, KeysRead, Shown, KeyAt, Kv!Alive, Kv!Dead
  <2>8. \A s : s = y => TaskRecent(s)'
    BY <2>7
  <2>9. TaskRecent(task[t])'
    BY <2>4, <2>8 DEF TaskRecent
  <2>10. \A u \in Tasks : TaskRecent(task[u])'
    BY <2>4, <2>9, OthersStay
  <2> QED
    BY <1>7, <2>10, Assembled
<1> QED
  BY <1>4, <1>6, <1>7

LEMMA RecentKeys ==
  ASSUME DbInv, DbInv', RecentInv, [DbNext]_dbVars, NEW t \in Tasks, ListKeys(t)
  PROVE  RecentInv'
<1> DEFINE got == [k \in Keys |-> rows[k].type # "none"]
<1>1. task[t].pc = "run" /\ task[t].req.op = "keys" /\ Answer(t, "ok", got, FALSE)
  BY DEF ListKeys, Succeed
<1>2. \A k \in Keys : got[k] = (log[Len(log)].rows[k].type # "none")
  BY DEF RecentInv
<1> HIDE DEF got
<1>3. \A u \in Tasks : TaskRecent(task[u])'
  BY <1>1, RecentAnswer
<1>4. \A p \in replies' :
        /\ p.first \in Nat /\ p.first >= 1 /\ p.last \in Nat /\ p.last <= Len(log')
        /\ p.status = "ok" => ReplyRecent(p)'
  BY <1>1, <1>2, NewReply
<1> QED
  BY <1>3, <1>4, Assembled

\* The transaction's own reading is no answer.
LEMMA RecentRead ==
  ASSUME DbInv, DbInv', RecentInv, [DbNext]_dbVars, NEW t \in Tasks, Read(t)
  PROVE  RecentInv'
<1> DEFINE x == task[t]
           old == Select(rows[x.req.key], x.since)
<1>1. x.pc = "run" /\ x.req.op \in ReadModifyWrite
  BY DEF Read
<1>2. CASE Refuse(t)
  BY <1>1, <1>2, RecentEnd DEF Refuse
<1>3. CASE /\ task' = [task EXCEPT ![t].pc = "write", ![t].base = Len(log),
                                   ![t].got = << old >>]
           /\ UNCHANGED replies
  <2>1. task = [u \in Tasks |-> task[u]] /\ Shaped(x)
    BY DEF DbInv, TasksOk, TaskOk
  <2> DEFINE n == Len(log)
             g == << old >>
             a == [x EXCEPT !.pc = "write"]
             b == [a EXCEPT !.base = n]
             y == [b EXCEPT !.got = g]
  <2>2. task' = [task EXCEPT ![t] = y]
    BY <1>3
  <2> HIDE DEF g, n
  <2>3. a = [pc |-> "write", req |-> x.req, rid |-> x.rid, from |-> x.from,
             first |-> x.first, since |-> x.since, base |-> x.base, got |-> x.got]
    BY <2>1 DEF Shaped
  <2> HIDE DEF a
  <2>4. b = [pc |-> "write", req |-> x.req, rid |-> x.rid, from |-> x.from,
             first |-> x.first, since |-> x.since, base |-> n, got |-> x.got]
    BY <2>3
  <2> HIDE DEF b
  <2>5. y.pc = "write" /\ y.req = x.req /\ y.from = x.from /\ y.first = x.first
    BY <2>4
  <2> HIDE DEF y
  <2>6. task'[t] = y /\ \A u \in Tasks \ {t} : task'[u] = task[u]
    BY <2>1, <2>2
  <2>7. TaskRecent(x) /\ UNCHANGED <<log, now>>
    BY DEF RecentInv, Read, fileVars, boundVars
  <2>8. \A s : s = y => TaskRecent(s)'
    BY <1>1, <2>5, <2>7 DEF TaskRecent, ReadModifyWrite
  <2>9. TaskRecent(task[t])'
    BY <2>6, <2>8 DEF TaskRecent
  <2>10. \A u \in Tasks : TaskRecent(task[u])'
    BY <2>6, <2>9, OthersStay
  <2> QED
    BY <1>3, <2>10, Assembled
<1> QED
  BY <1>2, <1>3 DEF Read

LEMMA RecentRun ==
  ASSUME DbInv, DbInv', RecentInv, [DbNext]_dbVars, NEW t \in Tasks, RunStep(t)
  PROVE  RecentInv'
<1>1. CASE Sweep(t)
  BY <1>1, RecentMove DEF Sweep
<1>2. CASE Stamp(t)
  BY <1>2, RecentMove DEF Stamp
<1>3. CASE Set(t)
  BY <1>3, RecentEnd DEF Set
<1>4. CASE Delete(t)
  BY <1>4, RecentEnd DEF Delete, Succeed
<1>5. CASE Query(t)
  BY <1>5, RecentEnd DEF Query, Succeed, Refuse
<1>6. CASE Write(t)
  <2>1. task[t].pc = "write"
    BY <1>6 DEF Write
  <2>2. CASE Refuse(t)
    BY <2>1, <2>2, RecentEnd DEF Refuse
  <2>3. CASE Goto(t, "commit") /\ UNCHANGED replies
    BY <2>1, <2>3, RecentMove
  <2> QED
    BY <1>6, <2>2, <2>3 DEF Write
<1>7. CASE CommitWrite(t)
  <2>1. task[t].req.op \in ReadModifyWrite
    BY <1>7 DEF CommitWrite, DbInv, TasksOk, TaskOk
  <2> QED
    BY <1>7, <2>1, RecentEnd DEF CommitWrite, ReadModifyWrite
<1> QED
  BY <1>1, <1>2, <1>3, <1>4, <1>5, <1>6, <1>7, RecentGet, RecentKeys, RecentRead
  DEF RunStep

LEMMA RecentInvStep ==
  ASSUME DbInv, DbInv', RecentInv, [DbNext]_dbVars
  PROVE  RecentInv'
<1>1. ASSUME NEW t \in Tasks, Fail(t)
      PROVE  RecentInv'
  BY <1>1, RecentEnd DEF Fail, Refuse
<1>2. ASSUME NEW t \in Tasks, Reject(t)
      PROVE  RecentInv'
  BY <1>2, RecentEnd DEF Reject, Refuse
<1>3. CASE Crash
  <2>1. \A u \in Tasks : TaskRecent(task[u])'
    BY <1>3 DEF Crash, Idle, TaskRecent
  <2> QED
    BY <1>3, <2>1, Assembled DEF Crash
<1>4. CASE Tick \/ UNCHANGED dbVars
  <2>1. UNCHANGED <<task, replies>>
    BY <1>4 DEF Tick, dbVars
  <2>2. \A u \in Tasks : TaskRecent(task[u])'
    BY <2>1, OthersStay
  <2> QED
    BY <2>1, <2>2, Assembled
<1> QED
  BY <1>1, <1>2, <1>3, <1>4, RecentAccept, RecentOpen, RecentRun DEF DbNext, TaskStep

LEMMA RecentInvInit ==
  ASSUME DbInit
  PROVE  RecentInv
<1> DEFINE found == [req |-> FoundRequest, at |-> 0, rid |-> 0, rows |-> rows]
<1>1. log = << found >> /\ found.rows = rows
  BY DEF DbInit
<1> HIDE DEF found
<1>2. log[Len(log)].rows = rows
  BY <1>1
<1> QED
  BY <1>2 DEF DbInit, RecentInv, TaskRecent, Idle

\* What db_get and db_batch_get show of a key is what some version of the table
\* that was current while the request ran held for it, not expired when the
\* request came; db_keys lists the keys of one version. For any number of
\* tasks, keys, racing writers and sweeps, failures and crashes.
THEOREM ReadsAreRecentHolds == DbSpec => []ReadsAreRecent
<1>1. RecentInv => ReadsAreRecent
  BY DEF RecentInv, ReplyRecent, Recent, ReadsAreRecent
<1>2. DbSpec => []RecentInv
  BY RecentInvInit, RecentInvStep, DbInvHolds, PTL DEF DbSpec
<1> QED
  BY <1>1, <1>2, PTL
=============================================================================
