---------------------------- MODULE Sync_proofs -----------------------------
(***************************************************************************)
(* Theorems about the `sync` plugin, and about the plugin composed with    *)
(* its client, for every value of the constants. A behaviour of the        *)
(* composition is a behaviour of the plugin (SystemHasHost), so every      *)
(* theorem of the plugin holds of it; what the composition adds is an      *)
(* invariant of the client, its connection and the frames between the two. *)
(***************************************************************************)
EXTENDS SyncSystem, SequenceTheorems, FiniteSetTheorems, WellFoundedInduction, TLAPS

-----------------------------------------------------------------------------
(* Data *)

\* The key the prune deletes next is one of the selected ones: a nonempty set of
\* natural numbers has a least element.
LEMMA FirstKeyIsSelected ==
  ASSUME NEW S, S \subseteq Nat, S # {}
  PROVE  FirstKey(S) \in S
<1>1. PICK k \in S : \A j \in S : <<j, k>> \notin {ss \in Nat \X Nat : ss[1] < ss[2]}
  BY NatLessThanWellFounded, WFMin DEF OpToRel
<1>2. ASSUME NEW j \in S PROVE k <= j
  <2>1. ~ (j < k)
    BY <1>1
  <2> QED
    BY <2>1
<1>3. \E m \in S : \A j \in S : m <= j
  BY <1>2
<1> QED
  BY <1>3, Zenon DEF FirstKey

\* What parse_request guarantees of the fields of each request.
LEMMA RequestFields ==
  ASSUME NEW r \in Requests
  PROVE  /\ r.op \in {"set", "get", "del", "snapshot", "bad"}
         /\ r.op \in {"set", "get", "del"} => r.key \in Keys
         /\ r.op = "set" => r.value \in Values
  BY DEF Requests, Request

LEMMA NoRequestIsRequest == NoRequest \in Requests
  BY HostAssumption DEF NoRequest, Requests

LEMMA EmptyDbType == EmptyRows \in [Keys -> Values \cup {NoValue}] /\ EmptyDb \in DbType
  BY DEF EmptyDb, OpenPool, NewFile, EmptyRows, DbType

LEMMA PutRowType ==
  ASSUME NEW d \in DbType, NEW k \in Keys, NEW v \in Values, NEW at \in Nat
  PROVE  PutRow(d, k, v, at) \in DbType
  BY DEF PutRow, BumpVersion, DbType

LEMMA DeleteRowType ==
  ASSUME NEW d \in DbType, NEW k \in Keys
  PROVE  DeleteRow(d, k) \in DbType
  BY DEF DeleteRow, BumpVersion, DbType

LEMMA MutationIsTyped ==
  ASSUME NEW op \in {"set", "del"}, NEW k \in Keys,
         NEW v \in Values \cup {NoValue}, NEW d \in DbType
  PROVE  Mutation(op, k, v, d) \in MutationType
  BY DEF Mutation, MutationType, DbType

LEMMA DeltasType ==
  ASSUME NEW ms \in Seq(MutationType)
  PROVE  /\ Deltas(ms) \in Seq(EnvelopeType)
         /\ Len(Deltas(ms)) = Len(ms)
         /\ \A i \in 1..Len(ms) : Deltas(ms)[i] = Delta(ms[i])
<1>1. ASSUME NEW m \in MutationType PROVE Delta(m) \in EnvelopeType
  BY DEF Delta, MutationType, EnvelopeType
<1>2. \A i \in 1..Len(ms) : Delta(ms[i]) \in EnvelopeType
  BY <1>1, ElementOfSeq
<1>3. Len(ms) \in Nat
  OBVIOUS
<1> QED
  BY <1>2, <1>3 DEF Deltas

LEMMA ReplyType ==
  ASSUME NEW r \in Requests, NEW status \in {"ok", "error"}, NEW v \in Nat,
         NEW rows \in [Keys -> Values \cup {NoValue}]
  PROVE  /\ Reply(r, status, v, rows) \in EnvelopeType
         /\ <<Reply(r, status, v, rows)>> \in Seq(EnvelopeType)
  BY DEF Reply, EnvelopeType

LEMMA ErrorReplyType ==
  ASSUME NEW r \in Requests
  PROVE  <<ErrorReply(r)>> \in Seq(EnvelopeType)
  BY ReplyType, EmptyDbType DEF ErrorReply

-----------------------------------------------------------------------------
(* Type correctness *)

\* What the handler's return leaves behind has the right type whenever the
\* envelopes it hands over have.
LEMMA AnswerTypes ==
  ASSUME TypeOK, NEW t \in Tasks, NEW es \in Seq(EnvelopeType), Answer(t, es)
  PROVE  /\ writer' \in Tasks \cup {NoTask}
         /\ pc' \in [Tasks -> {"idle", "accepted", "begun", "reading", "commit",
                               "sending"}]
         /\ view' \in [Tasks -> DbType]
         /\ base' \in [Tasks -> Nat]
         /\ stale' \in [Tasks -> SUBSET HeartbeatKeys]
         /\ muts' \in [Tasks -> Seq(MutationType)]
         /\ outbox' \in [Tasks -> Seq(EnvelopeType)]
  BY EmptyDbType DEF Answer, ResetTx, Unlocked, TypeOK

LEMMA EnvelopesType ==
  ASSUME TypeOK, NEW t \in Tasks
  PROVE  Envelopes(t) \in Seq(EnvelopeType)
<1>1. req[t] \in Requests /\ view[t] \in DbType /\ muts[t] \in Seq(MutationType)
  BY DEF TypeOK
<1>2. view[t].version \in Nat /\ view[t].rows \in [Keys -> Values \cup {NoValue}]
  BY <1>1 DEF DbType
<1>3. <<Reply(req[t], "ok", view[t].version,
              IF req[t].op = "snapshot" THEN view[t].rows ELSE EmptyRows)>>
        \in Seq(EnvelopeType)
  BY <1>1, <1>2, EmptyDbType, ReplyType
<1>4. Deltas(muts[t]) \in Seq(EnvelopeType)
  BY <1>1, DeltasType
<1>5. <<ErrorReply(req[t])>> \in Seq(EnvelopeType)
  BY <1>1, ErrorReplyType
<1> QED
  BY <1>3, <1>4, <1>5, ConcatProperties DEF Envelopes

\* Taking the write lock keeps the types of what it changes.
LEMMA TakeLockTypes ==
  ASSUME TypeOK, NEW t \in Tasks, TakeLock(t)
  PROVE  writer' \in Tasks \cup {NoTask} /\ base' \in [Tasks -> Nat]
  BY DEF TakeLock, TypeOK, DbType

\* No step of the plugin, of the process or of the clock leaves the types.
LEMMA TypeStep ==
  ASSUME TypeOK, [HostNext]_hostVars
  PROVE  TypeOK'
<1> USE DEF TypeOK
<1>1. ASSUME NEW t \in Tasks, NEW r \in Requests, Accept(t, r) PROVE TypeOK'
  BY <1>1, SMTT(60) DEF Accept, txVars, ghostVars
<1>2. ASSUME NEW t \in Tasks, Refuse(t) PROVE TypeOK'
  <2>1. <<ErrorReply(req[t])>> \in Seq(EnvelopeType)
    BY ErrorReplyType
  <2> QED
    BY <1>2, <2>1, AnswerTypes DEF Refuse, ghostVars, boundVars
<1>3. ASSUME NEW t \in Tasks, Get(t) PROVE TypeOK'
  <2> DEFINE shown == [EmptyRows EXCEPT ![req[t].key] = db.rows[req[t].key]]
  <2>1. req[t].key \in Keys /\ db.rows \in [Keys -> Values \cup {NoValue}]
    BY <1>3, RequestFields DEF Get, DbType
  <2>2. shown \in [Keys -> Values \cup {NoValue}]
    BY <2>1, EmptyDbType
  <2>3. <<Reply(req[t], "ok", 0, shown)>> \in Seq(EnvelopeType)
    BY <2>2, ReplyType
  <2> QED
    BY <1>3, <2>3, AnswerTypes DEF Get, ghostVars, boundVars
<1>4. ASSUME NEW t \in Tasks, Begin(t) PROVE TypeOK'
  BY <1>4 DEF Begin, txVars, ghostVars, boundVars
<1>5. ASSUME NEW t \in Tasks, SelectStale(t) PROVE TypeOK'
  <2>1. Expired(db) \subseteq HeartbeatKeys /\ db.version \in Nat
    BY DEF Expired, DbType
  <2> QED
    BY <1>5, <2>1 DEF SelectStale, ghostVars, boundVars
<1>6. ASSUME NEW t \in Tasks, PruneRow(t) PROVE TypeOK'
  <2> DEFINE k == FirstKey(stale[t])
             d == DeleteRow(view[t], k)
  <2>1. k \in stale[t] /\ k \in Keys
    BY <1>6, FirstKeyIsSelected, HostAssumption DEF PruneRow
  <2>2. d \in DbType
    BY <2>1, DeleteRowType
  <2>3. Mutation("del", k, NoValue, d) \in MutationType
    BY <2>1, <2>2, MutationIsTyped
  <2>4. Append(muts[t], Mutation("del", k, NoValue, d)) \in Seq(MutationType)
    BY <2>3
  <2>5. /\ view' = [view EXCEPT ![t] = d]
        /\ muts' = [muts EXCEPT ![t] = Append(muts[t], Mutation("del", k, NoValue, d))]
        /\ stale' = [stale EXCEPT ![t] = stale[t] \ {k}]
    BY <1>6 DEF PruneRow
  <2> HIDE DEF k, d
  <2>6. view' \in [Tasks -> DbType] /\ muts' \in [Tasks -> Seq(MutationType)]
        /\ stale' \in [Tasks -> SUBSET HeartbeatKeys]
    BY <2>2, <2>4, <2>5
  <2> QED
    BY <1>6, <2>6, TakeLockTypes DEF PruneRow, ghostVars, boundVars
<1>7. ASSUME NEW t \in Tasks, Upsert(t) PROVE TypeOK'
  <2> DEFINE d == PutRow(Source(t), req[t].key, req[t].value, since[t])
  <2>1. req[t].key \in Keys /\ req[t].value \in Values
    BY <1>7, RequestFields DEF Upsert
  <2>2. Source(t) \in DbType
    BY DEF Source
  <2>3. d \in DbType
    BY <2>1, <2>2, PutRowType
  <2>4. Mutation("set", req[t].key, req[t].value, d) \in MutationType
    BY <2>1, <2>3, MutationIsTyped
  <2>5. /\ view' = [view EXCEPT ![t] = d]
        /\ muts' = [muts EXCEPT ![t] = Append(muts[t],
                      Mutation("set", req[t].key, req[t].value, d))]
    BY <1>7 DEF Upsert
  <2> HIDE DEF d
  <2>6. view' \in [Tasks -> DbType] /\ muts' \in [Tasks -> Seq(MutationType)]
    BY <2>3, <2>4, <2>5
  <2> QED
    BY <1>7, <2>6, TakeLockTypes DEF Upsert, ghostVars, boundVars
<1>8. ASSUME NEW t \in Tasks, Delete(t) PROVE TypeOK'
  <2> DEFINE k == req[t].key
             d == DeleteRow(db, k)
  <2>1. k \in Keys
    BY <1>8, RequestFields DEF Delete
  <2>2. d \in DbType
    BY <2>1, DeleteRowType
  <2>3. Mutation("del", k, NoValue, d) \in MutationType
    BY <2>1, <2>2, MutationIsTyped
  <2>4. Append(muts[t], Mutation("del", k, NoValue, d)) \in Seq(MutationType)
    BY <2>3
  <2>5. view' \in [Tasks -> DbType] /\ muts' \in [Tasks -> Seq(MutationType)]
    <3>1. CASE db.rows[k] # NoValue
      <4>1. /\ view' = [view EXCEPT ![t] = d]
            /\ muts' = [muts EXCEPT ![t] =
                           Append(muts[t], Mutation("del", k, NoValue, d))]
        BY <1>8, <3>1 DEF Delete
      <4> HIDE DEF k, d
      <4> QED
        BY <2>2, <2>4, <4>1
    <3>2. CASE db.rows[k] = NoValue
      BY <1>8, <3>2 DEF Delete
    <3> QED
      BY <3>1, <3>2
  <2> QED
    BY <1>8, <2>5, TakeLockTypes DEF Delete, ghostVars, boundVars
<1>9. ASSUME NEW t \in Tasks, ReadSnapshot(t) PROVE TypeOK'
  <2>1. Source(t) \in DbType /\ db.version \in Nat
    BY DEF Source, DbType
  <2>2. view' \in [Tasks -> DbType] /\ base' \in [Tasks -> Nat]
    BY <1>9, <2>1 DEF ReadSnapshot
  <2>3. pc' \in [Tasks -> {"idle", "accepted", "begun", "reading", "commit",
                           "sending"}]
    BY <1>9 DEF ReadSnapshot
  <2> QED
    BY <1>9, <2>2, <2>3 DEF ReadSnapshot, ghostVars, boundVars
<1>10. ASSUME NEW t \in Tasks, Commit(t) PROVE TypeOK'
  <2>1. db' \in DbType /\ log' \in Seq(MutationType)
    BY <1>10, ConcatProperties DEF Commit
  <2>2. Envelopes(t) \in Seq(EnvelopeType)
    BY EnvelopesType
  <2> QED
    BY <1>10, <2>1, <2>2, AnswerTypes DEF Commit, ghostVars, boundVars
<1>11. ASSUME NEW t \in Tasks, LoseRace(t) PROVE TypeOK'
  <2>1. <<ErrorReply(req[t])>> \in Seq(EnvelopeType)
    BY ErrorReplyType
  <2> QED
    BY <1>11, <2>1, AnswerTypes DEF LoseRace, ghostVars, boundVars
<1>12. ASSUME NEW t \in Tasks, Fail(t) PROVE TypeOK'
  <2>1. <<ErrorReply(req[t])>> \in Seq(EnvelopeType)
    BY ErrorReplyType
  <2> QED
    BY <1>12, <2>1, AnswerTypes DEF Fail, ghostVars, boundVars
<1>13. ASSUME NEW t \in Tasks, Push(t) PROVE TypeOK'
  <2>1. outbox[t] # << >>
    BY <1>13 DEF Push
  <2>2. Head(outbox[t]) \in EnvelopeType /\ Tail(outbox[t]) \in Seq(EnvelopeType)
    BY <2>1, HeadTailProperties
  <2>3. chan' \in Seq(EnvelopeType) /\ outbox' \in [Tasks -> Seq(EnvelopeType)]
    BY <1>13, <2>2 DEF Push
  <2>4. /\ pc' \in [Tasks -> {"idle", "accepted", "begun", "reading", "commit",
                              "sending"}]
        /\ req' \in [Tasks -> Requests] /\ since' \in [Tasks -> Nat]
    <3>1. CASE Len(outbox[t]) = 1
      <4>1. /\ pc' = [pc EXCEPT ![t] = "idle"]
            /\ req' = [req EXCEPT ![t] = NoRequest]
            /\ since' = [since EXCEPT ![t] = 0]
        BY <1>13, <3>1 DEF Push
      <4> QED
        BY <4>1, NoRequestIsRequest
    <3>2. CASE Len(outbox[t]) # 1
      BY <1>13, <3>2 DEF Push
    <3> QED
      BY <3>1, <3>2
  <2> QED
    BY <1>13, <2>3, <2>4 DEF Push, txVars, ghostVars, boundVars
<1>14. CASE LoopSend
  <2>1. Head(chan) \in EnvelopeType /\ Tail(chan) \in Seq(EnvelopeType)
    BY <1>14, HeadTailProperties DEF LoopSend
  <2>2. Head(chan).version \in Nat
    BY <2>1 DEF EnvelopeType
  <2>3. published' \in Seq(Nat)
    BY <1>14, <2>2 DEF LoopSend
  <2> QED
    BY <1>14, <2>1, <2>3 DEF LoopSend, txVars, boundVars
<1>15. CASE Crash
  <2>1. ASSUME NEW s \in Seq(EnvelopeType) PROVE DeltaVersions(s) \subseteq Nat
    BY ElementOfSeq DEF DeltaVersions, EnvelopeType
  <2>2. lost' \subseteq Nat
    BY <1>15, <2>1 DEF Crash
  <2>3. db' \in DbType
    BY <1>15 DEF Crash, OpenPool, DbType
  <2> QED
    BY <1>15, <2>2, <2>3, EmptyDbType, NoRequestIsRequest DEF Crash
<1>16. CASE Tick
  BY <1>16 DEF Tick, txVars, ghostVars
<1>17. CASE UNCHANGED hostVars
  BY <1>17 DEF hostVars, txVars, ghostVars, boundVars
<1> QED
  BY <1>1, <1>2, <1>3, <1>4, <1>5, <1>6, <1>7, <1>8, <1>9, <1>10, <1>11, <1>12,
     <1>13, <1>14, <1>15, <1>16, <1>17 DEF HostNext, TaskStep

LEMMA TypeInit == HostInit => TypeOK
  BY EmptyDbType, NoRequestIsRequest, HostAssumption DEF HostInit, TypeOK

\* Every variable of the plugin keeps its shape in every behaviour.
THEOREM TypeCorrect == HostSpec => []TypeOK
  BY TypeInit, TypeStep, PTL DEF HostSpec

-----------------------------------------------------------------------------
(* The store and the open transactions *)

\* Appending to the history leaves every earlier content as it was.
LEMMA HistoryGrows ==
  ASSUME NEW h \in Seq(MutationType), NEW ms \in Seq(MutationType),
         NEW v \in Nat, v <= Len(h)
  PROVE  ContentAt(h \o ms, v) = ContentAt(h, v)
  BY ConcatProperties DEF ContentAt

\* A transaction that has not written is described by its snapshot alone.
LEMMA ReaderHasNoMutations ==
  ASSUME TypeOK, NEW t \in Tasks, TxInv(t), writer # t
  PROVE  muts[t] = << >>
  BY DEF TxInv

\* A step that leaves the database and the transaction of u alone keeps what is
\* known of u, whoever gets or drops the write lock.
LEMMA TxFrame ==
  ASSUME TypeOK, NEW u \in Tasks, TxInv(u),
         pc'[u] = pc[u] \/ {pc[u], pc'[u]} \cap {"reading", "commit"} = {},
         view'[u] = view[u], base'[u] = base[u], stale'[u] = stale[u],
         muts'[u] = muts[u], writer' = u <=> writer = u, UNCHANGED <<db, log>>
  PROVE  TxInv(u)'
<1>1. \A i : ContentBefore(u, i)' = ContentBefore(u, i)
  BY DEF ContentBefore
<1>2. \A i : Store!Mutates(muts[u][i], ContentBefore(u, i))'
              <=> Store!Mutates(muts[u][i], ContentBefore(u, i))
  BY <1>1 DEF Store!Mutates
<1>3. HasSnapshot(u)' <=> HasSnapshot(u)
  BY DEF HasSnapshot
<1>4. pc'[u] = "reading" <=> pc[u] = "reading"
  OBVIOUS
<1>5. writer' = u => HasSnapshot(u)' /\ base'[u] = db'.version
  BY <1>3 DEF TxInv
<1>6. muts'[u] # << >> => writer' = u
  BY DEF TxInv
<1>7. pc'[u] = "reading" => \A k \in stale'[u] : view'[u].rows[k] # NoValue
  BY <1>4 DEF TxInv
<1>8. ASSUME HasSnapshot(u)'
      PROVE  /\ base'[u] <= Len(log')
             /\ view'[u].version = base'[u] + Len(muts'[u])
             /\ view'[u].rows = ContentBefore(u, Len(muts[u]) + 1)'
  BY <1>1, <1>3, <1>8 DEF TxInv
<1>9. ASSUME HasSnapshot(u)', NEW i \in 1..Len(muts'[u])
      PROVE  /\ muts'[u][i].version = base'[u] + i
             /\ Store!Mutates(muts[u][i], ContentBefore(u, i))'
             /\ i < Len(muts'[u]) \/ pc'[u] = "reading" =>
                  muts'[u][i].op = "del" /\ muts'[u][i].key \in HeartbeatKeys
  BY <1>2, <1>3, <1>4, <1>9 DEF TxInv
<1> QED
  BY <1>5, <1>6, <1>7, <1>8, <1>9 DEF TxInv

\* A commit of somebody else leaves a transaction without the write lock at the
\* version it has read.
LEMMA TxOvertaken ==
  ASSUME TypeOK, TypeOK', NEW ms \in Seq(MutationType), log' = log \o ms,
         NEW u \in Tasks, TxInv(u), writer # u, writer' # u,
         pc'[u] = pc[u], view'[u] = view[u], base'[u] = base[u],
         stale'[u] = stale[u], muts'[u] = muts[u]
  PROVE  TxInv(u)'
<1>1. muts[u] = << >>
  BY ReaderHasNoMutations
<1>2. HasSnapshot(u)' <=> HasSnapshot(u)
  BY DEF HasSnapshot
<1>3. ASSUME HasSnapshot(u)
      PROVE  /\ base'[u] <= Len(log')
             /\ view'[u].version = base'[u] + Len(muts'[u])
             /\ view'[u].rows = ContentBefore(u, Len(muts[u]) + 1)'
  <2>1. /\ base[u] \in Nat /\ base[u] <= Len(log) /\ log \in Seq(MutationType)
        /\ view[u].version = base[u] + Len(muts[u])
        /\ view[u].rows = ContentAt(log, base[u])
    BY <1>1, <1>3 DEF TxInv, TypeOK, ContentBefore
  <2>2. Len(log') = Len(log) + Len(ms) /\ Len(ms) \in Nat /\ Len(log) \in Nat
    BY <2>1, ConcatProperties
  <2>3. ContentAt(log', base[u]) = ContentAt(log, base[u])
    BY <2>1, HistoryGrows
  <2> QED
    BY <1>1, <2>1, <2>2, <2>3 DEF ContentBefore
<1>4. pc'[u] = "reading" => \A k \in stale'[u] : view'[u].rows[k] # NoValue
  BY DEF TxInv
<1> QED
  BY <1>1, <1>2, <1>3, <1>4 DEF TxInv

\* The handler's return ends its transaction.
LEMMA TxEnds ==
  ASSUME TypeOK, NEW t \in Tasks, NEW es, Answer(t, es)
  PROVE  /\ TxInv(t)'
         /\ \A u \in Tasks \ {t} :
              /\ pc'[u] = pc[u] /\ view'[u] = view[u] /\ base'[u] = base[u]
              /\ stale'[u] = stale[u] /\ muts'[u] = muts[u]
              /\ writer' = u <=> writer = u
<1>1. pc'[t] = "sending" /\ muts'[t] = << >> /\ writer' # t
  BY HostAssumption DEF Answer, ResetTx, Unlocked, TypeOK
<1>2. TxInv(t)'
  BY <1>1 DEF TxInv, HasSnapshot
<1>3. ASSUME NEW u \in Tasks \ {t} PROVE writer' = u <=> writer = u
  BY HostAssumption DEF Answer, Unlocked
<1>4. ASSUME NEW u \in Tasks \ {t}
      PROVE  /\ pc'[u] = pc[u] /\ view'[u] = view[u] /\ base'[u] = base[u]
             /\ stale'[u] = stale[u] /\ muts'[u] = muts[u]
  BY DEF Answer, ResetTx, TypeOK
<1> QED
  BY <1>2, <1>3, <1>4

\* The first statement of a transaction takes the current version.
LEMMA TxStarts ==
  ASSUME TypeOK, StoreMatchesHistory, NEW t \in Tasks, TxInv(t),
         pc[t] = "begun", HasSnapshot(t)', view'[t] = db, base'[t] = db.version,
         muts'[t] = muts[t], UNCHANGED <<db, log>>,
         pc'[t] = "reading" => stale'[t] = Expired(db)
  PROVE  TxInv(t)'
<1>1. writer # t /\ muts[t] = << >>
  BY DEF TxInv, HasSnapshot
<1>2. /\ base'[t] <= Len(log') /\ Len(log) \in Nat
      /\ view'[t].version = base'[t] + Len(muts'[t])
  BY <1>1 DEF StoreMatchesHistory, TypeOK
<1>3. view'[t].rows = ContentBefore(t, Len(muts[t]) + 1)'
  BY <1>1, <1>2 DEF StoreMatchesHistory, ContentBefore
<1>4. pc'[t] = "reading" => \A k \in stale'[t] : view'[t].rows[k] # NoValue
  BY DEF Expired
<1> QED
  BY <1>1, <1>2, <1>3, <1>4 DEF TxInv

\* A write statement: with the lock the transaction is at the current version, and
\* its mutation lands on top of the ones it has made before.
LEMMA TxWrites ==
  ASSUME TypeOK, StoreMatchesHistory, NEW t \in Tasks, TxInv(t),
         pc[t] \in {"begun", "reading"}, TakeLock(t), UNCHANGED <<db, log>>,
         NEW m \in MutationType, muts'[t] = Append(muts[t], m),
         NEW d \in DbType, view'[t] = d, m.rows = d.rows, m.version = d.version,
         d.version = Source(t).version + 1, Store!Mutates(m, Source(t).rows),
         \/ pc'[t] = "commit"
         \/ /\ pc'[t] = "reading"
            /\ m.op = "del" /\ m.key \in HeartbeatKeys
            /\ \A j \in stale'[t] : d.rows[j] # NoValue
  PROVE  TxInv(t)'
<1> DEFINE n == Len(muts[t])
           C(i) == IF i = 1 THEN ContentAt(log, db.version) ELSE muts[t][i - 1].rows
<1>1. /\ muts[t] \in Seq(MutationType) /\ n \in Nat /\ db.version \in Nat
      /\ base[t] \in Nat /\ log \in Seq(MutationType) /\ Len(log) = db.version
  BY DEF TypeOK, DbType, StoreMatchesHistory
<1>2. writer' = t /\ base'[t] = db.version
  BY DEF TakeLock, MayWrite, TxInv, HasSnapshot, TypeOK
<1>3. /\ Source(t).version = db.version + n
      /\ Source(t).rows = C(n + 1)
      /\ \A i \in 1..n : /\ muts[t][i].version = db.version + i
                        /\ Store!Mutates(muts[t][i], C(i))
                        /\ muts[t][i].op = "del" /\ muts[t][i].key \in HeartbeatKeys
  <2>1. CASE pc[t] = "begun"
    <3>1. muts[t] = << >> /\ n = 0 /\ Source(t) = db
      BY <2>1 DEF TxInv, HasSnapshot, Source
    <3> QED
      BY <1>1, <3>1 DEF StoreMatchesHistory
  <2>2. CASE pc[t] = "reading"
    <3>1. HasSnapshot(t) /\ Source(t) = view[t] /\ base[t] = db.version
      BY <2>2, <1>2 DEF HasSnapshot, Source, TakeLock, TypeOK
    <3>2. \A i : ContentBefore(t, i) = C(i)
      BY <3>1 DEF ContentBefore
    <3> QED
      BY <2>2, <3>1, <3>2 DEF TxInv
  <2> QED
    BY <2>1, <2>2
<1>4. /\ Len(muts'[t]) = n + 1 /\ muts'[t] # << >>
      /\ \A i \in 1..n : muts'[t][i] = muts[t][i]
      /\ muts'[t][n + 1] = m
  BY <1>1, AppendProperties
<1>5. \A i \in 1..(n + 1) : ContentBefore(t, i)' = C(i)
  BY <1>1, <1>2, <1>4 DEF ContentBefore
<1>6. ContentBefore(t, Len(muts[t]) + 1)' = m.rows
  BY <1>1, <1>4 DEF ContentBefore
<1>7. ASSUME NEW i \in 1..(n + 1)
      PROVE  /\ muts'[t][i].version = base'[t] + i
             /\ Store!Mutates(muts[t][i], ContentBefore(t, i))'
             /\ i < n + 1 \/ pc'[t] = "reading" =>
                  muts'[t][i].op = "del" /\ muts'[t][i].key \in HeartbeatKeys
  <2>1. CASE i = n + 1
    <3>1. ContentBefore(t, i)' = Source(t).rows /\ muts'[t][i] = m
      BY <2>1, <1>1, <1>3, <1>4, <1>5
    <3>2. Store!Mutates(muts[t][i], ContentBefore(t, i))'
      BY <3>1 DEF Store!Mutates
    <3> QED
      BY <2>1, <3>1, <3>2, <1>1, <1>2, <1>3
  <2>2. CASE i \in 1..n
    <3>1. ContentBefore(t, i)' = C(i) /\ muts'[t][i] = muts[t][i]
      BY <2>2, <1>4, <1>5
    <3>2. Store!Mutates(muts[t][i], C(i))
      BY <2>2, <1>3
    <3>3. Store!Mutates(muts[t][i], ContentBefore(t, i))'
      BY <3>1, <3>2 DEF Store!Mutates
    <3> QED
      BY <2>2, <3>1, <3>3, <1>2, <1>3
  <2> QED
    BY <1>1, <2>1, <2>2
<1>8. /\ base'[t] <= Len(log')
      /\ view'[t].version = base'[t] + Len(muts'[t])
      /\ view'[t].rows = ContentBefore(t, Len(muts[t]) + 1)'
  BY <1>1, <1>2, <1>3, <1>4, <1>6, SMTT(30)
<1>9. HasSnapshot(t)'
  BY DEF HasSnapshot
<1> HIDE DEF n, C
<1> QED
  BY <1>2, <1>4, <1>7, <1>8, <1>9 DEF TxInv

\* Taking the lock takes it from nobody.
LEMMA LockIsFree ==
  ASSUME TypeOK, NEW t \in Tasks, TakeLock(t), NEW u \in Tasks, u # t
  PROVE  /\ writer' = u <=> writer = u
         /\ base'[u] = base[u]
  BY HostAssumption DEF TakeLock, MayWrite, TypeOK

\* The store stays what its history says and every open transaction stays
\* explained by a snapshot and its own mutations, whatever step comes next.
LEMMA StoreStep ==
  ASSUME TypeOK, TypeOK', StoreMatchesHistory, \A t \in Tasks : TxInv(t),
         [HostNext]_hostVars
  PROVE  StoreMatchesHistory' /\ \A t \in Tasks : TxInv(t)'
<1>0. ASSUME UNCHANGED <<db, log>> PROVE StoreMatchesHistory'
  BY <1>0 DEF StoreMatchesHistory, ContentAt
<1>1. ASSUME NEW t \in Tasks, NEW r \in Requests, Accept(t, r)
      PROVE  StoreMatchesHistory' /\ \A u \in Tasks : TxInv(u)'
  <2>1. ASSUME NEW u \in Tasks PROVE TxInv(u)'
    BY <1>1, TxFrame, SMTT(30) DEF Accept, txVars, TypeOK
  <2> QED
    BY <1>0, <1>1, <2>1 DEF Accept
<1>2. ASSUME NEW t \in Tasks, NEW es, Answer(t, es), UNCHANGED <<db, log>>
      PROVE  StoreMatchesHistory' /\ \A u \in Tasks : TxInv(u)'
  <2>1. ASSUME NEW u \in Tasks, u # t PROVE TxInv(u)'
    BY <1>2, <2>1, TxEnds, TxFrame
  <2> QED
    BY <1>0, <1>2, <2>1, TxEnds
<1>3. ASSUME NEW t \in Tasks, Begin(t)
      PROVE  StoreMatchesHistory' /\ \A u \in Tasks : TxInv(u)'
  <2>1. ASSUME NEW u \in Tasks PROVE TxInv(u)'
    BY <1>3, TxFrame DEF Begin, txVars, TypeOK
  <2> QED
    BY <1>0, <1>3, <2>1 DEF Begin
<1>4. ASSUME NEW t \in Tasks, SelectStale(t)
      PROVE  StoreMatchesHistory' /\ \A u \in Tasks : TxInv(u)'
  <2>1. /\ pc[t] = "begun" /\ pc'[t] = "reading" /\ view'[t] = db
        /\ base'[t] = db.version /\ stale'[t] = Expired(db)
        /\ UNCHANGED <<db, log, writer, muts>>
    BY <1>4 DEF SelectStale, TypeOK
  <2>2. TxInv(t)'
    BY <2>1, TxStarts DEF HasSnapshot
  <2>3. ASSUME NEW u \in Tasks, u # t PROVE TxInv(u)'
    <3>1. pc'[u] = pc[u] /\ view'[u] = view[u] /\ base'[u] = base[u]
          /\ stale'[u] = stale[u]
      BY <1>4, <2>3 DEF SelectStale, TypeOK
    <3> QED
      BY <2>1, <3>1, TxFrame
  <2> QED
    BY <1>0, <2>1, <2>2, <2>3
<1>5. ASSUME NEW t \in Tasks, PruneRow(t)
      PROVE  StoreMatchesHistory' /\ \A u \in Tasks : TxInv(u)'
  <2> DEFINE k == FirstKey(stale[t])
             d == DeleteRow(view[t], k)
             m == Mutation("del", k, NoValue, d)
  <2>1. /\ k \in stale[t] /\ k \in HeartbeatKeys /\ k \in Keys
        /\ stale[t] \subseteq Keys
    BY <1>5, FirstKeyIsSelected, HostAssumption DEF PruneRow, TypeOK
  <2>2. view[t] \in DbType /\ d \in DbType /\ m \in MutationType
    BY <2>1, DeleteRowType, MutationIsTyped DEF TypeOK
  <2>3. /\ m.rows = d.rows /\ m.version = d.version /\ m.op = "del" /\ m.key = k
        /\ m.value = NoValue /\ d.version = view[t].version + 1
        /\ d.rows = [view[t].rows EXCEPT ![k] = NoValue]
    BY DEF Mutation, DeleteRow, BumpVersion
  <2>4. /\ pc[t] = "reading" /\ TakeLock(t) /\ pc' = pc /\ UNCHANGED <<db, log>>
        /\ view' = [view EXCEPT ![t] = d] /\ muts' = [muts EXCEPT ![t] = Append(@, m)]
        /\ stale' = [stale EXCEPT ![t] = stale[t] \ {k}]
    BY <1>5 DEF PruneRow
  <2>5. Source(t) = view[t]
    BY <2>4 DEF Source
  <2>6. \A j \in stale[t] : view[t].rows[j] # NoValue
    BY <2>4 DEF TxInv
  <2>7. Store!Mutates(m, Source(t).rows)
    BY <2>1, <2>3, <2>5, <2>6 DEF Store!Mutates
  <2> HIDE DEF k, d, m
  <2>8. /\ view'[t] = d /\ muts'[t] = Append(muts[t], m)
        /\ stale'[t] = stale[t] \ {k} /\ pc'[t] = "reading"
    BY <2>4 DEF TypeOK
  <2>9. \A j \in stale'[t] : d.rows[j] # NoValue
    BY <2>1, <2>2, <2>3, <2>6, <2>8 DEF DbType
  <2>10. TxInv(t)'
    BY <2>1, <2>2, <2>3, <2>4, <2>5, <2>7, <2>8, <2>9, TxWrites, ZenonT(30)
  <2>11. ASSUME NEW u \in Tasks, u # t PROVE TxInv(u)'
    <3>1. view'[u] = view[u] /\ muts'[u] = muts[u] /\ stale'[u] = stale[u]
      BY <2>4, <2>11 DEF TypeOK
    <3> QED
      BY <2>4, <2>11, <3>1, LockIsFree, TxFrame
  <2> QED
    BY <1>0, <2>4, <2>10, <2>11
<1>6. ASSUME NEW t \in Tasks, Upsert(t)
      PROVE  StoreMatchesHistory' /\ \A u \in Tasks : TxInv(u)'
  <2> DEFINE k == req[t].key
             d == PutRow(Source(t), k, req[t].value, since[t])
             m == Mutation("set", k, req[t].value, d)
  <2>1. k \in Keys /\ req[t].value \in Values /\ since[t] \in Nat /\ Source(t) \in DbType
    BY <1>6, RequestFields DEF Upsert, TypeOK, Source
  <2>2. d \in DbType /\ m \in MutationType
    BY <2>1, PutRowType, MutationIsTyped
  <2>3. /\ m.rows = d.rows /\ m.version = d.version /\ m.op = "set" /\ m.key = k
        /\ m.value = req[t].value /\ d.version = Source(t).version + 1
        /\ d.rows = [Source(t).rows EXCEPT ![k] = req[t].value]
    BY DEF Mutation, PutRow, BumpVersion
  <2>4. /\ pc[t] \in {"begun", "reading"} /\ TakeLock(t) /\ UNCHANGED <<db, log, stale>>
        /\ pc' = [pc EXCEPT ![t] = "commit"]
        /\ view' = [view EXCEPT ![t] = d] /\ muts' = [muts EXCEPT ![t] = Append(@, m)]
    BY <1>6 DEF Upsert, PruneDone
  <2>5. Store!Mutates(m, Source(t).rows)
    BY <2>1, <2>3 DEF Store!Mutates
  <2> HIDE DEF k, d, m
  <2>6. /\ view'[t] = d /\ muts'[t] = Append(muts[t], m) /\ pc'[t] = "commit"
    BY <2>4 DEF TypeOK
  <2>7. TxInv(t)'
    BY <2>2, <2>3, <2>4, <2>5, <2>6, TxWrites
  <2>8. ASSUME NEW u \in Tasks, u # t PROVE TxInv(u)'
    <3>1. view'[u] = view[u] /\ muts'[u] = muts[u] /\ pc'[u] = pc[u]
      BY <2>4, <2>8 DEF TypeOK
    <3> QED
      BY <2>4, <2>8, <3>1, LockIsFree, TxFrame
  <2> QED
    BY <1>0, <2>4, <2>7, <2>8
<1>7. ASSUME NEW t \in Tasks, Delete(t)
      PROVE  StoreMatchesHistory' /\ \A u \in Tasks : TxInv(u)'
  <2> DEFINE k == req[t].key
             d == DeleteRow(db, k)
             m == Mutation("del", k, NoValue, d)
  <2>1. k \in Keys /\ Source(t) = db /\ db \in DbType
    BY <1>7, RequestFields DEF Delete, TypeOK, Source
  <2>2. d \in DbType /\ m \in MutationType
    BY <2>1, DeleteRowType, MutationIsTyped
  <2>3. /\ m.rows = d.rows /\ m.version = d.version /\ m.op = "del" /\ m.key = k
        /\ m.value = NoValue /\ d.version = db.version + 1
        /\ d.rows = [db.rows EXCEPT ![k] = NoValue]
    BY DEF Mutation, DeleteRow, BumpVersion
  <2>4. /\ pc[t] = "begun" /\ TakeLock(t) /\ UNCHANGED <<db, log, stale>>
        /\ pc' = [pc EXCEPT ![t] = "commit"]
    BY <1>7 DEF Delete
  <2>5. pc'[t] = "commit"
    BY <2>4 DEF TypeOK
  <2>6. \/ /\ db.rows[k] # NoValue
           /\ view' = [view EXCEPT ![t] = d] /\ muts' = [muts EXCEPT ![t] = Append(@, m)]
        \/ view' = [view EXCEPT ![t] = db] /\ muts' = muts
    BY <1>7 DEF Delete
  <2>7. db.rows[k] # NoValue => Store!Mutates(m, Source(t).rows)
    BY <2>1, <2>3 DEF Store!Mutates
  <2> HIDE DEF k, d, m
  <2>8. TxInv(t)'
    <3>1. CASE /\ db.rows[k] # NoValue
               /\ view' = [view EXCEPT ![t] = d] /\ muts' = [muts EXCEPT ![t] = Append(@, m)]
      <4>1. view'[t] = d /\ muts'[t] = Append(muts[t], m)
        BY <3>1 DEF TypeOK
      <4> QED
        BY <2>1, <2>2, <2>3, <2>4, <2>5, <2>7, <3>1, <4>1, TxWrites
    <3>2. CASE view' = [view EXCEPT ![t] = db] /\ muts' = muts
      <4>1. view'[t] = db /\ muts'[t] = muts[t] /\ base'[t] = db.version
        BY <2>4, <3>2 DEF TypeOK, TakeLock
      <4> QED
        BY <2>4, <2>5, <4>1, TxStarts DEF HasSnapshot
    <3> QED
      BY <2>6, <3>1, <3>2
  <2>9. ASSUME NEW u \in Tasks, u # t PROVE TxInv(u)'
    <3>1. view'[u] = view[u] /\ muts'[u] = muts[u] /\ pc'[u] = pc[u]
      BY <2>4, <2>6, <2>9 DEF TypeOK
    <3> QED
      BY <2>4, <2>9, <3>1, LockIsFree, TxFrame
  <2> QED
    BY <1>0, <2>4, <2>8, <2>9
<1>8. ASSUME NEW t \in Tasks, ReadSnapshot(t)
      PROVE  StoreMatchesHistory' /\ \A u \in Tasks : TxInv(u)'
  <2>1. /\ pc[t] \in {"begun", "reading"} /\ pc'[t] = "commit"
        /\ UNCHANGED <<db, log, writer, stale, muts>>
        /\ view'[t] = Source(t)
        /\ base'[t] = IF pc[t] = "begun" THEN db.version ELSE base[t]
    BY <1>8 DEF ReadSnapshot, PruneDone, TypeOK
  <2>2. TxInv(t)'
    <3>1. CASE pc[t] = "begun"
      BY <2>1, <3>1, TxStarts DEF HasSnapshot, Source
    <3>2. CASE pc[t] = "reading"
      <4>1. view'[t] = view[t] /\ base'[t] = base[t] /\ HasSnapshot(t) /\ HasSnapshot(t)'
        BY <2>1, <3>2 DEF Source, HasSnapshot
      <4>2. \A i : ContentBefore(t, i)' = ContentBefore(t, i)
        BY <2>1, <4>1 DEF ContentBefore
      <4>3. \A i : Store!Mutates(muts[t][i], ContentBefore(t, i))'
                    <=> Store!Mutates(muts[t][i], ContentBefore(t, i))
        BY <2>1, <4>2 DEF Store!Mutates
      <4>4. TxInv(t)
        OBVIOUS
      <4> QED
        BY <2>1, <3>2, <4>1, <4>2, <4>3, <4>4 DEF TxInv
    <3> QED
      BY <2>1, <3>1, <3>2
  <2>3. ASSUME NEW u \in Tasks, u # t PROVE TxInv(u)'
    <3>1. pc'[u] = pc[u] /\ view'[u] = view[u] /\ base'[u] = base[u]
      BY <1>8, <2>3 DEF ReadSnapshot, TypeOK
    <3> QED
      BY <2>1, <3>1, TxFrame
  <2> QED
    BY <1>0, <2>1, <2>2, <2>3
<1>9. ASSUME NEW t \in Tasks, Commit(t)
      PROVE  StoreMatchesHistory' /\ \A u \in Tasks : TxInv(u)'
  <2>1. /\ Answer(t, Envelopes(t)) /\ log' = log \o muts[t] /\ HasSnapshot(t)
        /\ db' = IF writer = t THEN view[t] ELSE db
    BY <1>9 DEF Commit, HasSnapshot
  <2>2. /\ log \in Seq(MutationType) /\ muts[t] \in Seq(MutationType)
        /\ db.version = Len(log) /\ Len(log) \in Nat /\ Len(muts[t]) \in Nat
    BY SMTT(30) DEF TypeOK, StoreMatchesHistory
  <2>3. /\ Len(log') = Len(log) + Len(muts[t])
        /\ \A i \in 1..Len(log) : log'[i] = log[i]
        /\ \A i \in (Len(log) + 1)..Len(log') : log'[i] = muts[t][i - Len(log)]
    BY <2>1, <2>2, ConcatProperties
  <2>4. CASE writer # t
    <3>1. muts[t] = << >>
      BY <2>4, ReaderHasNoMutations
    <3>2. UNCHANGED <<db, log>>
      BY <2>1, <2>2, <2>4, <3>1, ConcatEmptySeq
    <3> QED
      BY <1>2, <2>1, <3>2
  <2>5. CASE writer = t
    <3>1. base[t] = Len(log) /\ db' = view[t]
      BY <2>1, <2>2, <2>5 DEF TxInv
    <3>2. db'.version = Len(log')
      BY <2>1, <2>3, <3>1 DEF TxInv
    <3>3. db'.rows = ContentAt(log', Len(log'))
      <4>1. view[t].rows = ContentBefore(t, Len(muts[t]) + 1)
        BY <2>1 DEF TxInv
      <4>2. CASE Len(muts[t]) = 0
        <5>1. Len(log') = Len(log) /\ ContentAt(log', Len(log)) = ContentAt(log, Len(log))
          BY <2>1, <2>2, <2>3, <4>2, HistoryGrows
        <5> QED
          BY <3>1, <4>1, <4>2, <5>1 DEF ContentBefore
      <4>3. CASE Len(muts[t]) > 0
        <5>1. log'[Len(log')] = muts[t][Len(muts[t])] /\ Len(log') # 0
          BY <2>2, <2>3, <4>3
        <5> QED
          BY <2>2, <3>1, <4>1, <4>3, <5>1 DEF ContentBefore, ContentAt
      <4> QED
        BY <2>2, <4>2, <4>3
    <3>4. ASSUME NEW v \in 1..Len(log') PROVE log'[v].version = v
      <4>1. CASE v <= Len(log)
        BY <2>2, <2>3, <4>1 DEF StoreMatchesHistory
      <4>2. CASE v > Len(log)
        <5>1. v - Len(log) \in 1..Len(muts[t]) /\ log'[v] = muts[t][v - Len(log)]
          BY <2>2, <2>3, <4>2
        <5>2. muts[t][v - Len(log)].version = base[t] + (v - Len(log))
          BY <2>1, <5>1 DEF TxInv
        <5> QED
          BY <2>2, <3>1, <5>1, <5>2
      <4> QED
        BY <2>2, <4>1, <4>2
    <3>5. StoreMatchesHistory'
      BY <3>2, <3>3, <3>4 DEF StoreMatchesHistory
    <3>6. ASSUME NEW u \in Tasks, u # t PROVE TxInv(u)'
      BY <2>1, <2>2, <2>5, <3>6, TxEnds, TxOvertaken
    <3> QED
      BY <2>1, <3>5, <3>6, TxEnds
  <2> QED
    BY <2>4, <2>5
<1>10. ASSUME NEW t \in Tasks, Refuse(t) \/ Get(t) \/ LoseRace(t) \/ Fail(t)
      PROVE  StoreMatchesHistory' /\ \A u \in Tasks : TxInv(u)'
  BY <1>2, <1>10 DEF Refuse, Get, LoseRace, Fail
<1>11. ASSUME NEW t \in Tasks, Push(t)
      PROVE  StoreMatchesHistory' /\ \A u \in Tasks : TxInv(u)'
  <2>1. UNCHANGED <<db, log, writer, view, base, stale, muts>>
    BY <1>11 DEF Push, txVars
  <2>2. ASSUME NEW u \in Tasks PROVE TxInv(u)'
    <3>1. pc'[u] = pc[u] \/ (pc[u] = "sending" /\ pc'[u] = "idle")
      <4>1. pc' = pc \/ pc' = [pc EXCEPT ![t] = "idle"]
        BY <1>11 DEF Push
      <4>2. pc[t] = "sending"
        BY <1>11 DEF Push
      <4> QED
        BY <4>1, <4>2 DEF TypeOK
    <3> QED
      BY <2>1, <3>1, TxFrame
  <2> QED
    BY <1>0, <2>1, <2>2
<1>12. CASE LoopSend \/ Tick \/ UNCHANGED hostVars
  <2>1. UNCHANGED <<db, log, writer, pc, view, base, stale, muts>>
    BY <1>12 DEF LoopSend, Tick, hostVars, txVars
  <2>2. ASSUME NEW u \in Tasks PROVE TxInv(u)'
    BY <2>1, TxFrame
  <2> QED
    BY <1>0, <2>1, <2>2
<1>13. CASE Crash
  <2>1. UNCHANGED <<db, log>>
    BY <1>13 DEF Crash, OpenPool, TypeOK, DbType
  <2>2. ASSUME NEW u \in Tasks PROVE TxInv(u)'
    BY <1>13, HostAssumption DEF Crash, TxInv, HasSnapshot
  <2> QED
    BY <1>0, <2>1, <2>2
<1> QED
  BY <1>1, <1>3, <1>4, <1>5, <1>6, <1>7, <1>8, <1>9, <1>10, <1>11, <1>12, <1>13
  DEF HostNext, TaskStep

-----------------------------------------------------------------------------
(* What is on its way to the kernel *)

\* A returning handler adds its envelopes to what is in flight.
LEMMA InFlightAnswer ==
  ASSUME TypeOK, NEW t \in Tasks, NEW es, Answer(t, es), UNCHANGED chan
  PROVE  InFlight' \subseteq InFlight \cup Range(es)
<1>1. outbox' = [outbox EXCEPT ![t] = es]
  BY DEF Answer
<1>2. \A u \in Tasks : outbox'[u] = IF u = t THEN es ELSE outbox[u]
  BY <1>1 DEF TypeOK
<1> QED
  BY <1>2 DEF InFlight, Range

\* Pushing moves an envelope from the task to the channel.
LEMMA InFlightPush ==
  ASSUME TypeOK, NEW t \in Tasks, Push(t)
  PROVE  InFlight' \subseteq InFlight
<1>1. /\ chan' = Append(chan, Head(outbox[t])) /\ outbox[t] # << >>
      /\ outbox' = [outbox EXCEPT ![t] = Tail(outbox[t])]
  BY DEF Push
<1>2. /\ outbox[t] \in Seq(EnvelopeType) /\ chan \in Seq(EnvelopeType)
      /\ Len(outbox[t]) \in Nat /\ Len(outbox[t]) > 0
  BY <1>1, EmptySeq DEF TypeOK
<1>3. Range(Tail(outbox[t])) \subseteq Range(outbox[t])
  <2>1. \A i \in 1..Len(Tail(outbox[t])) :
          Tail(outbox[t])[i] = outbox[t][i + 1] /\ i + 1 \in 1..Len(outbox[t])
    BY <1>1, <1>2, HeadTailProperties
  <2>2. DOMAIN outbox[t] = 1..Len(outbox[t])
        /\ DOMAIN Tail(outbox[t]) = 1..Len(Tail(outbox[t]))
    BY <1>1, <1>2, HeadTailProperties, LenProperties
  <2> QED
    BY <2>1, <2>2 DEF Range
<1>4. Head(outbox[t]) \in Range(outbox[t])
  <2>1. Head(outbox[t]) = outbox[t][1] /\ 1 \in DOMAIN outbox[t]
    BY <1>1, <1>2, LenProperties
  <2> QED
    BY <2>1 DEF Range
<1>5. Range(chan') \subseteq Range(chan) \cup {Head(outbox[t])}
  <2>1. Head(outbox[t]) \in EnvelopeType
    BY <1>1, <1>2, HeadTailProperties
  <2>2. /\ DOMAIN chan' = 1..(Len(chan) + 1) /\ DOMAIN chan = 1..Len(chan)
        /\ \A i \in 1..Len(chan) : chan'[i] = chan[i]
        /\ chan'[Len(chan) + 1] = Head(outbox[t]) /\ Len(chan) \in Nat
    BY <1>1, <1>2, <2>1, AppendProperties, LenProperties
  <2> QED
    BY <2>2 DEF Range
<1>6. \A u \in Tasks : Range(outbox'[u]) \subseteq Range(outbox[u])
  <2> SUFFICES ASSUME NEW u \in Tasks PROVE Range(outbox'[u]) \subseteq Range(outbox[u])
    OBVIOUS
  <2>1. CASE u = t
    BY <2>1, <1>1, <1>3 DEF TypeOK
  <2>2. CASE u # t
    BY <2>2, <1>1 DEF TypeOK
  <2> QED
    BY <2>1, <2>2
<1> QED
  BY <1>4, <1>5, <1>6 DEF InFlight

LEMMA InFlightLoopSend ==
  ASSUME TypeOK, LoopSend
  PROVE  /\ InFlight' \subseteq InFlight
         /\ Head(chan) \in InFlight
<1>1. /\ chan' = Tail(chan) /\ chan # << >> /\ outbox' = outbox
      /\ chan \in Seq(EnvelopeType) /\ Len(chan) \in Nat /\ Len(chan) > 0
  BY EmptySeq DEF LoopSend, TypeOK
<1>2. \A i \in 1..Len(Tail(chan)) : Tail(chan)[i] = chan[i + 1] /\ i + 1 \in 1..Len(chan)
  BY <1>1, HeadTailProperties
<1>3. DOMAIN chan = 1..Len(chan) /\ DOMAIN Tail(chan) = 1..Len(Tail(chan))
  BY <1>1, HeadTailProperties, LenProperties
<1>4. Head(chan) = chan[1] /\ 1 \in DOMAIN chan
  BY <1>1, <1>3
<1> QED
  BY <1>1, <1>2, <1>3, <1>4 DEF InFlight, Range

\* A committing handler's deltas are the history entries its transaction adds.
LEMMA EnvelopesAreCommitted ==
  ASSUME TypeOK, StoreInv, NEW t \in Tasks, Commit(t),
         NEW e \in Range(Envelopes(t)), e.type = "delta"
  PROVE  e.version \in 1..Len(log') /\ e = Delta(log'[e.version])
<1>1. /\ log \in Seq(MutationType) /\ muts[t] \in Seq(MutationType)
      /\ Len(log) \in Nat /\ Len(muts[t]) \in Nat /\ db.version = Len(log)
      /\ log' = log \o muts[t]
  BY DEF TypeOK, StoreInv, StoreMatchesHistory, Commit
<1>2. PICK i \in 1..Len(muts[t]) : e = Delta(muts[t][i])
  <2>1. CASE Envelopes(t) = <<ErrorReply(req[t])>>
    <3>1. e = ErrorReply(req[t])
      BY <2>1 DEF Range
    <3> QED
      BY <3>1 DEF ErrorReply, Reply
  <2>2. CASE Envelopes(t) # <<ErrorReply(req[t])>>
    <3> DEFINE r == Reply(req[t], "ok", view[t].version,
                          IF req[t].op = "snapshot" THEN view[t].rows ELSE EmptyRows)
    <3>1. Envelopes(t) = <<r>> \o Deltas(muts[t])
      BY <2>2 DEF Envelopes
    <3>2. r.type = "reply"
      BY DEF Reply
    <3>3. <<r>> \in Seq(EnvelopeType)
      <4>1. req[t] \in Requests /\ view[t] \in DbType
        BY DEF TypeOK
      <4> QED
        BY <4>1, ReplyType, EmptyDbType DEF DbType
    <3> HIDE DEF r
    <3>4. /\ Deltas(muts[t]) \in Seq(EnvelopeType)
          /\ Len(Deltas(muts[t])) = Len(muts[t])
          /\ \A i \in 1..Len(muts[t]) : Deltas(muts[t])[i] = Delta(muts[t][i])
      BY <1>1, DeltasType
    <3>5. /\ DOMAIN Envelopes(t) = 1..(1 + Len(muts[t]))
          /\ Envelopes(t)[1] = r
          /\ \A i \in 2..(1 + Len(muts[t])) : Envelopes(t)[i] = Deltas(muts[t])[i - 1]
      BY <1>1, <3>1, <3>3, <3>4, ConcatProperties, LenProperties
    <3>6. PICK j \in 1..(1 + Len(muts[t])) : e = Envelopes(t)[j]
      BY <3>5 DEF Range
    <3>7. j # 1
      BY <3>2, <3>5, <3>6
    <3>8. j - 1 \in 1..Len(muts[t]) /\ j \in 2..(1 + Len(muts[t]))
      BY <1>1, <3>7
    <3>9. e = Deltas(muts[t])[j - 1]
      BY <3>5, <3>6, <3>8
    <3> QED
      BY <3>4, <3>8, <3>9
  <2> QED
    BY <2>1, <2>2
<1>3. HasSnapshot(t) /\ muts[t] # << >>
  BY <1>1, <1>2 DEF Commit, HasSnapshot
<1>4. base[t] = Len(log) /\ muts[t][i].version = base[t] + i
  BY <1>1, <1>3 DEF StoreInv, TxInv
<1>5. e.version = Len(log) + i
  BY <1>2, <1>4 DEF Delta
<1>6. Len(log') = Len(log) + Len(muts[t]) /\ log'[Len(log) + i] = muts[t][i]
  BY <1>1, ConcatProperties
<1> QED
  BY <1>1, <1>2, <1>5, <1>6

\* What is on its way stays committed: a step adds only replies and the deltas
\* of the transaction it commits, and history is never rewritten.
LEMMA DeltaStep ==
  ASSUME TypeOK, StoreInv, [HostNext]_hostVars
  PROVE  DeltasAreCommitted'
<1>0. \A e \in InFlight : e.type = "delta" =>
         e.version \in 1..Len(log) /\ e = Delta(log[e.version])
  BY DEF StoreInv, DeltasAreCommitted
<1>1. ASSUME UNCHANGED log, InFlight' \subseteq InFlight
      PROVE  DeltasAreCommitted'
  BY <1>0, <1>1 DEF DeltasAreCommitted
<1>2. ASSUME NEW t \in Tasks, NEW r, Answer(t, <<r>>), UNCHANGED <<log, chan>>,
             r.type = "reply"
      PROVE  DeltasAreCommitted'
  <2>1. InFlight' \subseteq InFlight \cup {r}
    BY <1>2, InFlightAnswer DEF Range
  <2> QED
    BY <1>0, <1>2, <2>1 DEF DeltasAreCommitted
<1>3. ASSUME NEW t \in Tasks, Refuse(t) \/ Get(t) \/ LoseRace(t) \/ Fail(t)
      PROVE  DeltasAreCommitted'
  BY <1>2, <1>3 DEF Refuse, Get, LoseRace, Fail, ErrorReply, Reply
<1>4. ASSUME NEW t \in Tasks, Commit(t)
      PROVE  DeltasAreCommitted'
  <2>1. InFlight' \subseteq InFlight \cup Range(Envelopes(t))
    BY <1>4, InFlightAnswer DEF Commit
  <2>2. ASSUME NEW v \in 1..Len(log)
        PROVE  v \in 1..Len(log') /\ log'[v] = log[v]
    BY <1>4, ConcatProperties DEF Commit, TypeOK
  <2>3. ASSUME NEW e \in InFlight, e.type = "delta"
        PROVE  e.version \in 1..Len(log') /\ e = Delta(log'[e.version])
    BY <1>0, <2>2, <2>3
  <2> QED
    BY <1>4, <2>1, <2>3, EnvelopesAreCommitted DEF DeltasAreCommitted
<1>5. ASSUME NEW t \in Tasks, Push(t)
      PROVE  DeltasAreCommitted'
  BY <1>1, <1>5, InFlightPush DEF Push
<1>6. CASE LoopSend
  BY <1>1, <1>6, InFlightLoopSend DEF LoopSend
<1>7. CASE Crash
  <2>1. chan' = << >> /\ \A u \in Tasks : outbox'[u] = << >>
    BY <1>7 DEF Crash
  <2>2. InFlight' = {}
    BY <2>1 DEF InFlight, Range
  <2> QED
    BY <2>2 DEF DeltasAreCommitted
<1>8. ASSUME UNCHANGED <<log, chan, outbox>>
      PROVE  DeltasAreCommitted'
  <2>1. InFlight' = InFlight
    BY <1>8 DEF InFlight
  <2> QED
    BY <1>1, <1>8, <2>1
<1>9. ASSUME NEW t \in Tasks, NEW r \in Requests, Accept(t, r)
      PROVE  DeltasAreCommitted'
  BY <1>8, <1>9 DEF Accept
<1>10. ASSUME NEW t \in Tasks,
              \/ Begin(t) \/ SelectStale(t) \/ PruneRow(t) \/ Upsert(t)
              \/ Delete(t) \/ ReadSnapshot(t)
       PROVE  DeltasAreCommitted'
  BY <1>8, <1>10 DEF Begin, SelectStale, PruneRow, Upsert, Delete, ReadSnapshot
<1>11. CASE Tick \/ UNCHANGED hostVars
  BY <1>8, <1>11 DEF Tick, hostVars
<1> QED
  BY <1>3, <1>4, <1>5, <1>6, <1>7, <1>9, <1>10, <1>11 DEF HostNext, TaskStep

-----------------------------------------------------------------------------
(* The store *)

LEMMA StoreInit ==
  ASSUME HostInit
  PROVE  StoreInv
<1>1. StoreMatchesHistory
  BY DEF HostInit, StoreMatchesHistory, EmptyDb, OpenPool, NewFile, ContentAt
<1>2. ASSUME NEW t \in Tasks PROVE TxInv(t)
  BY HostAssumption DEF HostInit, TxInv, HasSnapshot
<1>3. DeltasAreCommitted
  <2>1. chan = << >> /\ \A u \in Tasks : outbox[u] = << >>
    BY DEF HostInit
  <2>2. InFlight = {}
    BY <2>1 DEF InFlight, Range
  <2> QED
    BY <2>2 DEF DeltasAreCommitted
<1> QED
  BY <1>1, <1>2, <1>3 DEF StoreInv

\* The inductive invariant: the store is what its history says, every open
\* transaction is a snapshot plus its own mutations, and what is on its way to
\* the kernel is committed.
THEOREM StoreInvHolds == HostSpec => []StoreInv
<1>1. HostInit => StoreInv
  BY StoreInit
<1>2. TypeOK /\ TypeOK' /\ StoreInv /\ [HostNext]_hostVars => StoreInv'
  <2> SUFFICES ASSUME TypeOK, TypeOK', StoreInv, [HostNext]_hostVars PROVE StoreInv'
    OBVIOUS
  <2>1. StoreMatchesHistory' /\ \A t \in Tasks : TxInv(t)'
    BY StoreStep DEF StoreInv
  <2> QED
    BY <2>1, DeltaStep DEF StoreInv
<1> QED
  BY <1>1, <1>2, TypeCorrect, PTL DEF HostSpec

\* The version counts the committed mutations and the rows are what they leave,
\* with any number of concurrent handlers, failures and restarts.
THEOREM StoreIsItsHistory == HostSpec => []StoreMatchesHistory
<1>1. StoreInv => StoreMatchesHistory
  BY DEF StoreInv
<1> QED
  BY <1>1, StoreInvHolds, PTL

\* No commit overwrites another one's: a transaction that has written holds the
\* lock and is ahead of the current version by its own mutations only.
THEOREM NoUpdateIsLost == HostSpec => []NoLostUpdate
<1>1. TypeOK /\ StoreInv => NoLostUpdate
  <2> SUFFICES ASSUME TypeOK, StoreInv, NEW t \in Tasks, muts[t] # << >>
               PROVE  /\ writer = t /\ base[t] = db.version
                      /\ view[t].version = db.version + Len(muts[t])
    BY DEF NoLostUpdate
  <2>1. writer = t /\ HasSnapshot(t) /\ base[t] = db.version
    BY DEF StoreInv, TxInv
  <2> QED
    BY <2>1 DEF StoreInv, TxInv
<1> QED
  BY <1>1, StoreInvHolds, TypeCorrect, PTL

\* Nothing is announced that was not committed: a handler that failed, lost the
\* race for the lock or was rolled back publishes nothing.
THEOREM OnlyCommittedDeltas == HostSpec => []DeltasAreCommitted
<1>1. StoreInv => DeltasAreCommitted
  BY DEF StoreInv
<1> QED
  BY <1>1, StoreInvHolds, PTL

-----------------------------------------------------------------------------
(* The plugin implements the abstract store *)

\* A commit with mutations is one batch of the abstract store.
LEMMA CommitIsBatch ==
  ASSUME TypeOK, StoreInv, StoreMatchesHistory', NEW t \in Tasks, Commit(t),
         muts[t] # << >>
  PROVE  Store!CommitBatch
<1>1. /\ log \in Seq(MutationType) /\ muts[t] \in Seq(MutationType)
      /\ Len(log) \in Nat /\ Len(muts[t]) \in Nat /\ Len(muts[t]) > 0
      /\ log' = log \o muts[t]
  BY EmptySeq DEF TypeOK, Commit
<1>2. TxInv(t) /\ HasSnapshot(t) /\ base[t] = Len(log)
  BY DEF StoreInv, StoreMatchesHistory, TxInv, Commit, HasSnapshot
<1>3. /\ Len(log') = Len(log) + Len(muts[t])
      /\ \A v \in 1..Len(log) : log'[v] = log[v]
      /\ \A i \in 1..Len(muts[t]) : log'[Len(log) + i] = muts[t][i]
  BY <1>1, ConcatProperties
<1>4. ASSUME NEW i \in 1..Len(muts[t])
      PROVE  ContentBefore(t, i) = Store!ContentAt(log', Len(log) + i - 1)
  <2>1. CASE i = 1
    <3>1. ContentBefore(t, i) = ContentAt(log, Len(log))
      BY <1>2, <2>1 DEF ContentBefore
    <3>2. ContentAt(log', Len(log)) = ContentAt(log, Len(log))
      BY <1>1, HistoryGrows
    <3> QED
      BY <1>1, <2>1, <3>1, <3>2 DEF ContentAt, Store!ContentAt, EmptyRows,
         Store!EmptyRows
  <2>2. CASE i # 1
    <3>1. /\ i - 1 \in 1..Len(muts[t]) /\ Len(log) + i - 1 # 0
          /\ Len(log) + i - 1 = Len(log) + (i - 1)
      BY <1>1, <2>2
    <3>2. log'[Len(log) + i - 1] = muts[t][i - 1]
      BY <1>3, <3>1
    <3> QED
      BY <2>2, <3>1, <3>2 DEF ContentBefore, Store!ContentAt
  <2> QED
    BY <2>1, <2>2
<1>5. ASSUME NEW v \in (Len(log) + 1)..Len(log')
      PROVE  /\ log'[v].version = v
             /\ Store!Mutates(log'[v], Store!ContentAt(log', v - 1))
             /\ v < Len(log') => log'[v].op = "del" /\ log'[v].key \in HeartbeatKeys
  <2>1. PICK i \in 1..Len(muts[t]) : v = Len(log) + i
    <3>1. v - Len(log) \in 1..Len(muts[t]) /\ v = Len(log) + (v - Len(log))
      BY <1>1, <1>3
    <3> QED
      BY <3>1
  <2>2. log'[v] = muts[t][i]
    BY <1>3, <2>1
  <2>3. /\ muts[t][i].version = base[t] + i
        /\ Store!Mutates(muts[t][i], ContentBefore(t, i))
        /\ i < Len(muts[t]) => muts[t][i].op = "del" /\ muts[t][i].key \in HeartbeatKeys
    BY <1>2 DEF TxInv
  <2>4. ContentBefore(t, i) = Store!ContentAt(log', v - 1)
    BY <1>4, <2>1
  <2>5. Store!Mutates(log'[v], Store!ContentAt(log', v - 1))
    BY <2>2, <2>3, <2>4
  <2>6. v < Len(log') => i < Len(muts[t])
    BY <1>1, <1>3, <2>1
  <2> QED
    BY <1>2, <2>1, <2>2, <2>3, <2>5, <2>6
<1>6. db'.rows = Store!ContentAt(log', Len(log'))
  BY DEF StoreMatchesHistory, ContentAt, Store!ContentAt, EmptyRows, Store!EmptyRows
<1>7. Announced' = Announced
  BY DEF Commit, ghostVars, Announced
<1>8. Len(log') > Len(log)
  BY <1>1, <1>3
<1> QED
  BY <1>3, <1>5, <1>6, <1>7, <1>8 DEF Store!CommitBatch

\* Sending a delta announces its version, or announces nothing new.
LEMMA SendIsAnnounce ==
  ASSUME TypeOK, StoreInv, LoopSend
  PROVE  Store!Announce \/ UNCHANGED Store!storeVars
<1>1. UNCHANGED <<db, log>> /\ chan # << >>
  BY DEF LoopSend
<1>2. CASE Head(chan).type # "delta"
  <2>1. published' = published
    BY <1>2 DEF LoopSend
  <2> QED
    BY <1>1, <2>1 DEF Announced, Store!storeVars
<1>3. CASE Head(chan).type = "delta"
  <2> DEFINE v == Head(chan).version
  <2>1. v \in 1..Len(log)
    BY <1>3, InFlightLoopSend DEF StoreInv, DeltasAreCommitted
  <2>2. published' = Append(published, v)
    BY <1>3 DEF LoopSend
  <2>3. Announced' = Announced \cup {v}
    <3>1. published \in Seq(Nat) /\ v \in Nat
      BY <2>1 DEF TypeOK
    <3>2. /\ DOMAIN published' = 1..(Len(published) + 1)
          /\ DOMAIN published = 1..Len(published) /\ Len(published) \in Nat
          /\ \A i \in 1..Len(published) : published'[i] = published[i]
          /\ published'[Len(published) + 1] = v
      BY <2>2, <3>1, AppendProperties, LenProperties
    <3> HIDE DEF v
    <3> QED
      BY <3>2 DEF Announced, Range
  <2>4. CASE v \in Announced
    <3>1. Announced' = Announced
      BY <2>3, <2>4
    <3> QED
      BY <1>1, <3>1 DEF Store!storeVars
  <2>5. CASE v \notin Announced
    BY <1>1, <2>1, <2>3, <2>5 DEF Store!Announce
  <2> QED
    BY <2>4, <2>5
<1> QED
  BY <1>2, <1>3

\* Every other step leaves the abstract store alone.
LEMMA StepRefines ==
  ASSUME TypeOK, TypeOK', StoreInv, StoreMatchesHistory', [HostNext]_hostVars
  PROVE  [Store!StoreNext]_(Store!storeVars)
<1>1. ASSUME UNCHANGED <<db, log, published>>
      PROVE  UNCHANGED Store!storeVars
  BY <1>1 DEF Store!storeVars, Announced
<1>2. ASSUME NEW t \in Tasks, Commit(t)
      PROVE  [Store!StoreNext]_(Store!storeVars)
  <2>1. CASE muts[t] # << >>
    BY <1>2, <2>1, CommitIsBatch DEF Store!StoreNext
  <2>2. CASE muts[t] = << >>
    <3>1. log' = log /\ published' = published
      BY <1>2, <2>2, ConcatEmptySeq DEF Commit, TypeOK, ghostVars
    <3>2. db'.rows = db.rows
      BY <3>1 DEF StoreInv, StoreMatchesHistory
    <3> QED
      BY <3>1, <3>2 DEF Store!storeVars, Announced
  <2> QED
    BY <2>1, <2>2
<1>3. CASE LoopSend
  BY <1>3, SendIsAnnounce DEF Store!StoreNext
<1>4. CASE Crash
  <2>1. UNCHANGED <<db, log, published>>
    BY <1>4 DEF Crash, OpenPool, TypeOK, DbType
  <2> QED
    BY <1>1, <2>1
<1>5. ASSUME NEW t \in Tasks,
             \/ Refuse(t) \/ Get(t) \/ Begin(t) \/ SelectStale(t)
             \/ PruneRow(t) \/ Upsert(t) \/ Delete(t) \/ ReadSnapshot(t)
             \/ LoseRace(t) \/ Push(t) \/ Fail(t)
      PROVE  UNCHANGED Store!storeVars
  BY <1>1, <1>5 DEF Refuse, Get, Begin, SelectStale, PruneRow, Upsert, Delete,
     ReadSnapshot, LoseRace, Push, Fail, ghostVars
<1>6. ASSUME NEW t \in Tasks, NEW r \in Requests, Accept(t, r)
      PROVE  UNCHANGED Store!storeVars
  BY <1>1, <1>6 DEF Accept, ghostVars
<1>7. CASE Tick \/ UNCHANGED hostVars
  BY <1>1, <1>7 DEF Tick, hostVars, ghostVars
<1> QED
  BY <1>2, <1>3, <1>4, <1>5, <1>6, <1>7 DEF HostNext, TaskStep

\* The concurrent plugin behaves as the atomic store of SyncStore: every commit
\* is one batch of consecutive versions, and a delta is announced only once its
\* version exists.
THEOREM HostImplementsStore == HostSpec => ImplementsStore
<1>1. HostInit => Store!StoreInit
  <2> SUFFICES ASSUME HostInit PROVE Store!StoreInit
    OBVIOUS
  <2>1. published = << >> /\ log = << >> /\ db.rows = EmptyRows
    BY DEF HostInit, EmptyDb, OpenPool, NewFile
  <2>2. Announced = {}
    BY <2>1 DEF Announced, Range
  <2> QED
    BY <2>1, <2>2 DEF Store!StoreInit, EmptyRows, Store!EmptyRows
<1>2. /\ TypeOK /\ TypeOK' /\ StoreInv /\ StoreMatchesHistory'
      /\ [HostNext]_hostVars
      => [Store!StoreNext]_(Store!storeVars)
  BY StepRefines
<1> QED
  BY <1>1, <1>2, TypeCorrect, StoreInvHolds, StoreIsItsHistory, PTL
  DEF HostSpec, ImplementsStore, Store!StoreSpec

-----------------------------------------------------------------------------
(* What callers are told *)

\* When a set or a del is about to commit, its transaction ends in what the
\* caller asked for: the last mutation is the caller's set, or the key of the del
\* has no row.
RequestInv(t) ==
  pc[t] = "commit" =>
    /\ req[t].op = "set" =>
         /\ muts[t] # << >>
         /\ muts[t][Len(muts[t])].op = "set"
         /\ muts[t][Len(muts[t])].key = req[t].key
         /\ muts[t][Len(muts[t])].value = req[t].value
    /\ req[t].op = "del" => view[t].rows[req[t].key] = NoValue

\* Every statement before the commit, of whatever task, keeps the transactions
\* on course for what their callers asked for.
LEMMA RequestStep ==
  ASSUME TypeOK, \A t \in Tasks : RequestInv(t), [HostNext]_hostVars
  PROVE  \A t \in Tasks : RequestInv(t)'
<1> SUFFICES ASSUME NEW u \in Tasks PROVE RequestInv(u)'
  OBVIOUS
<1>0. ASSUME pc'[u] = pc[u] \/ pc'[u] # "commit",
             pc[u] = "commit" => req'[u] = req[u] /\ muts'[u] = muts[u] /\ view'[u] = view[u]
      PROVE  RequestInv(u)'
  BY <1>0 DEF RequestInv
<1>1. ASSUME NEW t \in Tasks, NEW r \in Requests, Accept(t, r) PROVE RequestInv(u)'
  BY <1>0, <1>1 DEF Accept, txVars, TypeOK
<1>2. ASSUME NEW t \in Tasks, NEW es, Answer(t, es), req' = req PROVE RequestInv(u)'
  <2>1. /\ pc' = [pc EXCEPT ![t] = "sending"] /\ view' = [view EXCEPT ![t] = EmptyDb]
        /\ muts' = [muts EXCEPT ![t] = << >>]
    BY <1>2 DEF Answer, ResetTx
  <2>2. CASE u = t
    <3>1. pc'[u] = "sending"
      BY <2>1, <2>2 DEF TypeOK
    <3> QED
      BY <1>0, <3>1, <2>1 DEF RequestInv
  <2>3. CASE u # t
    BY <1>0, <1>2, <2>1, <2>3 DEF TypeOK
  <2> QED
    BY <2>2, <2>3
<1>3. ASSUME NEW t \in Tasks, Begin(t) PROVE RequestInv(u)'
  BY <1>0, <1>3 DEF Begin, txVars, TypeOK
<1>4. ASSUME NEW t \in Tasks, SelectStale(t) PROVE RequestInv(u)'
  BY <1>0, <1>4 DEF SelectStale, TypeOK
<1>5. ASSUME NEW t \in Tasks, PruneRow(t) PROVE RequestInv(u)'
  <2>1. pc[t] = "reading" /\ pc' = pc /\ req' = req
    BY <1>5 DEF PruneRow
  <2>2. u # t => muts'[u] = muts[u] /\ view'[u] = view[u]
    BY <1>5 DEF PruneRow, TypeOK
  <2> QED
    BY <1>0, <2>1, <2>2
<1>6. ASSUME NEW t \in Tasks, Upsert(t) PROVE RequestInv(u)'
  <2> DEFINE m == Mutation("set", req[t].key, req[t].value,
                           PutRow(Source(t), req[t].key, req[t].value, since[t]))
  <2>1. /\ req[t].op = "set" /\ req' = req /\ muts' = [muts EXCEPT ![t] = Append(muts[t], m)]
        /\ pc' = [pc EXCEPT ![t] = "commit"]
    BY <1>6 DEF Upsert
  <2>2. m.op = "set" /\ m.key = req[t].key /\ m.value = req[t].value
    BY DEF Mutation
  <2>3. u # t => muts'[u] = muts[u] /\ view'[u] = view[u] /\ pc'[u] = pc[u]
    BY <1>6 DEF Upsert, TypeOK
  <2> HIDE DEF m
  <2>4. CASE u = t
    <3>1. muts[t] \in Seq(MutationType) /\ Len(muts[t]) \in Nat
      BY DEF TypeOK
    <3>2. muts'[t] = Append(muts[t], m)
      BY <2>1 DEF TypeOK
    <3>3. muts'[t] # << >> /\ Len(muts'[t]) = Len(muts[t]) + 1 /\ muts'[t][Len(muts[t]) + 1] = m
      BY <3>1, <3>2
    <3> QED
      BY <2>1, <2>2, <2>4, <3>3 DEF RequestInv
  <2> QED
    BY <1>0, <2>1, <2>3, <2>4
<1>7. ASSUME NEW t \in Tasks, Delete(t) PROVE RequestInv(u)'
  <2> DEFINE k == req[t].key
             d == DeleteRow(db, k)
  <2>1. /\ req[t].op = "del" /\ req' = req /\ k \in Keys
    BY <1>7, RequestFields DEF Delete, TypeOK
  <2>2. view' = [view EXCEPT ![t] = IF db.rows[k] # NoValue THEN d ELSE db]
    BY <1>7 DEF Delete
  <2>3. d.rows[k] = NoValue
    BY <2>1 DEF DeleteRow, TypeOK, DbType
  <2>4. u # t => muts'[u] = muts[u] /\ view'[u] = view[u] /\ pc'[u] = pc[u]
    BY <1>7 DEF Delete, TypeOK
  <2>5. view'[t].rows[k] = NoValue
    <3> HIDE DEF d, k
    <3> QED
      BY <2>2, <2>3 DEF TypeOK
  <2>6. CASE u = t
    BY <2>1, <2>5, <2>6 DEF RequestInv
  <2> QED
    BY <1>0, <2>1, <2>4, <2>6
<1>8. ASSUME NEW t \in Tasks, ReadSnapshot(t) PROVE RequestInv(u)'
  <2>1. req[t].op = "snapshot" /\ req' = req /\ muts' = muts
    BY <1>8 DEF ReadSnapshot
  <2>2. u # t => view'[u] = view[u] /\ pc'[u] = pc[u]
    BY <1>8 DEF ReadSnapshot, TypeOK
  <2>3. CASE u = t
    BY <2>1, <2>3 DEF RequestInv
  <2> QED
    BY <1>0, <2>1, <2>2, <2>3
<1>9. ASSUME NEW t \in Tasks, Refuse(t) \/ Get(t) \/ Commit(t) \/ LoseRace(t) \/ Fail(t)
      PROVE  RequestInv(u)'
  BY <1>2, <1>9 DEF Refuse, Get, Commit, LoseRace, Fail
<1>10. ASSUME NEW t \in Tasks, Push(t) PROVE RequestInv(u)'
  <2>1. /\ pc[t] = "sending" /\ muts' = muts /\ view' = view
        /\ pc' = pc \/ pc' = [pc EXCEPT ![t] = "idle"]
        /\ req' = req \/ req' = [req EXCEPT ![t] = NoRequest]
    BY <1>10 DEF Push, txVars
  <2> QED
    BY <1>0, <2>1 DEF TypeOK
<1>11. CASE LoopSend \/ Tick \/ UNCHANGED hostVars
  BY <1>0, <1>11 DEF LoopSend, Tick, hostVars, txVars
<1>12. CASE Crash
  BY <1>12 DEF Crash, RequestInv
<1> QED
  BY <1>1, <1>3, <1>4, <1>5, <1>6, <1>7, <1>8, <1>9, <1>10, <1>11, <1>12
  DEF HostNext, TaskStep

\* Where the history is when a transaction commits: its view is the content of
\* the version it names, and its last mutation, if any, produced that version.
LEMMA CommittedView ==
  ASSUME TypeOK, StoreInv, NEW t \in Tasks, Commit(t)
  PROVE  /\ view[t].version <= Len(log')
         /\ ContentAt(log', view[t].version) = view[t].rows
         /\ muts[t] # << >> => /\ view[t].version > 0
                               /\ log'[view[t].version] = muts[t][Len(muts[t])]
<1> DEFINE n == Len(muts[t])
<1>1. /\ log \in Seq(MutationType) /\ muts[t] \in Seq(MutationType)
      /\ Len(log) \in Nat /\ n \in Nat /\ base[t] \in Nat
      /\ log' = log \o muts[t] /\ HasSnapshot(t) /\ db.version = Len(log)
  BY DEF TypeOK, Commit, HasSnapshot, StoreInv, StoreMatchesHistory
<1>2. /\ base[t] <= Len(log) /\ view[t].version = base[t] + n
      /\ view[t].rows = ContentBefore(t, n + 1)
      /\ muts[t] # << >> => base[t] = Len(log)
  BY <1>1 DEF StoreInv, TxInv
<1>3. /\ Len(log') = Len(log) + n
      /\ \A i \in 1..n : log'[Len(log) + i] = muts[t][i]
  BY <1>1, ConcatProperties, SMTT(30)
<1>4. CASE n = 0
  <2>1. ContentAt(log', base[t]) = ContentAt(log, base[t])
    BY <1>1, <1>2, HistoryGrows
  <2> QED
    BY <1>1, <1>2, <1>3, <1>4, <2>1, EmptySeq DEF ContentBefore
<1>5. CASE n > 0
  <2>1. base[t] = Len(log) /\ log'[Len(log) + n] = muts[t][n]
    BY <1>1, <1>2, <1>3, <1>5, EmptySeq
  <2>2. view[t].version = Len(log) + n /\ view[t].version # 0
    BY <1>1, <1>2, <1>5, <2>1
  <2>3. view[t].rows = muts[t][n].rows
    BY <1>1, <1>2, <1>5 DEF ContentBefore
  <2> HIDE DEF n
  <2>4. ContentAt(log', view[t].version) = muts[t][n].rows
    BY <2>1, <2>2 DEF ContentAt
  <2> QED
    BY <1>1, <1>3, <1>5, <2>1, <2>2, <2>3, <2>4 DEF n
<1>6. n = 0 \/ n > 0
  BY <1>1
<1> HIDE DEF n
<1> QED
  BY <1>4, <1>5, <1>6

\* The reply of a handler that commits tells the truth about the history its
\* commit leaves.
LEMMA CommitRepliesTrue ==
  ASSUME TypeOK, StoreInv, NEW t \in Tasks, RequestInv(t), Commit(t),
         NEW e \in Range(Envelopes(t)), e.type = "reply", e.status = "ok"
  PROVE  ReplyIsTrue(e)'
<1> DEFINE r == Reply(req[t], "ok", view[t].version,
                      IF req[t].op = "snapshot" THEN view[t].rows ELSE EmptyRows)
<1>1. req[t] \in Requests /\ view[t] \in DbType /\ muts[t] \in Seq(MutationType)
  BY DEF TypeOK
<1>2. Envelopes(t) # <<ErrorReply(req[t])>>
  <2> SUFFICES ASSUME Envelopes(t) = <<ErrorReply(req[t])>> PROVE FALSE
    OBVIOUS
  <2>1. e = ErrorReply(req[t])
    BY DEF Range
  <2> QED
    BY <2>1 DEF ErrorReply, Reply
<1>3. Envelopes(t) = <<r>> \o Deltas(muts[t])
  BY <1>2 DEF Envelopes
<1>4. r \in EnvelopeType
  BY <1>1, ReplyType, EmptyDbType DEF DbType
<1>5. /\ r.req = req[t] /\ r.version = view[t].version
      /\ req[t].op = "snapshot" => r.rows = view[t].rows
  BY DEF Reply
<1> HIDE DEF r
<1>6. e = r
  <2>1. /\ Deltas(muts[t]) \in Seq(EnvelopeType)
        /\ Len(Deltas(muts[t])) = Len(muts[t]) /\ Len(muts[t]) \in Nat
        /\ \A i \in 1..Len(muts[t]) : Deltas(muts[t])[i] = Delta(muts[t][i])
    BY <1>1, DeltasType
  <2>2. /\ DOMAIN Envelopes(t) = 1..(1 + Len(muts[t]))
        /\ Envelopes(t)[1] = r
        /\ \A i \in 2..(1 + Len(muts[t])) : Envelopes(t)[i] = Deltas(muts[t])[i - 1]
    BY <1>3, <1>4, <2>1, ConcatProperties, LenProperties
  <2>3. PICK j \in 1..(1 + Len(muts[t])) : e = Envelopes(t)[j]
    BY <2>2 DEF Range
  <2>4. ASSUME j # 1 PROVE FALSE
    <3>1. j - 1 \in 1..Len(muts[t]) /\ j \in 2..(1 + Len(muts[t]))
      BY <2>1, <2>4
    <3>2. e = Delta(muts[t][j - 1])
      BY <2>1, <2>2, <2>3, <3>1
    <3> QED
      BY <3>2 DEF Delta
  <2> QED
    BY <2>2, <2>3, <2>4
<1>7. /\ pc[t] = "commit"
      /\ view[t].version <= Len(log')
      /\ ContentAt(log', view[t].version) = view[t].rows
      /\ muts[t] # << >> => /\ view[t].version > 0
                            /\ log'[view[t].version] = muts[t][Len(muts[t])]
  BY CommittedView DEF Commit
<1> QED
  BY <1>5, <1>6, <1>7 DEF ReplyIsTrue, RequestInv, ContentAt

\* What was true of the history stays true of it: it only grows.
LEMMA ReplyStaysTrue ==
  ASSUME TypeOK, NEW ms \in Seq(MutationType), log' = log \o ms,
         NEW e \in EnvelopeType, e.type = "reply", ReplyIsTrue(e)
  PROVE  ReplyIsTrue(e)'
<1>1. /\ e.version \in Nat /\ log \in Seq(MutationType) /\ Len(log) \in Nat
      /\ Len(ms) \in Nat /\ e.version <= Len(log)
  BY DEF TypeOK, EnvelopeType, ReplyIsTrue
<1>2. ContentAt(log', e.version) = ContentAt(log, e.version)
  BY <1>1, HistoryGrows
<1>3. Len(log') = Len(log) + Len(ms) /\ (e.version > 0 => log'[e.version] = log[e.version])
  BY <1>1, ConcatProperties
<1> QED
  BY <1>1, <1>2, <1>3 DEF ReplyIsTrue, ContentAt

LEMMA InFlightTyped ==
  ASSUME TypeOK, NEW e \in InFlight
  PROVE  e \in EnvelopeType
<1>1. ASSUME NEW s \in Seq(EnvelopeType), e \in Range(s) PROVE e \in EnvelopeType
  BY <1>1, ElementOfSeq, LenProperties DEF Range
<1> QED
  BY <1>1 DEF InFlight, TypeOK

\* Every reply on its way stays true, and a new one is true when it is given.
LEMMA ReplyStep ==
  ASSUME TypeOK, StoreInv, \A t \in Tasks : RequestInv(t), RepliesAreTrue,
         [HostNext]_hostVars
  PROVE  RepliesAreTrue'
<1>1. ASSUME UNCHANGED log, InFlight' \subseteq InFlight
      PROVE  RepliesAreTrue'
  BY <1>1 DEF RepliesAreTrue, ReplyIsTrue, ContentAt
<1>2. ASSUME NEW t \in Tasks, NEW r, Answer(t, <<r>>), UNCHANGED <<log, chan>>,
             r.type = "reply" /\ r.status = "ok" => ReplyIsTrue(r)
      PROVE  RepliesAreTrue'
  <2>1. InFlight' \subseteq InFlight \cup {r}
    BY <1>2, InFlightAnswer DEF Range
  <2> QED
    BY <1>2, <2>1 DEF RepliesAreTrue, ReplyIsTrue, ContentAt
<1>3. ASSUME NEW t \in Tasks, Refuse(t) \/ LoseRace(t) \/ Fail(t)
      PROVE  RepliesAreTrue'
  BY <1>2, <1>3 DEF Refuse, LoseRace, Fail, ErrorReply, Reply
<1>4. ASSUME NEW t \in Tasks, Get(t)
      PROVE  RepliesAreTrue'
  <2> DEFINE r == Reply(req[t], "ok", 0,
                        [EmptyRows EXCEPT ![req[t].key] = db.rows[req[t].key]])
  <2>1. /\ Answer(t, <<r>>) /\ UNCHANGED <<log, chan>> /\ req[t].op = "get"
        /\ Len(log) \in Nat
    BY <1>4 DEF Get, TypeOK
  <2>2. r.req = req[t] /\ r.version = 0
    BY DEF Reply
  <2> HIDE DEF r
  <2>3. ReplyIsTrue(r)
    BY <2>1, <2>2 DEF ReplyIsTrue
  <2> QED
    BY <1>2, <2>1, <2>3
<1>5. ASSUME NEW t \in Tasks, Commit(t)
      PROVE  RepliesAreTrue'
  <2>1. InFlight' \subseteq InFlight \cup Range(Envelopes(t))
    BY <1>5, InFlightAnswer DEF Commit
  <2>2. log' = log \o muts[t] /\ muts[t] \in Seq(MutationType)
    BY <1>5 DEF Commit, TypeOK
  <2>3. ASSUME NEW e \in InFlight', e.type = "reply", e.status = "ok"
        PROVE  ReplyIsTrue(e)'
    <3>1. CASE e \in InFlight
      BY <2>2, <2>3, <3>1, InFlightTyped, ReplyStaysTrue DEF RepliesAreTrue
    <3>2. CASE e \in Range(Envelopes(t))
      BY <1>5, <2>3, <3>2, CommitRepliesTrue
    <3> QED
      BY <2>1, <3>1, <3>2
  <2> QED
    BY <2>3 DEF RepliesAreTrue
<1>6. ASSUME NEW t \in Tasks, Push(t)
      PROVE  RepliesAreTrue'
  BY <1>1, <1>6, InFlightPush DEF Push
<1>7. CASE LoopSend
  BY <1>1, <1>7, InFlightLoopSend DEF LoopSend
<1>8. CASE Crash
  <2>1. chan' = << >> /\ \A u \in Tasks : outbox'[u] = << >>
    BY <1>8 DEF Crash
  <2>2. InFlight' = {}
    BY <2>1 DEF InFlight, Range
  <2> QED
    BY <2>2 DEF RepliesAreTrue
<1>9. ASSUME UNCHANGED <<log, chan, outbox>>
      PROVE  RepliesAreTrue'
  <2>1. InFlight' = InFlight
    BY <1>9 DEF InFlight
  <2> QED
    BY <1>1, <1>9, <2>1
<1>10. ASSUME NEW t \in Tasks, NEW r \in Requests, Accept(t, r)
      PROVE  RepliesAreTrue'
  BY <1>9, <1>10 DEF Accept
<1>11. ASSUME NEW t \in Tasks,
              \/ Begin(t) \/ SelectStale(t) \/ PruneRow(t) \/ Upsert(t)
              \/ Delete(t) \/ ReadSnapshot(t)
       PROVE  RepliesAreTrue'
  BY <1>9, <1>11 DEF Begin, SelectStale, PruneRow, Upsert, Delete, ReadSnapshot
<1>12. CASE Tick \/ UNCHANGED hostVars
  BY <1>9, <1>12 DEF Tick, hostVars
<1> QED
  BY <1>3, <1>4, <1>5, <1>6, <1>7, <1>8, <1>10, <1>11, <1>12 DEF HostNext, TaskStep

\* What each handler has in hand, and what is on its way, stays as it should be.
ReplyInv == (\A t \in Tasks : RequestInv(t)) /\ RepliesAreTrue

LEMMA ReplyInvHolds == HostSpec => []ReplyInv
<1>1. HostInit => ReplyInv
  <2> SUFFICES ASSUME HostInit PROVE ReplyInv
    OBVIOUS
  <2>1. chan = << >> /\ \A u \in Tasks : outbox[u] = << >>
    BY DEF HostInit
  <2>2. InFlight = {}
    BY <2>1 DEF InFlight, Range
  <2>3. \A t \in Tasks : RequestInv(t)
    BY DEF HostInit, RequestInv
  <2> QED
    BY <2>2, <2>3 DEF RepliesAreTrue, ReplyInv
<1>2. TypeOK /\ StoreInv /\ ReplyInv /\ [HostNext]_hostVars => ReplyInv'
  BY RequestStep, ReplyStep DEF ReplyInv
<1> QED
  BY <1>1, <1>2, TypeCorrect, StoreInvHolds, PTL DEF HostSpec

\* Every successful reply on its way to a caller is true of the history: a set
\* is stored at the version it names, a deleted key is absent there, and a snapshot is
\* the content of its version, however transactions interleave, fail or restart.
THEOREM AnswersAreTrue == HostSpec => []RepliesAreTrue
<1>1. ReplyInv => RepliesAreTrue
  BY DEF ReplyInv
<1> QED
  BY <1>1, ReplyInvHolds, PTL

-----------------------------------------------------------------------------
(* One delta per mutation *)

\* A snapshot never exceeds the reply budget, so that no handler drops the deltas
\* of a prune it has committed.
RoomForSnapshots == IsFiniteSet(Keys) /\ Cardinality(Keys) <= MaxSnapshotRows

\* Where an envelope waits: the channel, or the outbox of a task.
Places == Tasks \cup {NoTask}
Queue(p) == IF p = NoTask THEN chan ELSE outbox[p]

SameDelta(e, f) == e.type = "delta" /\ f.type = "delta" /\ e.version = f.version

\* Two deltas of one version never wait at the same time, a task has envelopes
\* only while it sends them, and only existing versions were announced.
OneDelta ==
  \A p, q \in Places :
    \A i \in DOMAIN Queue(p), j \in DOMAIN Queue(q) :
      SameDelta(Queue(p)[i], Queue(q)[j]) => p = q /\ i = j

OnlySendersWait == \A t \in Tasks : pc[t] # "sending" => outbox[t] = << >>

DeltaInv ==
  /\ OneDelta
  /\ OnlySendersWait
  /\ Announced \subseteq 1..Len(log)
  /\ AnnouncedExactlyOnce

LEMMA QueueTyped ==
  ASSUME TypeOK, NEW p \in Places
  PROVE  /\ Queue(p) \in Seq(EnvelopeType) /\ Len(Queue(p)) \in Nat
         /\ DOMAIN Queue(p) = 1..Len(Queue(p))
<1>1. Queue(p) \in Seq(EnvelopeType)
  BY DEF TypeOK, Places, Queue
<1> QED
  BY <1>1, LenProperties

LEMMA InFlightIsQueued ==
  InFlight = UNION {Range(Queue(p)) : p \in Places}
<1>1. \A t \in Tasks : Queue(t) = outbox[t]
  BY HostAssumption DEF Queue
<1>2. Queue(NoTask) = chan
  BY DEF Queue
<1> QED
  BY <1>1, <1>2 DEF InFlight, Places

LEMMA AppendShape ==
  ASSUME NEW S, NEW s \in Seq(S), NEW x \in S
  PROVE  /\ Len(s) \in Nat
         /\ DOMAIN Append(s, x) = 1..(Len(s) + 1) /\ DOMAIN s = 1..Len(s)
         /\ \A i \in 1..Len(s) : Append(s, x)[i] = s[i]
         /\ Append(s, x)[Len(s) + 1] = x
         /\ Range(Append(s, x)) = Range(s) \cup {x}
<1>1. /\ Len(s) \in Nat
      /\ DOMAIN Append(s, x) = 1..(Len(s) + 1) /\ DOMAIN s = 1..Len(s)
      /\ \A i \in 1..Len(s) : Append(s, x)[i] = s[i]
      /\ Append(s, x)[Len(s) + 1] = x
  BY AppendProperties, LenProperties
<1>2. Range(Append(s, x)) = Range(s) \cup {x}
  BY <1>1 DEF Range
<1> QED
  BY <1>1, <1>2

LEMMA TailShape ==
  ASSUME NEW S, NEW s \in Seq(S), s # << >>
  PROVE  /\ Len(s) \in Nat /\ Len(s) > 0 /\ Head(s) = s[1] /\ Head(s) \in S
         /\ DOMAIN Tail(s) = 1..(Len(s) - 1) /\ DOMAIN s = 1..Len(s)
         /\ \A i \in 1..(Len(s) - 1) : Tail(s)[i] = s[i + 1]
         /\ Range(s) = Range(Tail(s)) \cup {Head(s)}
<1>1. /\ Len(s) \in Nat /\ Len(s) > 0 /\ Head(s) = s[1] /\ Head(s) \in S
      /\ Tail(s) \in Seq(S) /\ Len(Tail(s)) = Len(s) - 1
      /\ \A i \in 1..Len(Tail(s)) : Tail(s)[i] = s[i + 1]
  BY HeadTailProperties, EmptySeq, LenProperties
<1>2. DOMAIN Tail(s) = 1..(Len(s) - 1) /\ DOMAIN s = 1..Len(s)
  BY <1>1, LenProperties
<1>3. \A i \in 1..Len(s) : i = 1 \/ (i - 1 \in 1..(Len(s) - 1) /\ (i - 1) + 1 = i)
  BY <1>1
<1>4. \A i \in 1..(Len(s) - 1) : i + 1 \in 1..Len(s)
  BY <1>1
<1>5. 1 \in 1..Len(s)
  BY <1>1
<1>6. Range(s) \subseteq Range(Tail(s)) \cup {Head(s)}
  <2> SUFFICES ASSUME NEW i \in 1..Len(s) PROVE s[i] \in Range(Tail(s)) \cup {Head(s)}
    BY <1>2 DEF Range
  <2>1. CASE i = 1
    BY <1>1, <2>1
  <2>2. CASE i # 1
    <3>1. i - 1 \in 1..(Len(s) - 1) /\ Tail(s)[i - 1] = s[i]
      BY <1>1, <1>3, <2>2
    <3> QED
      BY <1>2, <3>1 DEF Range
  <2> QED
    BY <2>1, <2>2
<1>7. Range(Tail(s)) \cup {Head(s)} \subseteq Range(s)
  BY <1>1, <1>2, <1>4, <1>5 DEF Range
<1> QED
  BY <1>1, <1>2, <1>6, <1>7

\* A returning handler that had nothing left to push adds its envelopes to what
\* is on its way, and with them at most one delta per version.
LEMMA AnswerDeltas ==
  ASSUME TypeOK, OneDelta, NEW t \in Tasks, NEW es, Answer(t, es), UNCHANGED chan,
         outbox[t] = << >>, DOMAIN es \subseteq Nat,
         \A i, j \in DOMAIN es : SameDelta(es[i], es[j]) => i = j,
         \A i \in DOMAIN es, e \in InFlight : ~ SameDelta(es[i], e)
  PROVE  /\ InFlight' = InFlight \cup Range(es)
         /\ OneDelta'
<1>1. \A u \in Tasks : outbox'[u] = IF u = t THEN es ELSE outbox[u]
  BY DEF Answer, TypeOK
<1>2. Range(outbox[t]) = {}
  BY DEF Range
<1>3. InFlight' = InFlight \cup Range(es)
  BY <1>1, <1>2 DEF InFlight
<1>4. \A p \in Places : Queue(p)' = IF p = t THEN es ELSE Queue(p)
  BY <1>1, HostAssumption DEF Queue, Places
<1>5. \A p \in Places : \A i \in DOMAIN Queue(p) : Queue(p)[i] \in InFlight
  BY InFlightIsQueued DEF Range
<1>6. \A e, f : SameDelta(e, f) <=> SameDelta(f, e)
  BY DEF SameDelta
<1>7. ASSUME NEW p \in Places, NEW q \in Places,
             NEW i \in DOMAIN Queue(p)', NEW j \in DOMAIN Queue(q)',
             SameDelta(Queue(p)'[i], Queue(q)'[j])
      PROVE  p = q /\ i = j
  <2>1. CASE p = t /\ q = t
    BY <1>4, <1>7, <2>1
  <2>2. CASE p = t /\ q # t
    BY <1>4, <1>5, <1>7, <2>2
  <2>3. CASE p # t /\ q = t
    BY <1>4, <1>5, <1>6, <1>7, <2>3
  <2>4. CASE p # t /\ q # t
    BY <1>4, <1>7, <2>4 DEF OneDelta
  <2> QED
    BY <2>1, <2>2, <2>3, <2>4
<1>8. OneDelta'
  BY <1>7 DEF OneDelta, SameDelta
<1> QED
  BY <1>3, <1>8

\* Pushing moves the first envelope of a task to the end of the channel.
LEMMA PushDeltas ==
  ASSUME TypeOK, OneDelta, NEW t \in Tasks, Push(t)
  PROVE  InFlight' = InFlight /\ OneDelta'
<1> DEFINE h == Head(outbox[t])
           P(p, i) == IF p = NoTask /\ i = Len(chan) + 1 THEN t ELSE p
           I(p, i) == IF p = NoTask /\ i = Len(chan) + 1 THEN 1
                      ELSE IF p = t THEN i + 1 ELSE i
<1>1. /\ chan' = Append(chan, h) /\ outbox[t] # << >> /\ t # NoTask
      /\ outbox' = [outbox EXCEPT ![t] = Tail(outbox[t])]
      /\ outbox[t] \in Seq(EnvelopeType) /\ chan \in Seq(EnvelopeType)
  BY HostAssumption DEF Push, TypeOK
<1>2. /\ Len(outbox[t]) \in Nat /\ Len(outbox[t]) > 0 /\ h = outbox[t][1]
      /\ h \in EnvelopeType
      /\ DOMAIN Tail(outbox[t]) = 1..(Len(outbox[t]) - 1)
      /\ DOMAIN outbox[t] = 1..Len(outbox[t])
      /\ \A i \in 1..(Len(outbox[t]) - 1) : Tail(outbox[t])[i] = outbox[t][i + 1]
      /\ Range(outbox[t]) = Range(Tail(outbox[t])) \cup {h}
  BY <1>1, TailShape
<1>3. /\ Len(chan) \in Nat
      /\ DOMAIN chan' = 1..(Len(chan) + 1) /\ DOMAIN chan = 1..Len(chan)
      /\ \A i \in 1..Len(chan) : chan'[i] = chan[i]
      /\ chan'[Len(chan) + 1] = h
      /\ Range(chan') = Range(chan) \cup {h}
  BY <1>1, <1>2, AppendShape
<1>4. \A u \in Tasks : outbox'[u] = IF u = t THEN Tail(outbox[t]) ELSE outbox[u]
  BY <1>1 DEF TypeOK
<1> HIDE DEF h
<1>a. /\ Queue(NoTask) = chan /\ Queue(t) = outbox[t]
      /\ Queue(NoTask)' = chan' /\ Queue(t)' = Tail(outbox[t])
      /\ t \in Places /\ NoTask \in Places
  BY <1>1, <1>4 DEF Queue, Places
<1>5. InFlight' = InFlight
  <2>1. \A u \in Tasks \ {t} : outbox'[u] = outbox[u]
    BY <1>4
  <2>2. outbox'[t] = Tail(outbox[t])
    BY <1>4
  <2>3. \A f : UNION {Range(f[u]) : u \in Tasks}
               = Range(f[t]) \cup UNION {Range(f[u]) : u \in Tasks \ {t}}
    OBVIOUS
  <2>4. UNION {Range(outbox'[u]) : u \in Tasks \ {t}}
        = UNION {Range(outbox[u]) : u \in Tasks \ {t}}
    BY <2>1
  <2>5. InFlight = Range(chan) \cup Range(outbox[t])
                   \cup UNION {Range(outbox[u]) : u \in Tasks \ {t}}
    BY <2>3 DEF InFlight
  <2>6. InFlight' = Range(chan') \cup Range(outbox'[t])
                    \cup UNION {Range(outbox'[u]) : u \in Tasks \ {t}}
    BY <2>3 DEF InFlight
  <2> QED
    BY <1>2, <1>3, <2>2, <2>4, <2>5, <2>6
<1>6. ASSUME NEW p \in Places, NEW i \in DOMAIN Queue(p)'
      PROVE  /\ P(p, i) \in Places /\ I(p, i) \in DOMAIN Queue(P(p, i))
             /\ Queue(p)'[i] = Queue(P(p, i))[I(p, i)]
             /\ i \in Nat
  <2>1. CASE p = NoTask
    <3>1. i \in 1..(Len(chan) + 1)
      BY <1>3, <1>6, <1>a, <2>1
    <3>2. CASE i = Len(chan) + 1
      BY <1>2, <1>3, <1>a, <2>1, <3>1, <3>2
    <3>3. CASE i \in 1..Len(chan)
      <4>1. P(p, i) = p /\ I(p, i) = i
        BY <1>1, <1>3, <2>1, <3>3
      <4> QED
        BY <1>3, <1>a, <2>1, <3>1, <3>3, <4>1
    <3> QED
      BY <1>3, <3>1, <3>2, <3>3
  <2>2. CASE p = t
    <3>1. i \in 1..(Len(outbox[t]) - 1)
      BY <1>2, <1>6, <1>a, <2>2
    <3>2. P(p, i) = t /\ I(p, i) = i + 1 /\ i + 1 \in 1..Len(outbox[t])
      BY <1>1, <1>2, <2>2, <3>1
    <3> QED
      BY <1>2, <1>a, <2>2, <3>1, <3>2
  <2>3. CASE p # NoTask /\ p # t
    <3>1. Queue(p)' = Queue(p) /\ P(p, i) = p /\ I(p, i) = i
      BY <1>4, <2>3 DEF Queue, Places
    <3> QED
      BY <1>6, <3>1, QueueTyped
  <2> QED
    BY <2>1, <2>2, <2>3
<1>7. ASSUME NEW p \in Places, NEW q \in Places,
             NEW i \in DOMAIN Queue(p)', NEW j \in DOMAIN Queue(q)',
             P(p, i) = P(q, j), I(p, i) = I(q, j)
      PROVE  p = q /\ i = j
  <2>1. i \in Nat /\ j \in Nat /\ (p = t => i >= 1) /\ (q = t => j >= 1)
    BY <1>2, <1>6, <1>7, <1>a
  <2> QED
    BY <1>1, <1>3, <1>7, <2>1
<1> HIDE DEF P, I
<1>8. ASSUME NEW p \in Places, NEW q \in Places,
             NEW i \in DOMAIN Queue(p)', NEW j \in DOMAIN Queue(q)',
             SameDelta(Queue(p)'[i], Queue(q)'[j])
      PROVE  p = q /\ i = j
  <2>1. SameDelta(Queue(P(p, i))[I(p, i)], Queue(P(q, j))[I(q, j)])
    BY <1>6, <1>8
  <2>2. P(p, i) = P(q, j) /\ I(p, i) = I(q, j)
    BY <1>6, <2>1 DEF OneDelta
  <2> QED
    BY <1>7, <2>2
<1>9. OneDelta'
  BY <1>8 DEF OneDelta, SameDelta
<1> QED
  BY <1>5, <1>9

\* The loop takes the first envelope of the channel: no other one that is still
\* on its way is a delta of the same version.
LEMMA SendDeltas ==
  ASSUME TypeOK, OneDelta, LoopSend
  PROVE  /\ InFlight = InFlight' \cup {Head(chan)}
         /\ \A e \in InFlight' : ~ SameDelta(Head(chan), e)
         /\ OneDelta'
<1>1. chan' = Tail(chan) /\ chan # << >> /\ outbox' = outbox /\ chan \in Seq(EnvelopeType)
  BY DEF LoopSend, TypeOK
<1>2. /\ Len(chan) \in Nat /\ Len(chan) > 0 /\ Head(chan) = chan[1]
      /\ DOMAIN chan' = 1..(Len(chan) - 1) /\ DOMAIN chan = 1..Len(chan)
      /\ \A i \in 1..(Len(chan) - 1) : chan'[i] = chan[i + 1]
      /\ Range(chan) = Range(chan') \cup {Head(chan)}
  BY <1>1, TailShape
<1>3. InFlight = InFlight' \cup {Head(chan)}
  BY <1>1, <1>2 DEF InFlight
<1> DEFINE I(p, i) == IF p = NoTask THEN i + 1 ELSE i
<1>4. ASSUME NEW p \in Places, NEW i \in DOMAIN Queue(p)'
      PROVE  /\ I(p, i) \in DOMAIN Queue(p) /\ Queue(p)'[i] = Queue(p)[I(p, i)]
             /\ i \in Nat /\ (p = NoTask => I(p, i) # 1)
  <2>1. CASE p = NoTask
    BY <1>1, <1>2, <1>4, <2>1 DEF Queue, Places
  <2>2. CASE p # NoTask
    <3>1. Queue(p)' = Queue(p) /\ I(p, i) = i
      BY <1>1, <2>2 DEF Queue, Places
    <3> QED
      BY <1>4, <2>2, <3>1, QueueTyped
  <2> QED
    BY <2>1, <2>2
<1>5. ASSUME NEW p \in Places, NEW q \in Places,
             NEW i \in DOMAIN Queue(p)', NEW j \in DOMAIN Queue(q)',
             SameDelta(Queue(p)'[i], Queue(q)'[j])
      PROVE  p = q /\ i = j
  <2>1. p = q /\ I(p, i) = I(q, j)
    BY <1>4, <1>5 DEF OneDelta
  <2> QED
    BY <1>4, <2>1
<1>6. OneDelta'
  BY <1>5 DEF OneDelta, SameDelta
<1>7. ASSUME NEW e \in InFlight', SameDelta(Head(chan), e)
      PROVE  FALSE
  <2>1. PICK p \in Places : e \in Range(Queue(p)')
    <3>1. /\ Queue(NoTask)' = chan' /\ NoTask \in Places
          /\ \A u \in Tasks : u \in Places /\ Queue(u)' = outbox'[u]
      BY HostAssumption DEF Queue, Places
    <3>2. e \in Range(chan') \/ \E u \in Tasks : e \in Range(outbox'[u])
      BY <1>7 DEF InFlight
    <3> QED
      BY <3>1, <3>2
  <2>2. PICK i \in DOMAIN Queue(p)' : e = Queue(p)'[i]
    BY <2>1 DEF Range
  <2>3. Queue(NoTask) = chan /\ NoTask \in Places /\ 1 \in DOMAIN chan
    BY <1>2 DEF Queue, Places
  <2>4. SameDelta(Queue(NoTask)[1], Queue(p)[I(p, i)])
    BY <1>2, <1>4, <1>7, <2>2, <2>3
  <2>5. NoTask = p /\ 1 = I(p, i)
    BY <1>4, <2>3, <2>4 DEF OneDelta
  <2> QED
    BY <1>4, <2>5
<1> QED
  BY <1>3, <1>6, <1>7

\* The deltas of a commit carry the versions that follow its base, one each.
LEMMA EnvelopesShape ==
  ASSUME TypeOK, StoreInv, RoomForSnapshots, NEW t \in Tasks, Commit(t)
  PROVE  LET es == Envelopes(t)
         IN /\ DOMAIN es = 1..(1 + Len(muts[t])) /\ Len(muts[t]) \in Nat
            /\ es[1].type = "reply"
            /\ \A i \in 2..(1 + Len(muts[t])) :
                 es[i].type = "delta" /\ es[i].version = base[t] + (i - 1)
<1> DEFINE r == Reply(req[t], "ok", view[t].version,
                      IF req[t].op = "snapshot" THEN view[t].rows ELSE EmptyRows)
<1>1. /\ req[t] \in Requests /\ view[t] \in DbType /\ muts[t] \in Seq(MutationType)
      /\ Len(muts[t]) \in Nat
  BY DEF TypeOK
<1>2. RowCount(view[t].rows) <= MaxSnapshotRows
  <2>1. {k \in Keys : view[t].rows[k] # NoValue} \subseteq Keys
    OBVIOUS
  <2>2. /\ IsFiniteSet(Keys)
        /\ RowCount(view[t].rows) <= Cardinality(Keys)
        /\ RowCount(view[t].rows) \in Nat /\ Cardinality(Keys) \in Nat
    BY <2>1, FS_Subset, FS_CardinalityType DEF RoomForSnapshots, RowCount
  <2> QED
    BY <2>2, HostAssumption DEF RoomForSnapshots
<1>3. RowCount(view[t].rows) \in Nat /\ MaxSnapshotRows \in Nat
  <2>1. {k \in Keys : view[t].rows[k] # NoValue} \subseteq Keys
    OBVIOUS
  <2> QED
    BY <2>1, FS_Subset, FS_CardinalityType, HostAssumption DEF RoomForSnapshots, RowCount
<1>4. Envelopes(t) = <<r>> \o Deltas(muts[t])
  BY <1>2, <1>3 DEF Envelopes
<1>5. <<r>> \in Seq(EnvelopeType) /\ r.type = "reply"
  BY <1>1, ReplyType, EmptyDbType DEF DbType, Reply
<1> HIDE DEF r
<1>6. /\ Deltas(muts[t]) \in Seq(EnvelopeType)
      /\ Len(Deltas(muts[t])) = Len(muts[t])
      /\ \A i \in 1..Len(muts[t]) : Deltas(muts[t])[i] = Delta(muts[t][i])
  BY <1>1, DeltasType
<1>7. /\ DOMAIN Envelopes(t) = 1..(1 + Len(muts[t]))
      /\ Envelopes(t)[1] = r
      /\ \A i \in 2..(1 + Len(muts[t])) : Envelopes(t)[i] = Deltas(muts[t])[i - 1]
  BY <1>1, <1>4, <1>5, <1>6, ConcatProperties, LenProperties
<1>8. \A j \in 1..Len(muts[t]) : muts[t][j].version = base[t] + j
  BY DEF StoreInv, TxInv, Commit, HasSnapshot
<1>9. ASSUME NEW i \in 2..(1 + Len(muts[t]))
      PROVE  Envelopes(t)[i].type = "delta" /\ Envelopes(t)[i].version = base[t] + (i - 1)
  <2>1. i - 1 \in 1..Len(muts[t])
    BY <1>1
  <2>2. Envelopes(t)[i] = Delta(muts[t][i - 1])
    BY <1>6, <1>7, <2>1
  <2> QED
    BY <1>8, <2>1, <2>2 DEF Delta
<1> QED
  BY <1>1, <1>5, <1>7, <1>9

\* The steps of the handlers, the loop and the process never announce a version
\* twice and never leave a committed one behind.
LEMMA DeltaInvStep ==
  ASSUME TypeOK, StoreInv, RoomForSnapshots, DeltaInv, [HostNext]_hostVars
  PROVE  DeltaInv'
<1>0. /\ OneDelta /\ OnlySendersWait /\ Announced \subseteq 1..Len(log)
      /\ AnnouncedExactlyOnce
      /\ \A e \in InFlight : e.type = "delta" => e.version \in 1..Len(log)
  BY DEF DeltaInv, StoreInv, DeltasAreCommitted
<1>1. ASSUME UNCHANGED <<log, published, lost>>, OneDelta', OnlySendersWait',
             InFlight \subseteq InFlight',
             \A e \in InFlight' : e.type = "delta" => e \in InFlight
      PROVE  DeltaInv'
  <2>1. Announced' = Announced
    BY <1>1 DEF Announced
  <2> QED
    BY <1>0, <1>1, <2>1 DEF DeltaInv, AnnouncedExactlyOnce
<1>2. ASSUME UNCHANGED <<log, published, lost, chan, outbox>>,
             \A t \in Tasks : pc[t] = "sending" => pc'[t] = "sending"
      PROVE  DeltaInv'
  <2>1. InFlight' = InFlight
    BY <1>2 DEF InFlight
  <2>2. OneDelta'
    <3>1. \A p : Queue(p)' = Queue(p)
      BY <1>2 DEF Queue
    <3> QED
      BY <1>0, <3>1 DEF OneDelta, SameDelta
  <2>3. OnlySendersWait'
    BY <1>0, <1>2 DEF OnlySendersWait
  <2> QED
    BY <1>1, <1>2, <2>1, <2>2, <2>3
<1>3. ASSUME NEW t \in Tasks, NEW es, Answer(t, es), UNCHANGED chan, pc[t] # "sending"
      PROVE  OnlySendersWait' /\ outbox[t] = << >>
  <2>1. pc'[t] = "sending" /\ \A u \in Tasks \ {t} : pc'[u] = pc[u] /\ outbox'[u] = outbox[u]
    BY <1>3 DEF Answer, TypeOK
  <2> QED
    BY <1>0, <1>3, <2>1 DEF OnlySendersWait
<1>4. ASSUME NEW t \in Tasks, NEW r, Answer(t, <<r>>),
             UNCHANGED <<log, published, lost, chan>>,
             r.type = "reply", pc[t] # "sending"
      PROVE  DeltaInv'
  <2>1. OnlySendersWait' /\ outbox[t] = << >>
    BY <1>3, <1>4
  <2>2. DOMAIN <<r>> = {1} /\ Range(<<r>>) = {r} /\ <<r>>[1] = r
    BY DEF Range
  <2>3. InFlight' = InFlight \cup {r} /\ OneDelta'
    <3>1. /\ DOMAIN <<r>> \subseteq Nat
          /\ \A i, j \in DOMAIN <<r>> : i = j
          /\ \A i \in DOMAIN <<r>>, e \in InFlight : ~ SameDelta(<<r>>[i], e)
      BY <1>4, <2>2 DEF SameDelta
    <3> QED
      BY <1>0, <1>4, <2>1, <2>2, <3>1, AnswerDeltas
  <2> QED
    BY <1>1, <1>4, <2>1, <2>3
<1>5. ASSUME NEW t \in Tasks, Refuse(t) \/ Get(t) \/ LoseRace(t) \/ Fail(t)
      PROVE  DeltaInv'
  <2>1. pc[t] # "sending"
    BY <1>5 DEF Refuse, Get, LoseRace, Fail, InTx
  <2> QED
    BY <1>4, <1>5, <2>1 DEF Refuse, Get, LoseRace, Fail, ErrorReply, Reply, ghostVars
<1>6. ASSUME NEW t \in Tasks, Commit(t)
      PROVE  DeltaInv'
  <2> DEFINE es == Envelopes(t)
             n == Len(muts[t])
  <2>1. /\ Answer(t, es) /\ UNCHANGED <<chan, published, lost>> /\ pc[t] = "commit"
        /\ log' = log \o muts[t] /\ HasSnapshot(t)
    BY <1>6 DEF Commit, ghostVars, HasSnapshot
  <2>2. /\ DOMAIN es = 1..(1 + n) /\ n \in Nat /\ es[1].type = "reply"
        /\ \A i \in 2..(1 + n) : es[i].type = "delta" /\ es[i].version = base[t] + (i - 1)
    BY <1>6, EnvelopesShape
  <2>3. /\ log \in Seq(MutationType) /\ muts[t] \in Seq(MutationType)
        /\ Len(log) \in Nat /\ Len(log') = Len(log) + n
    BY <2>1, ConcatProperties DEF TypeOK
  <2>4. n > 0 => base[t] = Len(log)
    BY <2>1, <2>3, EmptySeq DEF StoreInv, StoreMatchesHistory, TxInv
  <2>5. OnlySendersWait' /\ outbox[t] = << >>
    BY <1>3, <2>1
  <2> HIDE DEF es, n
  <2>6. ASSUME NEW i \in DOMAIN es, es[i].type = "delta"
        PROVE  i \in 2..(1 + n) /\ es[i].version = Len(log) + (i - 1)
               /\ es[i].version > Len(log) /\ es[i].version <= Len(log')
    <3>1. i \in 2..(1 + n)
      BY <2>2, <2>6
    <3>2. es[i].version = base[t] + (i - 1)
      BY <2>2, <3>1
    <3> QED
      BY <2>2, <2>3, <2>4, <3>1, <3>2, SMTT(30)
  <2>7. /\ DOMAIN es \subseteq Nat
        /\ \A i, j \in DOMAIN es : SameDelta(es[i], es[j]) => i = j
    <3> SUFFICES ASSUME NEW i \in DOMAIN es, NEW j \in DOMAIN es, SameDelta(es[i], es[j])
                 PROVE  i = j
      BY <2>2
    <3>1. es[i].version = Len(log) + (i - 1) /\ es[j].version = Len(log) + (j - 1)
          /\ i \in Nat /\ j \in Nat
      BY <2>2, <2>6 DEF SameDelta
    <3>2. es[i].version = es[j].version
      BY DEF SameDelta
    <3>3. Len(log) + (i - 1) = Len(log) + (j - 1)
      BY <3>1, <3>2
    <3> HIDE DEF es
    <3> QED
      BY <2>3, <3>1, <3>3
  <2>8. \A i \in DOMAIN es, e \in InFlight : ~ SameDelta(es[i], e)
    <3> SUFFICES ASSUME NEW i \in DOMAIN es, NEW e \in InFlight, SameDelta(es[i], e)
                 PROVE  FALSE
      OBVIOUS
    <3>1. es[i].version > Len(log) /\ e.version \in 1..Len(log) /\ es[i].version = e.version
      BY <1>0, <2>6 DEF SameDelta
    <3> QED
      BY <2>3, <3>1
  <2>9. InFlight' = InFlight \cup Range(es) /\ OneDelta'
    BY <1>0, <2>1, <2>5, <2>7, <2>8, AnswerDeltas
  <2>10. Announced' = Announced
    BY <2>1 DEF Announced
  <2>11. Announced \subseteq 1..Len(log')
    BY <1>0, <2>2, <2>3
  <2>12. ASSUME NEW v \in 1..Len(log')
         PROVE  \/ v \in Announced' \cup lost'
                \/ \E e \in InFlight' : e.type = "delta" /\ e.version = v
    <3>1. CASE v \in 1..Len(log)
      BY <1>0, <2>1, <2>9, <2>10, <3>1 DEF AnnouncedExactlyOnce
    <3>2. CASE v \notin 1..Len(log)
      <4> DEFINE i == v - Len(log) + 1
      <4>0. v \in Int /\ v > Len(log) /\ v <= Len(log) + n
        BY <2>2, <2>3, <3>2
      <4>1. i \in 2..(1 + n) /\ v = Len(log) + (i - 1) /\ n > 0 /\ i \in DOMAIN es
        <5>1. i \in Int /\ i >= 2 /\ i <= 1 + n /\ v = Len(log) + (i - 1) /\ n > 0
          BY <2>2, <2>3, <4>0
        <5> QED
          BY <2>2, <5>1
      <4>2. es[i].type = "delta" /\ es[i].version = v
        BY <2>2, <2>4, <4>1
      <4> HIDE DEF i
      <4>3. es[i] \in InFlight'
        BY <2>9, <4>1 DEF Range
      <4> QED
        BY <4>2, <4>3
    <3> QED
      BY <3>1, <3>2
  <2>13. ASSUME NEW e \in InFlight', e.type = "delta"
         PROVE  e.version \notin Announced'
    <3>1. CASE e \in InFlight
      BY <1>0, <2>10, <2>13, <3>1 DEF AnnouncedExactlyOnce
    <3>2. CASE e \in Range(es)
      <4>1. PICK i \in DOMAIN es : e = es[i]
        BY <3>2 DEF Range
      <4>2. e.version > Len(log)
        BY <2>6, <2>13, <4>1
      <4>3. \A v \in Announced : v \in Nat /\ v <= Len(log)
        BY <1>0, <2>3
      <4> QED
        BY <2>3, <2>10, <4>2, <4>3
    <3> QED
      BY <2>9, <3>1, <3>2
  <2>14. AnnouncedExactlyOnce'
    BY <1>0, <2>1, <2>12, <2>13 DEF AnnouncedExactlyOnce
  <2> QED
    BY <2>5, <2>9, <2>10, <2>11, <2>14 DEF DeltaInv
<1>7. ASSUME NEW t \in Tasks, Push(t)
      PROVE  DeltaInv'
  <2>1. InFlight' = InFlight /\ OneDelta'
    BY <1>0, <1>7, PushDeltas
  <2>2. OnlySendersWait'
    <3>1. /\ outbox[t] \in Seq(EnvelopeType) /\ outbox[t] # << >> /\ pc[t] = "sending"
          /\ outbox' = [outbox EXCEPT ![t] = Tail(outbox[t])]
      BY <1>7 DEF Push, TypeOK
    <3>2. IF Len(outbox[t]) = 1 THEN pc' = [pc EXCEPT ![t] = "idle"] ELSE pc' = pc
      BY <1>7 DEF Push
    <3>3. Len(outbox[t]) = 1 => Tail(outbox[t]) = << >>
      <4> SUFFICES ASSUME Len(outbox[t]) = 1 PROVE Tail(outbox[t]) = << >>
        OBVIOUS
      <4>1. Tail(outbox[t]) \in Seq(EnvelopeType) /\ Len(Tail(outbox[t])) = 0
        BY <3>1, HeadTailProperties
      <4> QED
        BY <4>1, EmptySeq
    <3>4. ASSUME NEW u \in Tasks, pc'[u] # "sending"
          PROVE  outbox'[u] = << >>
      <4>1. CASE u = t
        BY <3>1, <3>2, <3>3, <3>4, <4>1 DEF TypeOK
      <4>2. CASE u # t
        <5>1. pc'[u] = pc[u] /\ outbox'[u] = outbox[u]
          BY <3>1, <3>2, <4>2 DEF TypeOK
        <5> QED
          BY <1>0, <3>4, <5>1 DEF OnlySendersWait
      <4> QED
        BY <4>1, <4>2
    <3> QED
      BY <3>4 DEF OnlySendersWait
  <2>3. UNCHANGED <<log, published, lost>>
    BY <1>7 DEF Push, ghostVars
  <2> QED
    BY <1>1, <2>1, <2>2, <2>3
<1>8. CASE LoopSend
  <2>1. /\ InFlight = InFlight' \cup {Head(chan)}
        /\ \A e \in InFlight' : ~ SameDelta(Head(chan), e)
        /\ OneDelta'
    BY <1>0, <1>8, SendDeltas
  <2>2. UNCHANGED <<log, lost, pc, outbox>>
    BY <1>8 DEF LoopSend
  <2>3. OnlySendersWait'
    BY <1>0, <2>2 DEF OnlySendersWait
  <2>4. CASE Head(chan).type # "delta"
    <3>1. published' = published
      BY <1>8, <2>4 DEF LoopSend
    <3>2. Announced' = Announced
      BY <3>1 DEF Announced
    <3> QED
      BY <1>0, <2>1, <2>2, <2>3, <2>4, <3>1, <3>2 DEF DeltaInv, AnnouncedExactlyOnce
  <2>5. CASE Head(chan).type = "delta"
    <3> DEFINE v == Head(chan).version
    <3>1. published' = Append(published, v)
      BY <1>8, <2>5 DEF LoopSend
    <3>2. v \in 1..Len(log) /\ v \notin Announced /\ v \in Nat
      BY <1>0, <2>1, <2>5 DEF AnnouncedExactlyOnce
    <3>3. published \in Seq(Nat)
      BY DEF TypeOK
    <3>4. \A e \in InFlight' : e.type = "delta" => e.version # v
      BY <2>1, <2>5 DEF SameDelta
    <3>5. \A e \in InFlight : e \in InFlight' \/ e.version = v
      BY <2>1
    <3> HIDE DEF v
    <3>6. /\ Len(published) \in Nat
          /\ DOMAIN published' = 1..(Len(published) + 1)
          /\ DOMAIN published = 1..Len(published)
          /\ \A i \in 1..Len(published) : published'[i] = published[i]
          /\ published'[Len(published) + 1] = v
          /\ Announced' = Announced \cup {v}
      BY <3>1, <3>2, <3>3, AppendShape DEF Announced
    <3>7. \A i \in DOMAIN published : published[i] # v
      BY <3>2 DEF Announced, Range
    <3>8. \A i, j \in DOMAIN published' : published'[i] = published'[j] => i = j
      <4> SUFFICES ASSUME NEW i \in DOMAIN published', NEW j \in DOMAIN published',
                          published'[i] = published'[j]
                   PROVE  i = j
        OBVIOUS
      <4>1. \A k \in DOMAIN published' : k \in DOMAIN published \/ k = Len(published) + 1
        BY <3>6
      <4>2. CASE i \in DOMAIN published /\ j \in DOMAIN published
        BY <1>0, <3>6, <4>2 DEF AnnouncedExactlyOnce
      <4> QED
        BY <3>6, <3>7, <4>1, <4>2
    <3>9. ASSUME NEW w \in 1..Len(log')
          PROVE  \/ w \in Announced' \cup lost'
                 \/ \E e \in InFlight' : e.type = "delta" /\ e.version = w
      <4>1. w \in 1..Len(log) /\ lost' = lost
        BY <2>2
      <4> QED
        BY <1>0, <3>5, <3>6, <4>1 DEF AnnouncedExactlyOnce
    <3>10. \A e \in InFlight' : e.type = "delta" => e.version \notin Announced'
      BY <1>0, <2>1, <3>4, <3>6 DEF AnnouncedExactlyOnce
    <3>11. AnnouncedExactlyOnce'
      BY <3>8, <3>9, <3>10 DEF AnnouncedExactlyOnce
    <3> QED
      BY <1>0, <2>1, <2>2, <2>3, <3>2, <3>6, <3>11 DEF DeltaInv
  <2> QED
    BY <2>4, <2>5
<1>9. CASE Crash
  <2>1. /\ chan' = << >> /\ \A u \in Tasks : outbox'[u] = << >>
        /\ UNCHANGED <<log, published>>
        /\ lost' = lost \cup DeltaVersions(chan)
                        \cup UNION {DeltaVersions(outbox[t]) : t \in Tasks}
    BY <1>9 DEF Crash
  <2>2. InFlight' = {}
    BY <2>1 DEF InFlight, Range
  <2>3. \A p \in Places : Queue(p)' = << >>
    BY <2>1 DEF Queue, Places
  <2>4. OneDelta' /\ OnlySendersWait'
    BY <2>1, <2>3 DEF OneDelta, OnlySendersWait
  <2>5. ASSUME NEW e \in InFlight, e.type = "delta"
        PROVE  e.version \in lost'
    <3>1. ASSUME NEW s, e \in Range(s) PROVE e.version \in DeltaVersions(s)
      BY <2>5, <3>1 DEF Range, DeltaVersions
    <3> QED
      BY <2>1, <3>1 DEF InFlight
  <2>6. Announced' = Announced /\ lost \subseteq lost'
    BY <2>1 DEF Announced
  <2>7. AnnouncedExactlyOnce'
    BY <1>0, <2>1, <2>2, <2>5, <2>6 DEF AnnouncedExactlyOnce
  <2> QED
    BY <1>0, <2>1, <2>4, <2>6, <2>7 DEF DeltaInv
<1>10. ASSUME NEW t \in Tasks, NEW r \in Requests, Accept(t, r)
       PROVE  DeltaInv'
  BY <1>2, <1>10 DEF Accept, ghostVars, TypeOK
<1>11. ASSUME NEW t \in Tasks,
              \/ Begin(t) \/ SelectStale(t) \/ PruneRow(t) \/ Upsert(t)
              \/ Delete(t) \/ ReadSnapshot(t)
       PROVE  DeltaInv'
  <2>1. /\ UNCHANGED <<log, published, lost, chan, outbox>>
        /\ pc[t] # "sending"
        /\ \A u \in Tasks \ {t} : pc'[u] = pc[u]
    BY <1>11 DEF Begin, SelectStale, PruneRow, Upsert, Delete, ReadSnapshot, ghostVars,
       TypeOK, PruneDone
  <2> QED
    BY <1>2, <2>1
<1>12. CASE Tick \/ UNCHANGED hostVars
  BY <1>2, <1>12 DEF Tick, hostVars, ghostVars
<1> QED
  BY <1>5, <1>6, <1>7, <1>8, <1>9, <1>10, <1>11, <1>12 DEF HostNext, TaskStep

LEMMA DeltaInvHolds ==
  ASSUME RoomForSnapshots
  PROVE  HostSpec => []DeltaInv
<1>1. HostInit => DeltaInv
  <2> SUFFICES ASSUME HostInit PROVE DeltaInv
    OBVIOUS
  <2>1. /\ chan = << >> /\ \A u \in Tasks : outbox[u] = << >>
        /\ published = << >> /\ log = << >>
    BY DEF HostInit
  <2>2. InFlight = {} /\ Announced = {} /\ \A p \in Places : Queue(p) = << >>
    BY <2>1 DEF InFlight, Announced, Range, Queue, Places
  <2> QED
    BY <2>1, <2>2 DEF DeltaInv, OneDelta, OnlySendersWait, AnnouncedExactlyOnce
<1>2. TypeOK /\ StoreInv /\ DeltaInv /\ [HostNext]_hostVars => DeltaInv'
  BY DeltaInvStep
<1> QED
  BY <1>1, <1>2, TypeCorrect, StoreInvHolds, PTL DEF HostSpec

\* With room for every snapshot, each committed mutation is announced exactly
\* once unless its delta died with the process: none is dropped by a failing
\* handler, sent twice, or still waiting after it was sent.
THEOREM DeltasAreAnnouncedOnce ==
  ASSUME RoomForSnapshots
  PROVE  HostSpec => []AnnouncedExactlyOnce
<1>1. DeltaInv => AnnouncedExactlyOnce
  BY DEF DeltaInv
<1> QED
  BY <1>1, DeltaInvHolds, PTL

-----------------------------------------------------------------------------
(* What a prune may remove *)

\* While nothing has been committed since the snapshot of a transaction, a row it
\* no longer shows is the one its caller deletes or a heartbeat that is expired
\* now, and so is every row it will still delete; a transaction without mutations
\* shows the database itself.
FreshInv(t) ==
  HasSnapshot(t) /\ base[t] = db.version =>
    /\ \A k \in Keys :
         db.rows[k] # NoValue /\ view[t].rows[k] = NoValue =>
           \/ pc[t] = "commit" /\ req[t].op = "del" /\ req[t].key = k
           \/ k \in HeartbeatKeys /\ db.at[k] < now - TTL
    /\ pc[t] = "reading" => \A k \in stale[t] : db.at[k] < now - TTL
    /\ muts[t] = << >> => view[t] = db

LEMMA AppendIsNotEmpty ==
  ASSUME NEW S, NEW s \in Seq(S), NEW x
  PROVE  Append(s, x) # << >>
<1>1. s \in Seq(S \cup {x}) /\ Len(s) \in Nat
  BY SeqDef
<1>2. Len(Append(s, x)) = Len(s) + 1
  BY <1>1, AppendProperties
<1> QED
  BY <1>1, <1>2

\* A write finds the database at the version of its transaction's snapshot.
LEMMA WriteIsCurrent ==
  ASSUME TypeOK, NEW t \in Tasks, TxInv(t), pc[t] = "reading", TakeLock(t)
  PROVE  HasSnapshot(t) /\ base[t] = db.version
  BY DEF TakeLock, MayWrite, TxInv, HasSnapshot

\* Only the commit of a transaction that has written changes the database.
LEMMA DbStep ==
  ASSUME TypeOK, StoreInv, \A t \in Tasks : FreshInv(t), [HostNext]_hostVars
  PROVE  \/ db' = db
         \/ \E t \in Tasks : /\ Commit(t) /\ writer = t /\ muts[t] # << >>
                             /\ db' = view[t] /\ base[t] = db.version
                             /\ HasSnapshot(t)
<1>1. ASSUME NEW t \in Tasks, Commit(t)
      PROVE  \/ db' = db
             \/ /\ writer = t /\ muts[t] # << >> /\ db' = view[t]
                /\ base[t] = db.version /\ HasSnapshot(t)
  <2>1. TxInv(t) /\ HasSnapshot(t)
    BY <1>1 DEF StoreInv, Commit, HasSnapshot
  <2>2. CASE writer # t
    BY <1>1, <2>2 DEF Commit
  <2>3. CASE writer = t
    <3>1. db' = view[t] /\ base[t] = db.version
      BY <1>1, <2>1, <2>3 DEF Commit, TxInv
    <3>2. muts[t] = << >> => view[t] = db
      BY <2>1, <3>1 DEF FreshInv
    <3> QED
      BY <2>1, <2>3, <3>1, <3>2
  <2> QED
    BY <2>2, <2>3
<1>2. ASSUME NEW t \in Tasks,
             \/ Refuse(t) \/ Get(t) \/ Begin(t) \/ SelectStale(t) \/ PruneRow(t)
             \/ Upsert(t) \/ Delete(t) \/ ReadSnapshot(t) \/ LoseRace(t)
             \/ Push(t) \/ Fail(t)
      PROVE  db' = db
  BY <1>2 DEF Refuse, Get, Begin, SelectStale, PruneRow, Upsert, Delete, ReadSnapshot,
     LoseRace, Push, Fail
<1>3. ASSUME NEW t \in Tasks, NEW r \in Requests, Accept(t, r)
      PROVE  db' = db
  BY <1>3 DEF Accept
<1>4. CASE Crash
  BY <1>4 DEF Crash, OpenPool, TypeOK, DbType
<1>5. CASE LoopSend \/ Tick \/ UNCHANGED hostVars
  BY <1>5 DEF LoopSend, Tick, hostVars
<1> QED
  BY <1>1, <1>2, <1>3, <1>4, <1>5 DEF HostNext, TaskStep

\* What a transaction shows stays explained, whatever step comes next.
LEMMA FreshStep ==
  ASSUME TypeOK, StoreInv, \A t \in Tasks : FreshInv(t), [HostNext]_hostVars
  PROVE  \A t \in Tasks : FreshInv(t)'
<1> SUFFICES ASSUME NEW u \in Tasks PROVE FreshInv(u)'
  OBVIOUS
<1>0. TxInv(u) /\ FreshInv(u) /\ now \in Nat /\ TTL \in Nat
  BY HostAssumption DEF StoreInv, TypeOK
<1>a. ASSUME ~ HasSnapshot(u)' PROVE FreshInv(u)'
  BY <1>a DEF FreshInv
<1>b. ASSUME pc'[u] = pc[u], req'[u] = req[u], view'[u] = view[u], base'[u] = base[u],
             stale'[u] = stale[u], muts'[u] = muts[u], db' = db,
             now' \in Nat, now' >= now
      PROVE  FreshInv(u)'
  <2> SUFFICES ASSUME HasSnapshot(u), base[u] = db.version
               PROVE  FreshInv(u)'
    BY <1>b DEF FreshInv, HasSnapshot
  <2>1. /\ \A k \in Keys :
             db.rows[k] # NoValue /\ view[u].rows[k] = NoValue =>
               \/ pc[u] = "commit" /\ req[u].op = "del" /\ req[u].key = k
               \/ k \in HeartbeatKeys /\ db.at[k] < now - TTL
        /\ pc[u] = "reading" => \A k \in stale[u] : db.at[k] < now - TTL
        /\ muts[u] = << >> => view[u] = db
    BY <1>0 DEF FreshInv
  <2>2. ASSUME NEW k \in Keys, db.at[k] < now - TTL PROVE db.at[k] < now' - TTL
    <3>1. db.at[k] \in Nat
      BY DEF TypeOK, DbType
    <3> QED
      BY <1>0, <1>b, <2>2, <3>1
  <2>3. stale[u] \subseteq Keys
    BY HostAssumption DEF TypeOK
  <2> QED
    BY <1>b, <2>1, <2>2, <2>3 DEF FreshInv
<1>1. ASSUME NEW t \in Tasks, NEW r \in Requests, Accept(t, r) PROVE FreshInv(u)'
  <2>1. u = t => pc'[u] = "accepted"
    BY <1>1 DEF Accept, TypeOK
  <2>2. u # t => pc'[u] = pc[u] /\ req'[u] = req[u]
    BY <1>1 DEF Accept, TypeOK
  <2> QED
    BY <1>0, <1>1, <1>a, <1>b, <2>1, <2>2 DEF Accept, txVars, HasSnapshot
<1>2. ASSUME NEW t \in Tasks, NEW es, Answer(t, es), UNCHANGED <<db, req, now>>
      PROVE  FreshInv(u)'
  <2>1. u = t => pc'[u] = "sending"
    BY <1>2 DEF Answer, TypeOK
  <2>2. u # t => /\ pc'[u] = pc[u] /\ view'[u] = view[u] /\ base'[u] = base[u]
                 /\ stale'[u] = stale[u] /\ muts'[u] = muts[u]
    BY <1>2, TxEnds
  <2> QED
    BY <1>0, <1>2, <1>a, <1>b, <2>1, <2>2 DEF HasSnapshot
<1>3. ASSUME NEW t \in Tasks, Begin(t) PROVE FreshInv(u)'
  <2>1. u = t => pc'[u] = "begun"
    BY <1>3 DEF Begin, TypeOK
  <2>2. u # t => pc'[u] = pc[u]
    BY <1>3 DEF Begin, TypeOK
  <2> QED
    BY <1>0, <1>3, <1>a, <1>b, <2>1, <2>2 DEF Begin, txVars, boundVars, HasSnapshot
<1>4. ASSUME NEW t \in Tasks, SelectStale(t) PROVE FreshInv(u)'
  <2>1. UNCHANGED <<db, req, muts, now>>
    BY <1>4 DEF SelectStale, boundVars
  <2>2. CASE u = t
    <3>1. view'[u] = db /\ pc'[u] = "reading" /\ stale'[u] = Expired(db)
      BY <1>4, <2>2 DEF SelectStale, TypeOK
    <3> QED
      BY <2>1, <3>1 DEF FreshInv, Expired
  <2>3. CASE u # t
    <3>1. pc'[u] = pc[u] /\ view'[u] = view[u] /\ base'[u] = base[u] /\ stale'[u] = stale[u]
      BY <1>4, <2>3 DEF SelectStale, TypeOK
    <3> QED
      BY <1>0, <1>b, <2>1, <3>1
  <2> QED
    BY <2>2, <2>3
<1>5. ASSUME NEW t \in Tasks, PruneRow(t) PROVE FreshInv(u)'
  <2> DEFINE k == FirstKey(stale[t])
             d == DeleteRow(view[t], k)
             m == Mutation("del", k, NoValue, d)
  <2>1. /\ UNCHANGED <<db, req, now, pc>> /\ pc[t] = "reading" /\ TakeLock(t)
        /\ view' = [view EXCEPT ![t] = d]
        /\ muts' = [muts EXCEPT ![t] = Append(muts[t], m)]
        /\ stale' = [stale EXCEPT ![t] = stale[t] \ {k}]
    BY <1>5 DEF PruneRow, boundVars
  <2>2. CASE u = t
    <3>1. k \in stale[t] /\ k \in HeartbeatKeys /\ stale[t] \subseteq Keys
      BY <1>5, FirstKeyIsSelected, HostAssumption DEF PruneRow, TypeOK
    <3>2. HasSnapshot(t) /\ base[t] = db.version
      BY <1>0, <2>1, <2>2, WriteIsCurrent
    <3>3. \A j \in Keys : d.rows[j] = IF j = k THEN NoValue ELSE view[t].rows[j]
      BY DEF DeleteRow, TypeOK, DbType
    <3>4. Append(muts[t], m) # << >>
      <4> HIDE DEF m
      <4> QED
        BY AppendIsNotEmpty DEF TypeOK
    <3> HIDE DEF k, d, m
    <3>5. view'[t] = d /\ muts'[t] # << >> /\ stale'[t] \subseteq stale[t]
      BY <2>1, <3>4 DEF TypeOK
    <3>6. /\ \A j \in Keys :
               db.rows[j] # NoValue /\ view[t].rows[j] = NoValue =>
                 j \in HeartbeatKeys /\ db.at[j] < now - TTL
          /\ \A j \in stale[t] : db.at[j] < now - TTL
      BY <1>0, <2>1, <2>2, <3>2 DEF FreshInv
    <3> QED
      BY <2>1, <2>2, <3>1, <3>3, <3>5, <3>6 DEF FreshInv
  <2>3. CASE u # t
    <3> HIDE DEF k, d, m
    <3>1. /\ view'[u] = view[u] /\ muts'[u] = muts[u] /\ stale'[u] = stale[u]
          /\ base'[u] = base[u]
      BY <2>1, <2>3, LockIsFree DEF TypeOK
    <3> QED
      BY <1>0, <1>b, <2>1, <3>1
  <2> QED
    BY <2>2, <2>3
<1>6. ASSUME NEW t \in Tasks, Upsert(t) PROVE FreshInv(u)'
  <2> DEFINE k == req[t].key
             d == PutRow(Source(t), k, req[t].value, since[t])
             m == Mutation("set", k, req[t].value, d)
  <2>1. /\ UNCHANGED <<db, req, now, stale>> /\ TakeLock(t)
        /\ pc[t] \in {"begun", "reading"} /\ req[t].op = "set"
        /\ view' = [view EXCEPT ![t] = d]
        /\ muts' = [muts EXCEPT ![t] = Append(muts[t], m)]
        /\ pc' = [pc EXCEPT ![t] = "commit"]
    BY <1>6 DEF Upsert, boundVars, PruneDone
  <2>2. CASE u = t
    <3>1. req[t].value # NoValue /\ Source(t) \in DbType
      BY <2>1, RequestFields, HostAssumption DEF TypeOK, Source
    <3>2. \A j \in Keys : d.rows[j] = IF j = k THEN req[t].value ELSE Source(t).rows[j]
      BY <3>1 DEF PutRow, DbType
    <3>3. \A j \in Keys :
            db.rows[j] # NoValue /\ Source(t).rows[j] = NoValue =>
              j \in HeartbeatKeys /\ db.at[j] < now - TTL
      <4>1. CASE pc[t] = "begun"
        BY <4>1 DEF Source
      <4>2. CASE pc[t] = "reading"
        <5>1. HasSnapshot(t) /\ base[t] = db.version /\ Source(t) = view[t]
          BY <1>0, <2>1, <2>2, <4>2, WriteIsCurrent DEF Source
        <5> QED
          BY <1>0, <2>2, <4>2, <5>1 DEF FreshInv
      <4> QED
        BY <2>1, <4>1, <4>2
    <3>4. Append(muts[t], m) # << >>
      <4> HIDE DEF m
      <4> QED
        BY AppendIsNotEmpty DEF TypeOK
    <3> HIDE DEF k, d, m
    <3>5. view'[t] = d /\ muts'[t] # << >> /\ pc'[t] = "commit"
      BY <2>1, <3>4 DEF TypeOK
    <3> QED
      BY <2>1, <2>2, <3>1, <3>2, <3>3, <3>5 DEF FreshInv
  <2>3. CASE u # t
    <3> HIDE DEF k, d, m
    <3>1. /\ view'[u] = view[u] /\ muts'[u] = muts[u] /\ pc'[u] = pc[u]
          /\ base'[u] = base[u]
      BY <2>1, <2>3, LockIsFree DEF TypeOK
    <3> QED
      BY <1>0, <1>b, <2>1, <3>1
  <2> QED
    BY <2>2, <2>3
<1>7. ASSUME NEW t \in Tasks, Delete(t) PROVE FreshInv(u)'
  <2> DEFINE k == req[t].key
             d == DeleteRow(db, k)
             m == Mutation("del", k, NoValue, d)
  <2>1. /\ UNCHANGED <<db, req, now, stale>> /\ TakeLock(t)
        /\ pc[t] = "begun" /\ req[t].op = "del"
        /\ pc' = [pc EXCEPT ![t] = "commit"]
        /\ \/ /\ view' = [view EXCEPT ![t] = d]
              /\ muts' = [muts EXCEPT ![t] = Append(muts[t], m)]
           \/ view' = [view EXCEPT ![t] = db] /\ muts' = muts
    BY <1>7 DEF Delete, boundVars
  <2>2. CASE u = t
    <3>1. \A j \in Keys : d.rows[j] = IF j = k THEN NoValue ELSE db.rows[j]
      BY DEF DeleteRow, TypeOK, DbType
    <3>2. Append(muts[t], m) # << >>
      <4> HIDE DEF m
      <4> QED
        BY AppendIsNotEmpty DEF TypeOK
    <3> HIDE DEF d, m
    <3>3. /\ pc'[t] = "commit" /\ req'[t].op = "del" /\ req'[t].key = k
          /\ \/ view'[t] = d /\ muts'[t] # << >>
             \/ view'[t] = db
      BY <2>1, <3>2 DEF TypeOK
    <3> QED
      BY <2>1, <2>2, <3>1, <3>3 DEF FreshInv
  <2>3. CASE u # t
    <3> HIDE DEF k, d, m
    <3>1. /\ view'[u] = view[u] /\ muts'[u] = muts[u] /\ pc'[u] = pc[u]
          /\ base'[u] = base[u]
      BY <2>1, <2>3, LockIsFree DEF TypeOK
    <3> QED
      BY <1>0, <1>b, <2>1, <3>1
  <2> QED
    BY <2>2, <2>3
<1>8. ASSUME NEW t \in Tasks, ReadSnapshot(t) PROVE FreshInv(u)'
  <2>1. /\ UNCHANGED <<db, req, now, stale, muts>> /\ req[t].op = "snapshot"
        /\ pc[t] \in {"begun", "reading"}
        /\ view' = [view EXCEPT ![t] = Source(t)]
        /\ base' = [base EXCEPT ![t] = IF pc[t] = "begun" THEN db.version ELSE base[t]]
        /\ pc' = [pc EXCEPT ![t] = "commit"]
    BY <1>8 DEF ReadSnapshot, boundVars, PruneDone
  <2>2. CASE u = t
    <3>1. /\ view'[t] = Source(t) /\ pc'[t] = "commit"
          /\ base'[t] = IF pc[t] = "begun" THEN db.version ELSE base[t]
      BY <2>1 DEF TypeOK
    <3>2. CASE pc[t] = "begun"
      BY <2>1, <2>2, <3>1, <3>2 DEF Source, FreshInv
    <3>3. CASE pc[t] = "reading"
      <4>1. view'[t] = view[t] /\ base'[t] = base[t] /\ HasSnapshot(t)
        BY <3>1, <3>3 DEF Source, HasSnapshot
      <4> QED
        BY <1>0, <2>1, <2>2, <3>1, <3>3, <4>1 DEF FreshInv
    <3> QED
      BY <2>1, <3>2, <3>3
  <2>3. CASE u # t
    <3>1. view'[u] = view[u] /\ pc'[u] = pc[u] /\ base'[u] = base[u]
      BY <2>1, <2>3 DEF TypeOK
    <3> QED
      BY <1>0, <1>b, <2>1, <3>1
  <2> QED
    BY <2>2, <2>3
<1>9. ASSUME NEW t \in Tasks, Refuse(t) \/ Get(t) \/ LoseRace(t) \/ Fail(t)
      PROVE  FreshInv(u)'
  BY <1>2, <1>9 DEF Refuse, Get, LoseRace, Fail, boundVars
<1>10. ASSUME NEW t \in Tasks, Commit(t) PROVE FreshInv(u)'
  <2>1. Answer(t, Envelopes(t)) /\ UNCHANGED <<req, now>>
    BY <1>10 DEF Commit, boundVars
  <2>2. CASE db' = db
    BY <1>2, <2>1, <2>2
  <2>3. CASE db' # db
    <3>1. /\ muts[t] # << >> /\ db' = view[t] /\ base[t] = db.version /\ writer = t
          /\ HasSnapshot(t)
      <4>1. TxInv(t) /\ HasSnapshot(t)
        BY <1>10 DEF StoreInv, Commit, HasSnapshot
      <4>2. writer = t
        BY <1>10, <2>3 DEF Commit
      <4>3. db' = view[t] /\ base[t] = db.version
        BY <1>10, <4>1, <4>2 DEF Commit, TxInv
      <4>4. muts[t] = << >> => view[t] = db
        BY <4>1, <4>3 DEF FreshInv
      <4> QED
        BY <2>3, <4>1, <4>2, <4>3, <4>4
    <3>2. Len(muts[t]) \in Nat /\ Len(muts[t]) > 0 /\ db.version \in Nat
      BY <3>1, EmptySeq DEF TypeOK, DbType
    <3>3. db'.version = db.version + Len(muts[t])
      BY <3>1 DEF StoreInv, TxInv
    <3>4. CASE u = t
      BY <1>a, <2>1, <3>4 DEF Answer, TypeOK, HasSnapshot
    <3>5. CASE u # t
      <4>1. base'[u] = base[u] /\ pc'[u] = pc[u]
        BY <2>1, <3>5, TxEnds
      <4>2. HasSnapshot(u) => base[u] <= db.version /\ base[u] \in Nat
        BY <1>0 DEF TxInv, StoreInv, StoreMatchesHistory, TypeOK
      <4>3. HasSnapshot(u)' => base'[u] # db'.version
        BY <3>2, <3>3, <4>1, <4>2 DEF HasSnapshot
      <4> QED
        BY <4>3 DEF FreshInv
    <3> QED
      BY <3>4, <3>5
  <2> QED
    BY <2>2, <2>3
<1>11. ASSUME NEW t \in Tasks, Push(t) PROVE FreshInv(u)'
  <2>1. /\ pc[t] = "sending" /\ UNCHANGED <<db, view, base, stale, muts, now>>
        /\ pc' = pc \/ pc' = [pc EXCEPT ![t] = "idle"]
        /\ req' = req \/ req' = [req EXCEPT ![t] = NoRequest]
    BY <1>11 DEF Push, txVars, boundVars
  <2>2. u # t => pc'[u] = pc[u] /\ req'[u] = req[u]
    BY <2>1 DEF TypeOK
  <2>3. u = t => pc'[u] \in {"sending", "idle"}
    BY <2>1 DEF TypeOK
  <2> QED
    BY <1>0, <1>a, <1>b, <2>1, <2>2, <2>3 DEF HasSnapshot
<1>12. CASE LoopSend \/ UNCHANGED hostVars
  BY <1>0, <1>b, <1>12 DEF LoopSend, hostVars, txVars, boundVars
<1>13. CASE Tick
  <2>1. now' = now + 1 /\ UNCHANGED <<db, pc, req, view, base, stale, muts>>
    BY <1>13 DEF Tick, txVars
  <2> QED
    BY <1>0, <1>b, <2>1
<1>14. CASE Crash
  BY <1>14, <1>a DEF Crash, HasSnapshot
<1> QED
  BY <1>1, <1>3, <1>4, <1>5, <1>6, <1>7, <1>8, <1>9, <1>10, <1>11, <1>12, <1>13, <1>14
  DEF HostNext, TaskStep

\* No step makes a row disappear that its caller did not delete and that is not a
\* heartbeat expired at that moment, although between the selection of the expired
\* rows and the commit of the prune other tasks may refresh them.
THEOREM PrunesOnlyExpired == HostSpec => FreshRowsSurvive
<1> DEFINE Fresh == \A t \in Tasks : FreshInv(t)
           Removes == \A k \in Keys :
             (db.rows[k] # NoValue /\ db'.rows[k] = NoValue) =>
               \/ \E t \in Tasks : pc[t] = "commit" /\ req[t].op = "del" /\ req[t].key = k
               \/ k \in HeartbeatKeys /\ db.at[k] < now - TTL
<1>1. HostInit => Fresh
  BY DEF HostInit, FreshInv, HasSnapshot
<1>2. TypeOK /\ StoreInv /\ Fresh /\ [HostNext]_hostVars => Fresh'
  BY FreshStep
<1>3. TypeOK /\ StoreInv /\ Fresh /\ [HostNext]_hostVars => [Removes]_hostVars
  <2> SUFFICES ASSUME TypeOK, StoreInv, Fresh, [HostNext]_hostVars PROVE Removes
    OBVIOUS
  <2>1. CASE db' = db
    BY <2>1
  <2>2. ASSUME NEW t \in Tasks, db' = view[t], base[t] = db.version, HasSnapshot(t)
        PROVE  Removes
    BY <2>2 DEF FreshInv
  <2> QED
    BY <2>1, <2>2, DbStep
<1> QED
  BY <1>1, <1>2, <1>3, TypeCorrect, StoreInvHolds, PTL DEF HostSpec, FreshRowsSurvive

-----------------------------------------------------------------------------
(* The client's state, and the plugin inside the system                    *)

MirrorType == [version : Nat, rows : [Keys -> Values \cup {NoValue}]]

ClientTyped ==
  /\ conn \in {"down", "subscribed", "awaiting", "live"}
  /\ epoch \in 0..MaxConnects
  /\ conn # "down" => epoch > 0
  /\ mirror \in MirrorType
  /\ inbox \in Seq(EnvelopeType)
  /\ calls \subseteq Requests
  /\ dropped \subseteq {e \in EnvelopeType : e.type = "delta"}
  /\ synced \in BOOLEAN

LEMMA EnvelopeFields ==
  ASSUME NEW e \in EnvelopeType
  PROVE  /\ e.type \in {"delta", "reply"} /\ e.version \in Nat
         /\ e.type = "delta" => /\ e.op \in {"set", "del"} /\ e.key \in Keys
                                /\ e.value \in Values \cup {NoValue}
         /\ e.type = "reply" => /\ e.req \in Requests /\ e.status \in {"ok", "error"}
                                /\ e.rows \in [Keys -> Values \cup {NoValue}]
  BY DEF EnvelopeType

\* The client calls with requests that the plugin knows.
LEMMA ClientRequests ==
  ASSUME ClientTyped
  PROVE  /\ Request("snapshot", NoKey, NoValue, epoch) \in Requests
         /\ \A k \in HeartbeatKeys, v \in Values :
              Request("set", k, v, epoch) \in Requests
<1>1. epoch \in Callers /\ HeartbeatKeys \subseteq Keys
  BY SystemAssumption, HostAssumption DEF ClientTyped
<1> QED
  BY <1>1 DEF Requests

\* Every step of the system is a step of the plugin, or leaves it alone.
LEMMA SystemStepsHost ==
  ASSUME ClientTyped, [SystemNext]_systemVars
  PROVE  [HostNext]_hostVars
<1>1. CASE HostStep
  BY <1>1 DEF HostStep, HostNext
<1>2. ASSUME NEW t \in Tasks, HostAccepts(t) PROVE HostNext
  BY <1>2 DEF HostAccepts, ClientTyped, HostNext
<1>3. CASE HostSends
  BY <1>3 DEF HostSends, HostNext
<1>4. CASE Redeliver
  BY <1>4 DEF Redeliver
<1>5. CASE ClientStep
  BY <1>5 DEF ClientStep, Connect, Pull, AwaitFrame, PullTimeout, HandleFrame, Beat,
              Disconnect
<1>6. CASE UNCHANGED systemVars
  BY <1>6 DEF systemVars
<1> QED
  BY <1>1, <1>2, <1>3, <1>4, <1>5, <1>6 DEF SystemNext

LEMMA ApplyDeltaType ==
  ASSUME NEW m \in MirrorType, NEW e \in EnvelopeType, e.type = "delta"
  PROVE  ApplyDelta(m, e) \in MirrorType
<1>1. /\ e.version \in Nat /\ e.key \in Keys /\ e.value \in Values \cup {NoValue}
  BY EnvelopeFields
<1> QED
  BY <1>1 DEF ApplyDelta, MirrorType

LEMMA ClientTypeStep ==
  ASSUME TypeOK, ClientTyped, [SystemNext]_systemVars
  PROVE  ClientTyped'
<1>1. CASE HostStep \/ UNCHANGED systemVars
  BY <1>1 DEF HostStep, systemVars, clientVars, ClientTyped
<1>2. ASSUME NEW t \in Tasks, HostAccepts(t) PROVE ClientTyped'
  <2>1. UNCHANGED <<conn, epoch, mirror, inbox, dropped, synced>> /\ calls' \subseteq calls
    BY <1>2 DEF HostAccepts, clientVars
  <2> QED
    BY <2>1 DEF ClientTyped
<1>3. CASE HostSends
  <2>1. Head(chan) \in EnvelopeType
    BY <1>3, TailShape DEF HostSends, LoopSend, TypeOK
  <2>2. inbox' \in Seq(EnvelopeType)
    BY <1>3, <2>1, AppendProperties DEF HostSends, ClientTyped
  <2> QED
    BY <1>3, <2>2 DEF HostSends, ClientTyped
<1>4. CASE Redeliver
  <2>1. inbox' \in Seq(EnvelopeType)
    BY <1>4, AppendProperties DEF Redeliver, ClientTyped
  <2> QED
    BY <1>4, <2>1 DEF Redeliver, ClientTyped
<1>5. CASE Connect
  <2>1. epoch + 1 \in 0..MaxConnects /\ epoch + 1 > 0
    BY <1>5, SystemAssumption DEF Connect, ClientTyped
  <2> QED
    BY <1>5, <2>1 DEF Connect, ClientTyped
<1>6. CASE Pull \/ Beat
  <2>1. calls' \subseteq Requests
    BY <1>6, ClientRequests DEF Pull, Beat, ClientTyped
  <2>2. UNCHANGED <<epoch, mirror, inbox, dropped, synced>>
        /\ conn' \in {"awaiting", "live"} /\ conn # "down"
    BY <1>6 DEF Pull, Beat
  <2> QED
    BY <2>1, <2>2 DEF ClientTyped
<1>7. CASE AwaitFrame
  <2>0. PICK e : e = Head(inbox)
    OBVIOUS
  <2>1. e \in EnvelopeType /\ Tail(inbox) \in Seq(EnvelopeType)
    BY <1>7, <2>0, HeadTailProperties DEF AwaitFrame, ClientTyped
  <2>2. CASE e.type = "delta"
    BY <1>7, <2>0, <2>1, <2>2 DEF AwaitFrame, ClientTyped
  <2>3. CASE e.type # "delta"
    <3>1. [version |-> e.version, rows |-> e.rows] \in MirrorType
      BY <2>1, <2>3, EnvelopeFields DEF MirrorType
    <3> QED
      BY <1>7, <2>0, <2>1, <2>3, <3>1 DEF AwaitFrame, ClientTyped
  <2> QED
    BY <2>2, <2>3
<1>8. CASE PullTimeout
  BY <1>8 DEF PullTimeout, ClientTyped
<1>9. CASE HandleFrame
  <2>0. PICK e : e = Head(inbox)
    OBVIOUS
  <2>1. e \in EnvelopeType /\ Tail(inbox) \in Seq(EnvelopeType)
    BY <1>9, <2>0, HeadTailProperties DEF HandleFrame, ClientTyped
  <2>2. mirror' \in MirrorType
    BY <1>9, <2>0, <2>1, ApplyDeltaType DEF HandleFrame, ClientTyped
  <2> QED
    BY <1>9, <2>0, <2>1, <2>2 DEF HandleFrame, ClientTyped
<1>10. CASE Disconnect
  <2>1. inbox' \in Seq(EnvelopeType)
    BY <1>10 DEF Disconnect
  <2> QED
    BY <1>10, <2>1 DEF Disconnect, ClientTyped
<1> QED
  BY <1>1, <1>2, <1>3, <1>4, <1>5, <1>6, <1>7, <1>8, <1>9, <1>10 DEF SystemNext, ClientStep

LEMMA ClientTypeInit == SystemInit => ClientTyped
<1> SUFFICES ASSUME SystemInit PROVE ClientTyped
  OBVIOUS
<1>1. inbox \in Seq(EnvelopeType)
  BY DEF SystemInit
<1>2. EmptyMirror \in MirrorType
  BY EmptyDbType DEF EmptyMirror, MirrorType
<1>3. 0 \in 0..MaxConnects
  BY SystemAssumption
<1> QED
  BY <1>1, <1>2, <1>3 DEF SystemInit, ClientTyped

THEOREM ClientTypeCorrect == SystemSpec => [](TypeOK /\ ClientTyped)
<1>1. SystemInit => TypeOK /\ ClientTyped
  BY TypeInit, ClientTypeInit DEF SystemInit
<1>2. TypeOK /\ ClientTyped /\ [SystemNext]_systemVars => (TypeOK /\ ClientTyped)'
  BY SystemStepsHost, TypeStep, ClientTypeStep
<1> QED
  BY <1>1, <1>2, PTL DEF SystemSpec

\* Composed with a client, the plugin behaves as it does alone: what was proved
\* of it holds of the system.
THEOREM SystemHasHost == SystemSpec => HostSpec
<1>1. SystemInit => HostInit
  BY DEF SystemInit
<1>2. ClientTyped /\ [SystemNext]_systemVars => [HostNext]_hostVars
  BY SystemStepsHost
<1> QED
  BY <1>1, <1>2, ClientTypeCorrect, PTL DEF SystemSpec, HostSpec

-----------------------------------------------------------------------------
(* What the mirror shows                                                   *)

\* Each entry of the history is a mutation of the content before it.
LogInv == \A v \in 1..Len(log) : Store!Mutates(log[v], ContentAt(log, v - 1))

LEMMA SameContent == \A h, v : Store!ContentAt(h, v) = ContentAt(h, v)
  BY DEF Store!ContentAt, ContentAt, Store!EmptyRows, EmptyRows

LEMMA LogStep ==
  ASSUME TypeOK, TypeOK', StoreInv, StoreInv', LogInv, [HostNext]_hostVars
  PROVE  /\ LogInv'
         /\ Len(log) <= Len(log')
         /\ \A v \in 1..Len(log) : log'[v] = log[v]
<1>0. Len(log) \in Nat /\ Len(log') \in Nat
  <2>1. log \in Seq(MutationType) /\ log' \in Seq(MutationType)
    BY DEF TypeOK
  <2> QED
    BY <2>1, LenProperties
<1>1. [Store!StoreNext]_(Store!storeVars)
  BY StepRefines DEF StoreInv
<1>2. CASE log' = log
  BY <1>0, <1>2 DEF LogInv, ContentAt
<1>3. CASE Store!CommitBatch
  <2>1. /\ Len(log') > Len(log)
        /\ \A v \in 1..Len(log) : log'[v] = log[v]
        /\ \A v \in (Len(log) + 1)..Len(log') :
             Store!Mutates(log'[v], Store!ContentAt(log', v - 1))
    BY <1>3 DEF Store!CommitBatch
  <2>2. ASSUME NEW v \in 1..Len(log')
        PROVE  Store!Mutates(log'[v], ContentAt(log', v - 1))
    <3>1. CASE v \in 1..Len(log)
      <4>1. v - 1 = 0 \/ v - 1 \in 1..Len(log)
        BY <1>0, <3>1
      <4>2. ContentAt(log', v - 1) = ContentAt(log, v - 1)
        BY <2>1, <4>1 DEF ContentAt
      <4> QED
        BY <2>1, <3>1, <4>2 DEF LogInv
    <3>2. CASE v \in (Len(log) + 1)..Len(log')
      BY <2>1, <3>2, SameContent
    <3> QED
      BY <1>0, <3>1, <3>2
  <2> QED
    BY <1>0, <2>1, <2>2 DEF LogInv
<1> QED
  BY <1>1, <1>2, <1>3 DEF Store!StoreNext, Store!Announce, Store!storeVars

\* A row of a version was set at that version or an earlier one. The first
\* version of which this is false would have the row from its own mutation or
\* from the version before.
HasSource(v, k) ==
  ContentAt(log, v)[k] # NoValue =>
    \E w \in DOMAIN log :
      /\ w <= v /\ log[w].op = "set"
      /\ log[w].key = k /\ log[w].value = ContentAt(log, v)[k]

LEMMA RowsHaveSources ==
  ASSUME TypeOK, LogInv, NEW k \in Keys, NEW v \in 0..Len(log)
  PROVE  HasSource(v, k)
<1>0. Len(log) \in Nat /\ DOMAIN log = 1..Len(log) /\ log \in Seq(MutationType)
  BY LenProperties DEF TypeOK
<1> DEFINE Bad == {x \in 0..Len(log) : ~HasSource(x, k)}
<1> SUFFICES ASSUME Bad # {} PROVE FALSE
  OBVIOUS
<1>1. Bad \subseteq Nat
  BY <1>0
<1>2. PICK x \in Bad : \A y \in Bad : <<y, x>> \notin {ss \in Nat \X Nat : ss[1] < ss[2]}
  <2> HIDE DEF Bad
  <2> QED
    BY <1>1, NatLessThanWellFounded, WFMin DEF OpToRel
<1>3. x \in 0..Len(log) /\ ~HasSource(x, k)
  OBVIOUS
<1>4. x # 0
  BY <1>3 DEF HasSource, ContentAt, EmptyRows
<1>5. x - 1 \in 0..Len(log) /\ x \in 1..Len(log) /\ x - 1 < x /\ x \in Nat /\ x - 1 \in Nat
  BY <1>0, <1>3, <1>4
<1>6. x - 1 \notin Bad
  <2> SUFFICES ASSUME x - 1 \in Bad PROVE FALSE
    OBVIOUS
  <2>1. <<x - 1, x>> \in {ss \in Nat \X Nat : ss[1] < ss[2]}
    BY <1>5
  <2> HIDE DEF Bad
  <2> QED
    BY <1>2, <2>1
<1>7. HasSource(x - 1, k)
  BY <1>5, <1>6
<1> HIDE DEF Bad
<1>8. PICK m, r : m = log[x] /\ r = ContentAt(log, x - 1)
  OBVIOUS
<1>9. /\ m \in MutationType /\ m.rows = ContentAt(log, x) /\ Store!Mutates(m, r)
      /\ r \in [Keys -> Values \cup {NoValue}]
  <2>1. m \in MutationType
    BY <1>0, <1>5, <1>8, ElementOfSeq
  <2>2. x - 1 # 0 => log[x - 1] \in MutationType
    BY <1>0, <1>5, ElementOfSeq
  <2> QED
    BY <1>4, <1>5, <1>8, <2>1, <2>2, EmptyDbType DEF LogInv, ContentAt, MutationType
<1>10. PICK rows1 : rows1 = m.rows
  OBVIOUS
<1>11. rows1[k] # NoValue
  BY <1>3, <1>9, <1>10 DEF HasSource
<1>12. CASE m.key = k
  <2>1. m.op = "set" /\ rows1[k] = m.value
    BY <1>9, <1>10, <1>11, <1>12 DEF Store!Mutates
  <2> QED
    BY <1>0, <1>3, <1>5, <1>8, <1>9, <1>10, <1>12, <2>1 DEF HasSource
<1>13. CASE m.key # k
  <2>1. rows1[k] = r[k]
    BY <1>9, <1>10, <1>13 DEF Store!Mutates
  <2>2. PICK w \in DOMAIN log : /\ w <= x - 1 /\ log[w].op = "set"
                               /\ log[w].key = k /\ log[w].value = r[k]
    BY <1>7, <1>8, <1>11, <2>1 DEF HasSource
  <2>3. w <= x
    BY <1>0, <1>5, <2>2
  <2> QED
    BY <1>3, <1>9, <1>10, <2>1, <2>2, <2>3 DEF HasSource
<1> QED
  BY <1>12, <1>13

\* The client waits for, or is about to ask for, the snapshot.
Pulling == conn \in {"subscribed", "awaiting"}

\* No request is from a later connection, and until the pull of a connection is
\* over its only request is the one for the snapshot.
OwnRequest(r) ==
  /\ r.from <= epoch
  /\ r.from = epoch => conn # "subscribed"
  /\ r.from = epoch /\ conn = "awaiting" => r.op = "snapshot"

\* A frame says what the history says.
TrueFrame(e) ==
  /\ e.type = "delta" => e.version \in 1..Len(log) /\ e = Delta(log[e.version])
  /\ e.type = "reply" /\ e.status = "ok" => ReplyIsTrue(e)

\* A reply goes to a request of the client or of others, and the snapshot that
\* the client waits for is not older than its mirror.
OwnFrame(e) ==
  e.type = "reply" =>
    /\ OwnRequest(e.req)
    /\ Pulling /\ e.status = "ok" /\ e.req.from = epoch => e.version >= mirror.version

OwnTask(t) ==
  pc[t] # "idle" =>
    /\ OwnRequest(req[t])
    /\ Pulling /\ req[t].from = epoch /\ HasSnapshot(t) => base[t] >= mirror.version

ClientFrames == Range(inbox) \cup dropped

MirrorInv ==
  /\ LogInv
  /\ MirrorShowsCommitted
  /\ \A r \in calls : OwnRequest(r)
  /\ \A t \in Tasks : OwnTask(t)
  /\ \A e \in InFlight \cup ClientFrames : OwnFrame(e)
  /\ \A e \in ClientFrames : TrueFrame(e)
  /\ \A e \in Range(inbox) : e.type = "reply" => e.req.from = epoch
  /\ conn = "down" => inbox = << >>

\* What is known of the plugin.
HostInv ==
  /\ TypeOK /\ StoreInv /\ RepliesAreTrue
  /\ \A t \in Tasks : RequestInv(t)

LogGrows == /\ Len(log) <= Len(log')
            /\ \A v \in 1..Len(log) : log'[v] = log[v]

LEMMA InFlightIsTrue ==
  ASSUME HostInv, NEW e \in InFlight
  PROVE  TrueFrame(e)
  BY DEF HostInv, StoreInv, DeltasAreCommitted, RepliesAreTrue, TrueFrame

LEMMA FramesTyped ==
  ASSUME TypeOK, ClientTyped, NEW e \in InFlight \cup ClientFrames
  PROVE  e \in EnvelopeType
<1>1. ASSUME e \in Range(inbox) PROVE e \in EnvelopeType
  BY <1>1, ElementOfSeq, LenProperties DEF Range, ClientTyped
<1> QED
  BY <1>1, InFlightTyped DEF ClientFrames, ClientTyped

LEMMA TrueStaysTrue ==
  ASSUME TypeOK, LogGrows, NEW e \in EnvelopeType, TrueFrame(e), TypeOK'
  PROVE  TrueFrame(e)'
<1>1. /\ e.version \in Nat /\ Len(log) \in Nat /\ Len(log') \in Nat
  <2>1. log \in Seq(MutationType) /\ log' \in Seq(MutationType)
    BY DEF TypeOK
  <2> QED
    BY <2>1, LenProperties, EnvelopeFields
<1>2. CASE e.type = "delta"
  BY <1>1, <1>2 DEF LogGrows, TrueFrame
<1>3. CASE e.type = "reply" /\ e.status = "ok"
  <2>1. e.version <= Len(log) /\ e.version <= Len(log')
    BY <1>1, <1>3 DEF TrueFrame, ReplyIsTrue, LogGrows
  <2>2. ContentAt(log', e.version) = ContentAt(log, e.version)
    BY <1>1, <2>1 DEF ContentAt, LogGrows
  <2>3. e.version > 0 => log'[e.version] = log[e.version]
    BY <1>1, <2>1 DEF LogGrows
  <2> QED
    BY <1>1, <1>3, <2>1, <2>2, <2>3 DEF TrueFrame, ReplyIsTrue
<1> QED
  BY <1>2, <1>3 DEF TrueFrame

\* The mirror goes on showing what was committed while only the history grows.
LEMMA MirrorStays ==
  ASSUME TypeOK, TypeOK', StoreInv, StoreInv', LogGrows, MirrorShowsCommitted,
         ClientTyped, UNCHANGED mirror
  PROVE  MirrorShowsCommitted'
<1>1. /\ Len(log) \in Nat /\ Len(log') \in Nat /\ DOMAIN log = 1..Len(log)
      /\ DOMAIN log' = 1..Len(log')
  <2>1. log \in Seq(MutationType) /\ log' \in Seq(MutationType)
    BY DEF TypeOK
  <2> QED
    BY <2>1, LenProperties
<1>2. db.version = Len(log) /\ db'.version = Len(log') /\ mirror.version \in Nat
  BY DEF StoreInv, StoreMatchesHistory, ClientTyped, MirrorType
<1>3. mirror.version <= Len(log')
  BY <1>1, <1>2 DEF MirrorShowsCommitted, LogGrows
<1>4. \A v \in DOMAIN log : v \in DOMAIN log' /\ log'[v] = log[v]
  BY <1>1 DEF LogGrows
<1> QED
  BY <1>2, <1>3, <1>4 DEF MirrorShowsCommitted

-----------------------------------------------------------------------------
(* What a step of the plugin adds                                          *)

\* A new frame is a delta, or the reply to a request that was being handled;
\* what it names is at least what the handler's snapshot has.
NewFrame(e) ==
  \/ e.type = "delta"
  \/ \E t \in Tasks :
       /\ pc[t] # "idle" /\ e.type = "reply" /\ e.req = req[t]
       /\ e.status = "ok" => req[t].op = "get" \/ (HasSnapshot(t) /\ e.version >= base[t])

LEMMA CommitFrames ==
  ASSUME TypeOK, StoreInv, NEW t \in Tasks, Commit(t), NEW e \in Range(Envelopes(t))
  PROVE  NewFrame(e)
<1>1. /\ req[t] \in Requests /\ view[t] \in DbType /\ muts[t] \in Seq(MutationType)
      /\ base[t] \in Nat /\ Len(muts[t]) \in Nat /\ pc[t] = "commit" /\ HasSnapshot(t)
  <2>1. muts[t] \in Seq(MutationType)
    BY DEF TypeOK
  <2> QED
    BY <2>1, LenProperties DEF TypeOK, Commit, HasSnapshot
<1>2. view[t].version >= base[t] /\ view[t].version \in Nat
  BY <1>1 DEF StoreInv, TxInv, DbType
<1>3. CASE Envelopes(t) = <<ErrorReply(req[t])>>
  <2>1. e = ErrorReply(req[t])
    BY <1>3 DEF Range
  <2> QED
    BY <1>1, <2>1 DEF ErrorReply, Reply, NewFrame
<1>4. CASE Envelopes(t) # <<ErrorReply(req[t])>>
  <2> DEFINE r == Reply(req[t], "ok", view[t].version,
                        IF req[t].op = "snapshot" THEN view[t].rows ELSE EmptyRows)
  <2>1. Envelopes(t) = <<r>> \o Deltas(muts[t])
    BY <1>4 DEF Envelopes
  <2>2. r \in EnvelopeType
    BY <1>1, ReplyType, EmptyDbType DEF DbType
  <2>3. r.type = "reply" /\ r.req = req[t] /\ r.version = view[t].version
    BY DEF Reply
  <2> HIDE DEF r
  <2>4. /\ Deltas(muts[t]) \in Seq(EnvelopeType)
        /\ Len(Deltas(muts[t])) = Len(muts[t])
        /\ \A i \in 1..Len(muts[t]) : Deltas(muts[t])[i] = Delta(muts[t][i])
    BY <1>1, DeltasType
  <2>5. /\ DOMAIN Envelopes(t) = 1..(1 + Len(muts[t]))
        /\ Envelopes(t)[1] = r
        /\ \A i \in 2..(1 + Len(muts[t])) : Envelopes(t)[i] = Deltas(muts[t])[i - 1]
    BY <1>1, <2>1, <2>2, <2>4, ConcatProperties, LenProperties
  <2>6. PICK j \in 1..(1 + Len(muts[t])) : e = Envelopes(t)[j]
    BY <2>5 DEF Range
  <2>7. CASE j = 1
    BY <1>1, <1>2, <2>3, <2>5, <2>6, <2>7 DEF NewFrame
  <2>8. CASE j # 1
    <3>1. j - 1 \in 1..Len(muts[t]) /\ j \in 2..(1 + Len(muts[t]))
      BY <1>1, <2>8
    <3>2. e = Delta(muts[t][j - 1])
      BY <2>4, <2>5, <2>6, <3>1
    <3> QED
      BY <3>2 DEF Delta, NewFrame
  <2> QED
    BY <2>7, <2>8
<1> QED
  BY <1>3, <1>4

LEMMA HostFrames ==
  ASSUME TypeOK, StoreInv, [HostNext]_hostVars
  PROVE  \A e \in InFlight' : e \in InFlight \/ NewFrame(e)
<1>1. ASSUME NEW t \in Tasks, NEW r, Answer(t, <<r>>), UNCHANGED chan, NewFrame(r)
      PROVE  \A e \in InFlight' : e \in InFlight \/ NewFrame(e)
  <2>1. InFlight' \subseteq InFlight \cup {r}
    BY <1>1, InFlightAnswer DEF Range
  <2> QED
    BY <1>1, <2>1
<1>2. ASSUME NEW t \in Tasks, Refuse(t) \/ LoseRace(t) \/ Fail(t)
      PROVE  \A e \in InFlight' : e \in InFlight \/ NewFrame(e)
  <2>1. pc[t] # "idle" /\ Answer(t, <<ErrorReply(req[t])>>) /\ UNCHANGED chan
    BY <1>2 DEF Refuse, LoseRace, Fail, InTx
  <2>2. NewFrame(ErrorReply(req[t]))
    BY <2>1 DEF NewFrame, ErrorReply, Reply
  <2> QED
    BY <1>1, <2>1, <2>2
<1>3. ASSUME NEW t \in Tasks, Get(t)
      PROVE  \A e \in InFlight' : e \in InFlight \/ NewFrame(e)
  <2> DEFINE r == Reply(req[t], "ok", 0,
                        [EmptyRows EXCEPT ![req[t].key] = db.rows[req[t].key]])
  <2>1. /\ Answer(t, <<r>>) /\ UNCHANGED chan /\ req[t].op = "get" /\ pc[t] # "idle"
    BY <1>3 DEF Get
  <2>2. r.type = "reply" /\ r.req = req[t]
    BY DEF Reply
  <2> HIDE DEF r
  <2>3. NewFrame(r)
    BY <2>1, <2>2 DEF NewFrame
  <2> QED
    BY <1>1, <2>1, <2>3
<1>4. ASSUME NEW t \in Tasks, Commit(t)
      PROVE  \A e \in InFlight' : e \in InFlight \/ NewFrame(e)
  <2>1. InFlight' \subseteq InFlight \cup Range(Envelopes(t))
    BY <1>4, InFlightAnswer DEF Commit
  <2> QED
    BY <1>4, <2>1, CommitFrames
<1>5. ASSUME NEW t \in Tasks, Push(t)
      PROVE  \A e \in InFlight' : e \in InFlight \/ NewFrame(e)
  BY <1>5, InFlightPush
<1>6. CASE LoopSend
  BY <1>6, InFlightLoopSend
<1>7. CASE Crash
  <2>1. chan' = << >> /\ \A u \in Tasks : outbox'[u] = << >>
    BY <1>7 DEF Crash
  <2>2. InFlight' = {}
    BY <2>1 DEF InFlight, Range
  <2> QED
    BY <2>2
<1>8. ASSUME UNCHANGED <<chan, outbox>>
      PROVE  \A e \in InFlight' : e \in InFlight \/ NewFrame(e)
  BY <1>8 DEF InFlight
<1>9. ASSUME NEW t \in Tasks, NEW r \in Requests, Accept(t, r)
      PROVE  \A e \in InFlight' : e \in InFlight \/ NewFrame(e)
  BY <1>8, <1>9 DEF Accept
<1>10. ASSUME NEW t \in Tasks,
              \/ Begin(t) \/ SelectStale(t) \/ PruneRow(t) \/ Upsert(t)
              \/ Delete(t) \/ ReadSnapshot(t)
       PROVE  \A e \in InFlight' : e \in InFlight \/ NewFrame(e)
  BY <1>8, <1>10 DEF Begin, SelectStale, PruneRow, Upsert, Delete, ReadSnapshot
<1>11. CASE Tick \/ UNCHANGED hostVars
  BY <1>8, <1>11 DEF Tick, hostVars
<1> QED
  BY <1>2, <1>3, <1>4, <1>5, <1>6, <1>7, <1>9, <1>10, <1>11 DEF HostNext, TaskStep

\* A task goes on with the request it has; its snapshot is the one it had or
\* the database of now.
GoesOn(t) ==
  pc'[t] # "idle" =>
    /\ pc[t] # "idle" /\ req'[t] = req[t]
    /\ HasSnapshot(t)' => \/ HasSnapshot(t) /\ base'[t] = base[t]
                          \/ base'[t] = db.version

LEMMA TasksGoOn ==
  ASSUME TypeOK,
         \/ \E t \in Tasks : TaskStep(t) \/ Fail(t)
         \/ LoopSend \/ Crash \/ Tick \/ UNCHANGED hostVars,
         NEW u \in Tasks
  PROVE  GoesOn(u)
<1>1. ASSUME UNCHANGED <<pc, req, base>> PROVE GoesOn(u)
  BY <1>1 DEF GoesOn, HasSnapshot
<1>2. ASSUME NEW t \in Tasks, NEW es, Answer(t, es), UNCHANGED req, pc[t] # "idle"
      PROVE  GoesOn(u)
  <2>1. CASE u = t
    BY <1>2, <2>1 DEF Answer, GoesOn, HasSnapshot, TypeOK
  <2>2. CASE u # t
    BY <1>2, <2>2 DEF Answer, ResetTx, GoesOn, HasSnapshot, TypeOK
  <2> QED
    BY <2>1, <2>2
<1>3. ASSUME NEW t \in Tasks, Refuse(t) \/ LoseRace(t) \/ Fail(t)
      PROVE  GoesOn(u)
  BY <1>2, <1>3 DEF Refuse, LoseRace, Fail, InTx
<1>4. ASSUME NEW t \in Tasks, Get(t) \/ Commit(t)
      PROVE  GoesOn(u)
  BY <1>2, <1>4 DEF Get, Commit
<1>5. ASSUME NEW t \in Tasks, Push(t)
      PROVE  GoesOn(u)
  <2>1. base' = base /\ pc[t] = "sending"
    BY <1>5 DEF Push, txVars
  <2>2. CASE Len(outbox[t]) = 1
    BY <1>5, <2>1, <2>2, SMTT(30) DEF Push, GoesOn, HasSnapshot, TypeOK
  <2>3. CASE Len(outbox[t]) # 1
    BY <1>1, <1>5, <2>1, <2>3 DEF Push
  <2> QED
    BY <2>2, <2>3
<1>6. CASE Crash
  BY <1>6 DEF Crash, GoesOn
<1>7. ASSUME NEW t \in Tasks, Begin(t)
      PROVE  GoesOn(u)
  BY <1>7 DEF Begin, GoesOn, HasSnapshot, TypeOK, txVars
<1>8. ASSUME NEW t \in Tasks, SelectStale(t) \/ Delete(t)
      PROVE  GoesOn(u)
  BY <1>8 DEF SelectStale, Delete, TakeLock, GoesOn, HasSnapshot, TypeOK
<1>9. ASSUME NEW t \in Tasks, PruneRow(t)
      PROVE  GoesOn(u)
  BY <1>9 DEF PruneRow, TakeLock, GoesOn, HasSnapshot, TypeOK
<1>10. ASSUME NEW t \in Tasks, Upsert(t)
      PROVE  GoesOn(u)
  BY <1>10 DEF Upsert, PruneDone, TakeLock, GoesOn, HasSnapshot, TypeOK
<1>11. ASSUME NEW t \in Tasks, ReadSnapshot(t)
      PROVE  GoesOn(u)
  BY <1>11 DEF ReadSnapshot, PruneDone, GoesOn, HasSnapshot, TypeOK
<1>12. CASE LoopSend \/ Tick \/ UNCHANGED hostVars
  BY <1>1, <1>12 DEF LoopSend, Tick, hostVars, txVars
<1> QED
  BY <1>3, <1>4, <1>5, <1>6, <1>7, <1>8, <1>9, <1>10, <1>11, <1>12 DEF TaskStep

LEMMA RangeTyped ==
  ASSUME NEW S, NEW s \in Seq(S)
  PROVE  Range(s) \subseteq S
  BY ElementOfSeq, LenProperties DEF Range

LEMMA OwnRequestStays ==
  ASSUME UNCHANGED <<conn, epoch>>, NEW r, OwnRequest(r)
  PROVE  OwnRequest(r)'
  BY DEF OwnRequest

\* What a step of the plugin keeps for the client: its own tasks, the replies on
\* their way, and the frames the client has.
LEMMA HostPart ==
  ASSUME HostInv, HostInv', ClientTyped, MirrorInv,
         \/ \E t \in Tasks : TaskStep(t) \/ Fail(t)
         \/ LoopSend \/ Crash \/ Tick \/ UNCHANGED hostVars,
         UNCHANGED <<conn, epoch, mirror>>
  PROVE  /\ LogInv' /\ MirrorShowsCommitted'
         /\ \A t \in Tasks : OwnTask(t)'
         /\ \A e \in InFlight' : OwnFrame(e)'
         /\ \A e \in ClientFrames : \A f : f = e => OwnFrame(f)' /\ TrueFrame(f)'
<1>0. [HostNext]_hostVars
  BY DEF HostNext
<1>1. /\ TypeOK /\ TypeOK' /\ StoreInv /\ StoreInv' /\ RepliesAreTrue' /\ HostInv
      /\ db.version = Len(log) /\ mirror.version <= db.version
      /\ mirror.version \in Nat /\ db.version \in Nat /\ epoch \in Nat
      /\ \A t \in Tasks : base[t] \in Nat /\ req[t] \in Requests
  <2>1. TypeOK /\ TypeOK' /\ StoreInv /\ StoreInv' /\ RepliesAreTrue' /\ HostInv
    BY DEF HostInv
  <2>2. db.version = Len(log) /\ mirror.version <= db.version
    BY <2>1 DEF StoreInv, StoreMatchesHistory, MirrorInv, MirrorShowsCommitted
  <2>3. mirror.version \in Nat /\ epoch \in Nat
    BY SystemAssumption DEF ClientTyped, MirrorType
  <2>4. db.version \in Nat /\ \A t \in Tasks : base[t] \in Nat /\ req[t] \in Requests
    BY <2>1 DEF TypeOK, DbType
  <2> QED
    BY <2>1, <2>2, <2>3, <2>4
<1>2. LogInv' /\ LogGrows
  BY <1>0, <1>1, LogStep DEF MirrorInv, LogGrows
<1>3. MirrorShowsCommitted'
  BY <1>1, <1>2, MirrorStays DEF MirrorInv
<1>4. ASSUME NEW t \in Tasks PROVE OwnTask(t)'
  <2>1. GoesOn(t) /\ OwnTask(t)
    BY <1>1, TasksGoOn DEF MirrorInv
  <2>2. base'[t] \in Nat
    BY <1>1 DEF TypeOK
  <2> QED
    BY <1>1, <2>1, <2>2, OwnRequestStays DEF OwnTask, GoesOn, Pulling
<1>5. \A e : OwnFrame(e) => OwnFrame(e)'
  BY OwnRequestStays DEF OwnFrame, Pulling
<1>6. ASSUME NEW e \in InFlight' PROVE OwnFrame(e)'
  <2>1. CASE e \in InFlight
    BY <1>5, <2>1 DEF MirrorInv
  <2>2. CASE NewFrame(e)
    <3>0. e \in EnvelopeType /\ e.version \in Nat
      <4>1. \A s : s \in Seq(EnvelopeType) => Range(s) \subseteq EnvelopeType
        BY RangeTyped
      <4>2. e \in EnvelopeType
        BY <1>1, <4>1 DEF InFlight, TypeOK
      <4> QED
        BY <4>2, EnvelopeFields
    <3>1. CASE e.type = "delta"
      BY <3>1 DEF OwnFrame
    <3>2. CASE e.type # "delta"
      <4>1. PICK t \in Tasks :
              /\ pc[t] # "idle" /\ e.type = "reply" /\ e.req = req[t]
              /\ e.status = "ok" => req[t].op = "get" \/ (HasSnapshot(t) /\ e.version >= base[t])
        BY <2>2, <3>2 DEF NewFrame
      <4>2. OwnTask(t)
        BY DEF MirrorInv
      <4>3. Pulling /\ e.status = "ok" /\ e.req.from = epoch => e.version >= mirror.version
        BY <1>1, <3>0, <4>1, <4>2 DEF OwnTask, OwnRequest, Pulling
      <4>4. OwnFrame(e)
        BY <4>1, <4>2, <4>3 DEF OwnTask, OwnFrame
      <4> QED
        BY <1>5, <4>4
    <3> QED
      BY <3>1, <3>2
  <2> QED
    BY <1>0, <1>1, <2>1, <2>2, HostFrames
<1>7. ASSUME NEW e \in ClientFrames PROVE \A f : f = e => OwnFrame(f)' /\ TrueFrame(f)'
  <2>1. e \in EnvelopeType /\ OwnFrame(e) /\ TrueFrame(e)
    BY <1>1, FramesTyped DEF MirrorInv
  <2> QED
    BY <1>1, <1>2, <1>5, <2>1, TrueStaysTrue
<1> QED
  BY <1>2, <1>3, <1>4, <1>6, <1>7

LEMMA SystemHostStep ==
  ASSUME HostInv, HostInv', ClientTyped, MirrorInv, HostStep \/ UNCHANGED systemVars
  PROVE  MirrorInv'
<1>1. /\ UNCHANGED <<conn, epoch, mirror, inbox, calls, dropped>>
      /\ \/ \E t \in Tasks : TaskStep(t) \/ Fail(t)
         \/ LoopSend \/ Crash \/ Tick \/ UNCHANGED hostVars
  BY DEF HostStep, clientVars, systemVars
<1>2. /\ LogInv' /\ MirrorShowsCommitted'
      /\ \A t \in Tasks : OwnTask(t)'
      /\ \A e \in InFlight' : OwnFrame(e)'
      /\ \A e \in ClientFrames : \A f : f = e => OwnFrame(f)' /\ TrueFrame(f)'
  BY <1>1, HostPart
<1>3. ClientFrames' = ClientFrames
  BY <1>1 DEF ClientFrames
<1>4. \A e \in ClientFrames' : OwnFrame(e)' /\ TrueFrame(e)'
  BY <1>2, <1>3
<1>5. \A r \in calls' : OwnRequest(r)'
  BY <1>1 DEF MirrorInv, OwnRequest
<1> QED
  BY <1>1, <1>2, <1>4, <1>5 DEF MirrorInv

\* A request is taken up: the client's, or one of another plugin.
LEMMA AcceptKeepsMirror ==
  ASSUME HostInv, HostInv', ClientTyped, ClientTyped', MirrorInv, NEW t \in Tasks, HostAccepts(t)
  PROVE  MirrorInv'
<1>1. PICK r \in Requests : Accept(t, r) /\ (r.from = 0 \/ r \in calls)
  BY DEF HostAccepts, ClientTyped
<1>2. /\ UNCHANGED <<conn, epoch, mirror, inbox, dropped>> /\ calls' \subseteq calls
  BY DEF HostAccepts, clientVars
<1>3. UNCHANGED <<db, log, chan, outbox, base>>
  BY <1>1 DEF Accept, txVars
<1>4. OwnRequest(r)
  BY <1>1, SystemAssumption DEF OwnRequest, MirrorInv, ClientTyped
<1>5. ASSUME NEW u \in Tasks PROVE OwnTask(u)'
  <2>0. OwnTask(u)
    BY DEF MirrorInv
  <2>1. CASE u = t
    <3>1. pc'[u] = "accepted" /\ req'[u] = r
      BY <1>1, <2>1 DEF Accept, HostInv, TypeOK
    <3> QED
      BY <1>2, <1>4, <3>1, OwnRequestStays DEF OwnTask, HasSnapshot
  <2>2. CASE u # t
    <3>1. pc'[u] = pc[u] /\ req'[u] = req[u]
      BY <1>1, <2>2 DEF Accept, HostInv, TypeOK
    <3> QED
      BY <1>2, <1>3, <2>0, <3>1, OwnRequestStays DEF OwnTask, HasSnapshot, Pulling
  <2> QED
    BY <2>1, <2>2
<1>6. InFlight' = InFlight /\ ClientFrames' = ClientFrames
  BY <1>2, <1>3 DEF InFlight, ClientFrames
<1>7. \A e \in InFlight' \cup ClientFrames' : OwnFrame(e)'
  BY <1>2, <1>6, OwnRequestStays DEF OwnFrame, Pulling, MirrorInv
<1>8. \A e \in ClientFrames' : TrueFrame(e)'
  BY <1>3, <1>6 DEF MirrorInv, TrueFrame, ReplyIsTrue, ContentAt
<1>9. LogInv' /\ MirrorShowsCommitted'
  BY <1>2, <1>3 DEF MirrorInv, LogInv, MirrorShowsCommitted, ContentAt
<1>10. \A q \in calls' : OwnRequest(q)'
  BY <1>2, OwnRequestStays DEF MirrorInv
<1>11. /\ \A e \in Range(inbox') : e.type = "reply" => e.req.from = epoch'
       /\ conn' = "down" => inbox' = << >>
  BY <1>2 DEF MirrorInv
<1> QED
  BY <1>5, <1>7, <1>8, <1>9, <1>10, <1>11 DEF MirrorInv

\* The loop sends a frame, and the kernel passes on what is for the client.
LEMMA SendKeepsMirror ==
  ASSUME HostInv, HostInv', ClientTyped, MirrorInv, HostSends
  PROVE  MirrorInv'
<1>1. UNCHANGED <<conn, epoch, mirror, calls, dropped>> /\ LoopSend
  BY DEF HostSends
<1>2. /\ LogInv' /\ MirrorShowsCommitted'
      /\ \A t \in Tasks : OwnTask(t)'
      /\ \A e \in InFlight' : OwnFrame(e)'
      /\ \A e \in ClientFrames : \A f : f = e => OwnFrame(f)' /\ TrueFrame(f)'
  BY <1>1, HostPart
<1>3. PICK h : h = Head(chan)
  OBVIOUS
<1>4. h \in InFlight /\ h \in EnvelopeType /\ OwnFrame(h) /\ TrueFrame(h)
  <2>1. h \in InFlight
    BY <1>1, <1>3, InFlightLoopSend DEF HostInv
  <2> QED
    BY <2>1, InFlightTyped, InFlightIsTrue DEF MirrorInv, HostInv
<1>5. OwnFrame(h)' /\ TrueFrame(h)'
  <2>1. log' = log
    BY <1>1 DEF LoopSend
  <2> QED
    BY <1>1, <1>4, <2>1, OwnRequestStays DEF OwnFrame, Pulling, TrueFrame, ReplyIsTrue, ContentAt
<1>6. /\ Range(inbox') \subseteq Range(inbox) \cup {h}
      /\ h \in Range(inbox') \ Range(inbox) => ForClient(h)
      /\ conn = "down" => inbox' = inbox
  <2>1. CASE ForClient(h)
    <3>1. inbox' = Append(inbox, h)
      BY <1>3, <2>1 DEF HostSends
    <3>2. Range(inbox') = Range(inbox) \cup {h}
      BY <1>4, <3>1, AppendShape DEF ClientTyped
    <3> QED
      BY <2>1, <3>2 DEF ForClient
  <2>2. CASE ~ForClient(h)
    BY <1>3, <2>2 DEF HostSends
  <2> QED
    BY <2>1, <2>2
<1>7. \A e \in ClientFrames' : OwnFrame(e)' /\ TrueFrame(e)'
  BY <1>1, <1>2, <1>5, <1>6 DEF ClientFrames
<1>8. \A e \in Range(inbox') : e.type = "reply" => e.req.from = epoch'
  BY <1>1, <1>6 DEF MirrorInv, ForClient
<1>9. conn' = "down" => inbox' = << >>
  BY <1>1, <1>6 DEF MirrorInv
<1>10. \A q \in calls' : OwnRequest(q)'
  BY <1>1, OwnRequestStays DEF MirrorInv
<1> QED
  BY <1>2, <1>7, <1>8, <1>9, <1>10 DEF MirrorInv

\* A step of the client or of the kernel leaves the plugin alone.
LEMMA HostStands ==
  ASSUME HostInv, MirrorInv, UNCHANGED hostVars
  PROVE  /\ LogInv' /\ InFlight' = InFlight
         /\ \A e : TrueFrame(e) => TrueFrame(e)'
         /\ \A t \in Tasks : /\ pc'[t] = pc[t] /\ req'[t] = req[t] /\ base'[t] = base[t]
                             /\ HasSnapshot(t)' <=> HasSnapshot(t)
         /\ mirror' = mirror => MirrorShowsCommitted'
  BY DEF hostVars, txVars, LogInv, ContentAt, InFlight, TrueFrame, ReplyIsTrue, HasSnapshot,
         MirrorShowsCommitted, MirrorInv

LEMMA ConnectKeepsMirror ==
  ASSUME HostInv, ClientTyped, MirrorInv, Connect
  PROVE  MirrorInv'
<1>1. /\ conn = "down" /\ conn' = "subscribed" /\ epoch' = epoch + 1 /\ epoch \in Nat
      /\ UNCHANGED <<hostVars, mirror, inbox, calls, dropped>>
      /\ inbox = << >>
  BY SystemAssumption DEF Connect, ClientTyped, MirrorInv
<1>2. \A r \in Requests : OwnRequest(r) => OwnRequest(r)' /\ r.from # epoch'
  <2>1. \A r \in Requests : r.from \in Nat
    BY HostAssumption DEF Requests, Request
  <2> QED
    BY <1>1, <2>1 DEF OwnRequest
<1>3. \A t \in Tasks : OwnTask(t)'
  BY <1>1, <1>2, HostStands DEF OwnTask, MirrorInv, HostInv, TypeOK
<1>4. /\ ClientFrames' = ClientFrames /\ InFlight' = InFlight
      /\ \A e \in InFlight \cup ClientFrames : e \in EnvelopeType /\ OwnFrame(e)
  BY <1>1, HostStands, FramesTyped DEF ClientFrames, MirrorInv, HostInv
<1>5. ASSUME NEW e \in InFlight' \cup ClientFrames' PROVE OwnFrame(e)'
  <2>1. e \in EnvelopeType /\ OwnFrame(e)
    BY <1>4
  <2>2. e.type = "reply" => e.req \in Requests
    BY <2>1, EnvelopeFields
  <2> QED
    BY <1>2, <2>1, <2>2 DEF OwnFrame
<1>6. \A e \in ClientFrames' : TrueFrame(e)'
  BY <1>1, <1>4, HostStands DEF MirrorInv
<1>7. \A r \in calls' : OwnRequest(r)'
  BY <1>1, <1>2 DEF MirrorInv, ClientTyped
<1>8. LogInv' /\ MirrorShowsCommitted'
  BY <1>1, HostStands
<1>9. \A e \in Range(inbox') : e.type = "reply" => e.req.from = epoch'
  BY <1>1 DEF Range
<1> QED
  BY <1>1, <1>3, <1>5, <1>6, <1>7, <1>8, <1>9 DEF MirrorInv

\* The end of a pull, by its answer, by its timeout, or because there is none,
\* asks less of the requests.
LEMMA LaterAsksLess ==
  ASSUME MirrorInv, HostInv, UNCHANGED <<hostVars, epoch>>, conn' \in {"live", "down"},
         NEW fs, fs \subseteq ClientFrames
  PROVE  /\ \A r : OwnRequest(r) => OwnRequest(r)'
         /\ \A t \in Tasks : OwnTask(t)'
         /\ \A e \in InFlight' : OwnFrame(e)'
         /\ \A e \in fs : \A f : f = e => OwnFrame(f)' /\ TrueFrame(f)'
<1>1. \A r : OwnRequest(r) => OwnRequest(r)'
  BY DEF OwnRequest
<1>2. \A e : OwnFrame(e) => OwnFrame(e)'
  BY <1>1 DEF OwnFrame, Pulling
<1>3. \A t \in Tasks : OwnTask(t)'
  BY <1>1, HostStands DEF OwnTask, Pulling, MirrorInv
<1> QED
  BY <1>1, <1>2, <1>3, HostStands DEF MirrorInv

LEMMA PullKeepsMirror ==
  ASSUME HostInv, ClientTyped, MirrorInv, Pull
  PROVE  MirrorInv'
<1>1. /\ conn = "subscribed" /\ conn' = "awaiting"
      /\ calls' = calls \cup {Request("snapshot", NoKey, NoValue, epoch)}
      /\ UNCHANGED <<hostVars, epoch, mirror, inbox, dropped>>
  BY DEF Pull
<1>2. /\ \A r : OwnRequest(r) => OwnRequest(r)'
      /\ OwnRequest(Request("snapshot", NoKey, NoValue, epoch))'
  BY <1>1, SystemAssumption DEF OwnRequest, Request, ClientTyped
<1>3. \A e : OwnFrame(e) => OwnFrame(e)'
  BY <1>1, <1>2 DEF OwnFrame, Pulling
<1>4. \A t \in Tasks : OwnTask(t)'
  BY <1>1, <1>2, HostStands DEF OwnTask, Pulling, MirrorInv
<1>5. ClientFrames' = ClientFrames
  BY <1>1 DEF ClientFrames
<1>6. \A e \in InFlight' \cup ClientFrames' : OwnFrame(e)'
  BY <1>1, <1>3, <1>5, HostStands DEF MirrorInv
<1>7. \A e \in ClientFrames' : TrueFrame(e)'
  BY <1>1, <1>5, HostStands DEF MirrorInv
<1>8. \A r \in calls' : OwnRequest(r)'
  BY <1>1, <1>2 DEF MirrorInv
<1>9. \A e \in Range(inbox') : e.type = "reply" => e.req.from = epoch'
  BY <1>1 DEF MirrorInv
<1> QED
  BY <1>1, <1>4, <1>6, <1>7, <1>8, <1>9, HostStands DEF MirrorInv

LEMMA BeatKeepsMirror ==
  ASSUME HostInv, ClientTyped, MirrorInv, Beat
  PROVE  MirrorInv'
<1>1. /\ conn = "live" /\ UNCHANGED <<hostVars, conn, epoch, mirror, inbox, dropped>>
      /\ \E k \in HeartbeatKeys, v \in Values \ BigValues :
           calls' = calls \cup {Request("set", k, v, epoch)}
  BY DEF Beat
<1>2. \A r \in calls' : OwnRequest(r)'
  BY <1>1, SystemAssumption DEF OwnRequest, Request, ClientTyped, MirrorInv
<1>3. /\ \A t \in Tasks : OwnTask(t)'
      /\ \A e \in InFlight' : OwnFrame(e)'
      /\ \A e \in ClientFrames : \A f : f = e => OwnFrame(f)' /\ TrueFrame(f)'
  BY <1>1, LaterAsksLess
<1>4. ClientFrames' = ClientFrames
  BY <1>1 DEF ClientFrames
<1>5. \A e \in ClientFrames' : OwnFrame(e)' /\ TrueFrame(e)'
  BY <1>3, <1>4
<1>6. \A e \in Range(inbox') : e.type = "reply" => e.req.from = epoch'
  BY <1>1 DEF MirrorInv
<1> QED
  BY <1>1, <1>2, <1>3, <1>5, <1>6, HostStands DEF MirrorInv

LEMMA EndKeepsMirror ==
  ASSUME HostInv, ClientTyped, MirrorInv, PullTimeout \/ Disconnect
  PROVE  MirrorInv'
<1>1. /\ conn' \in {"live", "down"} /\ UNCHANGED <<hostVars, epoch, mirror, calls>>
      /\ inbox' \in {inbox, << >>} /\ dropped' \in {dropped, {}}
      /\ conn' = "down" => inbox' = << >>
  BY DEF PullTimeout, Disconnect
<1>2. Range(inbox') \subseteq Range(inbox) /\ ClientFrames' \subseteq ClientFrames
  <2>1. Range(<< >>) = {}
    BY DEF Range
  <2> QED
    BY <1>1, <2>1 DEF ClientFrames
<1>3. /\ \A r : OwnRequest(r) => OwnRequest(r)'
      /\ \A t \in Tasks : OwnTask(t)'
      /\ \A e \in InFlight' : OwnFrame(e)'
      /\ \A e \in ClientFrames : \A f : f = e => OwnFrame(f)' /\ TrueFrame(f)'
  BY <1>1, LaterAsksLess
<1>4. \A e \in ClientFrames' : OwnFrame(e)' /\ TrueFrame(e)'
  BY <1>2, <1>3
<1>5. \A r \in calls' : OwnRequest(r)'
  BY <1>1, <1>3 DEF MirrorInv
<1>6. \A e \in Range(inbox') : e.type = "reply" => e.req.from = epoch'
  BY <1>1, <1>2 DEF MirrorInv
<1> QED
  BY <1>1, <1>3, <1>4, <1>5, <1>6, HostStands DEF MirrorInv

LEMMA RedeliverKeepsMirror ==
  ASSUME HostInv, ClientTyped, MirrorInv, Redeliver
  PROVE  MirrorInv'
<1>1. /\ conn = "live" /\ UNCHANGED <<hostVars, conn, epoch, mirror, calls, dropped>>
      /\ \E e \in dropped : inbox' = Append(inbox, e)
  BY DEF Redeliver
<1>2. PICK e \in dropped : inbox' = Append(inbox, e)
  BY <1>1
<1>3. e \in EnvelopeType /\ e.type = "delta" /\ Range(inbox') = Range(inbox) \cup {e}
  BY <1>2, AppendShape DEF ClientTyped
<1>4. ClientFrames' = ClientFrames
  BY <1>1, <1>3 DEF ClientFrames
<1>5. /\ \A r : OwnRequest(r) => OwnRequest(r)'
      /\ \A t \in Tasks : OwnTask(t)'
      /\ \A f \in InFlight' : OwnFrame(f)'
      /\ \A f \in ClientFrames : \A g : g = f => OwnFrame(g)' /\ TrueFrame(g)'
  BY <1>1, LaterAsksLess
<1>6. \A f \in ClientFrames' : OwnFrame(f)' /\ TrueFrame(f)'
  BY <1>4, <1>5
<1>7. \A f \in Range(inbox') : f.type = "reply" => f.req.from = epoch'
  BY <1>1, <1>3 DEF MirrorInv
<1>8. \A r \in calls' : OwnRequest(r)'
  BY <1>1, <1>5 DEF MirrorInv
<1> QED
  BY <1>1, <1>5, <1>6, <1>7, <1>8, HostStands DEF MirrorInv

\* A snapshot shows one version, and each of its rows was set by then.
LEMMA SnapshotShows ==
  ASSUME HostInv, ClientTyped, MirrorInv, NEW e \in EnvelopeType, e.type = "reply",
         e.status = "ok", TrueFrame(e), e.req.op = "snapshot", UNCHANGED hostVars,
         mirror' = [version |-> e.version, rows |-> e.rows]
  PROVE  MirrorShowsCommitted'
<1>1. /\ e.version \in 0..Len(log) /\ e.rows = ContentAt(log, e.version)
      /\ db.version = Len(log)
  <2>1. e.version \in Nat /\ e.version <= Len(log) /\ e.rows = ContentAt(log, e.version)
    BY EnvelopeFields DEF TrueFrame, ReplyIsTrue
  <2>2. log \in Seq(MutationType) /\ db.version = Len(log)
    BY DEF HostInv, TypeOK, StoreInv, StoreMatchesHistory
  <2> QED
    BY <2>1, <2>2, LenProperties
<1>2. \A k \in Keys : HasSource(e.version, k)
  BY <1>1, RowsHaveSources DEF HostInv, MirrorInv
<1>3. log' = log /\ db' = db /\ mirror'.version = e.version /\ mirror'.rows = e.rows
  BY DEF hostVars
<1>4. e.version <= db.version
  BY <1>1
<1> QED
  BY <1>1, <1>2, <1>3, <1>4 DEF HasSource, MirrorShowsCommitted

LEMMA AwaitKeepsMirror ==
  ASSUME HostInv, ClientTyped, MirrorInv, AwaitFrame
  PROVE  MirrorInv' /\ mirror'.version >= mirror.version
<1>0. PICK e : e = Head(inbox)
  OBVIOUS
<1>1. /\ conn = "awaiting" /\ inbox # << >> /\ inbox' = Tail(inbox)
      /\ UNCHANGED <<hostVars, epoch, calls>> /\ inbox \in Seq(EnvelopeType)
      /\ mirror.version \in Nat
  BY DEF AwaitFrame, ClientTyped, MirrorType
<1>2. e \in EnvelopeType /\ e \in Range(inbox) /\ Range(inbox') \subseteq Range(inbox)
  BY <1>0, <1>1, TailShape
<1>3. OwnFrame(e) /\ TrueFrame(e) /\ (e.type = "reply" => e.req.from = epoch)
  BY <1>2 DEF MirrorInv, ClientFrames
<1>4. CASE e.type = "delta"
  <2>1. UNCHANGED <<conn, mirror>> /\ dropped' = dropped \cup {e}
    BY <1>0, <1>4 DEF AwaitFrame
  <2>2. ClientFrames' \subseteq ClientFrames
    BY <1>2, <2>1 DEF ClientFrames
  <2>3. \A f : OwnFrame(f) => OwnFrame(f)'
    BY <1>1, <2>1, OwnRequestStays DEF OwnFrame, Pulling
  <2>4. \A t \in Tasks : OwnTask(t)'
    BY <1>1, <2>1, OwnRequestStays, HostStands DEF OwnTask, Pulling, MirrorInv
  <2>5. \A f \in InFlight' \cup ClientFrames' : OwnFrame(f)'
    BY <1>1, <2>2, <2>3, HostStands DEF MirrorInv
  <2>6. \A f \in ClientFrames' : TrueFrame(f)'
    BY <1>1, <2>2, HostStands DEF MirrorInv
  <2>7. \A r \in calls' : OwnRequest(r)'
    BY <1>1, <2>1, OwnRequestStays DEF MirrorInv
  <2>8. \A f \in Range(inbox') : f.type = "reply" => f.req.from = epoch'
    BY <1>1, <1>2 DEF MirrorInv
  <2> QED
    BY <1>1, <2>1, <2>4, <2>5, <2>6, <2>7, <2>8, HostStands DEF MirrorInv
<1>5. CASE e.type = "reply"
  <2>1. /\ conn' = "live" /\ dropped' = dropped
        /\ mirror' = IF e.status = "ok" THEN [version |-> e.version, rows |-> e.rows]
                                        ELSE mirror
    BY <1>0, <1>5 DEF AwaitFrame
  <2>2. ClientFrames' \subseteq ClientFrames
    BY <1>2, <2>1 DEF ClientFrames
  <2>3. /\ \A r : OwnRequest(r) => OwnRequest(r)'
        /\ \A t \in Tasks : OwnTask(t)'
        /\ \A f \in InFlight' : OwnFrame(f)'
        /\ \A f \in ClientFrames : \A g : g = f => OwnFrame(g)' /\ TrueFrame(g)'
    BY <1>1, <2>1, LaterAsksLess
  <2>4. \A f \in ClientFrames' : OwnFrame(f)' /\ TrueFrame(f)'
    BY <2>2, <2>3
  <2>5. e.req.op = "snapshot" /\ (e.status = "ok" => e.version >= mirror.version)
    BY <1>1, <1>3, <1>5 DEF OwnFrame, OwnRequest, Pulling
  <2>6. MirrorShowsCommitted' /\ mirror'.version >= mirror.version
    <3>1. CASE e.status = "ok"
      BY <1>1, <1>2, <1>3, <1>5, <2>1, <2>5, <3>1, SnapshotShows
    <3>2. CASE e.status # "ok"
      BY <1>1, <2>1, <3>2, HostStands
    <3> QED
      BY <3>1, <3>2
  <2>7. \A r \in calls' : OwnRequest(r)'
    BY <1>1, <2>3 DEF MirrorInv
  <2>8. \A f \in Range(inbox') : f.type = "reply" => f.req.from = epoch'
    BY <1>1, <1>2 DEF MirrorInv
  <2> QED
    BY <1>1, <2>1, <2>3, <2>4, <2>6, <2>7, <2>8, HostStands DEF MirrorInv
<1> QED
  BY <1>2, <1>4, <1>5, EnvelopeFields

\* A delta that the mirror has not yet repeats the entry of its version.
LEMMA DeltaShows ==
  ASSUME HostInv, ClientTyped, MirrorInv, NEW e \in EnvelopeType, e.type = "delta",
         TrueFrame(e), UNCHANGED hostVars, mirror' = ApplyDelta(mirror, e)
  PROVE  MirrorShowsCommitted' /\ mirror'.version >= mirror.version
<1>1. /\ mirror.version \in Nat /\ mirror.rows \in [Keys -> Values \cup {NoValue}]
      /\ e.version \in Nat /\ e.key \in Keys
  BY EnvelopeFields DEF ClientTyped, MirrorType
<1>2. CASE e.version <= mirror.version
  BY <1>1, <1>2, HostStands DEF ApplyDelta
<1>3. CASE ~(e.version <= mirror.version)
  <2>0. PICK m : m = log[e.version]
    OBVIOUS
  <2>1. /\ mirror'.version = e.version
        /\ mirror'.rows = [mirror.rows EXCEPT ![e.key] = IF e.op = "set" THEN e.value
                                                         ELSE NoValue]
    BY <1>3 DEF ApplyDelta
  <2>2. /\ e.version \in 1..Len(log) /\ e.op = m.op /\ e.key = m.key /\ e.value = m.value
        /\ db.version = Len(log) /\ DOMAIN log = 1..Len(log)
    <3>1. e.version \in 1..Len(log) /\ e = Delta(m)
      BY <2>0 DEF TrueFrame
    <3>2. log \in Seq(MutationType) /\ db.version = Len(log)
      BY DEF HostInv, TypeOK, StoreInv, StoreMatchesHistory
    <3> QED
      BY <3>1, <3>2, LenProperties DEF Delta
  <2>3. log' = log /\ db' = db
    BY DEF hostVars
  <2>4. ASSUME NEW k \in Keys, mirror'.rows[k] # NoValue
        PROVE  \E v \in DOMAIN log :
                 /\ v <= e.version /\ log[v].op = "set"
                 /\ log[v].key = k /\ log[v].value = mirror'.rows[k]
    <3>1. CASE k = e.key
      <4>1. e.op = "set" /\ mirror'.rows[k] = e.value
        BY <1>1, <2>1, <2>4, <3>1
      <4>2. /\ e.version \in DOMAIN log /\ e.version <= e.version
            /\ log[e.version].op = "set" /\ log[e.version].key = k
            /\ log[e.version].value = mirror'.rows[k]
        BY <1>1, <2>0, <2>2, <3>1, <4>1
      <4> QED
        BY <4>2
    <3>2. CASE k # e.key
      <4>1. mirror'.rows[k] = mirror.rows[k]
        BY <1>1, <2>1, <3>2
      <4>2. PICK v \in DOMAIN log :
              /\ v <= mirror.version /\ log[v].op = "set"
              /\ log[v].key = k /\ log[v].value = mirror.rows[k]
        BY <2>4, <4>1 DEF MirrorInv, MirrorShowsCommitted
      <4>3. v <= e.version
        BY <1>1, <1>3, <2>2, <4>2
      <4> QED
        BY <4>1, <4>2, <4>3
    <3> QED
      BY <3>1, <3>2
  <2>5. e.version <= db.version /\ mirror'.version >= mirror.version
    BY <1>1, <1>3, <2>1, <2>2
  <2> QED
    BY <2>1, <2>3, <2>4, <2>5 DEF MirrorShowsCommitted
<1> QED
  BY <1>2, <1>3

LEMMA HandleKeepsMirror ==
  ASSUME HostInv, ClientTyped, MirrorInv, HandleFrame
  PROVE  MirrorInv' /\ mirror'.version >= mirror.version
<1>0. PICK e : e = Head(inbox)
  OBVIOUS
<1>1. /\ conn = "live" /\ inbox # << >> /\ inbox' = Tail(inbox)
      /\ UNCHANGED <<hostVars, conn, epoch, calls>> /\ inbox \in Seq(EnvelopeType)
      /\ mirror' = IF e.type = "delta" THEN ApplyDelta(mirror, e) ELSE mirror
      /\ dropped' = dropped \ {e} /\ mirror.version \in Nat
  BY <1>0 DEF HandleFrame, ClientTyped, MirrorType
<1>2. e \in EnvelopeType /\ e \in Range(inbox) /\ Range(inbox') \subseteq Range(inbox)
  BY <1>0, <1>1, TailShape
<1>3. TrueFrame(e) /\ ClientFrames' \subseteq ClientFrames
  BY <1>1, <1>2 DEF MirrorInv, ClientFrames
<1>4. /\ \A r : OwnRequest(r) => OwnRequest(r)'
      /\ \A t \in Tasks : OwnTask(t)'
      /\ \A f \in InFlight' : OwnFrame(f)'
      /\ \A f \in ClientFrames : \A g : g = f => OwnFrame(g)' /\ TrueFrame(g)'
  BY <1>1, LaterAsksLess
<1>5. \A f \in ClientFrames' : OwnFrame(f)' /\ TrueFrame(f)'
  BY <1>3, <1>4
<1>6. MirrorShowsCommitted' /\ mirror'.version >= mirror.version
  <2>1. CASE e.type = "delta"
    BY <1>1, <1>2, <1>3, <2>1, DeltaShows
  <2>2. CASE e.type # "delta"
    BY <1>1, <2>2, HostStands
  <2> QED
    BY <2>1, <2>2
<1>7. \A r \in calls' : OwnRequest(r)'
  BY <1>1, <1>4 DEF MirrorInv
<1>8. \A f \in Range(inbox') : f.type = "reply" => f.req.from = epoch'
  BY <1>1, <1>2 DEF MirrorInv
<1> QED
  BY <1>1, <1>4, <1>5, <1>6, <1>7, <1>8, HostStands DEF MirrorInv

LEMMA MirrorStep ==
  ASSUME HostInv, HostInv', ClientTyped, ClientTyped', MirrorInv, [SystemNext]_systemVars
  PROVE  MirrorInv' /\ mirror'.version >= mirror.version
<1>0. mirror.version \in Nat
  BY DEF ClientTyped, MirrorType
<1>1. CASE HostStep \/ UNCHANGED systemVars
  <2>1. mirror' = mirror
    BY <1>1 DEF HostStep, clientVars, systemVars
  <2> QED
    BY <1>0, <1>1, <2>1, SystemHostStep
<1>2. ASSUME NEW t \in Tasks, HostAccepts(t) PROVE MirrorInv' /\ mirror'.version >= mirror.version
  <2>1. mirror' = mirror
    BY <1>2 DEF HostAccepts, clientVars
  <2> QED
    BY <1>0, <1>2, <2>1, AcceptKeepsMirror
<1>3. CASE HostSends
  BY <1>0, <1>3, SendKeepsMirror DEF HostSends
<1>4. CASE Redeliver
  BY <1>0, <1>4, RedeliverKeepsMirror DEF Redeliver
<1>5. CASE Connect
  BY <1>0, <1>5, ConnectKeepsMirror DEF Connect
<1>6. CASE Pull
  BY <1>0, <1>6, PullKeepsMirror DEF Pull
<1>7. CASE AwaitFrame
  BY <1>7, AwaitKeepsMirror
<1>8. CASE PullTimeout \/ Disconnect
  <2>1. mirror' = mirror
    BY <1>8 DEF PullTimeout, Disconnect
  <2> QED
    BY <1>0, <1>8, <2>1, EndKeepsMirror
<1>9. CASE HandleFrame
  BY <1>9, HandleKeepsMirror
<1>10. CASE Beat
  BY <1>0, <1>10, BeatKeepsMirror DEF Beat
<1> QED
  BY <1>1, <1>2, <1>3, <1>4, <1>5, <1>6, <1>7, <1>8, <1>9, <1>10 DEF SystemNext, ClientStep

LEMMA HostInvHolds == HostSpec => []HostInv
<1>1. TypeOK /\ StoreInv /\ ReplyInv => HostInv
  BY DEF HostInv, ReplyInv
<1> QED
  BY <1>1, TypeCorrect, StoreInvHolds, ReplyInvHolds, PTL

LEMMA MirrorInit == SystemInit => MirrorInv
<1> SUFFICES ASSUME SystemInit PROVE MirrorInv
  OBVIOUS
<1>1. /\ chan = << >> /\ log = << >> /\ inbox = << >> /\ calls = {} /\ dropped = {}
      /\ \A t \in Tasks : outbox[t] = << >> /\ pc[t] = "idle"
      /\ mirror.version = 0 /\ db.version = 0 /\ mirror.rows = EmptyRows
  BY DEF SystemInit, HostInit, EmptyMirror, EmptyDb, OpenPool, NewFile
<1>2. InFlight = {} /\ ClientFrames = {} /\ Range(inbox) = {}
  BY <1>1 DEF InFlight, ClientFrames, Range
<1>3. LogInv
  BY <1>1 DEF LogInv
<1>4. MirrorShowsCommitted
  BY <1>1 DEF MirrorShowsCommitted, EmptyRows
<1>5. \A t \in Tasks : OwnTask(t)
  BY <1>1 DEF OwnTask
<1> QED
  BY <1>1, <1>2, <1>3, <1>4, <1>5 DEF MirrorInv

THEOREM SystemInvHolds == SystemSpec => [](HostInv /\ ClientTyped /\ MirrorInv)
<1>1. HostInv /\ HostInv' /\ ClientTyped /\ ClientTyped' /\ MirrorInv
        /\ [SystemNext]_systemVars => MirrorInv'
  BY MirrorStep
<1> QED
  BY <1>1, MirrorInit, HostInvHolds, SystemHasHost, ClientTypeCorrect, PTL DEF SystemSpec

\* The mirror never shows a row that was not committed under its key by the
\* version the mirror claims, and never claims a version the store does not have,
\* for any number of tasks, connections, crashes of the plugin, lost pulls and
\* events delivered twice.
THEOREM MirrorNeverInvents == SystemSpec => []MirrorShowsCommitted
<1>1. MirrorInv => MirrorShowsCommitted
  BY DEF MirrorInv
<1> QED
  BY <1>1, SystemInvHolds, PTL

\* The mirror never goes back to an earlier version: a snapshot that replaces it
\* was read after the deltas it has applied.
THEOREM MirrorNeverGoesBack == SystemSpec => MirrorMonotone
<1>1. HostInv /\ HostInv' /\ ClientTyped /\ ClientTyped' /\ MirrorInv
        /\ [SystemNext]_systemVars
      => [mirror'.version >= mirror.version]_systemVars
  BY MirrorStep
<1> QED
  BY <1>1, SystemInvHolds, PTL DEF SystemSpec, MirrorMonotone

-----------------------------------------------------------------------------
(* One request at a time: the deltas and the snapshots leave in order        *)

\* The plugin handles one request at a time, never restarts, and has room for
\* every snapshot. Each is needed: concurrent handlers push their deltas out of
\* order, a crash loses deltas, and so does a snapshot that is refused.
Undisturbed(t) == Tasks = {t} /\ MaxCrashes = 0 /\ RoomForSnapshots

\* What the task and the channel still hold, first to be sent first.
Pipe(t) == chan \o outbox[t]

Snapshot(e) == e.type = "reply" /\ e.status = "ok" /\ e.req.op = "snapshot"

\* A delta stands before the later deltas and before the snapshots that have it.
InOrder(e, f) ==
  e.type = "delta" => /\ f.type = "delta" => e.version < f.version
                      /\ Snapshot(f) => e.version <= f.version

Ordered(s) == \A i, j \in DOMAIN s : i < j => InOrder(s[i], s[j])

Fresh(e) == Snapshot(e) => e.version >= Len(published)

\* The versions sent are 1, 2, ... without a gap, what waits is in order, and a
\* snapshot that waits has everything that was sent.
PipeInv(t) ==
  /\ lost = {}
  /\ \A i \in 1..Len(published) : published[i] = i
  /\ HasSnapshot(t) => base[t] = db.version
  /\ Ordered(Pipe(t))
  /\ \A i \in DOMAIN Pipe(t) : Fresh(Pipe(t)[i])

LEMMA ConcatShape ==
  ASSUME NEW S, NEW s \in Seq(S), NEW u \in Seq(S)
  PROVE  /\ s \o u \in Seq(S) /\ Len(s) \in Nat /\ Len(u) \in Nat
         /\ DOMAIN (s \o u) = 1..(Len(s) + Len(u))
         /\ DOMAIN s = 1..Len(s) /\ DOMAIN u = 1..Len(u)
         /\ \A i \in 1..Len(s) : (s \o u)[i] = s[i]
         /\ \A i \in 1..Len(u) : (s \o u)[Len(s) + i] = u[i]
<1>1. /\ s \o u \in Seq(S) /\ Len(s) \in Nat /\ Len(u) \in Nat
      /\ Len(s \o u) = Len(s) + Len(u)
      /\ \A i \in 1..Len(s) + Len(u) :
           (s \o u)[i] = IF i <= Len(s) THEN s[i] ELSE u[i - Len(s)]
  BY ConcatProperties, LenProperties
<1>2. \A i \in 1..Len(s) : i \in 1..(Len(s) + Len(u)) /\ i <= Len(s)
  BY <1>1
<1>3. \A i \in 1..Len(u) : /\ Len(s) + i \in 1..(Len(s) + Len(u)) /\ ~(Len(s) + i <= Len(s))
                          /\ (Len(s) + i) - Len(s) = i
  BY <1>1
<1> QED
  BY <1>1, <1>2, <1>3, LenProperties

\* Each place of a concatenation is one of its first or of its second part.
LEMMA ConcatPlaces ==
  ASSUME NEW S, NEW s \in Seq(S), NEW u \in Seq(S), NEW i \in DOMAIN (s \o u)
  PROVE  \/ i \in 1..Len(s) /\ (s \o u)[i] = s[i]
         \/ \E j \in 1..Len(u) : i = Len(s) + j /\ (s \o u)[i] = u[j]
<1>1. CASE i <= Len(s)
  BY <1>1, ConcatShape
<1>2. CASE ~(i <= Len(s))
  <2>1. Len(s) \in Nat /\ Len(u) \in Nat /\ i \in 1..(Len(s) + Len(u))
    BY ConcatShape
  <2>2. i - Len(s) \in 1..Len(u) /\ i = Len(s) + (i - Len(s))
    BY <1>2, <2>1
  <2> QED
    BY <2>2, ConcatShape
<1> QED
  BY <1>1, <1>2

LEMMA OrderedConcat ==
  ASSUME NEW S, NEW s \in Seq(S), NEW u \in Seq(S), Ordered(s), Ordered(u),
         \A i \in 1..Len(s), j \in 1..Len(u) : InOrder(s[i], u[j])
  PROVE  Ordered(s \o u)
<1>1. Len(s) \in Nat /\ Len(u) \in Nat /\ DOMAIN s = 1..Len(s) /\ DOMAIN u = 1..Len(u)
  BY ConcatShape
<1> SUFFICES ASSUME NEW i \in DOMAIN (s \o u), NEW j \in DOMAIN (s \o u), i < j
             PROVE  InOrder((s \o u)[i], (s \o u)[j])
  BY DEF Ordered
<1>2. PICK si : si = (s \o u)[i]
  OBVIOUS
<1>3. PICK sj : sj = (s \o u)[j]
  OBVIOUS
<1>4. /\ \/ i \in 1..Len(s) /\ si = s[i]
         \/ \E k \in 1..Len(u) : i = Len(s) + k /\ si = u[k]
      /\ \/ j \in 1..Len(s) /\ sj = s[j]
         \/ \E k \in 1..Len(u) : j = Len(s) + k /\ sj = u[k]
  BY <1>2, <1>3, ConcatPlaces
<1>5. InOrder(si, sj)
  <2>1. CASE i \in 1..Len(s) /\ si = s[i] /\ j \in 1..Len(s) /\ sj = s[j]
    BY <1>1, <2>1 DEF Ordered
  <2>2. CASE i \in 1..Len(s) /\ si = s[i] /\ \E k \in 1..Len(u) : j = Len(s) + k /\ sj = u[k]
    BY <2>2
  <2>3. ASSUME NEW k \in 1..Len(u), i = Len(s) + k, si = u[k] PROVE InOrder(si, sj)
    <3>1. PICK l \in 1..Len(u) : j = Len(s) + l /\ sj = u[l]
      BY <1>1, <1>4, <2>3
    <3>2. k < l
      BY <1>1, <2>3, <3>1
    <3> QED
      BY <1>1, <2>3, <3>1, <3>2 DEF Ordered
  <2> QED
    BY <1>4, <2>1, <2>2, <2>3
<1> QED
  BY <1>2, <1>3, <1>5

\* Moving the first envelope of the outbox to the end of the channel changes
\* nothing in what waits.
LEMMA PushKeepsPipe ==
  ASSUME NEW S, NEW s \in Seq(S), NEW u \in Seq(S), u # << >>
  PROVE  Append(s, Head(u)) \o Tail(u) = s \o u
<1>1. Head(u) \in S /\ Tail(u) \in Seq(S) /\ u = <<Head(u)>> \o Tail(u)
  BY HeadTailProperties, ConcatAssociative, EmptySeq
<1>2. Append(s, Head(u)) = s \o <<Head(u)>> /\ <<Head(u)>> \in Seq(S)
  BY <1>1, AppendIsConcat
<1>3. (s \o <<Head(u)>>) \o Tail(u) = s \o (<<Head(u)>> \o Tail(u))
  BY <1>1, <1>2, ConcatAssociative
<1> QED
  BY <1>1, <1>2, <1>3

LEMMA SendTakesHead ==
  ASSUME NEW S, NEW s \in Seq(S), NEW u \in Seq(S), s # << >>
  PROVE  /\ s \o u # << >> /\ Head(s \o u) = Head(s) /\ Tail(s) \o u = Tail(s \o u)
<1>1. Head(s) \in S /\ Tail(s) \in Seq(S) /\ Len(s) \in Nat /\ Len(s) > 0 /\ Len(u) \in Nat
      /\ Len(Tail(s)) = Len(s) - 1
      /\ Head(s) = s[1]
      /\ \A i \in 1..(Len(s) - 1) : Tail(s)[i] = s[i + 1]
  BY TailShape, HeadTailProperties, LenProperties, EmptySeq
<1>2. s \o u \in Seq(S) /\ Len(s \o u) = Len(s) + Len(u)
      /\ \A i \in 1..Len(s) + Len(u) :
           (s \o u)[i] = IF i <= Len(s) THEN s[i] ELSE u[i - Len(s)]
  BY <1>1, ConcatProperties
<1>3. s \o u # << >>
  BY <1>1, <1>2, EmptySeq
<1>4. Head(s \o u) = s[1]
  BY <1>1, <1>2, <1>3, HeadTailProperties
<1>5. /\ Tail(s \o u) \in Seq(S) /\ Len(Tail(s \o u)) = Len(s) + Len(u) - 1
      /\ \A i \in 1..(Len(s) + Len(u) - 1) : Tail(s \o u)[i] = (s \o u)[i + 1]
  BY <1>1, <1>2, <1>3, HeadTailProperties
<1>6. /\ Tail(s) \o u \in Seq(S) /\ Len(Tail(s) \o u) = Len(s) - 1 + Len(u)
      /\ \A i \in 1..(Len(s) - 1) + Len(u) :
           (Tail(s) \o u)[i] = IF i <= Len(s) - 1 THEN Tail(s)[i] ELSE u[i - (Len(s) - 1)]
  BY <1>1, ConcatProperties
<1>7. \A i \in 1..(Len(s) + Len(u) - 1) : (Tail(s) \o u)[i] = Tail(s \o u)[i]
  BY <1>1, <1>2, <1>5, <1>6
<1>8. Tail(s) \o u = Tail(s \o u)
  <2>1. Len(Tail(s) \o u) = Len(Tail(s \o u))
    BY <1>1, <1>5, <1>6
  <2> QED
    BY <1>1, <1>5, <1>6, <1>7, <2>1, SeqEqual
<1> QED
  BY <1>1, <1>3, <1>4, <1>8

LEMMA PipeTyped ==
  ASSUME TypeOK, NEW t \in Tasks
  PROVE  /\ chan \in Seq(EnvelopeType) /\ outbox[t] \in Seq(EnvelopeType)
         /\ Pipe(t) \in Seq(EnvelopeType) /\ Len(published) \in Nat /\ Len(log) \in Nat
         /\ DOMAIN published = 1..Len(published)
<1>1. /\ chan \in Seq(EnvelopeType) /\ outbox[t] \in Seq(EnvelopeType)
      /\ published \in Seq(Nat) /\ log \in Seq(MutationType)
  BY DEF TypeOK
<1> QED
  BY <1>1, ConcatShape, LenProperties DEF Pipe

\* An answer goes to the end of what waits.
LEMMA AnswerExtendsPipe ==
  ASSUME TypeOK, OnlySendersWait, NEW t \in Tasks, NEW es \in Seq(EnvelopeType),
         Answer(t, es), UNCHANGED chan, pc[t] # "sending"
  PROVE  Pipe(t) = chan /\ Pipe(t)' = chan \o es
<1>1. outbox[t] = << >> /\ outbox'[t] = es
  BY DEF OnlySendersWait, Answer, TypeOK
<1>2. chan \o << >> = chan
  BY PipeTyped, ConcatEmptySeq
<1> QED
  BY <1>1, <1>2 DEF Pipe

LEMMA PipeAnswered ==
  ASSUME TypeOK, OnlySendersWait, NEW t \in Tasks, NEW es \in Seq(EnvelopeType),
         Answer(t, es), UNCHANGED <<chan, published, lost>>, pc[t] # "sending", PipeInv(t),
         Ordered(es), \A i \in 1..Len(chan), j \in 1..Len(es) : InOrder(chan[i], es[j]),
         \A j \in 1..Len(es) : Fresh(es[j])
  PROVE  PipeInv(t)'
<1>1. Pipe(t) = chan /\ Pipe(t)' = chan \o es
  BY AnswerExtendsPipe
<1>2. chan \in Seq(EnvelopeType) /\ DOMAIN chan = 1..Len(chan) /\ DOMAIN es = 1..Len(es)
  BY PipeTyped, LenProperties
<1>3. Ordered(chan \o es)
  BY <1>1, <1>2, OrderedConcat DEF PipeInv
<1>4. ASSUME NEW i \in DOMAIN (chan \o es) PROVE Fresh((chan \o es)[i])
  BY <1>1, <1>2, ConcatPlaces DEF PipeInv
<1>5. ~HasSnapshot(t)'
  BY DEF Answer, HasSnapshot, TypeOK
<1>6. Ordered(Pipe(t))'
  BY <1>1, <1>3 DEF Ordered
<1>7. (\A i \in DOMAIN Pipe(t) : Fresh(Pipe(t)[i]))'
  BY <1>1, <1>4 DEF Fresh
<1> QED
  BY <1>5, <1>6, <1>7 DEF PipeInv

\* A handler that answers without a snapshot adds nothing to keep in order.
LEMMA PipeAnsweredOne ==
  ASSUME TypeOK, OnlySendersWait, NEW t \in Tasks, NEW r \in EnvelopeType,
         r.type = "reply", ~Snapshot(r),
         Answer(t, <<r>>), UNCHANGED <<chan, published, lost>>, pc[t] # "sending", PipeInv(t)
  PROVE  PipeInv(t)'
<1>1. /\ <<r>> \in Seq(EnvelopeType) /\ Len(<<r>>) = 1 /\ DOMAIN <<r>> = 1..1 /\ <<r>>[1] = r
  OBVIOUS
<1>2. Ordered(<<r>>)
  BY <1>1 DEF Ordered
<1>3. \A i \in 1..Len(chan), j \in 1..Len(<<r>>) : InOrder(chan[i], <<r>>[j])
  BY <1>1 DEF InOrder
<1>4. \A j \in 1..Len(<<r>>) : Fresh(<<r>>[j])
  BY <1>1 DEF Fresh
<1> QED
  BY <1>1, <1>2, <1>3, <1>4, PipeAnswered

\* A commit adds the snapshot of all it committed, and then its deltas.
LEMMA PipeCommits ==
  ASSUME TypeOK, StoreInv, DeltaInv, RoomForSnapshots, NEW t \in Tasks, Commit(t), PipeInv(t)
  PROVE  PipeInv(t)'
<1>0. PICK es : es = Envelopes(t)
  OBVIOUS
<1>1. /\ muts[t] \in Seq(MutationType) /\ Len(muts[t]) \in Nat /\ req[t] \in Requests
      /\ view[t] \in DbType /\ base[t] \in Nat /\ view[t].version \in Nat
      /\ pc[t] = "commit" /\ HasSnapshot(t)
  BY LenProperties DEF TypeOK, Commit, HasSnapshot, DbType
<1>2. /\ base[t] = Len(log) /\ view[t].version = Len(log) + Len(muts[t])
  BY <1>1, ZenonT(30) DEF PipeInv, StoreInv, StoreMatchesHistory, TxInv
<1>3. es \in Seq(EnvelopeType)
  BY <1>0, <1>1, EnvelopesType
<1>4. /\ DOMAIN es = 1..(1 + Len(muts[t])) /\ Len(es) = 1 + Len(muts[t])
      /\ es[1].type = "reply"
      /\ \A i \in 2..(1 + Len(muts[t])) :
           es[i].type = "delta" /\ es[i].version = Len(log) + (i - 1)
  <2>1. /\ DOMAIN es = 1..(1 + Len(muts[t])) /\ es[1].type = "reply"
        /\ \A i \in 2..(1 + Len(muts[t])) :
             es[i].type = "delta" /\ es[i].version = base[t] + (i - 1)
    BY <1>0, EnvelopesShape
  <2>2. Len(es) \in Nat /\ DOMAIN es = 1..Len(es)
    BY <1>3, LenProperties
  <2>3. Len(es) = 1 + Len(muts[t])
    BY <1>1, <2>1, <2>2
  <2> QED
    BY <1>2, <2>1, <2>3
<1>5. Snapshot(es[1]) => es[1].version = view[t].version
  <2>1. CASE es = <<ErrorReply(req[t])>>
    BY <2>1 DEF ErrorReply, Reply, Snapshot
  <2>2. CASE es # <<ErrorReply(req[t])>>
    <3> DEFINE r == Reply(req[t], "ok", view[t].version,
                          IF req[t].op = "snapshot" THEN view[t].rows ELSE EmptyRows)
    <3>1. es = <<r>> \o Deltas(muts[t]) /\ r.version = view[t].version
      BY <1>0, <2>2 DEF Envelopes, Reply
    <3>2. r \in EnvelopeType
      BY <1>1, ReplyType, EmptyDbType DEF DbType
    <3> HIDE DEF r
    <3>3. es[1] = r
      <4>1. <<r>> \in Seq(EnvelopeType) /\ Len(<<r>>) = 1 /\ <<r>>[1] = r
        BY <3>2
      <4>2. Deltas(muts[t]) \in Seq(EnvelopeType)
        BY <1>1, DeltasType
      <4> QED
        BY <3>1, <4>1, <4>2, ConcatShape
    <3> QED
      BY <3>1, <3>3
  <2> QED
    BY <2>1, <2>2
<1>6. /\ Len(published) <= Len(log) /\ Len(published) \in Nat /\ Len(log) \in Nat
      /\ \A i \in 1..Len(chan) : chan[i].type = "delta" => chan[i].version \in 1..Len(log)
  <2>1. Len(published) \in Nat /\ Len(log) \in Nat /\ DOMAIN published = 1..Len(published)
        /\ DOMAIN chan = 1..Len(chan)
    BY PipeTyped, LenProperties
  <2>2. Len(published) # 0 => Len(published) \in 1..Len(log)
    BY <2>1 DEF PipeInv, DeltaInv, Announced, Range
  <2>3. \A i \in 1..Len(chan) : chan[i] \in InFlight
    BY <2>1 DEF InFlight, Range
  <2> QED
    BY <2>1, <2>2, <2>3 DEF StoreInv, DeltasAreCommitted
<1>7. Ordered(es)
  <2> SUFFICES ASSUME NEW i \in DOMAIN es, NEW j \in DOMAIN es, i < j
               PROVE  InOrder(es[i], es[j])
    BY DEF Ordered
  <2>1. CASE i = 1
    BY <1>4, <2>1 DEF InOrder
  <2>2. CASE i # 1
    <3>1. i \in 2..(1 + Len(muts[t])) /\ j \in 2..(1 + Len(muts[t]))
      BY <1>1, <1>4, <2>2
    <3>2. es[i].version = Len(log) + (i - 1) /\ es[j].version = Len(log) + (j - 1)
          /\ es[j].type = "delta"
      BY <1>4, <3>1
    <3> QED
      BY <1>6, <3>1, <3>2 DEF InOrder, Snapshot
  <2> QED
    BY <2>1, <2>2
<1>8. ASSUME NEW i \in 1..Len(chan), NEW j \in 1..Len(es) PROVE InOrder(chan[i], es[j])
  <2>1. CASE j = 1
    BY <1>1, <1>2, <1>4, <1>5, <1>6, <2>1 DEF InOrder
  <2>2. CASE j # 1
    <3>1. j \in 2..(1 + Len(muts[t]))
      BY <1>1, <1>4, <2>2
    <3>2. es[j].version = Len(log) + (j - 1) /\ es[j].type = "delta"
      BY <1>4, <3>1
    <3> QED
      BY <1>6, <3>1, <3>2 DEF InOrder, Snapshot
  <2> QED
    BY <2>1, <2>2
<1>9. ASSUME NEW j \in 1..Len(es) PROVE Fresh(es[j])
  <2>1. CASE j = 1
    BY <1>1, <1>2, <1>5, <1>6, <2>1 DEF Fresh
  <2>2. CASE j # 1
    BY <1>1, <1>4, <2>2 DEF Fresh, Snapshot
  <2> QED
    BY <2>1, <2>2
<1>10. Answer(t, es) /\ UNCHANGED <<chan, published, lost>>
  BY <1>0 DEF Commit, ghostVars
<1> QED
  BY <1>1, <1>3, <1>7, <1>8, <1>9, <1>10, PipeAnswered DEF DeltaInv

\* While the channel and the outbox stay, the order of what waits does.
LEMMA PipeStands ==
  ASSUME TypeOK, NEW t \in Tasks, PipeInv(t),
         UNCHANGED <<chan, outbox, published, lost>>,
         HasSnapshot(t)' => base'[t] = db'.version
  PROVE  PipeInv(t)'
<1>1. Pipe(t)' = Pipe(t)
  BY DEF Pipe
<1> QED
  BY <1>1 DEF PipeInv, Ordered, Fresh

LEMMA PipePushed ==
  ASSUME TypeOK, NEW t \in Tasks, PipeInv(t), Push(t)
  PROVE  PipeInv(t)'
<1>1. /\ chan' = Append(chan, Head(outbox[t])) /\ outbox'[t] = Tail(outbox[t])
      /\ outbox[t] # << >> /\ UNCHANGED <<published, lost, base, db>>
      /\ ~HasSnapshot(t)'
  BY DEF Push, TypeOK, txVars, ghostVars, HasSnapshot
<1>2. Pipe(t)' = Pipe(t)
  BY <1>1, PipeTyped, PushKeepsPipe DEF Pipe
<1> QED
  BY <1>1, <1>2 DEF PipeInv, Ordered, Fresh

\* The first delta that waits has the version after the last one sent: that
\* version waits somewhere, and nothing before it in order stands behind.
LEMMA NextIsSent ==
  ASSUME NEW t, Tasks = {t}, TypeOK, DeltaInv, StoreInv, PipeInv(t),
         NEW p, p = Pipe(t), p # << >>, p[1].type = "delta"
  PROVE  p[1].version = Len(published) + 1
<1>1. /\ p \in Seq(EnvelopeType) /\ Len(published) \in Nat /\ Len(log) \in Nat
      /\ DOMAIN published = 1..Len(published) /\ DOMAIN p = 1..Len(p)
      /\ Len(p) \in Nat /\ Len(p) > 0
      /\ chan \in Seq(EnvelopeType) /\ outbox[t] \in Seq(EnvelopeType)
  BY PipeTyped, LenProperties, EmptySeq
<1>2. InFlight = Range(p)
  <2>1. InFlight = Range(chan) \cup Range(outbox[t])
    BY DEF InFlight
  <2>2. Range(p) = Range(chan) \cup Range(outbox[t])
    <3> DEFINE a == chan
               b == outbox[t]
    <3>1. /\ p = a \o b /\ a \in Seq(EnvelopeType) /\ b \in Seq(EnvelopeType)
          /\ Len(a) \in Nat /\ Len(b) \in Nat
          /\ DOMAIN a = 1..Len(a) /\ DOMAIN b = 1..Len(b)
      BY <1>1, LenProperties DEF Pipe
    <3> HIDE DEF a, b
    <3>2. ASSUME NEW i \in DOMAIN (a \o b) PROVE (a \o b)[i] \in Range(a) \cup Range(b)
      BY <3>1, ConcatPlaces DEF Range
    <3>3. /\ \A i \in 1..Len(a) : i \in DOMAIN (a \o b) /\ (a \o b)[i] = a[i]
          /\ \A i \in 1..Len(b) :
               Len(a) + i \in DOMAIN (a \o b) /\ (a \o b)[Len(a) + i] = b[i]
      <4>1. /\ DOMAIN (a \o b) = 1..(Len(a) + Len(b))
            /\ \A i \in 1..Len(a) : (a \o b)[i] = a[i]
            /\ \A i \in 1..Len(b) : (a \o b)[Len(a) + i] = b[i]
        BY <3>1, ConcatShape
      <4> QED
        BY <3>1, <4>1
    <3>4. Range(a \o b) \subseteq Range(a) \cup Range(b)
      BY <3>2 DEF Range
    <3>5. Range(a) \subseteq Range(a \o b) /\ Range(b) \subseteq Range(a \o b)
      BY <3>1, <3>3 DEF Range
    <3>6. Range(p) = Range(a) \cup Range(b)
      BY <3>1, <3>4, <3>5
    <3> QED
      BY <3>6 DEF a, b
  <2> QED
    BY <2>1, <2>2
<1>3. PICK n : n = Len(published)
  OBVIOUS
<1>4. p[1] \in InFlight /\ p[1].version \in 1..Len(log)
  <2>1. p[1] \in InFlight
    BY <1>1, <1>2 DEF Range
  <2> QED
    BY <2>1 DEF StoreInv, DeltasAreCommitted
<1>5. \A v \in 1..n : v \in Announced
  BY <1>1, <1>3 DEF PipeInv, Announced, Range
<1>6. p[1].version > n
  <2>1. p[1].version \notin Announced
    BY <1>4 DEF DeltaInv, AnnouncedExactlyOnce
  <2> QED
    BY <1>1, <1>3, <1>4, <1>5, <2>1
<1>7. n + 1 \in 1..Len(log) /\ n + 1 \notin Announced
  <2>1. n + 1 \in 1..Len(log)
    BY <1>1, <1>3, <1>4, <1>6
  <2>2. \A i \in 1..n : published[i] # n + 1
    BY <1>1, <1>3 DEF PipeInv
  <2> QED
    BY <1>1, <1>3, <2>1, <2>2 DEF Announced, Range
<1>8. PICK e \in InFlight : e.type = "delta" /\ e.version = n + 1
  BY <1>7 DEF DeltaInv, AnnouncedExactlyOnce, PipeInv
<1>9. PICK j \in 1..Len(p) : p[j] = e
  BY <1>1, <1>2, <1>8 DEF Range
<1>10. j = 1 \/ p[1].version < n + 1
  <2>1. j = 1 \/ (1 < j /\ 1 \in DOMAIN p /\ j \in DOMAIN p)
    BY <1>1
  <2> QED
    BY <1>8, <1>9, <2>1 DEF PipeInv, Ordered, InOrder
<1> QED
  BY <1>1, <1>3, <1>4, <1>6, <1>8, <1>9, <1>10

LEMMA PipeSent ==
  ASSUME NEW t, Tasks = {t}, TypeOK, DeltaInv, StoreInv, PipeInv(t), LoopSend
  PROVE  PipeInv(t)'
<1>0. PICK p : p = Pipe(t)
  OBVIOUS
<1>1. /\ chan # << >> /\ chan' = Tail(chan)
      /\ UNCHANGED <<outbox, lost, base, db, pc>>
      /\ published' = IF Head(chan).type = "delta"
                      THEN Append(published, Head(chan).version) ELSE published
  BY DEF LoopSend, txVars
<1>2. /\ p # << >> /\ Head(p) = Head(chan) /\ Pipe(t)' = Tail(p)
  BY <1>0, <1>1, PipeTyped, SendTakesHead DEF Pipe
<1>3. /\ p \in Seq(EnvelopeType) /\ Len(p) \in Nat /\ Len(p) > 0 /\ Head(p) = p[1]
      /\ DOMAIN Tail(p) = 1..(Len(p) - 1) /\ DOMAIN p = 1..Len(p)
      /\ \A i \in 1..(Len(p) - 1) : Tail(p)[i] = p[i + 1]
      /\ p[1] \in EnvelopeType
  BY <1>0, <1>2, PipeTyped, TailShape
<1>4. \A i \in 1..(Len(p) - 1) : i + 1 \in DOMAIN p /\ 1 \in DOMAIN p /\ 1 < i + 1
  BY <1>3
<1>5. Ordered(Tail(p))
  <2> SUFFICES ASSUME NEW i \in 1..(Len(p) - 1), NEW j \in 1..(Len(p) - 1), i < j
               PROVE  InOrder(p[i + 1], p[j + 1])
    BY <1>3 DEF Ordered
  <2>1. i + 1 < j + 1
    BY <1>3
  <2> QED
    BY <1>0, <1>4, <2>1 DEF PipeInv, Ordered
<1>6. published \in Seq(Nat) /\ Len(published) \in Nat /\ p[1].version \in Nat
  BY <1>3, LenProperties, EnvelopeFields DEF TypeOK
<1>7. /\ \A i \in 1..Len(published') : published'[i] = i
      /\ \A i \in 1..(Len(p) - 1) : Snapshot(p[i + 1]) => p[i + 1].version >= Len(published')
  <2>1. CASE p[1].type = "delta"
    <3>1. p[1].version = Len(published) + 1
      BY <1>0, <1>2, <2>1, NextIsSent
    <3>2. published' = Append(published, Len(published) + 1)
      BY <1>1, <1>2, <1>3, <2>1, <3>1
    <3>3. /\ Len(published') = Len(published) + 1
          /\ \A i \in 1..Len(published) : published'[i] = published[i]
          /\ published'[Len(published) + 1] = Len(published) + 1
      BY <1>6, <3>2, AppendProperties
    <3>4. ASSUME NEW i \in 1..Len(published') PROVE published'[i] = i
      <4>1. i \in 1..Len(published) \/ i = Len(published) + 1
        BY <1>6, <3>3
      <4> QED
        BY <3>3, <4>1 DEF PipeInv
    <3>5. ASSUME NEW i \in 1..(Len(p) - 1), Snapshot(p[i + 1])
          PROVE  p[i + 1].version >= Len(published')
      <4>1. p[1].version <= p[i + 1].version
        BY <1>0, <1>4, <2>1, <3>5 DEF PipeInv, Ordered, InOrder
      <4>2. p[i + 1].version \in Nat
        BY <1>3, <1>4, EnvelopeFields, ElementOfSeq
      <4> QED
        BY <1>6, <3>1, <3>3, <4>1, <4>2
    <3> QED
      BY <3>4, <3>5
  <2>2. CASE p[1].type # "delta"
    <3>1. published' = published
      BY <1>1, <1>2, <1>3, <2>2
    <3> QED
      BY <1>0, <1>4, <3>1 DEF PipeInv, Fresh
  <2> QED
    BY <2>1, <2>2
<1>8. Ordered(Pipe(t))'
  BY <1>2, <1>5 DEF Ordered
<1>9. (\A i \in DOMAIN Pipe(t) : Fresh(Pipe(t)[i]))'
  BY <1>2, <1>3, <1>7 DEF Fresh
<1>10. HasSnapshot(t)' => base'[t] = db'.version
  BY <1>1 DEF HasSnapshot, PipeInv
<1> QED
  BY <1>1, <1>7, <1>8, <1>9, <1>10 DEF PipeInv

LEMMA PipeStep ==
  ASSUME NEW t, Undisturbed(t), TypeOK, StoreInv, DeltaInv, PipeInv(t), [HostNext]_hostVars
  PROVE  PipeInv(t)'
<1>0. t \in Tasks /\ OnlySendersWait /\ RoomForSnapshots /\ req[t] \in Requests
  BY DEF Undisturbed, DeltaInv, TypeOK
<1>1. ASSUME NEW r \in Requests, Accept(t, r) PROVE PipeInv(t)'
  BY <1>0, <1>1, PipeStands DEF Accept, TypeOK, HasSnapshot, ghostVars
<1>2. CASE Refuse(t) \/ LoseRace(t) \/ Fail(t)
  <2>1. /\ Answer(t, <<ErrorReply(req[t])>>) /\ UNCHANGED <<chan, published, lost>>
        /\ pc[t] # "sending"
    BY <1>2 DEF Refuse, LoseRace, Fail, ghostVars, InTx
  <2>2. /\ ErrorReply(req[t]) \in EnvelopeType /\ ErrorReply(req[t]).type = "reply"
        /\ ~Snapshot(ErrorReply(req[t]))
    BY <1>0, ErrorReplyType DEF ErrorReply, Reply, Snapshot
  <2> QED
    BY <1>0, <2>1, <2>2, PipeAnsweredOne
<1>3. CASE Get(t)
  <2> DEFINE r == Reply(req[t], "ok", 0,
                        [EmptyRows EXCEPT ![req[t].key] = db.rows[req[t].key]])
  <2>1. /\ Answer(t, <<r>>) /\ UNCHANGED <<chan, published, lost>> /\ req[t].op = "get"
        /\ pc[t] # "sending"
    BY <1>3 DEF Get, ghostVars
  <2>2. r \in EnvelopeType
    <3>1. db.rows \in [Keys -> Values \cup {NoValue}]
      BY DEF TypeOK, DbType
    <3>2. req[t].key \in Keys
      BY <1>0, <2>1, RequestFields
    <3>3. [EmptyRows EXCEPT ![req[t].key] = db.rows[req[t].key]]
            \in [Keys -> Values \cup {NoValue}]
      BY <3>1, <3>2 DEF EmptyRows
    <3> QED
      BY <1>0, <3>3, ReplyType
  <2>3. r.type = "reply" /\ r.req = req[t]
    BY DEF Reply
  <2> HIDE DEF r
  <2>4. ~Snapshot(r)
    BY <2>1, <2>3 DEF Snapshot
  <2> QED
    BY <1>0, <2>1, <2>2, <2>3, <2>4, PipeAnsweredOne
<1>4. CASE Commit(t)
  BY <1>0, <1>4, PipeCommits
<1>5. CASE Push(t)
  BY <1>0, <1>5, PipePushed
<1>6. CASE Begin(t)
  BY <1>0, <1>6, PipeStands DEF Begin, TypeOK, HasSnapshot, ghostVars
<1>7. CASE SelectStale(t)
  BY <1>0, <1>7, PipeStands DEF SelectStale, TypeOK, ghostVars
<1>8. CASE PruneRow(t)
  BY <1>0, <1>8, PipeStands DEF PruneRow, TakeLock, TypeOK, ghostVars, HasSnapshot, PipeInv
<1>9. CASE Upsert(t)
  BY <1>0, <1>9, PipeStands
     DEF Upsert, PruneDone, TakeLock, TypeOK, ghostVars, HasSnapshot, PipeInv
<1>10. CASE Delete(t)
  BY <1>0, <1>10, PipeStands DEF Delete, TakeLock, TypeOK, ghostVars, HasSnapshot, PipeInv
<1>11. CASE ReadSnapshot(t)
  BY <1>0, <1>11, PipeStands
     DEF ReadSnapshot, PruneDone, TypeOK, ghostVars, HasSnapshot, PipeInv
<1>12. CASE LoopSend
  BY <1>12, PipeSent DEF Undisturbed
<1>13. CASE Crash
  BY <1>13 DEF Crash, Undisturbed, TypeOK
<1>14. CASE Tick \/ UNCHANGED hostVars
  BY <1>0, <1>14, PipeStands DEF Tick, hostVars, txVars, ghostVars, PipeInv, HasSnapshot
<1> QED
  BY <1>1, <1>2, <1>3, <1>4, <1>5, <1>6, <1>7, <1>8, <1>9, <1>10, <1>11, <1>12, <1>13, <1>14
     DEF HostNext, TaskStep, Undisturbed

LEMMA PipeInvHolds ==
  ASSUME NEW t, Undisturbed(t)
  PROVE  HostSpec => []PipeInv(t)
<1>1. HostInit => PipeInv(t)
  <2> SUFFICES ASSUME HostInit PROVE PipeInv(t)
    OBVIOUS
  <2>1. /\ t \in Tasks /\ chan = << >> /\ outbox[t] = << >> /\ published = << >>
        /\ lost = {} /\ pc[t] = "idle"
    BY DEF Undisturbed, HostInit
  <2>2. Pipe(t) = << >>
    BY <2>1, ConcatEmptySeq DEF Pipe
  <2> QED
    BY <2>1, <2>2 DEF PipeInv, Ordered, HasSnapshot
<1>2. TypeOK /\ StoreInv /\ DeltaInv /\ PipeInv(t) /\ [HostNext]_hostVars => PipeInv(t)'
  BY PipeStep
<1>3. HostSpec => []DeltaInv
  BY DeltaInvHolds DEF Undisturbed
<1> QED
  BY <1>1, <1>2, <1>3, TypeCorrect, StoreInvHolds, PTL DEF HostSpec

-----------------------------------------------------------------------------
(* An exact mirror                                                         *)

IsDelta(e) == e.type = "delta"

\* Behind place p of the queue s, every version after v that was sent so far (the
\* last is n) is still to come, in order.
Upto(s, p, v, n) ==
  /\ \A w \in (v + 1)..n : \E i \in DOMAIN s : i > p /\ IsDelta(s[i]) /\ s[i].version = w
  /\ \A i, j \in DOMAIN s :
       /\ p < i /\ i < j /\ IsDelta(s[i]) /\ IsDelta(s[j])
       /\ s[i].version > v /\ s[j].version > v
       => s[i].version < s[j].version

\* The deltas among these frames are of version v or older.
Covered(S, v) == \A e \in S : IsDelta(e) => e.version <= v

GoodReply(e) == e.type = "reply" /\ e.status = "ok"

\* A synced mirror is the content of its version, and a snapshot that waits in the
\* queue would make it so: the deltas that come after it are the ones it lacks,
\* and those before it, and those discarded, are in it.
ExactInv ==
  /\ Covered(ClientFrames, Len(published))
  /\ synced => /\ conn = "live"
               /\ mirror.rows = ContentAt(log, mirror.version)
               /\ Upto(inbox, 0, mirror.version, Len(published))
               /\ Covered(dropped, mirror.version)
  /\ conn = "awaiting" =>
       \A p \in DOMAIN inbox : GoodReply(inbox[p]) =>
         /\ Upto(inbox, p, inbox[p].version, Len(published))
         /\ Covered(dropped, inbox[p].version)
         /\ \A i \in 1..(p - 1) : IsDelta(inbox[i]) => inbox[i].version <= inbox[p].version

LEMMA UptoTail ==
  ASSUME NEW s \in Seq(EnvelopeType), s # << >>, NEW p \in Nat, p > 0,
         NEW v \in Nat, NEW n \in Nat, Upto(s, p, v, n)
  PROVE  Upto(Tail(s), p - 1, v, n)
<1>1. /\ Len(s) \in Nat /\ Len(s) > 0
      /\ DOMAIN Tail(s) = 1..(Len(s) - 1) /\ DOMAIN s = 1..Len(s)
      /\ \A i \in 1..(Len(s) - 1) : Tail(s)[i] = s[i + 1]
  BY TailShape
<1>2. ASSUME NEW w \in (v + 1)..n
      PROVE  \E i \in DOMAIN Tail(s) :
               i > p - 1 /\ IsDelta(Tail(s)[i]) /\ Tail(s)[i].version = w
  <2>1. PICK i \in 1..Len(s) : i > p /\ IsDelta(s[i]) /\ s[i].version = w
    BY <1>1 DEF Upto
  <2>2. i - 1 \in 1..(Len(s) - 1) /\ i - 1 > p - 1 /\ (i - 1) + 1 = i
    BY <1>1, <2>1
  <2>3. Tail(s)[i - 1] = s[i]
    BY <1>1, <2>2
  <2> QED
    BY <1>1, <2>1, <2>2, <2>3
<1>3. ASSUME NEW i \in DOMAIN Tail(s), NEW j \in DOMAIN Tail(s), p - 1 < i, i < j,
             IsDelta(Tail(s)[i]), IsDelta(Tail(s)[j]),
             Tail(s)[i].version > v, Tail(s)[j].version > v
      PROVE  Tail(s)[i].version < Tail(s)[j].version
  <2>1. /\ i + 1 \in DOMAIN s /\ j + 1 \in DOMAIN s /\ p < i + 1 /\ i + 1 < j + 1
        /\ Tail(s)[i] = s[i + 1] /\ Tail(s)[j] = s[j + 1]
    BY <1>1, <1>3
  <2> QED
    BY <1>3, <2>1 DEF Upto
<1> QED
  BY <1>2, <1>3 DEF Upto

\* The first frame is nothing new.
LEMMA UptoSkip ==
  ASSUME NEW s \in Seq(EnvelopeType), s # << >>, NEW v \in Nat, NEW n \in Nat,
         Upto(s, 0, v, n), IsDelta(s[1]) => s[1].version <= v
  PROVE  Upto(Tail(s), 0, v, n)
<1>1. Len(s) \in Nat /\ DOMAIN s = 1..Len(s) /\ Len(s) > 0 /\ s[1] \in EnvelopeType
  BY TailShape
<1>2. s[1].version \in Nat
  BY <1>1, EnvelopeFields
<1>3. Upto(s, 1, v, n)
  <2>1. ASSUME NEW w \in (v + 1)..n
        PROVE  \E i \in DOMAIN s : i > 1 /\ IsDelta(s[i]) /\ s[i].version = w
    <3>1. PICK i \in DOMAIN s : i > 0 /\ IsDelta(s[i]) /\ s[i].version = w
      BY DEF Upto
    <3>2. i # 1
      BY <1>2, <3>1
    <3> QED
      BY <1>1, <3>1, <3>2
  <2>2. \A i \in DOMAIN s : 1 < i => 0 < i
    BY <1>1
  <2> QED
    BY <2>1, <2>2 DEF Upto
<1> QED
  BY <1>3, UptoTail

\* The first frame is a delta the mirror does not have: it is the next one.
LEMMA UptoNext ==
  ASSUME NEW s \in Seq(EnvelopeType), s # << >>, NEW v \in Nat, NEW n \in Nat,
         Upto(s, 0, v, n), IsDelta(s[1]), s[1].version > v, s[1].version <= n
  PROVE  s[1].version = v + 1 /\ Upto(Tail(s), 0, v + 1, n)
<1>1. Len(s) \in Nat /\ DOMAIN s = 1..Len(s) /\ Len(s) > 0 /\ s[1] \in EnvelopeType
      /\ 1 \in DOMAIN s
  BY TailShape
<1>2. \A i \in DOMAIN s : s[i].version \in Nat
  BY <1>1, ElementOfSeq, EnvelopeFields
<1>3. s[1].version = v + 1
  <2>1. v + 1 \in (v + 1)..n
    BY <1>1, <1>2
  <2>2. PICK i \in DOMAIN s : i > 0 /\ IsDelta(s[i]) /\ s[i].version = v + 1
    BY <2>1 DEF Upto
  <2>3. i = 1 \/ s[1].version < v + 1
    <3>1. i = 1 \/ 1 < i
      BY <1>1
    <3>2. 0 < 1 /\ v + 1 > v
      OBVIOUS
    <3> QED
      BY <1>1, <2>2, <3>1, <3>2 DEF Upto
  <2> QED
    BY <1>1, <1>2, <2>2, <2>3
<1>4. Upto(s, 0, v + 1, n)
  <2>1. \A w \in ((v + 1) + 1)..n : w \in (v + 1)..n
    OBVIOUS
  <2>2. \A i \in DOMAIN s : s[i].version > v + 1 => s[i].version > v
    BY <1>2
  <2> QED
    BY <2>1, <2>2 DEF Upto
<1> QED
  BY <1>3, <1>4, UptoSkip

\* A frame at the end that the mirror will have, or that is no delta.
LEMMA UptoOld ==
  ASSUME NEW s \in Seq(EnvelopeType), NEW e \in EnvelopeType, NEW p \in Nat,
         NEW v \in Nat, NEW n \in Nat, Upto(s, p, v, n), IsDelta(e) => e.version <= v
  PROVE  Upto(Append(s, e), p, v, n)
<1>1. /\ Len(s) \in Nat /\ e.version \in Nat
      /\ DOMAIN Append(s, e) = 1..(Len(s) + 1) /\ DOMAIN s = 1..Len(s)
      /\ \A i \in 1..Len(s) : Append(s, e)[i] = s[i]
      /\ Append(s, e)[Len(s) + 1] = e
  BY AppendShape, EnvelopeFields
<1>2. \A i \in DOMAIN s : i \in DOMAIN Append(s, e) /\ Append(s, e)[i] = s[i]
  BY <1>1
<1>3. ASSUME NEW i \in DOMAIN Append(s, e), IsDelta(Append(s, e)[i]),
             Append(s, e)[i].version > v
      PROVE  i \in DOMAIN s
  <2>1. i # Len(s) + 1
    BY <1>1, <1>3
  <2> QED
    BY <1>1, <2>1
<1> QED
  BY <1>2, <1>3 DEF Upto

\* The delta that was just sent comes to the end.
LEMMA UptoSent ==
  ASSUME NEW s \in Seq(EnvelopeType), NEW e \in EnvelopeType, NEW p \in 0..Len(s),
         NEW v \in Nat, NEW n \in Nat, Upto(s, p, v, n), IsDelta(e), e.version = n + 1,
         \A i \in DOMAIN s : IsDelta(s[i]) => s[i].version <= n
  PROVE  Upto(Append(s, e), p, v, n + 1)
<1> DEFINE u == Append(s, e)
<1>1. /\ Len(s) \in Nat /\ p \in Nat
      /\ DOMAIN u = 1..(Len(s) + 1) /\ DOMAIN s = 1..Len(s)
      /\ \A i \in 1..Len(s) : u[i] = s[i]
      /\ u[Len(s) + 1] = e
  BY AppendShape
<1> HIDE DEF u
<1>2. \A i \in DOMAIN s : i \in DOMAIN u /\ u[i] = s[i] /\ s[i].version \in Nat
  BY <1>1, ElementOfSeq, EnvelopeFields
<1>3. ASSUME NEW w \in (v + 1)..(n + 1)
      PROVE  \E i \in DOMAIN u : i > p /\ IsDelta(u[i]) /\ u[i].version = w
  <2>1. CASE w = n + 1
    BY <1>1, <2>1
  <2>2. CASE w # n + 1
    <3>1. w \in (v + 1)..n
      BY <2>2
    <3> QED
      BY <1>2, <3>1 DEF Upto
  <2> QED
    BY <2>1, <2>2
<1>4. ASSUME NEW i \in DOMAIN u, NEW j \in DOMAIN u, p < i, i < j,
             IsDelta(u[i]), IsDelta(u[j]), u[i].version > v, u[j].version > v
      PROVE  u[i].version < u[j].version
  <2>1. i \in DOMAIN s
    BY <1>1, <1>4
  <2>2. CASE j = Len(s) + 1
    <3>1. u[i].version <= n /\ u[i].version \in Nat
      BY <1>2, <1>4, <2>1
    <3> QED
      BY <1>1, <2>2, <3>1
  <2>3. CASE j # Len(s) + 1
    <3>1. j \in DOMAIN s
      BY <1>1, <2>3
    <3> QED
      BY <1>2, <1>4, <2>1, <3>1 DEF Upto
  <2> QED
    BY <2>2, <2>3
<1>5. Upto(u, p, v, n + 1)
  BY <1>3, <1>4 DEF Upto
<1> QED
  BY <1>5 DEF u

\* Nothing stands behind the last place, and nothing need if v has all.
LEMMA UptoLast ==
  ASSUME NEW s \in Seq(EnvelopeType), NEW v \in Nat, NEW n \in Nat, v >= n
  PROVE  Upto(s, Len(s), v, n)
<1>1. Len(s) \in Nat /\ DOMAIN s = 1..Len(s)
  BY LenProperties
<1>2. \A w \in (v + 1)..n : FALSE
  OBVIOUS
<1>3. \A i \in DOMAIN s : ~(Len(s) < i)
  BY <1>1
<1> QED
  BY <1>2, <1>3 DEF Upto

LEMMA ClientFacts ==
  ASSUME HostInv, ClientTyped, MirrorInv
  PROVE  /\ inbox \in Seq(EnvelopeType) /\ Len(inbox) \in Nat /\ DOMAIN inbox = 1..Len(inbox)
         /\ Len(published) \in Nat /\ Len(log) \in Nat
         /\ mirror.version \in Nat /\ mirror.version <= Len(log)
         /\ \A i \in DOMAIN inbox : /\ inbox[i] \in EnvelopeType /\ inbox[i] \in ClientFrames
                                    /\ inbox[i].version \in Nat
         /\ \A e \in dropped : e \in EnvelopeType /\ IsDelta(e) /\ e.version \in Nat
<1>1. inbox \in Seq(EnvelopeType) /\ published \in Seq(Nat) /\ log \in Seq(MutationType)
  BY DEF ClientTyped, HostInv, TypeOK
<1>2. mirror.version \in Nat /\ mirror.version <= Len(log)
  BY DEF ClientTyped, MirrorType, MirrorInv, MirrorShowsCommitted, HostInv, StoreInv,
         StoreMatchesHistory
<1>3. \A i \in DOMAIN inbox : inbox[i] \in EnvelopeType /\ inbox[i] \in ClientFrames
  BY <1>1, ElementOfSeq, LenProperties DEF ClientFrames, Range
<1>4. \A e \in dropped : e \in EnvelopeType /\ IsDelta(e)
  BY DEF ClientTyped, IsDelta
<1> QED
  BY <1>1, <1>2, <1>3, <1>4, LenProperties, EnvelopeFields

LEMMA ContentStays ==
  ASSUME LogGrows, Len(log) \in Nat, NEW v \in Nat, v <= Len(log)
  PROVE  ContentAt(log', v) = ContentAt(log, v)
BY DEF LogGrows, ContentAt

\* While nothing is sent and the client stands still, the history may grow.
LEMMA ExactStands ==
  ASSUME HostInv, ClientTyped, MirrorInv, ExactInv, LogGrows,
         UNCHANGED <<conn, mirror, inbox, dropped, synced, published>>
  PROVE  ExactInv'
<1>1. ContentAt(log', mirror.version) = ContentAt(log, mirror.version)
  BY ClientFacts, ContentStays
<1>2. ClientFrames' = ClientFrames
  BY DEF ClientFrames
<1> QED
  BY <1>1, <1>2 DEF ExactInv, Covered, Upto

\* No reply waits for a client that has not asked.
LEMMA NoReplyBeforePull ==
  ASSUME MirrorInv, conn = "subscribed", NEW e \in Range(inbox)
  PROVE  e.type # "reply"
BY DEF MirrorInv, OwnFrame, OwnRequest, ClientFrames

\* The reply the waiting client sees is its snapshot.
LEMMA AwaitedIsSnapshot ==
  ASSUME MirrorInv, conn = "awaiting", NEW e, OwnFrame(e), e.req.from = epoch, GoodReply(e)
  PROVE  Snapshot(e)
BY DEF OwnFrame, OwnRequest, Snapshot, GoodReply

\* A delta reaches the end of the client's queue.
LEMMA DeltaArrives ==
  ASSUME HostInv, ClientTyped, MirrorInv, ExactInv,
         NEW e \in EnvelopeType, IsDelta(e), e.version = Len(published) + 1,
         Len(published') = Len(published) + 1,
         inbox' = Append(inbox, e), UNCHANGED <<conn, mirror, dropped, synced, log>>
  PROVE  ExactInv'
<1> DEFINE n == Len(published)
<1>0. n \in Nat /\ Len(published') = n + 1 /\ e.version = n + 1
  BY ClientFacts
<1> HIDE DEF n
<1>1. Covered(ClientFrames, n)
  BY DEF ExactInv, n
<1>2. /\ inbox \in Seq(EnvelopeType) /\ Len(inbox) \in Nat /\ DOMAIN inbox = 1..Len(inbox)
      /\ \A i \in DOMAIN inbox : inbox[i].version \in Nat
      /\ \A i \in DOMAIN inbox : IsDelta(inbox[i]) => inbox[i].version <= n
      /\ mirror.version \in Nat
  BY <1>1, ClientFacts DEF Covered
<1>3. /\ DOMAIN inbox' = 1..(Len(inbox) + 1)
      /\ \A i \in 1..Len(inbox) : inbox'[i] = inbox[i]
      /\ inbox'[Len(inbox) + 1] = e /\ Range(inbox') = Range(inbox) \cup {e}
  BY <1>2, AppendShape
<1>4. Covered(ClientFrames', n + 1)
  <2>1. \A f \in ClientFrames : f.version \in Nat
    BY FramesTyped, EnvelopeFields DEF HostInv
  <2>2. ClientFrames' = ClientFrames \cup {e}
    BY <1>3 DEF ClientFrames
  <2> QED
    BY <1>0, <1>1, <2>1, <2>2 DEF Covered
<1>5. ASSUME synced PROVE Upto(inbox', 0, mirror.version, n + 1)
  <2>1. Upto(inbox, 0, mirror.version, n)
    BY <1>5 DEF ExactInv, n
  <2>2. 0 \in 0..Len(inbox)
    BY <1>2
  <2> QED
    BY <1>0, <1>2, <2>1, <2>2, UptoSent
<1>6. ASSUME conn = "awaiting", NEW p \in DOMAIN inbox', GoodReply(inbox'[p])
      PROVE  /\ Upto(inbox', p, inbox'[p].version, n + 1)
             /\ Covered(dropped, inbox'[p].version)
             /\ \A i \in 1..(p - 1) :
                  IsDelta(inbox'[i]) => inbox'[i].version <= inbox'[p].version
  <2>1. p # Len(inbox) + 1
    BY <1>3, <1>6 DEF GoodReply, IsDelta
  <2>2. p \in DOMAIN inbox /\ inbox'[p] = inbox[p] /\ p \in 0..Len(inbox)
    BY <1>2, <1>3, <2>1
  <2>3. /\ Upto(inbox, p, inbox[p].version, n)
        /\ Covered(dropped, inbox[p].version)
        /\ \A i \in 1..(p - 1) : IsDelta(inbox[i]) => inbox[i].version <= inbox[p].version
    BY <1>6, <2>2 DEF ExactInv, n
  <2>4. Upto(inbox', p, inbox[p].version, n + 1)
    BY <1>0, <1>2, <2>2, <2>3, UptoSent
  <2>5. \A i \in 1..(p - 1) : inbox'[i] = inbox[i]
    BY <1>2, <1>3, <2>2
  <2> QED
    BY <2>2, <2>3, <2>4, <2>5
<1> QED
  BY <1>0, <1>4, <1>5, <1>6 DEF ExactInv

\* A reply does: if it is the awaited snapshot, it has all that was sent.
LEMMA ReplyArrives ==
  ASSUME HostInv, ClientTyped, MirrorInv, ExactInv,
         NEW e \in EnvelopeType, ~IsDelta(e), GoodReply(e) /\ conn = "awaiting" => Fresh(e) /\ Snapshot(e),
         inbox' = Append(inbox, e), UNCHANGED <<conn, mirror, dropped, synced, log, published>>
  PROVE  ExactInv'
<1> DEFINE n == Len(published)
<1>0. n \in Nat /\ published' = published /\ e.version \in Nat
  BY ClientFacts, EnvelopeFields
<1> HIDE DEF n
<1>1. Covered(ClientFrames, n)
  BY DEF ExactInv, n
<1>2. /\ inbox \in Seq(EnvelopeType) /\ Len(inbox) \in Nat /\ DOMAIN inbox = 1..Len(inbox)
      /\ \A i \in DOMAIN inbox : inbox[i].version \in Nat
      /\ \A i \in DOMAIN inbox : IsDelta(inbox[i]) => inbox[i].version <= n
      /\ mirror.version \in Nat
      /\ \A f \in dropped : IsDelta(f) /\ f.version <= n /\ f.version \in Nat
  BY <1>1, ClientFacts DEF Covered, ClientFrames
<1>3. /\ DOMAIN inbox' = 1..(Len(inbox) + 1)
      /\ \A i \in 1..Len(inbox) : inbox'[i] = inbox[i]
      /\ inbox'[Len(inbox) + 1] = e /\ Range(inbox') = Range(inbox) \cup {e}
  BY <1>2, AppendShape
<1>4. Covered(ClientFrames', n)
  <2>2. ClientFrames' = ClientFrames \cup {e}
    BY <1>3 DEF ClientFrames
  <2> QED
    BY <1>1, <2>2 DEF Covered
<1>5. ASSUME synced PROVE Upto(inbox', 0, mirror.version, n)
  <2>1. Upto(inbox, 0, mirror.version, n)
    BY <1>5 DEF ExactInv, n
  <2> QED
    BY <1>0, <1>2, <2>1, UptoOld
<1>6. ASSUME conn = "awaiting", NEW p \in DOMAIN inbox', GoodReply(inbox'[p])
      PROVE  /\ Upto(inbox', p, inbox'[p].version, n)
             /\ Covered(dropped, inbox'[p].version)
             /\ \A i \in 1..(p - 1) :
                  IsDelta(inbox'[i]) => inbox'[i].version <= inbox'[p].version
  <2>1. CASE p = Len(inbox) + 1
    <3>1. inbox'[p] = e /\ e.version >= n
      BY <1>3, <1>6, <2>1 DEF Fresh, n
    <3>2. Upto(inbox, Len(inbox), e.version, n)
      BY <1>0, <1>2, <3>1, UptoLast
    <3>3. Upto(inbox', p, e.version, n)
      <4>1. inbox' \in Seq(EnvelopeType) /\ Len(inbox') = p
        BY <1>2, <2>1, AppendProperties
      <4> QED
        BY <1>0, <3>1, <4>1, UptoLast
    <3>4. Covered(dropped, e.version)
      BY <1>0, <1>2, <3>1 DEF Covered
    <3>5. ASSUME NEW i \in 1..(p - 1), IsDelta(inbox'[i])
          PROVE  inbox'[i].version <= e.version
      <4>1. i \in DOMAIN inbox /\ inbox'[i] = inbox[i]
        BY <1>2, <1>3, <2>1
      <4>2. inbox[i].version <= n /\ inbox[i].version \in Nat
        BY <1>2, <3>5, <4>1
      <4> QED
        BY <1>0, <3>1, <4>1, <4>2
    <3> QED
      BY <3>1, <3>3, <3>4, <3>5
  <2>2. CASE p # Len(inbox) + 1
    <3>1. p \in DOMAIN inbox /\ inbox'[p] = inbox[p] /\ p \in Nat
      BY <1>2, <1>3, <2>2
    <3>2. /\ Upto(inbox, p, inbox[p].version, n)
          /\ Covered(dropped, inbox[p].version)
          /\ \A i \in 1..(p - 1) : IsDelta(inbox[i]) => inbox[i].version <= inbox[p].version
      BY <1>6, <3>1 DEF ExactInv, n
    <3>3. Upto(inbox', p, inbox[p].version, n)
      BY <1>0, <1>2, <3>1, <3>2, UptoOld
    <3>4. \A i \in 1..(p - 1) : inbox'[i] = inbox[i]
      BY <1>2, <1>3, <3>1
    <3> QED
      BY <3>1, <3>2, <3>3, <3>4
  <2> QED
    BY <2>1, <2>2
<1>7. Len(published') = n
  BY <1>0 DEF n
<1>8. synced' => /\ conn' = "live" /\ mirror'.rows = ContentAt(log', mirror'.version)
                 /\ Covered(dropped', mirror'.version)
  BY DEF ExactInv
<1> QED
  BY <1>4, <1>5, <1>6, <1>7, <1>8 DEF ExactInv

LEMMA SendKeepsExact ==
  ASSUME NEW t, Undisturbed(t), HostInv, ClientTyped, MirrorInv, DeltaInv, PipeInv(t),
         ExactInv, HostSends
  PROVE  ExactInv'
<1>0. PICK e : e = Head(chan)
  OBVIOUS
<1>1. /\ chan # << >> /\ log' = log /\ UNCHANGED <<conn, epoch, mirror, calls, dropped, synced>>
      /\ published' = IF e.type = "delta" THEN Append(published, e.version) ELSE published
      /\ inbox' = IF ForClient(e) THEN Append(inbox, e) ELSE inbox
      /\ LoopSend /\ Tasks = {t} /\ TypeOK /\ StoreInv /\ t \in Tasks
  BY <1>0 DEF HostSends, LoopSend, Undisturbed, HostInv
<1>2. /\ Pipe(t) # << >> /\ Pipe(t)[1] = e /\ 1 \in DOMAIN Pipe(t)
  <2>1. /\ Pipe(t) # << >> /\ Head(Pipe(t)) = e /\ Pipe(t) \in Seq(EnvelopeType)
    BY <1>0, <1>1, PipeTyped, SendTakesHead DEF Pipe
  <2>2. Len(Pipe(t)) \in Nat /\ Len(Pipe(t)) > 0 /\ DOMAIN Pipe(t) = 1..Len(Pipe(t))
        /\ Head(Pipe(t)) = Pipe(t)[1]
    BY <2>1, TailShape
  <2> QED
    BY <2>1, <2>2
<1>3. e \in InFlight /\ e \in EnvelopeType /\ OwnFrame(e) /\ Fresh(e)
  <2>1. e \in InFlight
    BY <1>0, <1>1, InFlightLoopSend
  <2> QED
    BY <1>1, <1>2, <2>1, InFlightTyped DEF MirrorInv, PipeInv
<1>4. CASE IsDelta(e)
  <2>1. e.version = Len(published) + 1
    BY <1>1, <1>2, <1>4, NextIsSent DEF IsDelta
  <2>2. Len(published') = Len(published) + 1 /\ Len(published) \in Nat
    <3>1. published \in Seq(Nat) /\ e.version \in Nat
      BY <1>1, <1>3, EnvelopeFields DEF TypeOK
    <3> QED
      BY <1>1, <1>4, <3>1, AppendProperties, LenProperties DEF IsDelta
  <2>3. CASE ForClient(e)
    BY <1>1, <1>3, <1>4, <2>1, <2>2, <2>3, DeltaArrives
  <2>4. CASE ~ForClient(e)
    <3>1. conn = "down" /\ ~synced /\ inbox' = inbox
      BY <1>1, <1>4, <2>4 DEF ForClient, IsDelta, ExactInv
    <3>2. \A f \in ClientFrames : f.version \in Nat
      BY <1>1, FramesTyped, EnvelopeFields
    <3>3. Covered(ClientFrames, Len(published'))
      BY <2>2, <3>2 DEF ExactInv, Covered
    <3>4. ClientFrames' = ClientFrames
      BY <1>1, <3>1 DEF ClientFrames
    <3> QED
      BY <1>1, <3>1, <3>3, <3>4 DEF ExactInv
  <2> QED
    BY <2>3, <2>4
<1>5. CASE ~IsDelta(e)
  <2>1. published' = published
    BY <1>1, <1>5 DEF IsDelta
  <2>2. CASE ForClient(e)
    <3>1. e.req.from = epoch
      BY <1>5, <2>2 DEF ForClient, IsDelta
    <3>2. GoodReply(e) /\ conn = "awaiting" => Fresh(e) /\ Snapshot(e)
      BY <1>3, <3>1, AwaitedIsSnapshot
    <3> QED
      BY <1>1, <1>3, <1>5, <2>1, <2>2, <3>2, ReplyArrives
  <2>3. CASE ~ForClient(e)
    <3>1. LogGrows
      BY <1>1, ClientFacts DEF LogGrows
    <3> QED
      BY <1>1, <2>1, <2>3, <3>1, ExactStands
  <2> QED
    BY <2>2, <2>3
<1> QED
  BY <1>4, <1>5

\* The connection changes its phase, but no frame moves.
LEMMA PhaseKeepsExact ==
  ASSUME HostInv, ClientTyped, MirrorInv, ExactInv,
         Connect \/ Pull \/ PullTimeout \/ Disconnect
  PROVE  ExactInv'
<1>1. CASE Connect \/ PullTimeout
  <2>1. /\ ~synced' /\ conn' # "awaiting" /\ UNCHANGED <<inbox, dropped, published>>
    BY <1>1 DEF Connect, PullTimeout, ExactInv, hostVars, ghostVars
  <2>2. ClientFrames' = ClientFrames
    BY <2>1 DEF ClientFrames
  <2> QED
    BY <2>1, <2>2 DEF ExactInv
<1>2. CASE Pull
  <2>1. /\ conn = "subscribed" /\ ~synced' /\ UNCHANGED <<inbox, dropped, published>>
    BY <1>2 DEF Pull, ExactInv, hostVars, ghostVars
  <2>2. ClientFrames' = ClientFrames
    BY <2>1 DEF ClientFrames
  <2>3. \A p \in DOMAIN inbox : ~GoodReply(inbox[p])
    BY <2>1, NoReplyBeforePull DEF GoodReply, Range
  <2> QED
    BY <2>1, <2>2, <2>3 DEF ExactInv
<1>3. CASE Disconnect
  <2>1. /\ inbox' = << >> /\ dropped' = {} /\ ~synced' /\ conn' = "down"
    BY <1>3 DEF Disconnect
  <2>2. ClientFrames' = {}
    BY <2>1 DEF ClientFrames, Range
  <2> QED
    BY <2>1, <2>2 DEF ExactInv, Covered
<1> QED
  BY <1>1, <1>2, <1>3

\* An event that comes once more brings nothing new to a synced mirror.
LEMMA RedeliverKeepsExact ==
  ASSUME HostInv, ClientTyped, MirrorInv, ExactInv, Redeliver
  PROVE  ExactInv'
<1>1. PICK e \in dropped : inbox' = Append(inbox, e)
  BY DEF Redeliver
<1>2. conn = "live" /\ UNCHANGED <<conn, mirror, dropped, synced, log, published>>
  BY DEF Redeliver, hostVars, ghostVars
<1>3. /\ inbox \in Seq(EnvelopeType) /\ e \in EnvelopeType /\ mirror.version \in Nat
      /\ Len(published) \in Nat /\ Range(inbox') = Range(inbox) \cup {e}
  BY <1>1, ClientFacts, AppendShape
<1>4. ClientFrames' = ClientFrames
  BY <1>2, <1>3 DEF ClientFrames
<1>5. synced => Upto(inbox', 0, mirror.version, Len(published))
  <2> SUFFICES ASSUME synced PROVE Upto(inbox', 0, mirror.version, Len(published))
    OBVIOUS
  <2>1. Upto(inbox, 0, mirror.version, Len(published))
        /\ (IsDelta(e) => e.version <= mirror.version)
    BY DEF ExactInv, Covered
  <2> QED
    BY <1>1, <1>3, <2>1, UptoOld
<1> QED
  BY <1>2, <1>4, <1>5 DEF ExactInv

\* Waiting for its snapshot, the client discards a delta that the snapshot has; the
\* snapshot makes the mirror exact.
LEMMA AwaitKeepsExact ==
  ASSUME HostInv, ClientTyped, MirrorInv, ExactInv, AwaitFrame
  PROVE  ExactInv'
<1> DEFINE n == Len(published)
<1>0. PICK e : e = Head(inbox)
  OBVIOUS
<1>1. /\ conn = "awaiting" /\ inbox # << >> /\ inbox' = Tail(inbox)
      /\ UNCHANGED <<log, published, epoch>>
  BY DEF AwaitFrame, hostVars, ghostVars
<1>2. /\ inbox \in Seq(EnvelopeType) /\ Len(inbox) \in Nat /\ Len(inbox) > 0
      /\ e = inbox[1] /\ e \in EnvelopeType /\ e.version \in Nat
      /\ DOMAIN inbox' = 1..(Len(inbox) - 1) /\ DOMAIN inbox = 1..Len(inbox)
      /\ \A i \in 1..(Len(inbox) - 1) : inbox'[i] = inbox[i + 1]
      /\ Range(inbox) = Range(inbox') \cup {e} /\ n \in Nat
      /\ \A f \in dropped : IsDelta(f) /\ f.version \in Nat
  BY <1>0, <1>1, ClientFacts, TailShape, EnvelopeFields
<1> HIDE DEF n
<1>3. CASE IsDelta(e)
  <2>1. /\ dropped' = dropped \cup {e} /\ UNCHANGED <<conn, mirror, synced>> /\ ~synced
    BY <1>0, <1>1, <1>3 DEF AwaitFrame, IsDelta, ExactInv
  <2>2. ClientFrames' \subseteq ClientFrames
    BY <1>2, <2>1 DEF ClientFrames
  <2>3. ASSUME NEW p \in DOMAIN inbox', GoodReply(inbox'[p])
        PROVE  /\ Upto(inbox', p, inbox'[p].version, n)
               /\ Covered(dropped', inbox'[p].version)
               /\ \A i \in 1..(p - 1) :
                    IsDelta(inbox'[i]) => inbox'[i].version <= inbox'[p].version
    <3>1. /\ p + 1 \in DOMAIN inbox /\ inbox'[p] = inbox[p + 1] /\ p + 1 \in Nat
          /\ p + 1 > 0 /\ (p + 1) - 1 = p /\ 1 \in 1..((p + 1) - 1)
          /\ \A i \in 1..(p - 1) : i + 1 \in 1..((p + 1) - 1) /\ inbox'[i] = inbox[i + 1]
      BY <1>2
    <3>2. PICK v : v = inbox[p + 1].version
      OBVIOUS
    <3>3. /\ Upto(inbox, p + 1, v, n) /\ Covered(dropped, v)
          /\ \A i \in 1..((p + 1) - 1) : IsDelta(inbox[i]) => inbox[i].version <= v
          /\ v \in Nat
      BY <1>1, <2>3, <3>1, <3>2, ClientFacts DEF ExactInv, n
    <3>4. Upto(inbox', p, v, n)
      BY <1>1, <1>2, <3>1, <3>3, UptoTail
    <3>5. e.version <= v
      BY <1>2, <1>3, <3>1, <3>3
    <3> QED
      BY <2>1, <3>1, <3>2, <3>3, <3>4, <3>5 DEF Covered
  <2>4. Len(published') = n
    BY <1>1 DEF n
  <2>5. Covered(ClientFrames', n)
    BY <2>2 DEF ExactInv, Covered, n
  <2> QED
    BY <2>1, <2>3, <2>4, <2>5 DEF ExactInv
<1>4. CASE ~IsDelta(e)
  <2>1. /\ conn' = "live" /\ synced' = (e.status = "ok") /\ dropped' = dropped
        /\ mirror' = IF e.status = "ok" THEN [version |-> e.version, rows |-> e.rows]
                                        ELSE mirror
    BY <1>0, <1>4 DEF AwaitFrame, IsDelta
  <2>2. ClientFrames' \subseteq ClientFrames /\ Covered(ClientFrames', n)
    BY <1>2, <2>1 DEF ClientFrames, ExactInv, Covered, n
  <2>3. ASSUME e.status = "ok"
        PROVE  /\ mirror'.rows = ContentAt(log, mirror'.version)
               /\ Upto(inbox', 0, mirror'.version, n)
               /\ Covered(dropped, mirror'.version)
    <3>1. GoodReply(e) /\ e \in Range(inbox)
      BY <1>2, <1>4, <2>3, EnvelopeFields DEF GoodReply, IsDelta
    <3>2. OwnFrame(e) /\ TrueFrame(e) /\ e.req.from = epoch
      BY <3>1 DEF MirrorInv, ClientFrames, GoodReply
    <3>3. Snapshot(e) /\ e.rows = ContentAt(log, e.version)
      BY <1>1, <3>1, <3>2, AwaitedIsSnapshot DEF TrueFrame, ReplyIsTrue, Snapshot, GoodReply
    <3>4. Upto(inbox, 1, e.version, n) /\ Covered(dropped, e.version)
      <4>1. 1 \in DOMAIN inbox
        BY <1>2
      <4> QED
        BY <1>1, <1>2, <3>1, <4>1 DEF ExactInv, n
    <3>5. Upto(Tail(inbox), 1 - 1, e.version, n)
      BY <1>1, <1>2, <3>4, UptoTail
    <3>6. mirror'.rows = e.rows /\ mirror'.version = e.version
      BY <2>1, <2>3
    <3> QED
      BY <1>1, <3>3, <3>4, <3>5, <3>6
  <2>4. Len(published') = n /\ log' = log
    BY <1>1 DEF n
  <2> QED
    BY <2>1, <2>2, <2>3, <2>4 DEF ExactInv
<1> QED
  BY <1>3, <1>4

\* The next delta turns the content of one version into that of the next.
LEMMA DeltaAdvances ==
  ASSUME HostInv, ClientTyped, MirrorInv, NEW e \in EnvelopeType, IsDelta(e), TrueFrame(e),
         e.version = mirror.version + 1, mirror.rows = ContentAt(log, mirror.version)
  PROVE  /\ ApplyDelta(mirror, e).version = e.version
         /\ ApplyDelta(mirror, e).rows = ContentAt(log, e.version)
<1>0. PICK m : m = log[e.version]
  OBVIOUS
<1>1. /\ mirror.version \in Nat /\ mirror.rows \in [Keys -> Values \cup {NoValue}]
      /\ e.version \in 1..Len(log) /\ e = Delta(m) /\ Len(log) \in Nat
      /\ e.version # 0 /\ e.version - 1 = mirror.version /\ ~(e.version <= mirror.version)
  <2>1. mirror.version \in Nat /\ mirror.rows \in [Keys -> Values \cup {NoValue}]
    BY DEF ClientTyped, MirrorType
  <2>2. e.version \in 1..Len(log) /\ e = Delta(m)
    BY <1>0 DEF TrueFrame, IsDelta
  <2>3. Len(log) \in Nat
    BY ClientFacts
  <2> QED
    BY <2>1, <2>2, <2>3
<1>2. e.op = m.op /\ e.key = m.key /\ e.value = m.value
  BY <1>1 DEF Delta
<1>3. /\ m \in MutationType
  BY <1>0, <1>1, ElementOfSeq DEF HostInv, TypeOK
<1>4. Store!Mutates(m, mirror.rows)
  BY <1>0, <1>1 DEF MirrorInv, LogInv
<1>5. /\ ApplyDelta(mirror, e).version = e.version
      /\ ApplyDelta(mirror, e).rows =
           [mirror.rows EXCEPT ![m.key] = IF m.op = "set" THEN m.value ELSE NoValue]
  BY <1>1, <1>2 DEF ApplyDelta
<1>6. [mirror.rows EXCEPT ![m.key] = IF m.op = "set" THEN m.value ELSE NoValue] = m.rows
  BY <1>1, <1>3, <1>4 DEF Store!Mutates, MutationType
<1>7. ContentAt(log, e.version) = m.rows
  BY <1>0, <1>1 DEF ContentAt
<1> QED
  BY <1>5, <1>6, <1>7

LEMMA HandleKeepsExact ==
  ASSUME HostInv, ClientTyped, MirrorInv, ExactInv, HandleFrame
  PROVE  ExactInv'
<1> DEFINE n == Len(published)
<1>0. PICK e : e = Head(inbox)
  OBVIOUS
<1>1. /\ conn = "live" /\ inbox # << >> /\ inbox' = Tail(inbox)
      /\ UNCHANGED <<log, published, conn, synced>> /\ dropped' = dropped \ {e}
      /\ mirror' = IF IsDelta(e) THEN ApplyDelta(mirror, e) ELSE mirror
  BY <1>0 DEF HandleFrame, hostVars, ghostVars, IsDelta
<1>2. /\ inbox \in Seq(EnvelopeType) /\ e = inbox[1] /\ e \in EnvelopeType /\ e.version \in Nat
      /\ Range(inbox) = Range(inbox') \cup {e} /\ e \in Range(inbox)
      /\ n \in Nat /\ mirror.version \in Nat
      /\ \A f \in dropped : IsDelta(f) /\ f.version \in Nat
  BY <1>0, <1>1, ClientFacts, TailShape, EnvelopeFields
<1>3. TrueFrame(e) /\ (IsDelta(e) => e.version <= n)
  BY <1>2 DEF MirrorInv, ClientFrames, ExactInv, Covered, n
<1> HIDE DEF n
<1>4. ClientFrames' \subseteq ClientFrames
  BY <1>1, <1>2 DEF ClientFrames
<1>5. Covered(ClientFrames', n)
  BY <1>4 DEF ExactInv, Covered, n
<1>6. ASSUME synced
      PROVE  /\ mirror'.rows = ContentAt(log, mirror'.version)
             /\ Upto(inbox', 0, mirror'.version, n)
             /\ Covered(dropped', mirror'.version)
  <2>1. /\ mirror.rows = ContentAt(log, mirror.version)
        /\ Upto(inbox, 0, mirror.version, n) /\ Covered(dropped, mirror.version)
    BY <1>6 DEF ExactInv, n
  <2>2. CASE IsDelta(e) => e.version <= mirror.version
    <3>1. mirror' = mirror
      BY <1>1, <2>2 DEF ApplyDelta
    <3>2. Upto(inbox', 0, mirror.version, n)
      BY <1>1, <1>2, <2>1, <2>2, UptoSkip
    <3> QED
      BY <1>1, <2>1, <3>1, <3>2 DEF Covered
  <2>3. CASE IsDelta(e) /\ e.version > mirror.version
    <3>1. e.version = mirror.version + 1 /\ Upto(inbox', 0, mirror.version + 1, n)
      BY <1>1, <1>2, <1>3, <2>1, <2>3, UptoNext
    <3>2. mirror'.version = e.version /\ mirror'.rows = ContentAt(log, e.version)
      BY <1>1, <1>2, <1>3, <2>1, <2>3, <3>1, DeltaAdvances
    <3>3. Covered(dropped', e.version)
      BY <1>1, <1>2, <2>1, <3>1 DEF Covered
    <3> QED
      BY <3>1, <3>2, <3>3
  <2> QED
    BY <1>2, <2>2, <2>3
<1>7. Len(published') = n /\ log' = log
  BY <1>1 DEF n
<1> QED
  BY <1>1, <1>5, <1>6, <1>7 DEF ExactInv

LEMMA ExactStep ==
  ASSUME NEW t, Undisturbed(t), HostInv, HostInv', ClientTyped, MirrorInv, DeltaInv,
         PipeInv(t), ExactInv, [SystemNext]_systemVars
  PROVE  ExactInv'
<1>0. LogGrows
  BY SystemStepsHost, LogStep DEF HostInv, MirrorInv, LogGrows
<1>1. CASE HostStep
  <2>1. UNCHANGED <<conn, mirror, inbox, dropped, synced>>
    BY <1>1 DEF HostStep, clientVars
  <2>2. published' = published
    BY <1>1 DEF HostStep, TaskStep, Refuse, Get, Begin, SelectStale, PruneRow, Upsert, Delete,
                ReadSnapshot, Commit, LoseRace, Push, Fail, Crash, Tick, ghostVars
  <2> QED
    BY <1>0, <2>1, <2>2, ExactStands
<1>2. ASSUME NEW u \in Tasks, HostAccepts(u) PROVE ExactInv'
  <2>1. UNCHANGED <<conn, mirror, inbox, dropped, synced, published>>
    BY <1>2 DEF HostAccepts, Accept, clientVars, ghostVars
  <2> QED
    BY <1>0, <2>1, ExactStands
<1>3. CASE HostSends
  BY <1>3, SendKeepsExact
<1>4. CASE Redeliver
  BY <1>4, RedeliverKeepsExact
<1>5. CASE Connect \/ Pull \/ PullTimeout \/ Disconnect
  BY <1>5, PhaseKeepsExact
<1>6. CASE AwaitFrame
  BY <1>6, AwaitKeepsExact
<1>7. CASE HandleFrame
  BY <1>7, HandleKeepsExact
<1>8. CASE Beat \/ UNCHANGED systemVars
  <2>1. UNCHANGED <<conn, mirror, inbox, dropped, synced, published>>
    BY <1>8 DEF Beat, systemVars, clientVars, hostVars, ghostVars
  <2> QED
    BY <1>0, <2>1, ExactStands
<1> QED
  BY <1>1, <1>2, <1>3, <1>4, <1>5, <1>6, <1>7, <1>8 DEF SystemNext, ClientStep

LEMMA ExactInit == SystemInit => ExactInv
<1> SUFFICES ASSUME SystemInit PROVE ExactInv
  OBVIOUS
<1>1. inbox = << >> /\ dropped = {} /\ ~synced /\ conn = "down"
  BY DEF SystemInit
<1>2. ClientFrames = {}
  BY <1>1 DEF ClientFrames, Range
<1> QED
  BY <1>1, <1>2 DEF ExactInv, Covered

\* Between a plugin that handles one request at a time, stays up and has room for its
\* snapshots, and a client that may time out, disconnect, come back and be sent events
\* twice: once a pull has succeeded the mirror is, at every moment until the
\* connection ends, the store's content at the mirror's version.
THEOREM MirrorIsExact ==
  ASSUME NEW t, Undisturbed(t)
  PROVE  SystemSpec => []MirrorExact
<1>1. HostInv /\ HostInv' /\ ClientTyped /\ MirrorInv /\ DeltaInv /\ PipeInv(t) /\ ExactInv
        /\ [SystemNext]_systemVars => ExactInv'
  BY ExactStep
<1>2. ExactInv => MirrorExact
  BY DEF ExactInv, MirrorExact
<1>3. HostSpec => []DeltaInv
  BY DeltaInvHolds DEF Undisturbed
<1>4. HostSpec => []PipeInv(t)
  BY PipeInvHolds
<1> QED
  BY <1>1, <1>2, <1>3, <1>4, ExactInit, SystemHasHost, SystemInvHolds, PTL DEF SystemSpec
=============================================================================
