-------------------------- MODULE Scheduler_proofs ---------------------------
(***************************************************************************)
(* Theorems about the `scheduler` plugin for every value of the constants. *)
(***************************************************************************)
EXTENDS Scheduler, SequenceTheorems, FiniteSetTheorems, TLAPS

HandlerCalls == {"idle", "db_get", "db_incr", "db_set", "db_delete"}

ScanCalls ==
  {"idle", "db_keys", "db_batch_get", "mark", "dispatch", "errget", "errput"}

ReqType == [id : Ids \cup {0}, rev : Nat, now : Nat]

SetType == [id : Ids \cup {0}, cfg : Configs]

FiredType ==
  [id : Ids, rev : Nat, due : Nat, early : BOOLEAN, run : Nat,
   missed : BOOLEAN, stopped : BOOLEAN]

-----------------------------------------------------------------------------
(* Documents and fires *)

LEMMA NoDocIsNoDoc == NoDoc \notin DocType
  BY SchedulerAssumption DEF DocType, Never

LEMMA NoFireIsNoFire == NoFire \notin FireType
  BY NoDocIsNoDoc DEF NoFire, FireType

LEMMA ConfigFacts ==
  ASSUME NEW c \in Configs
  PROVE  c.trigger \in {"once", "cron"} /\ c.enabled \in BOOLEAN
  BY SchedulerAssumption

LEMMA BuildDocFacts ==
  ASSUME NEW id \in Ids, NEW rev \in Nat, NEW cfg \in Configs, NEW created \in Nat
  PROVE  /\ BuildDoc(id, rev, cfg, created) \in DocType
         /\ BuildDoc(id, rev, cfg, created).id = id
         /\ BuildDoc(id, rev, cfg, created).rev = rev
         /\ BuildDoc(id, rev, cfg, created).cfg = cfg
  BY DEF BuildDoc, DocType

\* A mark keeps the identity of the document and covers the fire.
LEMMA MarkedFacts ==
  ASSUME NEW f \in FireType
  PROVE  /\ Marked(f) \in DocType
         /\ Marked(f).id = f.doc.id
         /\ Marked(f).rev = f.doc.rev
         /\ Marked(f).cfg = f.doc.cfg
         /\ Marked(f).last = f.due
         /\ Marked(f).count = f.doc.count + 1
         /\ f.doc.cfg.trigger = "once" => Marked(f).firedOnce
<1>1. f.doc \in DocType /\ f.due \in Nat /\ f.doc.count \in Nat
  BY DEF FireType, DocType
<1> DEFINE once == f.doc.cfg.trigger = "once"
           guard == f.doc.firedOnce \/ once
<1>2. guard \in BOOLEAN
  OBVIOUS
<1>3. once => guard
  OBVIOUS
<1>4. Marked(f) = [f.doc EXCEPT !.firedOnce = guard, !.count = f.doc.count + 1,
                                !.last = f.due, !.err = FALSE]
  BY DEF Marked
<1> HIDE DEF guard, once
<1>5. Marked(f) =
        [id |-> f.doc.id, rev |-> f.doc.rev, cfg |-> f.doc.cfg, firedOnce |-> guard,
         count |-> f.doc.count + 1, last |-> f.due, err |-> FALSE,
         created |-> f.doc.created]
  BY <1>1, <1>4 DEF DocType
<1>6. /\ Marked(f) \in DocType /\ Marked(f).id = f.doc.id /\ Marked(f).rev = f.doc.rev
      /\ Marked(f).cfg = f.doc.cfg /\ Marked(f).last = f.due
      /\ Marked(f).firedOnce = guard /\ Marked(f).count = f.doc.count + 1
  BY <1>1, <1>2, <1>5 DEF DocType
<1> QED
  BY <1>3, <1>6 DEF once

\* What the histories hold.
LEMMA FiresFacts ==
  ASSUME fires \in Seq(FiredType), NEW i \in DOMAIN fires
  PROVE  i \in Nat /\ fires[i] \in FiredType /\ fires[i].due \in Nat
<1>1. i \in 1..Len(fires)
  BY LenProperties
<1>2. fires[i] \in FiredType
  BY <1>1, ElementOfSeq
<1> QED
  BY <1>1, <1>2, LenProperties DEF FiredType

LEMMA SetsFacts ==
  ASSUME sets \in Seq(SetType), NEW r \in DOMAIN sets
  PROVE  r \in Nat /\ sets[r] \in SetType /\ sets[r].cfg \in Configs
<1>1. r \in 1..Len(sets)
  BY LenProperties
<1>2. sets[r] \in SetType
  BY <1>1, ElementOfSeq
<1> QED
  BY <1>1, <1>2, LenProperties DEF SetType

\* The mark accounts for the fire and for everything that was dispatched before.
LEMMA MarkAccounts ==
  ASSUME NEW f \in FireType, Unfired(f), fires \in Seq(FiredType)
  PROVE  Accounted(Marked(f)) /\ Covers(Marked(f), f.due)
<1>1. /\ Marked(f).rev = f.doc.rev /\ Marked(f).last = f.due /\ f.due \in Nat
      /\ Marked(f).cfg = f.doc.cfg
      /\ f.doc.cfg.trigger = "once" => Marked(f).firedOnce
  BY MarkedFacts DEF FireType
<1>2. \A i \in DOMAIN fires : fires[i].due \in Nat
  BY FiresFacts
<1> QED
  BY <1>1, <1>2 DEF Accounted, Unfired, Covers

LEMMA DueFiresType ==
  ASSUME TypeOK, NEW keys \in SUBSET Ids, NEW t \in Nat
  PROVE  DueFires(keys, t) \subseteq FireType
  BY DEF DueFires, FireType, TypeOK

\* A deadline selected for dispatch lies after everything already dispatched of
\* the revision, if the document accounts for it.
LEMMA DueIsUnfired ==
  ASSUME NEW d \in DocType, Accounted(d), NEW t \in NextFireMs(d),
         fires \in Seq(FiredType), NEW i \in DOMAIN fires, fires[i].rev = d.rev
  PROVE  fires[i].due < t
<1>1. /\ fires[i].due \in Nat /\ d.cfg \in Configs /\ d.last \in Nat \cup {Never}
      /\ d.cfg.trigger \in {"once", "cron"} /\ d.cfg.enabled \in BOOLEAN
  BY ConfigFacts, FiresFacts DEF DocType
<1>2. Covers(d, fires[i].due)
  BY DEF Accounted
<1>3. d.cfg.enabled
  BY <1>1 DEF NextFireMs
<1>4. CASE d.cfg.trigger = "once"
  BY <1>2, <1>3, <1>4 DEF NextFireMs, Covers
<1>5. CASE d.cfg.trigger = "cron"
  <2>1. d.last # Never
    BY <1>1, <1>2 DEF Covers, Never
  <2>2. t \in NextCronAfter(d.last)
    BY <1>3, <1>5, <2>1 DEF NextFireMs
  <2> QED
    BY <1>1, <1>2, <2>2, SchedulerAssumption DEF NextCronAfter, Covers, Never
<1> QED
  BY <1>1, <1>4, <1>5

-----------------------------------------------------------------------------
(* Type correctness *)

LEMMA TakeNextTypes ==
  ASSUME TypeOK, InHand, NEW s \in Scans, NEW q \in SUBSET FireType, TakeNext(s, q)
  PROVE  /\ spc' \in [Scans -> ScanCalls]
         /\ snow' \in [Scans -> Nat]
         /\ queue' \in [Scans -> SUBSET FireType]
         /\ cur' \in [Scans -> FireType \cup {NoFire}]
         /\ sstopped' \in [Scans -> SUBSET Ids]
         /\ \A r \in Scans : Holds(r)' => cur'[r] # NoFire
<1>1. CASE /\ q = {}
           /\ spc' = [spc EXCEPT ![s] = "idle"]
           /\ snow' = [snow EXCEPT ![s] = 0]
           /\ sstopped' = [sstopped EXCEPT ![s] = {}]
           /\ queue' = [queue EXCEPT ![s] = {}]
           /\ cur' = [cur EXCEPT ![s] = NoFire]
  BY <1>1 DEF TypeOK, InHand, Holds, ScanCalls
<1>2. CASE \E f \in q :
             /\ spc' = [spc EXCEPT ![s] = "mark"]
             /\ queue' = [queue EXCEPT ![s] = q \ {f}]
             /\ cur' = [cur EXCEPT ![s] = f]
             /\ UNCHANGED <<snow, sstopped>>
  <2>1. PICK f \in q : /\ spc' = [spc EXCEPT ![s] = "mark"]
                       /\ queue' = [queue EXCEPT ![s] = q \ {f}]
                       /\ cur' = [cur EXCEPT ![s] = f]
                       /\ UNCHANGED <<snow, sstopped>>
    BY <1>2
  <2>2. f \in FireType /\ f # NoFire
    BY NoFireIsNoFire
  <2> QED
    BY <2>1, <2>2 DEF TypeOK, InHand, Holds, ScanCalls
<1> QED
  BY <1>1, <1>2 DEF TakeNext

LEMMA HandlerDoneTypes ==
  ASSUME TypeOK, InHand, NEW h \in Handlers, HandlerDone(h), UNCHANGED sets
  PROVE  /\ hpc' \in [Handlers -> HandlerCalls]
         /\ hreq' \in [Handlers -> ReqType]
         /\ hdoc' \in [Handlers -> DocType \cup {NoDoc}]
         /\ \A g \in Handlers :
              /\ Setting(g)' => hreq'[g].rev \in DOMAIN sets'
              /\ hpc'[g] \in {"db_get", "db_delete"} => hreq'[g].id \in Ids
              /\ hpc'[g] = "db_set" => hdoc'[g] # NoDoc
  BY DEF HandlerDone, TypeOK, InHand, Setting, HandlerCalls, ReqType, NoReq

\* The fire in hand and its document are there when a call of the scan needs it.
LEMMA HeldFire ==
  ASSUME TypeOK, InHand, NEW s \in Scans, Holds(s)
  PROVE  /\ cur[s] \in FireType /\ cur[s].doc \in DocType /\ cur[s].due \in Nat
         /\ cur[s].doc.id \in Ids /\ cur[s].doc.rev \in Nat
         /\ Marked(cur[s]) \in DocType
<1>1. cur[s] \in FireType
  BY DEF TypeOK, InHand
<1> QED
  BY <1>1, MarkedFacts DEF FireType, DocType

LEMMA TypeInit == Init => TypeOK /\ InHand
  BY SchedulerAssumption DEF Init, TypeOK, InHand, Setting, Holds, NoReq

LEMMA TypeStep ==
  ASSUME TypeOK, InHand, [Next]_vars
  PROVE  TypeOK' /\ InHand'
<1> USE DEF HandlerCalls, ScanCalls, ReqType, SetType, FiredType
<1>1. ASSUME NEW h \in Handlers, NEW id \in Ids \cup {0}, NEW cfg \in Configs,
             AcceptSet(h, id, cfg)
      PROVE  TypeOK' /\ InHand'
  <2> DEFINE rev == Len(sets) + 1
             set == [id |-> id, cfg |-> cfg]
  <2>1. /\ sets' = Append(sets, set) /\ set \in SetType
        /\ sets \in Seq(SetType) /\ Len(sets) \in Nat
    BY <1>1 DEF AcceptSet, TypeOK
  <2>2. /\ sets' \in Seq(SetType) /\ DOMAIN sets' = 1..rev
        /\ DOMAIN sets \subseteq DOMAIN sets'
    BY <2>1, AppendProperties, LenProperties
  <2>3. /\ hreq' = [hreq EXCEPT ![h] =
                      [id |-> id, rev |-> rev, now |-> now]]
        /\ hpc' = [hpc EXCEPT ![h] = IF id = 0 THEN "db_incr" ELSE "db_get"]
        /\ stopped' = stopped \ {id}
        /\ sstopped' = [s \in Scans |-> sstopped[s] \ {id}]
        /\ UNCHANGED <<docs, counter, late, hdoc, spc, snow, skeys, queue, cur,
                       up, boot, fires, now, faults, crashes>>
    BY <1>1 DEF AcceptSet, SetAnew, workVars, processVars, boundVars
  <2>4. rev \in Nat /\ rev \in DOMAIN sets'
    BY <2>1, <2>2
  <2> HIDE DEF rev, set
  <2>5. /\ hreq' \in [Handlers -> ReqType] /\ hpc' \in [Handlers -> HandlerCalls]
    BY <2>3, <2>4 DEF TypeOK
  <2>6. TypeOK'
    BY <2>2, <2>3, <2>5 DEF TypeOK
  <2>7. InHand'
    BY <2>2, <2>3, <2>4 DEF TypeOK, InHand, Setting, Holds
  <2> QED
    BY <2>6, <2>7
<1>2. ASSUME NEW h \in Handlers, NEW id \in Ids, AcceptDelete(h, id)
      PROVE  TypeOK' /\ InHand'
  BY <1>2 DEF AcceptDelete, TypeOK, InHand, Setting, Holds, NoReq, scanVars, workVars,
     processVars, boundVars
<1>3. ASSUME NEW h \in Handlers, SetReadsExisting(h)
      PROVE  TypeOK' /\ InHand'
  <2> DEFINE r == hreq[h]
             old == docs[r.id]
             created == IF old = NoDoc THEN r.now ELSE old.created
             d == BuildDoc(r.id, r.rev, sets[r.rev].cfg, created)
  <2>1. /\ hpc[h] = "db_get" /\ hpc' = [hpc EXCEPT ![h] = "db_set"]
        /\ hdoc' = [hdoc EXCEPT ![h] = d]
        /\ hreq' = hreq
        /\ UNCHANGED <<docs, counter, late, spc, snow, skeys, queue, cur, sstopped,
                       up, boot, sets, fires, stopped, now, faults, crashes>>
    BY <1>3 DEF SetReadsExisting, scanVars, workVars, processVars, boundVars
  <2>2. r.id \in Ids /\ r.rev \in DOMAIN sets /\ r.rev \in Nat /\ r.now \in Nat
    BY <2>1 DEF TypeOK, InHand, Setting
  <2>3. sets[r.rev].cfg \in Configs
    BY <2>2, SetsFacts DEF TypeOK
  <2>4. created \in Nat
    BY <2>2 DEF TypeOK, DocType
  <2>5. d \in DocType /\ d # NoDoc
    BY <2>2, <2>3, <2>4, BuildDocFacts, NoDocIsNoDoc
  <2> HIDE DEF d
  <2>6. TypeOK'
    <3>1. hreq' \in [Handlers -> ReqType]
      BY <2>1 DEF TypeOK
    <3>2. hpc' \in [Handlers -> HandlerCalls]
      BY <2>1 DEF TypeOK
    <3>3. hdoc' \in [Handlers -> DocType \cup {NoDoc}]
      BY <2>1, <2>5 DEF TypeOK
    <3> QED
      BY <2>1, <3>1, <3>2, <3>3 DEF TypeOK
  <2>7. InHand'
    BY <2>1, <2>2, <2>5 DEF TypeOK, InHand, Setting, Holds
  <2> QED
    BY <2>6, <2>7
<1>4. ASSUME NEW h \in Handlers, SetTakesNextId(h)
      PROVE  TypeOK' /\ InHand'
  <2> DEFINE r == hreq[h]
             n == counter + 1
             d == BuildDoc(n, r.rev, sets[r.rev].cfg, r.now)
  <2>1. /\ hpc[h] = "db_incr" /\ hpc' = [hpc EXCEPT ![h] = "db_set"] /\ n \in Ids
        /\ counter' = n /\ hdoc' = [hdoc EXCEPT ![h] = d]
        /\ hreq' = [hreq EXCEPT ![h] = [r EXCEPT !.id = n]]
        /\ sets' = [sets EXCEPT ![r.rev].id = n]
        /\ stopped' = stopped \ {n}
        /\ sstopped' = [s \in Scans |-> sstopped[s] \ {n}]
        /\ UNCHANGED <<docs, late, spc, snow, skeys, queue, cur,
                       up, boot, fires, now, faults, crashes>>
    BY <1>4 DEF SetTakesNextId, SetAnew, workVars, processVars, boundVars
  <2>2. r.rev \in DOMAIN sets /\ r.rev \in Nat /\ r.now \in Nat /\ n \in Nat
    BY <2>1, SchedulerAssumption DEF TypeOK, InHand, Setting
  <2>3. sets[r.rev].cfg \in Configs
    BY <2>2, SetsFacts DEF TypeOK
  <2>4. d \in DocType /\ d # NoDoc
    BY <2>1, <2>2, <2>3, BuildDocFacts, NoDocIsNoDoc
  <2>5. sets' \in Seq(SetType) /\ DOMAIN sets' = DOMAIN sets
    <3>1. [sets[r.rev] EXCEPT !.id = n] \in SetType
      BY <2>1, <2>2, SetsFacts DEF TypeOK
    <3>2. sets' = [sets EXCEPT ![r.rev] = [sets[r.rev] EXCEPT !.id = n]]
      BY <2>1
    <3> QED
      BY <2>2, <3>1, <3>2, ExceptSeq DEF TypeOK
  <2> HIDE DEF d, n
  <2>6. TypeOK'
    <3>1. hreq' \in [Handlers -> ReqType]
      <4>1. r \in ReqType
        BY DEF TypeOK
      <4>2. [r EXCEPT !.id = n] \in ReqType
        BY <2>1, <4>1
      <4> QED
        BY <2>1, <4>2 DEF TypeOK
    <3>2. hpc' \in [Handlers -> HandlerCalls]
      BY <2>1 DEF TypeOK
    <3>3. hdoc' \in [Handlers -> DocType \cup {NoDoc}]
      BY <2>1, <2>4 DEF TypeOK
    <3> QED
      BY <2>1, <2>2, <2>5, <3>1, <3>2, <3>3 DEF TypeOK
  <2>7. InHand'
    BY <2>1, <2>4, <2>5 DEF TypeOK, InHand, Setting, Holds
  <2> QED
    BY <2>6, <2>7
<1>5. ASSUME NEW h \in Handlers, SetStores(h)
      PROVE  TypeOK' /\ InHand'
  <2>1. hdoc[h] \in DocType
    BY <1>5 DEF SetStores, TypeOK, InHand
  <2>2. hdoc[h].id \in Ids /\ hdoc[h].rev \in Nat
    BY <2>1 DEF DocType
  <2>3. /\ docs' = [docs EXCEPT ![hdoc[h].id] = hdoc[h]] /\ HandlerDone(h)
        /\ stopped' \in {stopped, stopped \cup {hdoc[h].id}}
        /\ UNCHANGED <<counter, late, spc, snow, skeys, queue, cur, sstopped, up,
                       boot, sets, fires, now, faults, crashes>>
    BY <1>5 DEF SetStores, scanVars, workVars, processVars, boundVars
  <2>4. TypeOK'
    BY <2>1, <2>2, <2>3, HandlerDoneTypes DEF TypeOK
  <2>5. InHand'
    BY <2>3, HandlerDoneTypes DEF InHand, Holds
  <2> QED
    BY <2>4, <2>5
<1>6. ASSUME NEW h \in Handlers, DeleteStores(h)
      PROVE  TypeOK' /\ InHand'
  <2>1. hreq[h].id \in Ids
    BY <1>6 DEF DeleteStores, InHand
  <2>2. /\ docs' = [docs EXCEPT ![hreq[h].id] = NoDoc] /\ HandlerDone(h)
        /\ stopped' \in {stopped, stopped \cup {hreq[h].id}}
        /\ UNCHANGED <<counter, late, spc, snow, skeys, queue, cur, sstopped, up,
                       boot, sets, fires, now, faults, crashes>>
    BY <1>6 DEF DeleteStores, scanVars, workVars, processVars, boundVars
  <2>3. TypeOK'
    BY <2>1, <2>2, HandlerDoneTypes DEF TypeOK
  <2>4. InHand'
    BY <2>2, HandlerDoneTypes DEF InHand, Holds
  <2> QED
    BY <2>3, <2>4
<1>7. ASSUME NEW h \in Handlers, HandlerFails(h)
      PROVE  TypeOK' /\ InHand'
  <2>1. /\ HandlerDone(h) /\ faults' = faults + 1
        /\ UNCHANGED <<docs, spc, snow, skeys, queue, cur, sstopped, up, boot,
                       sets, fires, stopped, now, crashes>>
    BY <1>7 DEF HandlerFails, Fault, scanVars, workVars, processVars
  <2>2. counter' \in Nat
    <3>1. counter' \in {counter, counter + 1}
      BY <1>7 DEF HandlerFails, TypeOK
    <3> QED
      BY <3>1 DEF TypeOK
  <2>3. late' \subseteq [id : Ids, doc : DocType \cup {NoDoc}]
    <3>1. CASE hpc[h] = "db_set"
      <4>1. hdoc[h] \in DocType /\ hdoc[h].id \in Ids
        BY <3>1 DEF TypeOK, InHand, DocType
      <4>2. late' \in {late, late \cup {Write(hdoc[h].id, hdoc[h])}}
        BY <1>7, <3>1 DEF HandlerFails, LostOrLate
      <4> QED
        BY <4>1, <4>2 DEF Write, TypeOK
    <3>2. CASE hpc[h] = "db_delete"
      <4>1. hreq[h].id \in Ids
        BY <3>2 DEF InHand
      <4>2. late' \in {late, late \cup {Write(hreq[h].id, NoDoc)}}
        BY <1>7, <3>2 DEF HandlerFails, LostOrLate
      <4> QED
        BY <4>1, <4>2 DEF Write, TypeOK
    <3>3. CASE hpc[h] \in {"db_incr", "db_get"}
      BY <1>7, <3>3 DEF HandlerFails, TypeOK
    <3> QED
      BY <1>7, <3>1, <3>2, <3>3 DEF HandlerFails, TypeOK
  <2>4. TypeOK'
    BY <2>1, <2>2, <2>3, HandlerDoneTypes DEF TypeOK
  <2>5. InHand'
    BY <2>1, HandlerDoneTypes DEF InHand, Holds
  <2> QED
    BY <2>4, <2>5
<1>0. ASSUME NEW k, Fault(k) PROVE faults' \in Nat
  BY <1>0 DEF Fault, TypeOK
<1>8. ASSUME NEW s \in Scans, StartScan(s)
      PROVE  TypeOK' /\ InHand'
  BY <1>8 DEF StartScan, TypeOK, InHand, Setting, Holds, handlerVars, processVars,
     boundVars
<1>9. ASSUME NEW s \in Scans, NEW q \in SUBSET FireType, TakeNext(s, q),
             skeys' \in [Scans -> SUBSET Ids], docs' \in [Ids -> DocType \cup {NoDoc}],
             late' \subseteq [id : Ids, doc : DocType \cup {NoDoc}],
             fires' \in Seq(FiredType), faults' \in Nat,
             UNCHANGED <<counter, handlerVars, processVars, sets, stopped,
                         now, crashes>>
      PROVE  TypeOK' /\ InHand'
  <2>1. TypeOK'
    BY <1>9, TakeNextTypes DEF TypeOK, handlerVars, processVars
  <2>2. InHand'
    BY <1>9, TakeNextTypes DEF InHand, Setting, handlerVars
  <2> QED
    BY <2>1, <2>2
<1>10. ASSUME NEW s \in Scans, NEW d \in DocType, NEW call \in {"dispatch", "errget", "errput"},
              Holds(s), spc' = [spc EXCEPT ![s] = call],
              cur' = [cur EXCEPT ![s].doc = d] \/ cur' = cur,
              docs' \in [Ids -> DocType \cup {NoDoc}],
              late' \subseteq [id : Ids, doc : DocType \cup {NoDoc}],
              fires' \in Seq(FiredType), faults' \in Nat,
              UNCHANGED <<counter, handlerVars, snow, skeys, queue, sstopped,
                          processVars, sets, stopped, now, crashes>>
       PROVE  TypeOK' /\ InHand'
  <2>1. cur[s] \in FireType
    BY <1>10, HeldFire
  <2>2. [cur[s] EXCEPT !.doc = d] \in FireType
    BY <2>1 DEF FireType
  <2>3. cur' = [cur EXCEPT ![s] = [cur[s] EXCEPT !.doc = d]] \/ cur' = cur
    BY <1>10
  <2>4. cur' \in [Scans -> FireType \cup {NoFire}] /\ cur'[s] \in FireType
    BY <2>1, <2>2, <2>3, ZenonT(30) DEF TypeOK
  <2>5. TypeOK'
    BY <1>10, <2>4 DEF TypeOK, handlerVars, processVars
  <2>6. \A r \in Scans : Holds(r)' => cur'[r] # NoFire
    <3>1. cur'[s] # NoFire
      BY <2>4, NoFireIsNoFire
    <3>2. \A r \in Scans \ {s} : cur'[r] = cur[r] /\ spc'[r] = spc[r]
      BY <1>10, <2>3 DEF TypeOK
    <3> QED
      BY <3>1, <3>2 DEF InHand, Holds
  <2>7. InHand'
    BY <1>10, <2>6 DEF InHand, Setting, handlerVars
  <2> QED
    BY <2>5, <2>7
<1>11. ASSUME NEW s \in Scans, ListKeys(s)
       PROVE  TypeOK' /\ InHand'
  <2>1. CASE TakeNext(s, {}) /\ UNCHANGED skeys
    BY <1>9, <1>11, <2>1 DEF ListKeys, TypeOK, boundVars
  <2>2. CASE /\ skeys' = [skeys EXCEPT ![s] = {k \in Ids : docs[k] # NoDoc}]
             /\ spc' = [spc EXCEPT ![s] = "db_batch_get"]
             /\ UNCHANGED <<snow, sstopped, queue, cur>>
    BY <1>11, <2>2 DEF ListKeys, TypeOK, InHand, Setting, Holds, handlerVars,
       processVars, boundVars
  <2> QED
    BY <1>11, <2>1, <2>2 DEF ListKeys
<1>12. ASSUME NEW s \in Scans, ReadDocs(s)
       PROVE  TypeOK' /\ InHand'
  <2>1. skeys[s] \in SUBSET Ids /\ snow[s] \in Nat
    BY DEF TypeOK
  <2>2. DueFires(skeys[s], snow[s]) \in SUBSET FireType
    BY <2>1, DueFiresType
  <2> QED
    BY <1>9, <1>12, <2>2 DEF ReadDocs, TypeOK, boundVars
<1>13. ASSUME NEW s \in Scans, ListFails(s) \/ TruncatePanics(s)
       PROVE  TypeOK' /\ InHand'
  <2>1. faults' \in Nat /\ TakeNext(s, {})
    BY <1>0, <1>13 DEF ListFails, TruncatePanics
  <2>2. CASE ListFails(s)
    <3>1. skeys' \in [Scans -> SUBSET Ids]
      BY <2>2 DEF ListFails, TypeOK
    <3> QED
      BY <1>9, <2>1, <2>2, <3>1 DEF ListFails, TypeOK
  <2>3. CASE TruncatePanics(s)
    BY <1>9, <2>1, <2>3 DEF TruncatePanics, TypeOK
  <2> QED
    BY <1>13, <2>2, <2>3
<1>14. ASSUME NEW s \in Scans, MarkFired(s)
       PROVE  TypeOK' /\ InHand'
  <2> DEFINE d == Marked(cur[s])
  <2>1. Holds(s)
    BY <1>14 DEF MarkFired, Holds
  <2>2. d \in DocType /\ d.id \in Ids
    BY <2>1, HeldFire DEF DocType
  <2> HIDE DEF d
  <2>3. docs' = [docs EXCEPT ![d.id] = d] /\ cur' = [cur EXCEPT ![s].doc = d]
    BY <1>14 DEF MarkFired, d
  <2>4. docs' \in [Ids -> DocType \cup {NoDoc}]
    BY <2>2, <2>3 DEF TypeOK
  <2> QED
    BY <1>10, <1>14, <2>1, <2>2, <2>3, <2>4 DEF MarkFired, TypeOK, boundVars
<1>15. ASSUME NEW s \in Scans, MarkFails(s)
       PROVE  TypeOK' /\ InHand'
  <2> DEFINE d == Marked(cur[s])
  <2>1. Holds(s)
    BY <1>15 DEF MarkFails, Holds
  <2>2. d \in DocType /\ d.id \in Ids
    BY <2>1, HeldFire DEF DocType
  <2> HIDE DEF d
  <2>3. late' \in {late, late \cup {Write(d.id, d)}} /\ cur' = [cur EXCEPT ![s].doc = d]
    BY <1>15 DEF MarkFails, LostOrLate, d
  <2>4. late' \subseteq [id : Ids, doc : DocType \cup {NoDoc}]
    BY <2>2, <2>3 DEF Write, TypeOK
  <2> QED
    BY <1>0, <1>10, <1>15, <2>1, <2>2, <2>3, <2>4 DEF MarkFails, TypeOK
<1>16. ASSUME NEW s \in Scans, spc[s] = "dispatch", fires' = Append(fires, Fired(s))
       PROVE  fires' \in Seq(FiredType)
  <2>1. cur[s].doc.id \in Ids /\ cur[s].doc.rev \in Nat /\ cur[s].due \in Nat
    BY <1>16, HeldFire DEF Holds
  <2>2. now \in Nat /\ boot \in Nat /\ crashes \in Nat
    BY DEF TypeOK
  <2> DEFINE early == cur[s].due > now
             missed == cur[s].due < boot
             stop == cur[s].doc.id \in sstopped[s]
  <2>3. early \in BOOLEAN /\ missed \in BOOLEAN /\ stop \in BOOLEAN
    OBVIOUS
  <2>4. Fired(s) = [id |-> cur[s].doc.id, rev |-> cur[s].doc.rev, due |-> cur[s].due,
                    early |-> early, run |-> crashes, missed |-> missed,
                    stopped |-> stop]
    BY DEF Fired
  <2> HIDE DEF early, missed, stop
  <2>5. Fired(s) \in FiredType
    BY <2>1, <2>2, <2>3, <2>4
  <2> QED
    BY <1>16, <2>5, AppendProperties DEF TypeOK
<1>17. ASSUME NEW s \in Scans, Dispatch(s)
       PROVE  TypeOK' /\ InHand'
  <2>1. fires' \in Seq(FiredType)
    BY <1>16, <1>17 DEF Dispatch
  <2>2. queue[s] \in SUBSET FireType
    BY DEF TypeOK
  <2> QED
    BY <1>9, <1>17, <2>1, <2>2 DEF Dispatch, TypeOK, boundVars
<1>18. ASSUME NEW s \in Scans, DispatchFails(s)
       PROVE  TypeOK' /\ InHand'
  <2>1. fires' \in Seq(FiredType)
    BY <1>16, <1>18 DEF DispatchFails
  <2>2. Holds(s)
    BY <1>18 DEF DispatchFails, Holds
  <2>3. cur[s].doc \in DocType
    BY <2>2, HeldFire
  <2> QED
    BY <1>0, <1>10, <1>18, <2>1, <2>2, <2>3 DEF DispatchFails, TypeOK
<1>19. ASSUME NEW s \in Scans, ReadForError(s)
       PROVE  TypeOK' /\ InHand'
  <2> DEFINE d == docs[cur[s].doc.id]
  <2>1. Holds(s)
    BY <1>19 DEF ReadForError, Holds
  <2>2. cur[s].doc.id \in Ids
    BY <2>1, HeldFire
  <2>3. CASE d = NoDoc
    <3>1. queue[s] \in SUBSET FireType
      BY DEF TypeOK
    <3> QED
      BY <1>9, <1>19, <2>3, <3>1 DEF ReadForError, TypeOK, boundVars
  <2>4. CASE d # NoDoc
    <3>1. d \in DocType
      BY <2>2, <2>4 DEF TypeOK
    <3>2. [d EXCEPT !.err = TRUE] \in DocType
      BY <3>1 DEF DocType
    <3>3. /\ cur' = [cur EXCEPT ![s].doc = [d EXCEPT !.err = TRUE]]
          /\ spc' = [spc EXCEPT ![s] = "errput"]
          /\ UNCHANGED <<snow, queue, sstopped>>
      BY <1>19, <2>4 DEF ReadForError
    <3> QED
      BY <1>10, <1>19, <2>1, <3>2, <3>3 DEF ReadForError, TypeOK, boundVars
  <2> QED
    BY <2>3, <2>4
<1>20. ASSUME NEW s \in Scans, RecordError(s) \/ RecordErrorFails(s)
       PROVE  TypeOK' /\ InHand'
  <2>1. Holds(s) /\ queue[s] \in SUBSET FireType
    BY <1>20 DEF RecordError, RecordErrorFails, Holds, TypeOK
  <2>2. cur[s].doc.id \in Ids /\ cur[s].doc \in DocType
    BY <2>1, HeldFire
  <2>3. CASE RecordError(s)
    <3>1. docs' \in [Ids -> DocType \cup {NoDoc}]
      BY <2>2, <2>3 DEF RecordError, TypeOK
    <3> QED
      BY <1>9, <2>1, <2>3, <3>1 DEF RecordError, TypeOK, boundVars
  <2>4. CASE RecordErrorFails(s)
    <3>1. late' \in {late, late \cup {Write(cur[s].doc.id, cur[s].doc)}}
      BY <2>4 DEF RecordErrorFails, LostOrLate
    <3>2. late' \subseteq [id : Ids, doc : DocType \cup {NoDoc}]
      BY <2>2, <3>1 DEF Write, TypeOK
    <3> QED
      BY <1>0, <1>9, <2>1, <2>4, <3>2 DEF RecordErrorFails, TypeOK
  <2> QED
    BY <1>20, <2>3, <2>4
<1>21. ASSUME NEW w \in late, LateWrite(w)
       PROVE  TypeOK' /\ InHand'
  <2>1. w.id \in Ids /\ w.doc \in DocType \cup {NoDoc}
    BY DEF TypeOK
  <2> QED
    BY <1>21, <2>1 DEF LateWrite, TypeOK, InHand, Setting, Holds, handlerVars,
       scanVars, workVars, processVars, boundVars
<1>22. CASE Crash
  <2>1. InFlightWrites \subseteq [id : Ids, doc : DocType \cup {NoDoc}]
    <3>1. ASSUME NEW h \in Handlers, hpc[h] = "db_set"
          PROVE  Write(hdoc[h].id, hdoc[h]) \in [id : Ids, doc : DocType \cup {NoDoc}]
      BY <3>1 DEF Write, TypeOK, InHand, DocType
    <3>2. ASSUME NEW h \in Handlers, hpc[h] = "db_delete"
          PROVE  Write(hreq[h].id, NoDoc) \in [id : Ids, doc : DocType \cup {NoDoc}]
      BY <3>2 DEF Write, InHand
    <3>3. ASSUME NEW s \in Scans, spc[s] \in {"mark", "errput"}
          PROVE  /\ Write(cur[s].doc.id, cur[s].doc) \in [id : Ids, doc : DocType \cup {NoDoc}]
                 /\ Write(cur[s].doc.id, Marked(cur[s])) \in [id : Ids, doc : DocType \cup {NoDoc}]
      BY <3>3, HeldFire DEF Write, Holds
    <3> QED
      BY <3>1, <3>2, <3>3 DEF InFlightWrites
  <2>2. InHand'
    BY <1>22 DEF Crash, Idle, InHand, Setting, Holds
  <2>3. /\ hpc' \in [Handlers -> HandlerCalls] /\ hreq' \in [Handlers -> ReqType]
        /\ hdoc' \in [Handlers -> DocType \cup {NoDoc}]
    BY <1>22 DEF Crash, Idle, NoReq
  <2>4. /\ spc' \in [Scans -> ScanCalls] /\ snow' \in [Scans -> Nat]
        /\ skeys' \in [Scans -> SUBSET Ids] /\ queue' \in [Scans -> SUBSET FireType]
        /\ cur' \in [Scans -> FireType \cup {NoFire}]
        /\ sstopped' \in [Scans -> SUBSET Ids]
    BY <1>22 DEF Crash, Idle
  <2>5. late' \subseteq [id : Ids, doc : DocType \cup {NoDoc}]
    BY <1>22, <2>1 DEF Crash, TypeOK
  <2>6. crashes' \in Nat /\ up' \in BOOLEAN
    <3>1. crashes \in Nat
      BY DEF TypeOK
    <3>2. crashes' = crashes + 1 /\ up' = FALSE
      BY <1>22 DEF Crash
    <3>3. crashes' \in Nat
      BY <3>1, <3>2
    <3> QED
      BY <3>2, <3>3
  <2> QED
    BY <1>22, <2>2, <2>3, <2>4, <2>5, <2>6 DEF Crash, TypeOK
<1>23. CASE Restart \/ Tick \/ UNCHANGED vars
  <2>1. UNCHANGED <<docs, counter, late, handlerVars, scanVars, sets, fires, stopped>>
    BY <1>23 DEF Restart, Tick, vars
  <2>2. up' \in BOOLEAN /\ boot' \in Nat
    BY <1>23 DEF Restart, Tick, vars, TypeOK, processVars
  <2>3. now' \in Nat /\ faults' \in Nat /\ crashes' \in Nat
    BY <1>23 DEF Restart, Tick, vars, TypeOK, boundVars
  <2> QED
    BY <2>1, <2>2, <2>3 DEF TypeOK, InHand, Setting, Holds, handlerVars, scanVars, workVars
<1> QED
  BY <1>1, <1>2, <1>3, <1>4, <1>5, <1>6, <1>7, <1>8, <1>11, <1>12, <1>13, <1>14,
     <1>15, <1>17, <1>18, <1>19, <1>20, <1>21, <1>22, <1>23
  DEF Next, HandlerStep, ScanStep, ScanFault

\* Every variable keeps its type, and a task never acts on a document or a request
\* it does not have: no interleaving of handlers, scans, failures and crashes makes
\* the plugin store something that is not a schedule.
THEOREM SchedulerTypeCorrect == Spec => [](TypeOK /\ InHand)
<1>1. TypeOK /\ InHand /\ [Next]_vars => (TypeOK /\ InHand)'
  BY TypeStep
<1> QED
  BY <1>1, TypeInit, PTL DEF Spec

-----------------------------------------------------------------------------
(* No occurrence is dispatched twice *)

\* A step of the scan leaves handlers and late writes alone: all they rely on is
\* that their revision stays unknown to the scan.
LEMMA ScanFrame ==
  ASSUME FireInv, up, UNCHANGED <<handlerVars, late, processVars, sets>>,
         \A r : Fresh(r) => Fresh(r)'
  PROVE  /\ \A h \in Handlers : HandlerInv(h)'
         /\ \A w \in late' : LateInv(w)'
<1>1. \A d : Owned(d)' <=> Owned(d)
  BY DEF Owned
<1>2. \A h \in Handlers : Setting(h)' <=> Setting(h)
  BY DEF Setting, handlerVars
<1>3. ASSUME NEW h \in Handlers PROVE HandlerInv(h)'
  <2>1. HandlerInv(h)
    BY DEF FireInv
  <2>2. Setting(h) => Fresh(hreq[h].rev)'
    BY <2>1 DEF HandlerInv, handlerVars
  <2> QED
    BY <1>1, <1>2, <2>1, <2>2 DEF HandlerInv, handlerVars, processVars
<1>4. ASSUME NEW w \in late PROVE LateInv(w)'
  <2>1. LateInv(w)
    BY DEF FireInv
  <2>2. CASE w.doc = NoDoc
    BY <2>2 DEF LateInv
  <2>3. CASE w.doc # NoDoc
    <3>1. Fresh(w.doc.rev)'
      BY <2>1, <2>3 DEF LateInv
    <3>2. Accounted(w.doc)'
      BY <3>1 DEF Fresh, Accounted
    <3> QED
      BY <1>1, <1>2, <2>1, <2>3, <3>1, <3>2 DEF LateInv, handlerVars, processVars
  <2> QED
    BY <2>2, <2>3
<1> QED
  BY <1>3, <1>4

\* When the scan takes up its next fire, it knows only revisions it knew before.
LEMMA TakeNextFresh ==
  ASSUME TypeOK, OneScanAtATime, NEW s \in Scans, NEW q, TakeNext(s, q), NEW r,
         \A k \in Ids : docs'[k] # NoDoc => docs'[k].rev # r,
         \A f \in q : f.doc.rev # r,
         \A i \in DOMAIN fires' : fires'[i].rev # r
  PROVE  Fresh(r)'
<1>1. \A u \in Scans : u = s
  BY DEF OneScanAtATime
<1>2. \/ spc'[s] = "idle" /\ queue'[s] = {}
      \/ \E f \in q : spc'[s] = "mark" /\ queue'[s] = q \ {f} /\ cur'[s] = f
  BY DEF TakeNext, TypeOK
<1> QED
  BY <1>1, <1>2 DEF Fresh

LEMMA TakeNextInv ==
  ASSUME TypeOK, NEW s \in Scans, NEW q, TakeNext(s, q), up',
         \A f \in q : /\ Owned(f.doc)' /\ Unfired(f)'
                      /\ \A g \in q : f.doc.rev = g.doc.rev => f = g
  PROVE  ScanInv(s)'
<1>1. CASE spc'[s] = "idle" /\ queue'[s] = {}
  BY <1>1 DEF ScanInv, Holds
<1>2. ASSUME NEW f \in q, spc'[s] = "mark", queue'[s] = q \ {f}, cur'[s] = f
      PROVE  ScanInv(s)'
  <2>1. Holds(s)'
    BY <1>2 DEF Holds
  <2>2. Owned(cur[s].doc)' /\ Unfired(cur[s])'
    BY <1>2 DEF Owned, Unfired
  <2>3. ASSUME NEW g \in queue'[s]
        PROVE  /\ Owned(g.doc)' /\ Unfired(g)'
               /\ \A e \in queue'[s] : g.doc.rev = e.doc.rev => g = e
               /\ g.doc.rev # cur'[s].doc.rev
    BY <1>2, <2>3
  <2> QED
    BY <1>2, <2>1, <2>2, <2>3 DEF ScanInv
<1>3. \/ spc'[s] = "idle" /\ queue'[s] = {}
      \/ \E f \in q : spc'[s] = "mark" /\ queue'[s] = q \ {f} /\ cur'[s] = f
  BY DEF TakeNext, TypeOK
<1> QED
  BY <1>1, <1>2, <1>3

\* The revisions the scan knows after its step: it is enough to look at the
\* documents, at the fires and at what the one scan has in hand.
LEMMA ScanStepInv ==
  ASSUME FireInv, InHand', OneScanAtATime, NEW s \in Scans, up,
         UNCHANGED <<handlerVars, late, processVars, sets>>,
         \A r : Fresh(r) => Fresh(r)',
         \A k \in Ids : DocInv(k)', ScanInv(s)',
         \A i \in DOMAIN fires' : fires'[i].rev \in DOMAIN sets', NoDoubleFire'
  PROVE  FireInv'
<1>1. \A h \in Handlers : HandlerInv(h)'
  BY ScanFrame
<1>2. \A w \in late' : LateInv(w)'
  BY ScanFrame
<1>3. \A u \in Scans : ScanInv(u)'
  <2>1. \A u \in Scans : u = s
    BY DEF OneScanAtATime
  <2> QED
    BY <2>1
<1> QED
  BY <1>1, <1>2, <1>3 DEF FireInv

\* A document has at most one pending deadline.
LEMMA NextFireUnique ==
  ASSUME NEW d \in DocType, NEW t \in NextFireMs(d), NEW u \in NextFireMs(d)
  PROVE  t = u
<1>1. /\ d.cfg \in Configs /\ d.cfg.trigger \in {"once", "cron"}
      /\ d.cfg.enabled \in BOOLEAN
  BY ConfigFacts DEF DocType
<1>2. d.cfg.enabled
  BY <1>1 DEF NextFireMs
<1>3. CASE d.cfg.trigger = "once"
  BY <1>2, <1>3 DEF NextFireMs
<1>4. CASE d.cfg.trigger = "cron"
  <2>1. PICK a : t \in NextCronAfter(a) /\ u \in NextCronAfter(a)
    BY <1>2, <1>4 DEF NextFireMs
  <2>2. t \in Nat /\ u \in Nat /\ t <= u /\ u <= t
    BY <2>1, SchedulerAssumption DEF NextCronAfter
  <2> QED
    BY <2>2
<1> QED
  BY <1>1, <1>3, <1>4

\* What a scan selects from documents that account for their fires.
LEMMA DueFiresInv ==
  ASSUME TypeOK, \A k \in Ids : DocInv(k), NEW keys \in SUBSET Ids, NEW t \in Nat,
         NEW f \in DueFires(keys, t)
  PROVE  /\ Owned(f.doc) /\ Unfired(f)
         /\ \E k \in Ids : docs[k] # NoDoc /\ docs[k] = f.doc
         /\ \A g \in DueFires(keys, t) : f.doc.rev = g.doc.rev => f = g
<1>1. \A g \in DueFires(keys, t) :
        /\ \E k \in Ids : docs[k] # NoDoc /\ docs[k] = g.doc
        /\ g.due \in NextFireMs(g.doc)
        /\ g = [doc |-> g.doc, due |-> g.due]
  BY DEF DueFires
<1>2. PICK k \in Ids : docs[k] # NoDoc /\ docs[k] = f.doc
  BY <1>1
<1>3. f.doc \in DocType /\ f.doc.id = k /\ Owned(f.doc) /\ Accounted(f.doc)
  BY <1>2 DEF TypeOK, DocInv
<1>4. Unfired(f)
  <2>1. fires \in Seq(FiredType)
    BY DEF TypeOK, FiredType
  <2> QED
    BY <1>1, <1>3, <2>1, DueIsUnfired DEF Unfired
<1>5. ASSUME NEW g \in DueFires(keys, t), f.doc.rev = g.doc.rev
      PROVE  f = g
  <2>1. PICK j \in Ids : docs[j] # NoDoc /\ docs[j] = g.doc
    BY <1>1
  <2>2. g.doc.id = j /\ Owned(g.doc)
    BY <2>1 DEF DocInv
  <2>3. f.doc = g.doc
    BY <1>2, <1>3, <1>5, <2>1, <2>2 DEF Owned
  <2>4. f.due = g.due
    BY <1>1, <1>3, <2>3, NextFireUnique
  <2> QED
    BY <1>1, <2>3, <2>4
<1> QED
  BY <1>2, <1>3, <1>4, <1>5

LEMMA FireInit == Init => FireInv
<1> SUFFICES ASSUME Init PROVE FireInv
  OBVIOUS
<1>1. InHand
  BY TypeInit
<1>2. fires = << >> /\ late = {} /\ \A i \in DOMAIN fires : FALSE
  BY DEF Init
<1>3. \A k \in Ids : DocInv(k)
  BY DEF Init, DocInv
<1>4. \A h \in Handlers : HandlerInv(h)
  BY DEF Init, HandlerInv, Setting
<1>5. \A s \in Scans : ScanInv(s)
  BY DEF Init, ScanInv, Holds
<1> QED
  BY <1>1, <1>2, <1>3, <1>4, <1>5 DEF FireInv, NoDoubleFire

\* The steps of request handlers. None of them touches a fire.
LEMMA HandlerStepInv ==
  ASSUME TypeOK, FireInv, InHand', NEW h \in Handlers, UNCHANGED <<workVars, fires, up>>,
         \/ \E id \in Ids \cup {0}, cfg \in Configs : AcceptSet(h, id, cfg)
         \/ \E id \in Ids : AcceptDelete(h, id)
         \/ HandlerStep(h) \/ HandlerFails(h)
  PROVE  FireInv'
<1>0. /\ \A k \in Ids : DocInv(k)
      /\ \A g \in Handlers : HandlerInv(g)
      /\ \A w \in late : LateInv(w)
      /\ \A s \in Scans : ScanInv(s)
      /\ \A i \in DOMAIN fires : fires[i].rev \in DOMAIN sets
      /\ InHand /\ NoDoubleFire
  BY DEF FireInv
<1>1. ASSUME NEW id \in Ids \cup {0}, NEW cfg \in Configs, AcceptSet(h, id, cfg)
      PROVE  FireInv'
  <2> DEFINE rev == Len(sets) + 1
  <2>1. /\ sets' = Append(sets, [id |-> id, cfg |-> cfg])
        /\ hreq' = [hreq EXCEPT ![h] =
                      [id |-> id, rev |-> rev, now |-> now]]
        /\ hpc' = [hpc EXCEPT ![h] = IF id = 0 THEN "db_incr" ELSE "db_get"]
        /\ UNCHANGED <<docs, late, hdoc>> /\ up /\ hpc[h] = "idle"
    BY <1>1 DEF AcceptSet
  <2>2. /\ DOMAIN sets' = DOMAIN sets \cup {rev} /\ rev \notin DOMAIN sets
        /\ sets'[rev].id = id
        /\ \A r \in DOMAIN sets : sets'[r] = sets[r]
    <3>1. Len(sets) \in Nat /\ DOMAIN sets = 1..Len(sets)
      BY LenProperties DEF TypeOK
    <3> QED
      BY <2>1, <3>1, AppendProperties, LenProperties DEF TypeOK
  <2> HIDE DEF rev
  <2>3. \A d : Owned(d) => Owned(d)' /\ d.rev # rev
    BY <2>2 DEF Owned
  <2>4. \A r : Fresh(r)' <=> Fresh(r)
    BY <2>1 DEF Fresh, workVars
  <2>5. \A d : Accounted(d)' <=> Accounted(d)
    BY DEF Accounted
  <2>6. Fresh(rev)
    <3>1. \A k \in Ids : docs[k] # NoDoc => docs[k].rev # rev
      BY <1>0, <2>3 DEF DocInv
    <3>2. ASSUME NEW s \in Scans
          PROVE  /\ \A f \in queue[s] : f.doc.rev # rev
                 /\ spc[s] \in {"mark", "dispatch", "errput"} => cur[s].doc.rev # rev
      BY <1>0, <2>3 DEF ScanInv
    <3> QED
      BY <1>0, <2>2, <3>1, <3>2 DEF Fresh
  <2>7. \A k \in Ids : DocInv(k)'
    BY <1>0, <2>1, <2>3, <2>5 DEF DocInv
  <2>8. ASSUME NEW g \in Handlers PROVE HandlerInv(g)'
    <3>1. CASE g = h
      <4>1. /\ hpc'[g] \in {"db_incr", "db_get"}
            /\ hreq'[g].rev = rev /\ hreq'[g].id = id
        BY <2>1, <3>1 DEF TypeOK
      <4>2. \A e \in Handlers \ {g} : Setting(e)' => hreq'[e].rev # rev
        <5>1. \A e \in Handlers \ {g} : hpc'[e] = hpc[e] /\ hreq'[e] = hreq[e]
          BY <2>1, <3>1 DEF TypeOK
        <5>2. \A e \in Handlers : Setting(e) => hreq[e].rev \in DOMAIN sets
          BY <1>0 DEF InHand
        <5> QED
          BY <2>2, <5>1, <5>2 DEF Setting
      <4> QED
        BY <2>1, <2>2, <2>4, <2>6, <4>1, <4>2 DEF HandlerInv
    <3>2. CASE g # h
      <4>1. hpc'[g] = hpc[g] /\ hreq'[g] = hreq[g] /\ hdoc'[g] = hdoc[g]
        BY <2>1, <3>2 DEF TypeOK
      <4>2. Setting(g) => hreq[g].rev \in DOMAIN sets
        BY <1>0 DEF InHand
      <4>3. \A e \in Handlers \ {g} : Setting(g) /\ Setting(e)' => hreq'[e].rev # hreq[g].rev
        <5>1. ASSUME NEW e \in Handlers \ {g}, Setting(g), Setting(e)'
              PROVE  hreq'[e].rev # hreq[g].rev
          <6>1. CASE e = h
            BY <2>1, <2>2, <4>2, <5>1, <6>1 DEF TypeOK
          <6>2. CASE e # h
            <7>1. hpc'[e] = hpc[e] /\ hreq'[e] = hreq[e]
              BY <2>1, <6>2 DEF TypeOK
            <7> QED
              BY <1>0, <5>1, <7>1 DEF HandlerInv, Setting
          <6> QED
            BY <6>1, <6>2
        <5> QED
          BY <5>1
      <4>4. HandlerInv(g)
        BY <1>0
      <4>5. Setting(g)' <=> Setting(g)
        BY <4>1 DEF Setting
      <4>6. hpc[g] = "db_get" => Setting(g)
        BY DEF Setting
      <4> QED
        BY <2>1, <2>2, <2>3, <2>4, <4>1, <4>2, <4>3, <4>4, <4>5, <4>6 DEF HandlerInv
    <3> QED
      BY <3>1, <3>2
  <2>9. ASSUME NEW w \in late' PROVE LateInv(w)'
    <3>1. w \in late /\ LateInv(w)
      BY <1>0, <2>1
    <3>2. ASSUME w.doc # NoDoc, up, NEW g \in Handlers, Setting(g)'
          PROVE  hreq'[g].rev # w.doc.rev
      <4>1. CASE g = h
        <5>1. hreq'[g].rev = rev
          BY <2>1, <4>1 DEF TypeOK
        <5> QED
          BY <2>3, <3>1, <3>2, <5>1 DEF LateInv
      <4>2. CASE g # h
        <5>1. hpc'[g] = hpc[g] /\ hreq'[g] = hreq[g]
          BY <2>1, <4>2 DEF TypeOK
        <5> QED
          BY <3>1, <3>2, <5>1 DEF LateInv, Setting
      <4> QED
        BY <4>1, <4>2
    <3> QED
      BY <2>1, <2>3, <2>4, <2>5, <3>1, <3>2 DEF LateInv
  <2>10. ASSUME NEW s \in Scans PROVE ScanInv(s)'
    BY <1>0, <2>1, <2>3 DEF ScanInv, Holds, Unfired, Accounted, workVars
  <2>11. \A i \in DOMAIN fires' : fires'[i].rev \in DOMAIN sets'
    BY <1>0, <2>2
  <2>12. NoDoubleFire'
    BY <1>0 DEF NoDoubleFire
  <2> QED
    BY <2>7, <2>8, <2>9, <2>10, <2>11, <2>12 DEF FireInv
<1>2. ASSUME NEW id \in Ids, AcceptDelete(h, id)
      PROVE  FireInv'
  <2>1. /\ hpc[h] = "idle" /\ hpc' = [hpc EXCEPT ![h] = "db_delete"] /\ up
        /\ hreq' = [hreq EXCEPT ![h] = [NoReq EXCEPT !.id = id]]
        /\ UNCHANGED <<docs, hdoc, late, sets>>
    BY <1>2 DEF AcceptDelete
  <2>2. \A d : Owned(d)' <=> Owned(d)
    BY <2>1 DEF Owned
  <2>3. \A d : Accounted(d)' <=> Accounted(d)
    BY DEF Accounted
  <2>4. \A r : Fresh(r)' <=> Fresh(r)
    BY <2>1 DEF Fresh, workVars
  <2>5. \A g \in Handlers : Setting(g)' => g # h /\ Setting(g) /\ hreq'[g] = hreq[g]
    BY <2>1 DEF Setting, TypeOK
  <2>6. \A k \in Ids : DocInv(k)'
    BY <1>0, <2>1, <2>2, <2>3 DEF DocInv
  <2>7. ASSUME NEW g \in Handlers PROVE HandlerInv(g)'
    <3>1. CASE g = h
      <4>1. hpc'[g] = "db_delete"
        BY <2>1, <3>1 DEF TypeOK
      <4> QED
        BY <2>1, <4>1 DEF HandlerInv, Setting
    <3>2. CASE g # h
      <4>1. hpc'[g] = hpc[g] /\ hreq'[g] = hreq[g] /\ hdoc'[g] = hdoc[g] /\ HandlerInv(g)
        BY <1>0, <2>1, <3>2 DEF TypeOK
      <4> QED
        BY <2>1, <2>2, <2>4, <2>5, <4>1 DEF HandlerInv
    <3> QED
      BY <3>1, <3>2
  <2>8. \A w \in late' : LateInv(w)'
    BY <1>0, <2>1, <2>2, <2>3, <2>4, <2>5 DEF LateInv
  <2>9. \A s \in Scans : ScanInv(s)'
    BY <1>0, <2>1, <2>2 DEF ScanInv, Holds, Unfired, Accounted, workVars
  <2> QED
    BY <1>0, <2>1, <2>6, <2>7, <2>8, <2>9 DEF FireInv, NoDoubleFire
<1>3. CASE SetReadsExisting(h)
  <2> DEFINE r == hreq[h]
             old == docs[r.id]
             created == IF old = NoDoc THEN r.now ELSE old.created
             d == BuildDoc(r.id, r.rev, sets[r.rev].cfg, created)
  <2>1. /\ hpc[h] = "db_get" /\ hpc' = [hpc EXCEPT ![h] = "db_set"]
        /\ hdoc' = [hdoc EXCEPT ![h] = d]
        /\ hreq' = hreq
        /\ UNCHANGED <<docs, late, sets>>
    BY <1>3 DEF SetReadsExisting
  <2>2. d.id = r.id /\ d.rev = r.rev
    BY DEF BuildDoc
  <2> HIDE DEF d
  <2>3. \A e : Owned(e)' <=> Owned(e)
    BY <2>1 DEF Owned
  <2>4. \A e : Accounted(e)' <=> Accounted(e)
    BY DEF Accounted
  <2>5. \A x : Fresh(x)' <=> Fresh(x)
    BY <2>1 DEF Fresh, workVars
  <2>6. \A g \in Handlers : hreq'[g].rev = hreq[g].rev /\ (Setting(g)' <=> Setting(g))
    BY <2>1 DEF Setting, TypeOK
  <2>7. \A k \in Ids : DocInv(k)'
    BY <1>0, <2>1, <2>3, <2>4 DEF DocInv
  <2>8. ASSUME NEW g \in Handlers PROVE HandlerInv(g)'
    <3>1. HandlerInv(g)
      BY <1>0
    <3>2. CASE g = h
      <4>1. hpc'[g] = "db_set" /\ hdoc'[g] = d
        BY <2>1, <3>2 DEF TypeOK
      <4>2. Owned(d)
        BY <1>0, <2>1, <2>2, <3>1, <3>2 DEF Owned, HandlerInv, InHand, Setting
      <4> QED
        BY <2>1, <2>2, <2>3, <2>5, <2>6, <3>1, <3>2, <4>1, <4>2 DEF HandlerInv
    <3>3. CASE g # h
      <4>1. hpc'[g] = hpc[g] /\ hreq'[g] = hreq[g] /\ hdoc'[g] = hdoc[g]
        BY <2>1, <3>3 DEF TypeOK
      <4> QED
        BY <2>1, <2>3, <2>5, <2>6, <3>1, <4>1 DEF HandlerInv
    <3> QED
      BY <3>2, <3>3
  <2>9. \A w \in late' : LateInv(w)'
    BY <1>0, <2>1, <2>3, <2>4, <2>5, <2>6 DEF LateInv
  <2>10. \A s \in Scans : ScanInv(s)'
    BY <1>0, <2>1, <2>3 DEF ScanInv, Holds, Unfired, Accounted, workVars
  <2> QED
    BY <1>0, <2>1, <2>7, <2>8, <2>9, <2>10 DEF FireInv, NoDoubleFire
<1>4. CASE SetTakesNextId(h)
  <2>0. PICK r, n, d : /\ r = hreq[h] /\ n = counter + 1
                       /\ d = BuildDoc(n, r.rev, sets[r.rev].cfg, r.now)
    OBVIOUS
  <2>1. /\ hpc[h] = "db_incr" /\ hpc' = [hpc EXCEPT ![h] = "db_set"]
        /\ hdoc' = [hdoc EXCEPT ![h] = d]
        /\ hreq' = [hreq EXCEPT ![h] = [r EXCEPT !.id = n]]
        /\ sets' = [sets EXCEPT ![r.rev].id = n]
        /\ UNCHANGED <<docs, late>>
    BY <1>4, <2>0 DEF SetTakesNextId
  <2>2. d.id = n /\ d.rev = r.rev
    BY <2>0 DEF BuildDoc
  <2>3. Setting(h) /\ HandlerInv(h) /\ r.rev \in DOMAIN sets /\ Fresh(r.rev) /\ up
    BY <1>0, <2>0, <2>1 DEF Setting, HandlerInv, InHand
  <2>4. DOMAIN sets' = DOMAIN sets /\ \A x \in DOMAIN sets \ {r.rev} : sets'[x] = sets[x]
    BY <2>1
  <2>5. sets'[r.rev].id = n
    <3>1. sets[r.rev] \in SetType
      BY <2>3, SetsFacts DEF TypeOK, SetType
    <3>2. sets' = [sets EXCEPT ![r.rev] = [sets[r.rev] EXCEPT !.id = n]]
      BY <2>1
    <3> QED
      BY <2>3, <3>1, <3>2 DEF SetType
  <2>6. \A e : Owned(e) /\ e.rev # r.rev => Owned(e)'
    BY <2>4 DEF Owned
  <2>7. Owned(d)'
    BY <2>2, <2>3, <2>4, <2>5 DEF Owned
  <2>8. \A e : Accounted(e)' <=> Accounted(e)
    BY DEF Accounted
  <2>9. \A x : Fresh(x)' <=> Fresh(x)
    BY <2>1 DEF Fresh, workVars
  <2>10. \A g \in Handlers : hreq'[g].rev = hreq[g].rev /\ (Setting(g)' <=> Setting(g))
    <3>1. r \in ReqType
      BY <2>0 DEF TypeOK, ReqType
    <3>2. [r EXCEPT !.id = n].rev = r.rev
      BY <3>1 DEF ReqType
    <3> QED
      BY <2>0, <2>1, <3>2 DEF Setting, TypeOK
  <2>11. \A k \in Ids : DocInv(k)'
    BY <1>0, <2>1, <2>3, <2>6, <2>8 DEF DocInv, Fresh
  <2>12. ASSUME NEW g \in Handlers PROVE HandlerInv(g)'
    <3>1. HandlerInv(g)
      BY <1>0
    <3>2. CASE g = h
      <4>1. hpc'[g] = "db_set" /\ hdoc'[g] = d
        BY <2>1, <3>2 DEF TypeOK
      <4> QED
        BY <2>0, <2>1, <2>2, <2>3, <2>7, <2>9, <2>10, <3>1, <3>2, <4>1 DEF HandlerInv, Setting
    <3>3. CASE g # h
      <4>1. hpc'[g] = hpc[g] /\ hreq'[g] = hreq[g] /\ hdoc'[g] = hdoc[g]
        BY <2>1, <3>3 DEF TypeOK
      <4>2. Setting(g) => hreq[g].rev # r.rev /\ hreq[g].rev \in DOMAIN sets
        BY <1>0, <2>0, <2>3, <3>3 DEF HandlerInv, InHand
      <4>3. hpc[g] \in {"db_get", "db_set"} => Setting(g)
        BY DEF Setting
      <4>4. hpc[g] = "db_get" => sets'[hreq[g].rev] = sets[hreq[g].rev]
        BY <2>4, <4>2, <4>3
      <4>5. PICK e : e = hdoc[g] /\ e = hdoc'[g]
        BY <4>1
      <4>6. hpc[g] = "db_set" => e.rev = hreq[g].rev /\ Owned(e)'
        BY <2>6, <3>1, <4>2, <4>3, <4>5 DEF HandlerInv
      <4>7. Setting(g)' =>
              /\ Fresh(hreq[g].rev)'
              /\ \A x \in Handlers \ {g} : Setting(x)' => hreq'[x].rev # hreq'[g].rev
        <5>1. Setting(g)' => Fresh(hreq[g].rev)
          BY <2>10, <3>1 DEF HandlerInv
        <5>2. PICK x : x = hreq[g].rev /\ x = hreq'[g].rev
          BY <4>1
        <5> QED
          BY <2>9, <2>10, <3>1, <5>1, <5>2 DEF HandlerInv
      <4> QED
        BY <2>3, <3>1, <4>1, <4>4, <4>5, <4>6, <4>7 DEF HandlerInv
    <3> QED
      BY <3>2, <3>3
  <2>13. \A w \in late' : LateInv(w)'
    BY <1>0, <2>0, <2>1, <2>3, <2>6, <2>8, <2>9, <2>10 DEF LateInv
  <2>14. \A s \in Scans : ScanInv(s)'
    BY <1>0, <2>1, <2>3, <2>6 DEF ScanInv, Holds, Unfired, Accounted, Fresh, workVars
  <2> QED
    BY <1>0, <2>4, <2>11, <2>12, <2>13, <2>14 DEF FireInv, NoDoubleFire
<1>5. ASSUME HandlerDone(h), hpc[h] # "idle", UNCHANGED sets,
             \A g \in Handlers \ {h} : Setting(g) => Fresh(hreq[g].rev)'
      PROVE  /\ up
             /\ \A g \in Handlers : HandlerInv(g)'
             /\ \A g \in Handlers : Setting(g)' => g # h /\ Setting(g) /\ hreq'[g] = hreq[g]
  <2>1. /\ hpc'[h] = "idle"
        /\ \A g \in Handlers \ {h} :
             hpc'[g] = hpc[g] /\ hreq'[g] = hreq[g] /\ hdoc'[g] = hdoc[g]
    BY <1>5 DEF HandlerDone, TypeOK
  <2>2. \A g \in Handlers : Setting(g)' => g # h /\ Setting(g) /\ hreq'[g] = hreq[g]
    BY <2>1 DEF Setting
  <2>3. up
    BY <1>0, <1>5 DEF HandlerInv
  <2>4. \A d : Owned(d)' <=> Owned(d)
    BY <1>5 DEF Owned
  <2>5. ASSUME NEW g \in Handlers PROVE HandlerInv(g)'
    <3>1. CASE g = h
      BY <2>1, <3>1 DEF HandlerInv, Setting
    <3>2. CASE g # h
      <4>1. hpc'[g] = hpc[g] /\ hreq'[g] = hreq[g] /\ hdoc'[g] = hdoc[g] /\ HandlerInv(g)
        BY <1>0, <2>1, <3>2
      <4>2. Setting(g)' =>
              /\ Fresh(hreq[g].rev)'
              /\ \A x \in Handlers \ {g} : Setting(x)' => hreq'[x].rev # hreq'[g].rev
        BY <1>5, <2>2, <3>2, <4>1 DEF HandlerInv
      <4>3. PICK e : e = hdoc[g] /\ e = hdoc'[g]
        BY <4>1
      <4>4. hpc[g] = "db_set" => e.rev = hreq[g].rev /\ Owned(e)'
        BY <2>4, <4>1, <4>3 DEF HandlerInv
      <4>5. PICK x : x = hreq[g].rev /\ x = hreq'[g].rev
        BY <4>1
      <4>6. Setting(g)' => Fresh(x)'
        BY <1>5, <2>2, <3>2, <4>5
      <4> QED
        BY <1>5, <2>3, <4>1, <4>2, <4>3, <4>4, <4>5, <4>6 DEF HandlerInv
    <3> QED
      BY <3>1, <3>2
  <2> QED
    BY <2>2, <2>3, <2>5
<1>6. CASE SetStores(h)
  <2>0. PICK d : d = hdoc[h]
    OBVIOUS
  <2>1. /\ docs' = [docs EXCEPT ![d.id] = d] /\ HandlerDone(h) /\ hpc[h] = "db_set"
        /\ UNCHANGED <<late, sets>>
    BY <1>6, <2>0 DEF SetStores
  <2>2. /\ Setting(h) /\ d \in DocType /\ d # NoDoc /\ d.id \in Ids
        /\ d.rev = hreq[h].rev /\ Owned(d) /\ Fresh(d.rev) /\ up
    BY <1>0, <2>0, <2>1 DEF Setting, HandlerInv, InHand, TypeOK, DocType
  <2>3. \A e : Owned(e)' <=> Owned(e)
    BY <2>1 DEF Owned
  <2>4. \A e : Accounted(e)' <=> Accounted(e)
    BY DEF Accounted
  <2>5. docs'[d.id] = d /\ \A k \in Ids \ {d.id} : docs'[k] = docs[k]
    BY <2>1, <2>2 DEF TypeOK
  <2>6. \A r : Fresh(r) /\ r # d.rev => Fresh(r)'
    BY <2>5 DEF Fresh, workVars
  <2>7. \A g \in Handlers \ {h} : Setting(g) => Fresh(hreq[g].rev)'
    <3>1. ASSUME NEW g \in Handlers \ {h}, Setting(g)
          PROVE  Fresh(hreq[g].rev)'
      <4>1. Fresh(hreq[g].rev) /\ hreq[g].rev # d.rev
        BY <1>0, <2>2, <3>1 DEF HandlerInv
      <4>2. PICK x : x = hreq[g].rev /\ x = hreq'[g].rev
        BY <2>1, <3>1 DEF HandlerDone, TypeOK
      <4>3. Fresh(x)'
        BY <2>6, <4>1, <4>2
      <4> QED
        BY <4>2, <4>3
    <3> QED
      BY <3>1
  <2>8. /\ \A g \in Handlers : HandlerInv(g)'
        /\ \A g \in Handlers : Setting(g)' => g # h /\ Setting(g) /\ hreq'[g] = hreq[g]
    BY <1>5, <2>1, <2>7
  <2>9. ASSUME NEW k \in Ids PROVE DocInv(k)'
    <3>1. CASE k = d.id
      <4>1. Accounted(d)
        BY <2>2 DEF Fresh, Accounted
      <4> QED
        BY <2>2, <2>3, <2>4, <2>5, <3>1, <4>1 DEF DocInv
    <3>2. CASE k # d.id
      <4>1. docs'[k] = docs[k] /\ DocInv(k)
        BY <1>0, <2>5, <3>2
      <4> QED
        BY <2>3, <2>4, <4>1 DEF DocInv
    <3> QED
      BY <3>1, <3>2
  <2>10. ASSUME NEW w \in late' PROVE LateInv(w)'
    <3>1. LateInv(w)
      BY <1>0, <2>1
    <3>2. w.doc # NoDoc => w.doc.rev # d.rev
      BY <2>2, <3>1 DEF LateInv
    <3> QED
      BY <2>1, <2>2, <2>3, <2>4, <2>6, <2>8, <3>1, <3>2 DEF LateInv
  <2>11. ASSUME NEW s \in Scans PROVE ScanInv(s)'
    <3>1. ScanInv(s) /\ (spc[s] = "dispatch" => cur[s].doc.rev # d.rev)
      BY <1>0, <2>2 DEF Fresh
    <3> QED
      BY <2>2, <2>3, <2>5, <3>1 DEF ScanInv, Holds, Unfired, Accounted, workVars
  <2> QED
    BY <1>0, <2>1, <2>8, <2>9, <2>10, <2>11 DEF FireInv, NoDoubleFire
<1>7. CASE DeleteStores(h)
  <2>1. /\ docs' = [docs EXCEPT ![hreq[h].id] = NoDoc] /\ HandlerDone(h)
        /\ hpc[h] = "db_delete" /\ UNCHANGED <<late, sets>>
    BY <1>7 DEF DeleteStores
  <2>2. \A e : Owned(e)' <=> Owned(e)
    BY <2>1 DEF Owned
  <2>3. \A e : Accounted(e)' <=> Accounted(e)
    BY DEF Accounted
  <2>4. \A k \in Ids : docs'[k] # NoDoc => docs'[k] = docs[k]
    BY <2>1 DEF TypeOK
  <2>5. \A r : Fresh(r) => Fresh(r)'
    BY <2>4 DEF Fresh, workVars
  <2>6. \A g \in Handlers \ {h} : Setting(g) => Fresh(hreq[g].rev)'
    <3>1. ASSUME NEW g \in Handlers \ {h}, Setting(g)
          PROVE  Fresh(hreq[g].rev)'
      <4>1. PICK x : x = hreq[g].rev /\ x = hreq'[g].rev
        BY <2>1, <3>1 DEF HandlerDone, TypeOK
      <4>2. Fresh(x)'
        BY <1>0, <2>5, <3>1, <4>1 DEF HandlerInv
      <4> QED
        BY <4>1, <4>2
    <3> QED
      BY <3>1
  <2>7. /\ \A g \in Handlers : HandlerInv(g)'
        /\ \A g \in Handlers : Setting(g)' => g # h /\ Setting(g) /\ hreq'[g] = hreq[g]
    BY <1>5, <2>1, <2>6
  <2>8. \A k \in Ids : DocInv(k)'
    BY <1>0, <2>2, <2>3, <2>4 DEF DocInv
  <2>9. \A w \in late' : LateInv(w)'
    BY <1>0, <2>1, <2>2, <2>3, <2>5, <2>7 DEF LateInv
  <2>10. \A s \in Scans : ScanInv(s)'
    BY <1>0, <2>2, <2>4 DEF ScanInv, Holds, Unfired, Accounted, workVars
  <2> QED
    BY <1>0, <2>1, <2>7, <2>8, <2>9, <2>10 DEF FireInv, NoDoubleFire
<1>8. CASE HandlerFails(h)
  <2>1. HandlerDone(h) /\ hpc[h] # "idle" /\ UNCHANGED <<docs, sets>>
    BY <1>8 DEF HandlerFails
  <2>2. PICK d : d = hdoc[h]
    OBVIOUS
  <2>3. ASSUME NEW w \in late' \ late, w.doc # NoDoc
        PROVE  hpc[h] = "db_set" /\ w = Write(d.id, d) /\ late' = late \cup {w}
    <3>1. CASE hpc[h] = "db_set"
      <4>1. late' \in {late, late \cup {Write(d.id, d)}}
        BY <1>8, <2>2, <3>1 DEF HandlerFails, LostOrLate
      <4> QED
        BY <2>3, <3>1, <4>1
    <3>2. CASE hpc[h] = "db_delete"
      <4>1. late' \in {late, late \cup {Write(hreq[h].id, NoDoc)}}
        BY <1>8, <3>2 DEF HandlerFails, LostOrLate
      <4> QED
        BY <2>3, <4>1 DEF Write
    <3>3. CASE hpc[h] \in {"db_get", "db_incr"}
      BY <1>8, <2>3, <3>3 DEF HandlerFails
    <3> QED
      BY <2>1, <3>1, <3>2, <3>3 DEF TypeOK
  <2>4. late \subseteq late'
    <3>1. CASE hpc[h] \in {"db_set", "db_delete"}
      BY <1>8, <3>1 DEF HandlerFails, LostOrLate
    <3>2. CASE hpc[h] \in {"db_get", "db_incr"}
      BY <1>8, <3>2 DEF HandlerFails
    <3> QED
      BY <2>1, <3>1, <3>2 DEF TypeOK
  <2>5. \A e : Owned(e)' <=> Owned(e)
    BY <2>1 DEF Owned
  <2>6. \A e : Accounted(e)' <=> Accounted(e)
    BY DEF Accounted
  <2>7. \A r : Fresh(r)' <=> Fresh(r)
    BY <2>1 DEF Fresh, workVars
  <2>8. \A g \in Handlers \ {h} : Setting(g) => Fresh(hreq[g].rev)'
    <3>1. ASSUME NEW g \in Handlers \ {h}, Setting(g)
          PROVE  Fresh(hreq[g].rev)'
      <4>1. PICK x : x = hreq[g].rev /\ x = hreq'[g].rev
        BY <2>1, <3>1 DEF HandlerDone, TypeOK
      <4>2. Fresh(x)'
        BY <1>0, <2>7, <3>1, <4>1 DEF HandlerInv
      <4> QED
        BY <4>1, <4>2
    <3> QED
      BY <3>1
  <2>9. /\ up
        /\ \A g \in Handlers : HandlerInv(g)'
        /\ \A g \in Handlers : Setting(g)' => g # h /\ Setting(g) /\ hreq'[g] = hreq[g]
    BY <1>5, <2>1, <2>8
  <2>10. \A k \in Ids : DocInv(k)'
    BY <1>0, <2>1, <2>5, <2>6 DEF DocInv
  <2>11. hpc[h] = "db_set" =>
           Setting(h) /\ d.rev = hreq[h].rev /\ Owned(d) /\ Fresh(d.rev) /\ Accounted(d)
    <3>1. hpc[h] = "db_set" => Setting(h) /\ d.rev = hreq[h].rev /\ Owned(d) /\ Fresh(d.rev)
      BY <1>0, <2>2 DEF Setting, HandlerInv
    <3>2. Fresh(d.rev) => Accounted(d)
      BY DEF Fresh, Accounted
    <3> QED
      BY <3>1, <3>2
  <2>12. ASSUME NEW w \in late', w.doc # NoDoc, w \notin late
         PROVE  LateInv(w)'
    <3>1. /\ hpc[h] = "db_set" /\ w.doc = d /\ w.id = d.id /\ late' = late \cup {w}
      BY <2>3, <2>12 DEF Write
    <3>2. \A x \in late : x.doc # NoDoc => x.doc.rev # d.rev
      BY <1>0, <2>9, <2>11, <3>1 DEF LateInv
    <3>3. \A g \in Handlers : Setting(g)' => hreq'[g].rev # d.rev
      BY <1>0, <2>9, <2>11, <3>1 DEF HandlerInv
    <3> QED
      BY <2>5, <2>6, <2>7, <2>11, <3>1, <3>2, <3>3 DEF LateInv
  <2>13. ASSUME NEW w \in late, w.doc # NoDoc
         PROVE  LateInv(w)'
    <3>1. LateInv(w)
      BY <1>0
    <3>2. \A x \in late' \ {w} : x.doc # NoDoc => x.doc.rev # w.doc.rev
      <4>1. ASSUME NEW x \in late' \ {w}, x.doc # NoDoc, x \notin late
            PROVE  x.doc.rev # w.doc.rev
        BY <2>3, <2>9, <2>11, <2>13, <3>1, <4>1 DEF LateInv, Write
      <4> QED
        BY <2>9, <2>13, <3>1, <4>1 DEF LateInv
    <3> QED
      BY <2>5, <2>6, <2>7, <2>9, <2>13, <3>1, <3>2 DEF LateInv
  <2>14. \A w \in late' : LateInv(w)'
    BY <2>12, <2>13 DEF LateInv
  <2>15. \A s \in Scans : ScanInv(s)'
    BY <1>0, <2>1, <2>5 DEF ScanInv, Holds, Unfired, Accounted, workVars
  <2> QED
    BY <1>0, <2>1, <2>9, <2>10, <2>14, <2>15 DEF FireInv, NoDoubleFire
<1> QED
  BY <1>1, <1>2, <1>3, <1>4, <1>6, <1>7, <1>8 DEF HandlerStep

\* The scan goes on with the fires in q: what the invariant asks of it then.
LEMMA ScanGoesOn ==
  ASSUME TypeOK, FireInv, InHand', OneScanAtATime, NEW s \in Scans, NEW q,
         TakeNext(s, q), up, UNCHANGED <<handlerVars, late, processVars, sets>>,
         \A k \in Ids : DocInv(k)',
         \A f \in q : /\ Owned(f.doc) /\ Unfired(f)'
                      /\ \A g \in q : f.doc.rev = g.doc.rev => f = g,
         \A r : Fresh(r) =>
           /\ \A k \in Ids : docs'[k] # NoDoc => docs'[k].rev # r
           /\ \A f \in q : f.doc.rev # r
           /\ \A i \in DOMAIN fires' : fires'[i].rev # r,
         \A i \in DOMAIN fires' : fires'[i].rev \in DOMAIN sets', NoDoubleFire'
  PROVE  FireInv'
<1>1. \A r : Fresh(r) => Fresh(r)'
  BY TakeNextFresh
<1>2. \A f \in q : Owned(f.doc)'
  BY DEF Owned
<1>3. up'
  BY DEF processVars
<1>4. ScanInv(s)'
  BY <1>2, <1>3, TakeNextInv
<1> QED
  BY <1>1, <1>4, ScanStepInv

\* The scan goes on, or ends, and nothing was dispatched or stored.
LEMMA ScanGoesOnQuietly ==
  ASSUME TypeOK, FireInv, InHand', OneScanAtATime, NEW s \in Scans, NEW q \in {{}, queue[s]},
         TakeNext(s, q), up,
         UNCHANGED <<handlerVars, late, processVars, sets, docs, fires>>
  PROVE  FireInv'
<1>0. /\ \A k \in Ids : DocInv(k)
      /\ ScanInv(s) /\ NoDoubleFire
      /\ \A i \in DOMAIN fires : fires[i].rev \in DOMAIN sets
  BY DEF FireInv
<1>1. \A d : (Owned(d)' <=> Owned(d)) /\ (Accounted(d)' <=> Accounted(d))
  BY DEF Owned, Accounted
<1>2. \A k \in Ids : DocInv(k)'
  BY <1>0, <1>1 DEF DocInv
<1>3. \A f \in q : /\ Owned(f.doc) /\ Unfired(f)'
                   /\ \A g \in q : f.doc.rev = g.doc.rev => f = g
  BY <1>0 DEF ScanInv, Unfired
<1>4. \A r : Fresh(r) =>
        /\ \A k \in Ids : docs'[k] # NoDoc => docs'[k].rev # r
        /\ \A f \in q : f.doc.rev # r
        /\ \A i \in DOMAIN fires' : fires'[i].rev # r
  BY DEF Fresh
<1>5. NoDoubleFire'
  BY <1>0 DEF NoDoubleFire
<1> QED
  BY <1>0, <1>2, <1>3, <1>4, <1>5, ScanGoesOn

\* A dispatch adds one fire to the history, and the invariant says that nothing
\* of its revision was dispatched for this deadline or a later one.
LEMMA FireRecorded ==
  ASSUME TypeOK, FireInv, NEW s \in Scans, spc[s] = "dispatch",
         fires' = Append(fires, Fired(s)), UNCHANGED <<docs, sets>>
  PROVE  /\ \A r : r # cur[s].doc.rev /\ (\A i \in DOMAIN fires : fires[i].rev # r) =>
                     \A i \in DOMAIN fires' : fires'[i].rev # r
         /\ \A k \in Ids : DocInv(k)'
         /\ \A f \in queue[s] : Unfired(f)'
         /\ \A i \in DOMAIN fires' : fires'[i].rev \in DOMAIN sets'
         /\ NoDoubleFire'
<1>0. /\ \A k \in Ids : DocInv(k)
      /\ ScanInv(s) /\ NoDoubleFire /\ InHand
      /\ \A i \in DOMAIN fires : fires[i].rev \in DOMAIN sets
  BY DEF FireInv
<1>1. PICK n : n = Len(fires) + 1
  OBVIOUS
<1>2. PICK rev, due : rev = cur[s].doc.rev /\ due = cur[s].due
  OBVIOUS
<1>3. /\ DOMAIN fires' = DOMAIN fires \cup {n} /\ n \notin DOMAIN fires
      /\ \A i \in DOMAIN fires : fires'[i] = fires[i]
      /\ fires'[n] = Fired(s)
  <2>1. Len(fires) \in Nat /\ DOMAIN fires = 1..Len(fires)
    BY LenProperties DEF TypeOK
  <2> QED
    BY <1>1, <2>1, AppendProperties, LenProperties DEF TypeOK
<1>4. fires'[n].rev = rev /\ fires'[n].due = due
  BY <1>2, <1>3 DEF Fired
<1>5. /\ rev \in DOMAIN sets /\ due \in Nat
      /\ \A i \in DOMAIN fires : fires[i].rev = rev => fires[i].due < due
      /\ \A k \in Ids : docs[k] # NoDoc /\ docs[k].rev = rev => Covers(docs[k], due)
      /\ \A f \in queue[s] : f.doc.rev # rev
  <2>1. Holds(s)
    BY DEF Holds
  <2> QED
    BY <1>0, <1>2, <2>1, HeldFire DEF ScanInv, Owned, Unfired
<1>6. \A r : r # rev /\ (\A i \in DOMAIN fires : fires[i].rev # r) =>
               \A i \in DOMAIN fires' : fires'[i].rev # r
  BY <1>3, <1>4
<1>7. ASSUME NEW k \in Ids PROVE DocInv(k)'
  <2>1. PICK d : d = docs[k] /\ d = docs'[k]
    OBVIOUS
  <2>2. d # NoDoc => d.id = k /\ Owned(d) /\ Accounted(d)
    BY <1>0, <2>1 DEF DocInv
  <2>3. d # NoDoc => Accounted(d)'
    BY <1>3, <1>4, <1>5, <2>1, <2>2 DEF Accounted
  <2>4. Owned(d) => Owned(d)'
    BY DEF Owned
  <2> QED
    BY <2>1, <2>2, <2>3, <2>4 DEF DocInv
<1>8. \A f \in queue[s] : Unfired(f)'
  <2>1. ASSUME NEW f \in queue[s] PROVE Unfired(f)'
    <3>1. Unfired(f) /\ f.doc.rev # rev
      BY <1>0, <1>5 DEF ScanInv
    <3> QED
      BY <1>3, <1>4, <3>1 DEF Unfired
  <2> QED
    BY <2>1
<1>9. \A i \in DOMAIN fires' : fires'[i].rev \in DOMAIN sets'
  BY <1>0, <1>3, <1>4, <1>5
<1>10. NoDoubleFire'
  <2>1. \A i \in DOMAIN fires : fires[i].due \in Nat
    BY FiresFacts DEF TypeOK, FiredType
  <2> QED
    BY <1>0, <1>3, <1>4, <1>5, <2>1 DEF NoDoubleFire
<1> QED
  BY <1>2, <1>6, <1>7, <1>8, <1>9, <1>10

\* The steps of the scan.
LEMMA ScanInvStep ==
  ASSUME TypeOK, FireInv, InHand', OneScanAtATime, MarksStick, NEW s \in Scans,
         StartScan(s) \/ ScanStep(s) \/ ScanFault(s)
  PROVE  FireInv'
<1>0. /\ \A k \in Ids : DocInv(k)
      /\ ScanInv(s) /\ InHand /\ NoDoubleFire
      /\ \A i \in DOMAIN fires : fires[i].rev \in DOMAIN sets
  BY DEF FireInv
<1>2. ASSUME UNCHANGED <<docs, late, handlerVars, processVars, sets, fires, queue>>, up,
             \A r : Fresh(r) => Fresh(r)', ScanInv(s)'
      PROVE  FireInv'
  <2>1. \A k \in Ids : DocInv(k)'
    BY <1>0, <1>2 DEF DocInv, Owned, Accounted
  <2>2. NoDoubleFire'
    BY <1>0, <1>2 DEF NoDoubleFire
  <2> QED
    BY <1>0, <1>2, <2>1, <2>2, ScanStepInv
<1>3. CASE StartScan(s)
  <2>1. /\ up /\ spc[s] = "idle" /\ spc' = [spc EXCEPT ![s] = "db_keys"]
        /\ UNCHANGED <<docs, late, handlerVars, processVars, sets, fires, queue, cur>>
    BY <1>3 DEF StartScan
  <2>2. spc'[s] = "db_keys" /\ \A u \in Scans \ {s} : spc'[u] = spc[u]
    BY <2>1 DEF TypeOK
  <2>3. \A r : Fresh(r) => Fresh(r)'
    BY <2>1, <2>2 DEF Fresh
  <2>4. ScanInv(s)'
    BY <1>0, <2>1, <2>2 DEF ScanInv, Holds, processVars
  <2> QED
    BY <1>2, <2>1, <2>3, <2>4
<1>4. CASE ListKeys(s)
  <2>1. up /\ UNCHANGED <<docs, late, handlerVars, processVars, sets, fires>>
    BY <1>0, <1>4 DEF ListKeys, ScanInv
  <2>2. CASE TakeNext(s, {})
    BY <2>1, <2>2, ScanGoesOnQuietly
  <2>3. CASE spc' = [spc EXCEPT ![s] = "db_batch_get"] /\ UNCHANGED <<queue, cur>>
    <3>1. spc'[s] = "db_batch_get" /\ \A u \in Scans \ {s} : spc'[u] = spc[u]
      BY <2>3 DEF TypeOK
    <3>2. \A r : Fresh(r) => Fresh(r)'
      BY <2>1, <2>3, <3>1 DEF Fresh
    <3>3. queue[s] = {}
      BY <1>0, <1>4 DEF ListKeys, ScanInv, Holds
    <3>4. ScanInv(s)'
      BY <2>1, <2>3, <3>1, <3>3 DEF ScanInv, Holds, processVars
    <3> QED
      BY <1>2, <2>1, <2>3, <3>2, <3>4
  <2> QED
    BY <1>4, <2>2, <2>3 DEF ListKeys
<1>5. CASE ReadDocs(s)
  <2>1. PICK q : q = DueFires(skeys[s], snow[s])
    OBVIOUS
  <2>2. /\ up /\ TakeNext(s, q)
        /\ UNCHANGED <<docs, late, handlerVars, processVars, sets, fires>>
    BY <1>0, <1>5, <2>1 DEF ReadDocs, ScanInv
  <2>3. ASSUME NEW f \in q
        PROVE  /\ Owned(f.doc) /\ Unfired(f)
               /\ \E k \in Ids : docs[k] # NoDoc /\ docs[k] = f.doc
               /\ \A g \in q : f.doc.rev = g.doc.rev => f = g
    <3>1. skeys[s] \in SUBSET Ids /\ snow[s] \in Nat
      BY DEF TypeOK
    <3> QED
      BY <1>0, <2>1, <3>1, DueFiresInv
  <2>4. \A f \in q : Unfired(f)'
    BY <2>2, <2>3 DEF Unfired
  <2>5. \A k \in Ids : DocInv(k)'
    BY <1>0, <2>2 DEF DocInv, Owned, Accounted
  <2>6. \A r : Fresh(r) =>
          /\ \A k \in Ids : docs'[k] # NoDoc => docs'[k].rev # r
          /\ \A f \in q : f.doc.rev # r
          /\ \A i \in DOMAIN fires' : fires'[i].rev # r
    BY <2>2, <2>3 DEF Fresh
  <2>7. NoDoubleFire'
    BY <1>0, <2>2 DEF NoDoubleFire
  <2> QED
    BY <1>0, <2>2, <2>3, <2>4, <2>5, <2>6, <2>7, ScanGoesOn
<1>6. CASE ListFails(s) \/ TruncatePanics(s)
  <2>1. CASE ListFails(s)
    BY <1>0, <2>1, ScanGoesOnQuietly DEF ListFails, ScanInv
  <2>2. CASE TruncatePanics(s)
    BY <1>0, <2>2, ScanGoesOnQuietly DEF TruncatePanics, ScanInv
  <2> QED
    BY <1>6, <2>1, <2>2
<1>7. CASE MarkFired(s)
  <2>1. PICK f, d : f = cur[s] /\ d = Marked(f)
    OBVIOUS
  <2>2. /\ spc[s] = "mark" /\ docs' = [docs EXCEPT ![d.id] = d] /\ up
        /\ cur' = [cur EXCEPT ![s].doc = d]
        /\ spc' = [spc EXCEPT ![s] = "dispatch"]
        /\ UNCHANGED <<late, handlerVars, processVars, sets, fires, queue>>
    BY <1>0, <1>7, <2>1 DEF MarkFired, ScanInv
  <2>3. Holds(s)
    BY <2>2 DEF Holds
  <2>4. f \in FireType /\ d \in DocType /\ Owned(f.doc) /\ Unfired(f)
    BY <1>0, <2>1, <2>2, <2>3, HeldFire DEF ScanInv
  <2>5. /\ d.id = f.doc.id /\ d.rev = f.doc.rev /\ d.id \in Ids
        /\ Accounted(d) /\ Covers(d, f.due)
    BY <2>1, <2>4, MarkedFacts, MarkAccounts DEF TypeOK, FiredType, DocType
  <2>6. Owned(d)
    BY <2>4, <2>5 DEF Owned
  <2>7. docs'[d.id] = d /\ \A k \in Ids \ {d.id} : docs'[k] = docs[k]
    BY <2>2, <2>5 DEF TypeOK
  <2>8. cur'[s].doc = d /\ cur'[s].due = f.due
    <3>1. cur' = [cur EXCEPT ![s] = [f EXCEPT !.doc = d]]
      BY <2>1, <2>2
    <3>2. [f EXCEPT !.doc = d].doc = d /\ [f EXCEPT !.doc = d].due = f.due
      BY <2>4 DEF FireType
    <3> QED
      BY <3>1, <3>2 DEF TypeOK
  <2>9. spc'[s] = "dispatch" /\ \A u \in Scans : u = s
    BY <2>2 DEF TypeOK, OneScanAtATime
  <2>10. ASSUME NEW r, Fresh(r) PROVE Fresh(r)'
    <3>1. d.rev # r
      BY <2>1, <2>2, <2>5, <2>10 DEF Fresh
    <3> QED
      BY <2>2, <2>7, <2>8, <2>9, <2>10, <3>1 DEF Fresh
  <2>11. \A e : (Owned(e)' <=> Owned(e)) /\ (Accounted(e)' <=> Accounted(e))
    BY <2>2 DEF Owned, Accounted
  <2>12. ASSUME NEW k \in Ids PROVE DocInv(k)'
    <3>1. CASE k = d.id
      BY <2>5, <2>6, <2>7, <2>11, <3>1 DEF DocInv
    <3>2. CASE k # d.id
      <4>1. docs'[k] = docs[k] /\ DocInv(k)
        BY <1>0, <2>7, <3>2
      <4> QED
        BY <2>11, <4>1 DEF DocInv
    <3> QED
      BY <3>1, <3>2
  <2>13. ScanInv(s)'
    <3>1. Owned(cur[s].doc)' /\ Unfired(cur[s])'
      <4>1. Owned(d)'
        BY <2>6, <2>11
      <4>2. PICK e : e = cur'[s]
        OBVIOUS
      <4>3. e.doc.rev = f.doc.rev /\ e.due = f.due
        BY <2>5, <2>8, <4>2
      <4>4. Unfired(e)'
        BY <2>2, <2>4, <4>3 DEF Unfired
      <4> QED
        BY <2>8, <4>1, <4>2, <4>4
    <3>2. Covers(cur'[s].doc, cur'[s].due)
      BY <2>5, <2>8
    <3>3. \A k \in Ids : docs'[k] # NoDoc /\ docs'[k].rev = cur'[s].doc.rev =>
            Covers(docs'[k], cur'[s].due)
      <4>1. ASSUME NEW k \in Ids, docs'[k] # NoDoc, docs'[k].rev = d.rev
            PROVE  docs'[k] = d
        <5>1. CASE k = d.id
          BY <2>7, <5>1
        <5>2. CASE k # d.id
          BY <1>0, <2>6, <2>7, <4>1, <5>2 DEF DocInv, Owned
        <5> QED
          BY <5>1, <5>2
      <4> QED
        BY <2>5, <2>8, <4>1
    <3>4. ASSUME NEW g \in queue'[s]
          PROVE  /\ Owned(g.doc)' /\ Unfired(g)'
                 /\ \A e \in queue'[s] : g.doc.rev = e.doc.rev => g = e
                 /\ g.doc.rev # cur'[s].doc.rev
      <4>1. /\ g \in queue[s] /\ Owned(g.doc) /\ Unfired(g)
            /\ \A e \in queue[s] : g.doc.rev = e.doc.rev => g = e
            /\ g.doc.rev # f.doc.rev
        BY <1>0, <2>1, <2>2, <3>4 DEF ScanInv
      <4> QED
        BY <2>2, <2>5, <2>8, <2>11, <4>1 DEF Unfired
    <3>5. up' /\ Holds(s)'
      BY <2>2, <2>9 DEF Holds, processVars
    <3> QED
      BY <2>9, <3>1, <3>2, <3>3, <3>4, <3>5 DEF ScanInv, Covers
  <2>14. NoDoubleFire'
    BY <1>0, <2>2 DEF NoDoubleFire
  <2> QED
    BY <1>0, <2>2, <2>10, <2>12, <2>13, <2>14, ScanStepInv
<1>8. CASE Dispatch(s)
  <2>1. /\ spc[s] = "dispatch" /\ fires' = Append(fires, Fired(s)) /\ up
        /\ TakeNext(s, queue[s])
        /\ UNCHANGED <<docs, late, handlerVars, processVars, sets>>
    BY <1>0, <1>8 DEF Dispatch, ScanInv
  <2>2. /\ \A k \in Ids : DocInv(k)'
        /\ \A f \in queue[s] : Unfired(f)'
        /\ \A i \in DOMAIN fires' : fires'[i].rev \in DOMAIN sets'
        /\ NoDoubleFire'
    BY <2>1, FireRecorded
  <2>3. \A f \in queue[s] :
          Owned(f.doc) /\ \A g \in queue[s] : f.doc.rev = g.doc.rev => f = g
    BY <1>0 DEF ScanInv
  <2>4. \A r : Fresh(r) =>
          /\ \A k \in Ids : docs'[k] # NoDoc => docs'[k].rev # r
          /\ \A f \in queue[s] : f.doc.rev # r
          /\ \A i \in DOMAIN fires' : fires'[i].rev # r
    BY <2>1, FireRecorded DEF Fresh
  <2> QED
    BY <2>1, <2>2, <2>3, <2>4, ScanGoesOn
<1>9. CASE DispatchFails(s)
  <2>1. /\ spc[s] = "dispatch" /\ fires' = Append(fires, Fired(s)) /\ up
        /\ spc' = [spc EXCEPT ![s] = "errget"]
        /\ UNCHANGED <<docs, late, handlerVars, processVars, sets, queue, cur>>
    BY <1>0, <1>9 DEF DispatchFails, ScanInv
  <2>2. /\ \A k \in Ids : DocInv(k)'
        /\ \A f \in queue[s] : Unfired(f)'
        /\ \A i \in DOMAIN fires' : fires'[i].rev \in DOMAIN sets'
        /\ NoDoubleFire'
    BY <2>1, FireRecorded
  <2>3. spc'[s] = "errget" /\ \A u \in Scans : u = s
    BY <2>1 DEF TypeOK, OneScanAtATime
  <2>4. \A r : Fresh(r) => Fresh(r)'
    BY <2>1, <2>3, FireRecorded DEF Fresh
  <2>5. ScanInv(s)'
    BY <1>0, <2>1, <2>2, <2>3 DEF ScanInv, Holds, Owned, processVars
  <2> QED
    BY <2>1, <2>2, <2>4, <2>5, ScanStepInv
<1>10. CASE ReadForError(s)
  <2>1. PICK d : d = docs[cur[s].doc.id]
    OBVIOUS
  <2>2. /\ spc[s] = "errget" /\ up
        /\ UNCHANGED <<docs, late, handlerVars, processVars, sets, fires>>
    BY <1>0, <1>10 DEF ReadForError, ScanInv
  <2>3. CASE d = NoDoc
    BY <1>10, <2>1, <2>2, <2>3, ScanGoesOnQuietly DEF ReadForError
  <2>4. CASE d # NoDoc
    <3>1. PICK e : e = [d EXCEPT !.err = TRUE]
      OBVIOUS
    <3>2. /\ cur' = [cur EXCEPT ![s].doc = e]
          /\ spc' = [spc EXCEPT ![s] = "errput"] /\ UNCHANGED queue
      BY <1>10, <2>1, <2>4, <3>1 DEF ReadForError
    <3>3. cur[s].doc.id \in Ids /\ cur[s] \in FireType
      BY <1>0, <2>2, HeldFire DEF Holds
    <3>4. d \in DocType /\ Owned(d) /\ Accounted(d)
      BY <1>0, <2>1, <2>4, <3>3 DEF DocInv, TypeOK
    <3>5. /\ e.id = d.id /\ e.rev = d.rev /\ e.last = d.last /\ e.cfg = d.cfg
          /\ e.firedOnce = d.firedOnce
      BY <3>1, <3>4 DEF DocType
    <3>6. Owned(e) /\ Accounted(e)
      BY <3>4, <3>5 DEF Owned, Accounted, Covers
    <3>7. cur'[s].doc = e
      <4>1. cur' = [cur EXCEPT ![s] = [cur[s] EXCEPT !.doc = e]]
        BY <3>2
      <4>2. [cur[s] EXCEPT !.doc = e].doc = e
        BY <3>3 DEF FireType
      <4> QED
        BY <4>1, <4>2 DEF TypeOK
    <3>8. spc'[s] = "errput" /\ \A u \in Scans : u = s
      BY <3>2 DEF TypeOK, OneScanAtATime
    <3>9. ASSUME NEW r, Fresh(r) PROVE Fresh(r)'
      <4>1. e.rev # r
        BY <2>1, <2>4, <3>3, <3>5, <3>9 DEF Fresh
      <4> QED
        BY <2>2, <3>2, <3>7, <3>8, <3>9, <4>1 DEF Fresh
    <3>10. Owned(e)' /\ Accounted(e)'
      BY <2>2, <3>6 DEF Owned, Accounted
    <3>11. ScanInv(s)'
      BY <1>0, <2>2, <3>2, <3>7, <3>8, <3>10 DEF ScanInv, Holds, Owned, Unfired, processVars
    <3> QED
      BY <1>2, <2>2, <3>2, <3>9, <3>11
  <2> QED
    BY <2>3, <2>4
<1>11. CASE RecordError(s)
  <2>1. PICK d : d = cur[s].doc
    OBVIOUS
  <2>2. /\ spc[s] = "errput" /\ up /\ docs' = [docs EXCEPT ![d.id] = d]
        /\ TakeNext(s, queue[s])
        /\ UNCHANGED <<late, handlerVars, processVars, sets, fires>>
    BY <1>0, <1>11, <2>1 DEF RecordError, ScanInv
  <2>3. d.id \in Ids /\ Owned(d) /\ Accounted(d)
    BY <1>0, <2>1, <2>2, HeldFire DEF Holds, ScanInv
  <2>4. docs'[d.id] = d /\ \A k \in Ids \ {d.id} : docs'[k] = docs[k]
    BY <2>2, <2>3 DEF TypeOK
  <2>5. \A e : (Owned(e)' <=> Owned(e)) /\ (Accounted(e)' <=> Accounted(e))
    BY <2>2 DEF Owned, Accounted
  <2>6. ASSUME NEW k \in Ids PROVE DocInv(k)'
    <3>1. CASE k = d.id
      BY <2>3, <2>4, <2>5, <3>1 DEF DocInv
    <3>2. CASE k # d.id
      <4>1. docs'[k] = docs[k] /\ DocInv(k)
        BY <1>0, <2>4, <3>2
      <4> QED
        BY <2>5, <4>1 DEF DocInv
    <3> QED
      BY <3>1, <3>2
  <2>7. \A f \in queue[s] :
          /\ Owned(f.doc) /\ Unfired(f)'
          /\ \A g \in queue[s] : f.doc.rev = g.doc.rev => f = g
    BY <1>0, <2>2 DEF ScanInv, Unfired
  <2>8. \A r : Fresh(r) =>
          /\ \A k \in Ids : docs'[k] # NoDoc => docs'[k].rev # r
          /\ \A f \in queue[s] : f.doc.rev # r
          /\ \A i \in DOMAIN fires' : fires'[i].rev # r
    BY <2>1, <2>2, <2>4 DEF Fresh
  <2>9. NoDoubleFire'
    BY <1>0, <2>2 DEF NoDoubleFire
  <2> QED
    BY <1>0, <2>2, <2>6, <2>7, <2>8, <2>9, ScanGoesOn
<1>12. CASE RecordErrorFails(s)
  <2>1. spc[s] = "errget" /\ UNCHANGED late
    BY <1>12 DEF RecordErrorFails, Fault, MarksStick
  <2> QED
    BY <1>0, <1>12, <2>1, ScanGoesOnQuietly DEF RecordErrorFails, ScanInv
<1>13. CASE MarkFails(s)
  BY <1>13 DEF MarkFails, Fault, MarksStick
<1> QED
  BY <1>3, <1>4, <1>5, <1>6, <1>7, <1>8, <1>9, <1>10, <1>11, <1>12, <1>13
  DEF ScanStep, ScanFault

\* A write whose caller has given up stores nothing that a scan could know.
LEMMA LateWriteInv ==
  ASSUME TypeOK, FireInv, InHand', NEW w \in late, LateWrite(w)
  PROVE  FireInv'
<1>0. /\ \A k \in Ids : DocInv(k)
      /\ \A h \in Handlers : HandlerInv(h)
      /\ \A x \in late : LateInv(x)
      /\ \A s \in Scans : ScanInv(s)
      /\ \A i \in DOMAIN fires : fires[i].rev \in DOMAIN sets
      /\ InHand /\ NoDoubleFire
  BY DEF FireInv
<1>1. PICK id, d : id = w.id /\ d = w.doc
  OBVIOUS
<1>2. /\ late' = late \ {w} /\ docs' \in {docs, [docs EXCEPT ![id] = d]}
      /\ UNCHANGED <<handlerVars, scanVars, processVars, sets, fires>>
  BY <1>1 DEF LateWrite
<1>3. id \in Ids /\ (d # NoDoc => d.id = id /\ Owned(d) /\ Accounted(d))
  BY <1>0, <1>1 DEF LateInv, TypeOK
<1>4. \A k \in Ids : docs'[k] = docs[k] \/ (k = id /\ docs'[k] = d)
  BY <1>2, <1>3 DEF TypeOK
<1>5. \A e : (Owned(e)' <=> Owned(e)) /\ (Accounted(e)' <=> Accounted(e))
  BY <1>2 DEF Owned, Accounted
<1>6. \A r : Fresh(r) /\ (d # NoDoc => d.rev # r) => Fresh(r)'
  BY <1>2, <1>4 DEF Fresh, scanVars, workVars
<1>7. up /\ d # NoDoc =>
        /\ Fresh(d.rev)
        /\ \A h \in Handlers : Setting(h) => hreq[h].rev # d.rev
        /\ \A x \in late \ {w} : x.doc # NoDoc => x.doc.rev # d.rev
  BY <1>0, <1>1 DEF LateInv
<1>8. \A h \in Handlers : Setting(h)' <=> Setting(h)
  BY <1>2 DEF Setting, handlerVars
<1>9. ASSUME NEW k \in Ids PROVE DocInv(k)'
  BY <1>0, <1>3, <1>4, <1>5 DEF DocInv
<1>10. ASSUME NEW h \in Handlers PROVE HandlerInv(h)'
  <2>1. PICK r : r = hreq[h].rev /\ r = hreq'[h].rev
    BY <1>2 DEF handlerVars
  <2>2. HandlerInv(h)
    BY <1>0
  <2>3. Setting(h) => up
    BY <2>2 DEF HandlerInv, Setting
  <2>4. Setting(h) => Fresh(r)'
    BY <1>6, <1>7, <2>1, <2>2, <2>3 DEF HandlerInv
  <2> QED
    BY <1>2, <1>5, <1>8, <2>1, <2>2, <2>4 DEF HandlerInv, handlerVars, processVars
<1>11. ASSUME NEW x \in late' PROVE LateInv(x)'
  <2>1. x \in late /\ x # w /\ LateInv(x)
    BY <1>0, <1>2
  <2>2. up /\ x.doc # NoDoc => Fresh(x.doc.rev)'
    BY <1>6, <1>7, <2>1 DEF LateInv
  <2> QED
    BY <1>2, <1>5, <1>8, <2>1, <2>2 DEF LateInv, handlerVars, processVars
<1>12. ASSUME NEW s \in Scans PROVE ScanInv(s)'
  <2>1. ScanInv(s)
    BY <1>0
  <2>2. spc[s] = "dispatch" =>
          \A k \in Ids : docs'[k] # NoDoc /\ docs'[k].rev = cur[s].doc.rev =>
            docs'[k] = docs[k]
    BY <1>4, <1>7, <2>1 DEF ScanInv, Fresh
  <2> QED
    BY <1>2, <1>5, <2>1, <2>2 DEF ScanInv, Holds, Unfired, scanVars, workVars, processVars
<1>13. NoDoubleFire' /\ \A i \in DOMAIN fires' : fires'[i].rev \in DOMAIN sets'
  BY <1>0, <1>2 DEF NoDoubleFire
<1> QED
  BY <1>9, <1>10, <1>11, <1>12, <1>13 DEF FireInv

\* What a dying process had asked for is accounted for, whenever it is stored.
LEMMA CrashInv ==
  ASSUME TypeOK, FireInv, InHand', Crash
  PROVE  FireInv'
<1>0. /\ \A k \in Ids : DocInv(k)
      /\ \A h \in Handlers : HandlerInv(h)
      /\ \A x \in late : LateInv(x)
      /\ \A s \in Scans : ScanInv(s)
      /\ \A i \in DOMAIN fires : fires[i].rev \in DOMAIN sets
      /\ InHand /\ NoDoubleFire
  BY DEF FireInv
<1>1. /\ ~up' /\ late' = late \cup InFlightWrites /\ Idle
      /\ UNCHANGED <<docs, sets, fires>>
  BY DEF Crash
<1>2. \A e : (Owned(e)' <=> Owned(e)) /\ (Accounted(e)' <=> Accounted(e))
  BY <1>1 DEF Owned, Accounted
<1>3. \A k \in Ids : DocInv(k)'
  BY <1>0, <1>1, <1>2 DEF DocInv
<1>4. \A h \in Handlers : HandlerInv(h)'
  BY <1>1 DEF Idle, HandlerInv, Setting
<1>5. \A s \in Scans : ScanInv(s)'
  BY <1>1 DEF Idle, ScanInv, Holds
<1>6. ASSUME NEW x \in late', x.doc # NoDoc
      PROVE  x.doc.id = x.id /\ Owned(x.doc) /\ Accounted(x.doc)
  <2>1. CASE x \in late
    BY <1>0, <1>6, <2>1 DEF LateInv
  <2>2. ASSUME NEW h \in Handlers, hpc[h] = "db_set", x = Write(hdoc[h].id, hdoc[h])
        PROVE  x.doc.id = x.id /\ Owned(x.doc) /\ Accounted(x.doc)
    <3>1. x.doc = hdoc[h] /\ x.id = hdoc[h].id
      BY <2>2 DEF Write
    <3>2. Owned(hdoc[h]) /\ Fresh(hdoc[h].rev)
      BY <1>0, <2>2 DEF HandlerInv, Setting
    <3> QED
      BY <3>1, <3>2 DEF Fresh, Accounted
  <2>3. ASSUME NEW h \in Handlers, x = Write(hreq[h].id, NoDoc)
        PROVE  FALSE
    BY <1>6, <2>3 DEF Write
  <2>4. ASSUME NEW s \in Scans, spc[s] = "mark",
               x = Write(cur[s].doc.id, Marked(cur[s]))
        PROVE  x.doc.id = x.id /\ Owned(x.doc) /\ Accounted(x.doc)
    <3>1. x.doc = Marked(cur[s]) /\ x.id = cur[s].doc.id
      BY <2>4 DEF Write
    <3>2. cur[s] \in FireType /\ Owned(cur[s].doc) /\ Unfired(cur[s])
      BY <1>0, <2>4, HeldFire DEF Holds, ScanInv
    <3>3. Accounted(Marked(cur[s]))
      BY <3>2, MarkAccounts DEF TypeOK, FiredType
    <3>4. Marked(cur[s]).id = cur[s].doc.id /\ Marked(cur[s]).rev = cur[s].doc.rev
      BY <3>2, MarkedFacts
    <3> QED
      BY <3>1, <3>2, <3>3, <3>4 DEF Owned
  <2>5. ASSUME NEW s \in Scans, spc[s] = "errput", x = Write(cur[s].doc.id, cur[s].doc)
        PROVE  x.doc.id = x.id /\ Owned(x.doc) /\ Accounted(x.doc)
    BY <1>0, <2>5 DEF Write, ScanInv
  <2> QED
    BY <1>1, <2>1, <2>2, <2>3, <2>4, <2>5 DEF InFlightWrites
<1>7. \A x \in late' : LateInv(x)'
  BY <1>1, <1>2, <1>6 DEF LateInv
<1>8. NoDoubleFire' /\ \A i \in DOMAIN fires' : fires'[i].rev \in DOMAIN sets'
  BY <1>0, <1>1 DEF NoDoubleFire
<1> QED
  BY <1>3, <1>4, <1>5, <1>7, <1>8 DEF FireInv

\* The clock, the restart and stuttering leave everything the invariant speaks of.
LEMMA QuietInv ==
  ASSUME TypeOK, FireInv, InHand', Restart \/ Tick \/ UNCHANGED vars
  PROVE  FireInv'
<1>0. /\ \A k \in Ids : DocInv(k)
      /\ \A h \in Handlers : HandlerInv(h)
      /\ \A x \in late : LateInv(x)
      /\ \A s \in Scans : ScanInv(s)
      /\ \A i \in DOMAIN fires : fires[i].rev \in DOMAIN sets
      /\ InHand /\ NoDoubleFire
  BY DEF FireInv
<1>1. UNCHANGED <<docs, late, handlerVars, scanVars, sets, fires>>
  BY DEF Restart, Tick, vars
<1>2. up' = up \/ (up' /\ late = {})
  BY DEF Restart, Tick, vars, processVars
<1>3. \A e : (Owned(e)' <=> Owned(e)) /\ (Accounted(e)' <=> Accounted(e))
  BY <1>1 DEF Owned, Accounted
<1>4. \A r : Fresh(r)' <=> Fresh(r)
  BY <1>1 DEF Fresh, scanVars, workVars
<1>5. \A h \in Handlers : Setting(h)' <=> Setting(h)
  BY <1>1 DEF Setting, handlerVars
<1>6. \A k \in Ids : DocInv(k)'
  BY <1>0, <1>1, <1>3 DEF DocInv
<1>7. ASSUME NEW h \in Handlers PROVE HandlerInv(h)'
  <2>1. HandlerInv(h)
    BY <1>0
  <2> QED
    BY <1>1, <1>2, <1>3, <1>4, <1>5, <2>1 DEF HandlerInv, handlerVars
<1>8. ASSUME NEW x \in late' PROVE LateInv(x)'
  <2>1. LateInv(x) /\ up' = up
    BY <1>0, <1>1, <1>2
  <2> QED
    BY <1>1, <1>3, <1>4, <1>5, <2>1 DEF LateInv, handlerVars
<1>9. ASSUME NEW s \in Scans PROVE ScanInv(s)'
  <2>1. ScanInv(s)
    BY <1>0
  <2> QED
    BY <1>1, <1>2, <1>3, <2>1 DEF ScanInv, Holds, Unfired, scanVars, workVars
<1>10. NoDoubleFire' /\ \A i \in DOMAIN fires' : fires'[i].rev \in DOMAIN sets'
  BY <1>0, <1>1 DEF NoDoubleFire
<1> QED
  BY <1>6, <1>7, <1>8, <1>9, <1>10 DEF FireInv

LEMMA FireInvHolds ==
  ASSUME OneScanAtATime, MarksStick
  PROVE  Spec => [](TypeOK /\ InHand /\ FireInv)
<1> DEFINE IInv == TypeOK /\ InHand /\ FireInv
<1>1. Init => IInv
  BY TypeInit, FireInit
<1>2. IInv /\ [Next]_vars => IInv'
  <2> SUFFICES ASSUME IInv, [Next]_vars PROVE IInv'
    OBVIOUS
  <2>1. TypeOK' /\ InHand'
    BY TypeStep
  <2>2. ASSUME NEW h \in Handlers,
               \/ \E id \in Ids \cup {0}, cfg \in Configs : AcceptSet(h, id, cfg)
               \/ \E id \in Ids : AcceptDelete(h, id)
               \/ HandlerStep(h) \/ HandlerFails(h)
        PROVE  FireInv'
    <3>1. UNCHANGED <<workVars, fires, up>>
      BY <2>2 DEF AcceptSet, AcceptDelete, HandlerStep, SetReadsExisting, SetTakesNextId,
         SetStores, DeleteStores, HandlerFails, processVars, scanVars
    <3> QED
      BY <2>1, <2>2, <3>1, HandlerStepInv
  <2>3. ASSUME NEW s \in Scans, StartScan(s) \/ ScanStep(s) \/ ScanFault(s)
        PROVE  FireInv'
    BY <2>1, <2>3, ScanInvStep
  <2>4. ASSUME NEW w \in late, LateWrite(w) PROVE FireInv'
    BY <2>1, <2>4, LateWriteInv
  <2>5. CASE Crash
    BY <2>1, <2>5, CrashInv
  <2>6. CASE Restart \/ Tick \/ UNCHANGED vars
    BY <2>1, <2>6, QuietInv
  <2>7. FireInv'
    BY <2>2, <2>3, <2>4, <2>5, <2>6 DEF Next
  <2> QED
    BY <2>1, <2>7
<1> QED
  BY <1>1, <1>2, PTL DEF Spec

\* The at-most-once guarantee of the README: as long as scans do not overlap and
\* the scan's own writes succeed, no occurrence of a schedule is dispatched twice,
\* whatever the handlers, failing reads, late writes and crashes do.
THEOREM FiredOnce ==
  ASSUME OneScanAtATime, MarksStick
  PROVE  Spec => []NoDoubleFire
<1>1. FireInv => NoDoubleFire
  BY DEF FireInv
<1> QED
  BY <1>1, FireInvHolds, PTL

-----------------------------------------------------------------------------
(* The counters of a document cover what was dispatched *)

\* fire_count counts every dispatch of the revision, or one more than those.
Counted(d) == Cardinality(FiresOf(d.rev)) <= d.count
CountedAhead(d) == Cardinality(FiresOf(d.rev)) + 1 <= d.count

\* A fire that is marked is counted before it is dispatched.
CountInv ==
  /\ \A k \in Ids : docs[k] # NoDoc => Counted(docs[k])
  /\ \A w \in late : w.doc # NoDoc => Counted(w.doc)
  /\ \A s \in Scans :
       /\ \A f \in queue[s] : Counted(f.doc)
       /\ spc[s] \in {"mark", "errput"} => Counted(cur[s].doc)
       /\ spc[s] = "dispatch" =>
            /\ CountedAhead(cur[s].doc)
            /\ \A k \in Ids :
                 docs[k] # NoDoc /\ docs[k].rev = cur[s].doc.rev => CountedAhead(docs[k])

LEMMA CountFacts ==
  ASSUME TypeOK, NEW r
  PROVE  /\ FiresOf(r) \subseteq DOMAIN fires /\ IsFiniteSet(FiresOf(r))
         /\ Cardinality(FiresOf(r)) \in Nat
         /\ (\A i \in DOMAIN fires : fires[i].rev # r) => Cardinality(FiresOf(r)) = 0
<1>1. Len(fires) \in Nat /\ DOMAIN fires = 1..Len(fires)
  BY LenProperties DEF TypeOK
<1>2. FiresOf(r) \subseteq 1..Len(fires)
  BY <1>1 DEF FiresOf
<1>3. IsFiniteSet(1..Len(fires))
  BY <1>1, FS_Interval
<1>4. IsFiniteSet(FiresOf(r))
  BY <1>2, <1>3, FS_Subset
<1>5. (\A i \in DOMAIN fires : fires[i].rev # r) => FiresOf(r) = {}
  BY DEF FiresOf
<1> QED
  BY <1>1, <1>2, <1>4, <1>5, FS_CardinalityType, FS_EmptySet

\* A document that no fire names is counted.
LEMMA FreshIsCounted ==
  ASSUME TypeOK, NEW d, d.count \in Nat, Fresh(d.rev)
  PROVE  Counted(d)
  BY CountFacts DEF Fresh, Counted

\* A dispatch counts for its revision and for no other.
LEMMA CountOneMore ==
  ASSUME TypeOK, NEW s \in Scans, fires' = Append(fires, Fired(s)),
         NEW d, d.count \in Nat,
         Counted(d), d.rev = cur[s].doc.rev => CountedAhead(d)
  PROVE  Counted(d)'
<1> DEFINE n == Len(fires) + 1
           e == Fired(s)
<1>1. Len(fires) \in Nat /\ DOMAIN fires = 1..Len(fires)
  BY LenProperties DEF TypeOK
<1>2. e.rev = cur[s].doc.rev
  BY DEF Fired
<1> HIDE DEF e
<1>3. /\ DOMAIN fires' = DOMAIN fires \cup {n} /\ n \notin DOMAIN fires
      /\ \A i \in DOMAIN fires : fires'[i] = fires[i]
      /\ fires'[n] = e
  BY <1>1, AppendProperties, LenProperties DEF TypeOK, e
<1>4. IsFiniteSet(FiresOf(d.rev)) /\ Cardinality(FiresOf(d.rev)) \in Nat
      /\ n \notin FiresOf(d.rev)
  BY <1>3, CountFacts DEF FiresOf
<1> HIDE DEF n
<1>5. CASE d.rev = cur[s].doc.rev
  <2>1. FiresOf(d.rev)' = FiresOf(d.rev) \cup {n}
    BY <1>2, <1>3, <1>5 DEF FiresOf
  <2>2. Cardinality(FiresOf(d.rev))' = Cardinality(FiresOf(d.rev)) + 1
    BY <1>4, <2>1, FS_AddElement
  <2> QED
    BY <1>5, <2>2 DEF Counted, CountedAhead
<1>6. CASE d.rev # cur[s].doc.rev
  <2>1. FiresOf(d.rev)' = FiresOf(d.rev)
    BY <1>2, <1>3, <1>6 DEF FiresOf
  <2> QED
    BY <2>1 DEF Counted
<1> QED
  BY <1>5, <1>6

LEMMA SameFires ==
  ASSUME UNCHANGED fires
  PROVE  \A d : (Counted(d)' <=> Counted(d)) /\ (CountedAhead(d)' <=> CountedAhead(d))
<1>1. \A r : FiresOf(r)' = FiresOf(r)
  BY DEF FiresOf
<1> QED
  BY <1>1 DEF Counted, CountedAhead

\* Handlers, late writes and the clock: what they store is counted, and not of
\* the revision that a scan is about to dispatch.
LEMMA CountFrame ==
  ASSUME CountInv, UNCHANGED <<fires, spc, queue, cur>>,
         \A k \in Ids : docs'[k] # NoDoc =>
           \/ docs'[k] = docs[k]
           \/ /\ Counted(docs'[k])
              /\ \A s \in Scans : spc[s] = "dispatch" => docs'[k].rev # cur[s].doc.rev,
         \A w \in late' : w.doc # NoDoc => Counted(w.doc)
  PROVE  CountInv'
<1>1. \A d : (Counted(d)' <=> Counted(d)) /\ (CountedAhead(d)' <=> CountedAhead(d))
  BY SameFires
<1>2. \A k \in Ids : docs'[k] # NoDoc => Counted(docs'[k])
  BY DEF CountInv
<1>3. ASSUME NEW k \in Ids, docs'[k] # NoDoc PROVE Counted(docs[k])'
  <2>1. \A d : d = docs'[k] => Counted(d)'
    BY <1>1, <1>2, <1>3
  <2> QED
    BY <2>1 DEF Counted, FiresOf
<1>4. \A w \in late' : w.doc # NoDoc => Counted(w.doc)'
  BY <1>1
<1>5. ASSUME NEW s \in Scans
      PROVE  /\ \A f \in queue'[s] : Counted(f.doc)'
             /\ spc'[s] \in {"mark", "errput"} => Counted(cur[s].doc)'
  <2>1. \A f \in queue[s] : Counted(f.doc)
    BY DEF CountInv
  <2>2. ASSUME spc[s] \in {"mark", "errput"} PROVE Counted(cur[s].doc)'
    <3>1. Counted(cur[s].doc)
      BY <2>2 DEF CountInv
    <3> QED
      BY <1>1, <3>1 DEF Counted, FiresOf
  <2> QED
    BY <1>1, <2>1, <2>2
<1>6. ASSUME NEW s \in Scans, spc'[s] = "dispatch"
      PROVE  /\ CountedAhead(cur[s].doc)'
             /\ \A k \in Ids : docs'[k] # NoDoc /\ docs'[k].rev = cur'[s].doc.rev =>
                  CountedAhead(docs[k])'
  <2>1. /\ CountedAhead(cur[s].doc)
        /\ \A k \in Ids :
             docs[k] # NoDoc /\ docs[k].rev = cur[s].doc.rev => CountedAhead(docs[k])
    BY <1>6 DEF CountInv
  <2>2. ASSUME NEW k \in Ids, docs'[k] # NoDoc, docs'[k].rev = cur'[s].doc.rev
        PROVE  CountedAhead(docs[k])'
    <3>1. docs'[k] = docs[k]
      BY <1>6, <2>2
    <3>2. CountedAhead(docs[k])
      BY <2>1, <2>2, <3>1
    <3> QED
      BY <1>1, <3>1, <3>2 DEF CountedAhead, FiresOf
  <2>3. CountedAhead(cur[s].doc)'
    BY <2>1 DEF CountedAhead, FiresOf
  <2> QED
    BY <2>2, <2>3
<1> QED
  BY <1>3, <1>4, <1>5, <1>6 DEF CountInv

LEMMA CountHandlers ==
  ASSUME TypeOK, FireInv, CountInv, NEW h \in Handlers,
         \/ \E id \in Ids \cup {0}, cfg \in Configs : AcceptSet(h, id, cfg)
         \/ \E id \in Ids : AcceptDelete(h, id)
         \/ HandlerStep(h) \/ HandlerFails(h)
  PROVE  CountInv'
<1>1. /\ HandlerInv(h) /\ InHand
      /\ \A w \in late : w.doc # NoDoc => Counted(w.doc)
  BY DEF FireInv, CountInv
<1>2. ASSUME hpc[h] = "db_set"
      PROVE  /\ hdoc[h].id \in Ids /\ Counted(hdoc[h])
             /\ \A s \in Scans : spc[s] = "dispatch" => hdoc[h].rev # cur[s].doc.rev
  <2>1. hdoc[h] \in DocType /\ Fresh(hdoc[h].rev)
    BY <1>1, <1>2 DEF InHand, TypeOK, HandlerInv, Setting
  <2> QED
    BY <2>1, FreshIsCounted DEF Fresh, DocType
<1>3. CASE \/ \E id \in Ids \cup {0}, cfg \in Configs : AcceptSet(h, id, cfg)
           \/ \E id \in Ids : AcceptDelete(h, id)
           \/ SetReadsExisting(h) \/ SetTakesNextId(h)
  <2>1. UNCHANGED <<fires, spc, queue, cur, docs, late>>
    BY <1>3 DEF AcceptSet, AcceptDelete, SetReadsExisting, SetTakesNextId, scanVars, workVars
  <2> QED
    BY <1>1, <2>1, CountFrame
<1>4. CASE SetStores(h)
  <2>1. /\ UNCHANGED <<fires, spc, queue, cur, late>> /\ hpc[h] = "db_set"
        /\ docs' = [docs EXCEPT ![hdoc[h].id] = hdoc[h]]
    BY <1>4 DEF SetStores, scanVars, workVars
  <2>2. \A k \in Ids : docs'[k] = IF k = hdoc[h].id THEN hdoc[h] ELSE docs[k]
    BY <1>2, <2>1 DEF TypeOK
  <2> QED
    BY <1>1, <1>2, <2>1, <2>2, CountFrame
<1>5. CASE DeleteStores(h)
  <2>1. /\ UNCHANGED <<fires, spc, queue, cur, late>>
        /\ docs' = [docs EXCEPT ![hreq[h].id] = NoDoc]
    BY <1>5 DEF DeleteStores, scanVars, workVars
  <2>2. \A k \in Ids : docs'[k] \in {NoDoc, docs[k]}
    BY <2>1 DEF TypeOK
  <2> QED
    BY <1>1, <2>1, <2>2, CountFrame
<1>6. CASE HandlerFails(h)
  <2>1. UNCHANGED <<fires, spc, queue, cur, docs>>
    BY <1>6 DEF HandlerFails, scanVars, workVars
  <2>2. \/ late' = late
        \/ hpc[h] = "db_set" /\ late' = late \cup {Write(hdoc[h].id, hdoc[h])}
        \/ late' = late \cup {Write(hreq[h].id, NoDoc)}
    BY <1>6 DEF HandlerFails, LostOrLate, TypeOK
  <2>3. \A id, d : Write(id, d).doc = d
    BY DEF Write
  <2>4. \A w \in late' : w.doc # NoDoc => Counted(w.doc)
    BY <1>1, <1>2, <2>2, <2>3
  <2> QED
    BY <2>1, <2>4, CountFrame
<1> QED
  BY <1>3, <1>4, <1>5, <1>6 DEF HandlerStep

LEMMA CountQuiet ==
  ASSUME TypeOK, FireInv, CountInv,
         \/ \E w \in late : LateWrite(w)
         \/ Restart \/ Tick \/ UNCHANGED vars
  PROVE  CountInv'
<1>1. \A w \in late : LateInv(w) /\ (w.doc # NoDoc => Counted(w.doc))
  BY DEF FireInv, CountInv
<1>2. CASE Restart \/ Tick \/ UNCHANGED vars
  <2>1. UNCHANGED <<fires, spc, queue, cur, docs, late>>
    BY <1>2 DEF Restart, Tick, vars, scanVars, workVars
  <2> QED
    BY <1>1, <2>1, CountFrame
<1>3. ASSUME NEW w \in late, LateWrite(w) PROVE CountInv'
  <2>1. /\ UNCHANGED <<fires, spc, queue, cur>> /\ late' \subseteq late
        /\ docs' \in {docs, [docs EXCEPT ![w.id] = w.doc]}
    BY <1>3 DEF LateWrite, scanVars, workVars
  <2>2. \A k \in Ids : docs'[k] = docs[k] \/ docs'[k] = w.doc
    BY <2>1 DEF TypeOK
  <2>3. ASSUME w.doc # NoDoc, NEW s \in Scans, spc[s] = "dispatch"
        PROVE  w.doc.rev # cur[s].doc.rev
    <3>1. up
      BY <2>3 DEF FireInv, ScanInv
    <3> QED
      BY <1>1, <2>3, <3>1 DEF LateInv, Fresh
  <2> QED
    BY <1>1, <2>1, <2>2, <2>3, CountFrame
<1> QED
  BY <1>2, <1>3

\* What the process had asked for when it died is counted as well.
LEMMA CountCrash ==
  ASSUME TypeOK, FireInv, CountInv, Crash
  PROVE  CountInv'
<1>1. late' = late \cup InFlightWrites /\ Idle /\ UNCHANGED <<docs, fires>>
  BY DEF Crash
<1>2. InHand /\ \A h \in Handlers : HandlerInv(h)
  BY DEF FireInv
<1>3. \A d : Counted(d)' <=> Counted(d)
  BY <1>1, SameFires
<1>4. ASSUME NEW x \in late', x.doc # NoDoc PROVE Counted(x.doc)
  <2>1. CASE x \in late
    BY <1>4, <2>1 DEF CountInv
  <2>2. ASSUME NEW h \in Handlers, hpc[h] = "db_set", x = Write(hdoc[h].id, hdoc[h])
        PROVE  Counted(x.doc)
    <3>1. hdoc[h] \in DocType /\ Fresh(hdoc[h].rev)
      BY <1>2, <2>2 DEF InHand, TypeOK, HandlerInv, Setting
    <3> QED
      BY <2>2, <3>1, FreshIsCounted DEF DocType, Write
  <2>3. ASSUME NEW h \in Handlers, x = Write(hreq[h].id, NoDoc)
        PROVE  FALSE
    BY <1>4, <2>3 DEF Write
  <2>4. ASSUME NEW s \in Scans, spc[s] = "mark",
               x = Write(cur[s].doc.id, Marked(cur[s]))
        PROVE  Counted(x.doc)
    <3>1. cur[s] \in FireType /\ Counted(cur[s].doc)
      BY <1>2, <2>4, HeldFire DEF Holds, CountInv
    <3>2. Marked(cur[s]).rev = cur[s].doc.rev /\ cur[s].doc.count \in Nat
          /\ Marked(cur[s]).count = cur[s].doc.count + 1
      BY <3>1, MarkedFacts DEF FireType, DocType
    <3>3. Counted(Marked(cur[s]))
      BY <3>1, <3>2, CountFacts DEF Counted
    <3> QED
      BY <2>4, <3>3 DEF Write
  <2>5. ASSUME NEW s \in Scans, spc[s] = "errput", x = Write(cur[s].doc.id, cur[s].doc)
        PROVE  Counted(x.doc)
    BY <2>5 DEF Write, CountInv
  <2> QED
    BY <1>1, <2>1, <2>2, <2>3, <2>4, <2>5 DEF InFlightWrites
<1>5. \A k \in Ids : docs'[k] # NoDoc => Counted(docs[k])'
  <2>1. \A k \in Ids : docs[k] # NoDoc => Counted(docs[k])
    BY DEF CountInv
  <2> QED
    BY <1>1, <2>1 DEF Counted, FiresOf
<1>6. \A x \in late' : x.doc # NoDoc => Counted(x.doc)'
  BY <1>3, <1>4
<1> QED
  BY <1>1, <1>5, <1>6 DEF Idle, CountInv

\* The scan goes on with counted fires, or ends.
LEMMA CountGoesOn ==
  ASSUME TypeOK, OneScanAtATime, NEW s \in Scans, NEW q, TakeNext(s, q),
         \A k \in Ids : docs'[k] # NoDoc => Counted(docs[k])',
         \A w \in late' : w.doc # NoDoc => Counted(w.doc)',
         \A f \in q : Counted(f.doc)'
  PROVE  CountInv'
<1>1. \A u \in Scans : u = s
  BY DEF OneScanAtATime
<1>2. \/ spc'[s] = "idle" /\ queue'[s] = {}
      \/ \E f \in q : spc'[s] = "mark" /\ queue'[s] = q \ {f} /\ cur'[s] = f
  BY DEF TakeNext, TypeOK
<1>3. \A f \in queue'[s] : Counted(f.doc)'
  BY <1>2
<1>4. ASSUME spc'[s] = "mark" PROVE Counted(cur[s].doc)'
  <2>1. cur'[s] \in q
    BY <1>2, <1>4
  <2>2. \A f \in q : f = cur'[s] => Counted(cur[s].doc)'
    BY DEF Counted, FiresOf
  <2> QED
    BY <2>1, <2>2
<1>5. spc'[s] \in {"idle", "mark"}
  BY <1>2
<1> QED
  BY <1>1, <1>3, <1>4, <1>5 DEF CountInv

\* The same where nothing was dispatched or stored.
LEMMA CountGoesOnQuietly ==
  ASSUME TypeOK, OneScanAtATime, CountInv, NEW s \in Scans, NEW q, TakeNext(s, q),
         UNCHANGED <<docs, late, fires>>, \A f \in q : Counted(f.doc)
  PROVE  CountInv'
<1>1. \A d : Counted(d)' <=> Counted(d)
  BY SameFires
<1>2. \A k \in Ids : docs'[k] # NoDoc => Counted(docs[k])'
  <2>1. \A k \in Ids : docs[k] # NoDoc => Counted(docs[k])
    BY DEF CountInv
  <2> QED
    BY <2>1 DEF Counted, FiresOf
<1>3. \A w \in late' : w.doc # NoDoc => Counted(w.doc)'
  BY <1>1 DEF CountInv
<1> QED
  BY <1>1, <1>2, <1>3, CountGoesOn

\* The scan moves on in its task, with a counted document in hand.
LEMMA CountMoves ==
  ASSUME TypeOK, OneScanAtATime, CountInv, NEW s \in Scans,
         UNCHANGED <<docs, late, fires, queue>>,
         \/ spc'[s] \in {"db_keys", "db_batch_get", "errget"}
         \/ spc'[s] = "errput" /\ Counted(cur'[s].doc)
  PROVE  CountInv'
<1>1. \A d : Counted(d)' <=> Counted(d)
  BY SameFires
<1>2. \A u \in Scans : u = s
  BY DEF OneScanAtATime
<1>3. \A k \in Ids : docs'[k] # NoDoc => Counted(docs[k])'
  <2>1. \A k \in Ids : docs[k] # NoDoc => Counted(docs[k])
    BY DEF CountInv
  <2> QED
    BY <2>1 DEF Counted, FiresOf
<1>4. \A w \in late' : w.doc # NoDoc => Counted(w.doc)'
  BY <1>1 DEF CountInv
<1>5. \A f \in queue'[s] : Counted(f.doc)'
  BY <1>1 DEF CountInv
<1>6. spc'[s] = "errput" => Counted(cur[s].doc)'
  BY DEF Counted, FiresOf
<1>7. spc'[s] \notin {"mark", "dispatch"}
  OBVIOUS
<1> QED
  BY <1>2, <1>3, <1>4, <1>5, <1>6, <1>7 DEF CountInv

LEMMA CountMark ==
  ASSUME TypeOK, OneScanAtATime, FireInv, CountInv, NEW s \in Scans, MarkFired(s)
  PROVE  CountInv'
<1> DEFINE d == Marked(cur[s])
<1>1. /\ InHand /\ ScanInv(s) /\ \A k \in Ids : DocInv(k)
      /\ \A u \in Scans : u = s
  BY DEF FireInv, OneScanAtATime
<1>2. spc[s] = "mark" /\ cur[s] \in FireType /\ cur[s].doc \in DocType
      /\ Counted(cur[s].doc) /\ Owned(cur[s].doc)
  BY <1>1, HeldFire DEF MarkFired, Holds, CountInv, ScanInv
<1>3. /\ d \in DocType /\ d.id = cur[s].doc.id /\ d.rev = cur[s].doc.rev
      /\ d.count = cur[s].doc.count + 1 /\ cur[s].doc.count \in Nat /\ d.id \in Ids
  BY <1>2, MarkedFacts DEF DocType
<1>4. /\ docs' = [docs EXCEPT ![d.id] = d]
      /\ cur' = [cur EXCEPT ![s].doc = d]
      /\ spc' = [spc EXCEPT ![s] = "dispatch"]
      /\ UNCHANGED <<late, queue, fires>>
  BY DEF MarkFired
<1> HIDE DEF d
<1>5. CountedAhead(d) /\ Counted(d)
  BY <1>2, <1>3, CountFacts DEF Counted, CountedAhead
<1>6. cur'[s].doc = d /\ spc'[s] = "dispatch"
  <2>1. cur'[s] = [cur[s] EXCEPT !.doc = d]
    BY <1>4 DEF TypeOK
  <2> QED
    BY <1>2, <1>4, <2>1 DEF TypeOK, FireType
<1>7. \A k \in Ids : docs'[k] = IF k = d.id THEN d ELSE docs[k]
  BY <1>3, <1>4 DEF TypeOK
<1>8. \A e : (Counted(e)' <=> Counted(e)) /\ (CountedAhead(e)' <=> CountedAhead(e))
  BY <1>4, SameFires
<1>9. \A k \in Ids : docs'[k] # NoDoc => Counted(docs[k])'
  <2>1. \A k \in Ids : docs'[k] # NoDoc => Counted(docs'[k])
    BY <1>5, <1>7 DEF CountInv
  <2> QED
    BY <1>4, <2>1 DEF Counted, FiresOf
<1>10. \A w \in late' : w.doc # NoDoc => Counted(w.doc)'
  BY <1>4, <1>8 DEF CountInv
<1>11. \A f \in queue'[s] : Counted(f.doc)'
  BY <1>4, <1>8 DEF CountInv
<1>12. CountedAhead(cur[s].doc)'
  BY <1>4, <1>5, <1>6 DEF CountedAhead, FiresOf
<1>13. ASSUME NEW k \in Ids, docs'[k] # NoDoc, docs'[k].rev = cur'[s].doc.rev
       PROVE  CountedAhead(docs[k])'
  <2>1. CASE k = d.id
    BY <1>4, <1>5, <1>7, <2>1 DEF CountedAhead, FiresOf
  <2>2. CASE k # d.id
    <3>1. docs[k] # NoDoc /\ docs[k].rev = cur[s].doc.rev
      BY <1>3, <1>6, <1>7, <1>13, <2>2
    <3>2. docs[k].id = k /\ Owned(docs[k])
      BY <1>1, <3>1 DEF DocInv
    <3> QED
      BY <1>2, <1>3, <2>2, <3>1, <3>2 DEF Owned
  <2> QED
    BY <2>1, <2>2
<1> QED
  BY <1>1, <1>6, <1>9, <1>10, <1>11, <1>12, <1>13 DEF CountInv

\* After the dispatch what was counted ahead is counted.
LEMMA CountDispatch ==
  ASSUME TypeOK, OneScanAtATime, FireInv, CountInv, NEW s \in Scans,
         Dispatch(s) \/ DispatchFails(s)
  PROVE  CountInv'
<1>1. /\ InHand /\ ScanInv(s) /\ \A w \in late : LateInv(w)
      /\ \A u \in Scans : u = s
  BY DEF FireInv, OneScanAtATime
<1>2. /\ spc[s] = "dispatch" /\ fires' = Append(fires, Fired(s)) /\ UNCHANGED <<docs, late>>
      /\ \/ TakeNext(s, queue[s])
         \/ spc' = [spc EXCEPT ![s] = "errget"] /\ UNCHANGED queue
  BY DEF Dispatch, DispatchFails
<1>3. ASSUME NEW k \in Ids, docs'[k] # NoDoc PROVE Counted(docs[k])'
  <2>1. docs[k].count \in Nat /\ Counted(docs[k])
        /\ (docs[k].rev = cur[s].doc.rev => CountedAhead(docs[k]))
    BY <1>2, <1>3 DEF TypeOK, DocType, CountInv
  <2>2. \A d : d = docs[k] => Counted(d)'
    BY <1>2, <2>1, CountOneMore
  <2> QED
    BY <1>2, <2>2 DEF Counted, FiresOf
<1>4. ASSUME NEW w \in late', w.doc # NoDoc PROVE Counted(w.doc)'
  <2>1. up
    BY <1>1, <1>2 DEF ScanInv
  <2>2. w.doc.count \in Nat /\ Counted(w.doc) /\ w.doc.rev # cur[s].doc.rev
    BY <1>1, <1>2, <1>4, <2>1 DEF TypeOK, DocType, CountInv, LateInv, Fresh
  <2> QED
    BY <1>2, <2>2, CountOneMore
<1>5. ASSUME NEW f \in queue[s] PROVE Counted(f.doc)'
  <2>1. f.doc.count \in Nat /\ Counted(f.doc) /\ f.doc.rev # cur[s].doc.rev
    BY <1>1, <1>2 DEF TypeOK, FireType, DocType, CountInv, ScanInv
  <2> QED
    BY <1>2, <2>1, CountOneMore
<1>6. CASE TakeNext(s, queue[s])
  BY <1>3, <1>4, <1>5, <1>6, CountGoesOn
<1>7. CASE spc' = [spc EXCEPT ![s] = "errget"] /\ UNCHANGED queue
  <2>1. spc'[s] = "errget" /\ queue'[s] = queue[s]
    BY <1>7 DEF TypeOK
  <2> QED
    BY <1>1, <1>3, <1>4, <1>5, <2>1 DEF CountInv
<1> QED
  BY <1>2, <1>6, <1>7

LEMMA CountScan ==
  ASSUME TypeOK, OneScanAtATime, MarksStick, FireInv, CountInv, NEW s \in Scans,
         StartScan(s) \/ ScanStep(s) \/ ScanFault(s)
  PROVE  CountInv'
<1>1. InHand /\ \A f \in queue[s] : Counted(f.doc)
  BY DEF FireInv, CountInv
<1>2. CASE StartScan(s)
  BY <1>2, CountMoves DEF StartScan, TypeOK
<1>3. CASE ListKeys(s)
  <2>1. UNCHANGED <<docs, late, fires>>
    BY <1>3 DEF ListKeys
  <2>2. CASE TakeNext(s, {})
    BY <2>1, <2>2, CountGoesOnQuietly
  <2>3. CASE spc' = [spc EXCEPT ![s] = "db_batch_get"] /\ UNCHANGED queue
    BY <2>1, <2>3, CountMoves DEF TypeOK
  <2> QED
    BY <1>3, <2>2, <2>3 DEF ListKeys
<1>4. CASE ReadDocs(s)
  <2> DEFINE q == DueFires(skeys[s], snow[s])
  <2>1. UNCHANGED <<docs, late, fires>> /\ TakeNext(s, q)
    BY <1>4 DEF ReadDocs
  <2>2. ASSUME NEW f \in q PROVE Counted(f.doc)
    <3>1. skeys[s] \subseteq Ids
      BY DEF TypeOK
    <3>2. PICK k \in Ids : f.doc = docs[k] /\ docs[k] # NoDoc
      BY <2>2, <3>1 DEF DueFires
    <3> QED
      BY <3>2 DEF CountInv
  <2> HIDE DEF q
  <2> QED
    BY <2>1, <2>2, CountGoesOnQuietly
<1>5. CASE ReadForError(s)
  <2>1. spc[s] = "errget" /\ UNCHANGED <<docs, late, fires>>
    BY <1>5 DEF ReadForError
  <2>2. CASE TakeNext(s, queue[s])
    BY <1>1, <2>1, <2>2, CountGoesOnQuietly
  <2> DEFINE k == cur[s].doc.id
             d == [docs[k] EXCEPT !.err = TRUE]
  <2>3. CASE /\ docs[k] # NoDoc /\ cur' = [cur EXCEPT ![s].doc = d]
             /\ spc' = [spc EXCEPT ![s] = "errput"] /\ UNCHANGED queue
    <3>1. k \in Ids /\ cur[s] \in FireType
      BY <1>1, <2>1, HeldFire DEF Holds
    <3>2. docs[k] \in DocType /\ Counted(docs[k])
      BY <2>3, <3>1 DEF TypeOK, CountInv
    <3>3. d.rev = docs[k].rev /\ d.count = docs[k].count
      BY <3>2 DEF DocType
    <3> HIDE DEF d
    <3>4. cur'[s].doc = d
      <4>1. cur'[s] = [cur[s] EXCEPT !.doc = d]
        BY <2>3 DEF TypeOK
      <4> QED
        BY <3>1, <4>1 DEF FireType
    <3>5. Counted(cur'[s].doc) /\ spc'[s] = "errput"
      BY <2>3, <3>2, <3>3, <3>4 DEF Counted, TypeOK
    <3> QED
      BY <2>1, <2>3, <3>5, CountMoves
  <2> QED
    BY <1>5, <2>2, <2>3 DEF ReadForError
<1>6. CASE RecordError(s)
  <2>1. /\ spc[s] = "errput" /\ UNCHANGED <<late, fires>> /\ TakeNext(s, queue[s])
        /\ docs' = [docs EXCEPT ![cur[s].doc.id] = cur[s].doc]
    BY <1>6 DEF RecordError
  <2>2. \A e : Counted(e)' <=> Counted(e)
    BY <2>1, SameFires
  <2>3. Counted(cur[s].doc)
    BY <2>1 DEF CountInv
  <2>4. \A k \in Ids : docs'[k] \in {docs[k], cur[s].doc}
    BY <2>1 DEF TypeOK
  <2>5. \A k \in Ids : docs'[k] # NoDoc => Counted(docs'[k])
    BY <2>3, <2>4 DEF CountInv
  <2>6. \A k \in Ids : docs'[k] # NoDoc => Counted(docs[k])'
    BY <2>1, <2>5 DEF Counted, FiresOf
  <2>7. \A w \in late' : w.doc # NoDoc => Counted(w.doc)'
    BY <2>1, <2>2 DEF CountInv
  <2> QED
    BY <1>1, <2>1, <2>2, <2>6, <2>7, CountGoesOn
<1>7. CASE ListFails(s) \/ TruncatePanics(s)
  <2>1. UNCHANGED <<docs, late, fires>> /\ TakeNext(s, {})
    BY <1>7 DEF ListFails, TruncatePanics
  <2> QED
    BY <2>1, CountGoesOnQuietly
<1>8. CASE MarkFails(s)
  BY <1>8 DEF MarkFails, Fault, MarksStick
<1>9. CASE RecordErrorFails(s)
  <2>1. spc[s] # "errput"
    BY <1>9 DEF RecordErrorFails, Fault, MarksStick
  <2>2. UNCHANGED <<docs, late, fires>> /\ TakeNext(s, queue[s])
    BY <1>9, <2>1 DEF RecordErrorFails
  <2> QED
    BY <1>1, <2>2, CountGoesOnQuietly
<1> QED
  BY <1>2, <1>3, <1>4, <1>5, <1>6, <1>7, <1>8, <1>9, CountMark, CountDispatch
  DEF ScanStep, ScanFault

LEMMA CountInit ==
  ASSUME Init
  PROVE  CountInv
  BY DEF Init, CountInv

\* fire_count and last_fired_ms of a stored document never lag behind what was
\* dispatched of its configuration: every dispatch is counted, and none is later
\* than last_fired_ms - as long as scans do not overlap and the scan's own writes
\* succeed, whatever the handlers, failing reads, late writes and crashes do.
THEOREM FiresAreCounted ==
  ASSUME OneScanAtATime, MarksStick
  PROVE  Spec => []CountsCoverFires
<1>1. TypeOK /\ InHand /\ FireInv /\ CountInv /\ [Next]_vars => CountInv'
  <2> SUFFICES ASSUME TypeOK, FireInv, CountInv, [Next]_vars PROVE CountInv'
    OBVIOUS
  <2> QED
    BY CountHandlers, CountScan, CountQuiet, CountCrash DEF Next
<1>2. TypeOK /\ FireInv /\ CountInv => CountsCoverFires
  BY DEF FireInv, DocInv, Accounted, Covers, CountInv, Counted, FiresOf, CountsCoverFires
<1> QED
  BY <1>1, <1>2, CountInit, FireInvHolds, PTL DEF Spec

-----------------------------------------------------------------------------
(* What is dispatched was asked for: FiresAreConfigured, for any number of   *)
(* scans, handlers, faults and crashes. Every copy of a document, in the     *)
(* database, on its way there, read by a scan or built by a handler, agrees  *)
(* with the schedule_set it carries the revision of, and a schedule_set      *)
(* never changes once its id is known.                                       *)

(* The inductive invariant *)

\* The document is the one that the schedule_set of its revision stores.
ConfiguredIn(d, ss) ==
  d.rev \in DOMAIN ss /\ ss[d.rev].id = d.id /\ ss[d.rev].cfg = d.cfg

\* A deadline of an enabled configuration.
Deadline(cfg, due) ==
  cfg.enabled /\ IF cfg.trigger = "once" THEN due = cfg.at ELSE due \in CronTimes

\* A fire a scan of time t may dispatch.
OwedIn(f, t, ss) ==
  ConfiguredIn(f.doc, ss) /\ Deadline(f.doc.cfg, f.due) /\ f.due <= t

\* A dispatch that was asked for.
AskedIn(f, ss) ==
  /\ f.rev \in DOMAIN ss /\ ss[f.rev].id = f.id
  /\ ~f.early /\ Deadline(ss[f.rev].cfg, f.due)

\* More schedule_sets, and ids for those that had none.
Grown(ss, tt) ==
  \A r \in DOMAIN ss : r \in DOMAIN tt /\ (ss[r].id # 0 => tt[r] = ss[r])

StoreConf ==
  /\ \A k \in Ids : docs[k] # NoDoc => ConfiguredIn(docs[k], sets)
  /\ \A w \in late : w.doc # NoDoc => ConfiguredIn(w.doc, sets)

HandlerConf(h) ==
  /\ hpc[h] = "db_get" => sets[hreq[h].rev].id = hreq[h].id
  /\ hpc[h] = "db_incr" =>
       /\ sets[hreq[h].rev].id = 0
       /\ \A g \in Handlers \ {h} : hpc[g] = "db_incr" => hreq[g].rev # hreq[h].rev
  /\ hpc[h] = "db_set" => ConfiguredIn(hdoc[h], sets)

ScanConf(s) ==
  /\ snow[s] <= now
  /\ \A f \in queue[s] : OwedIn(f, snow[s], sets)
  /\ spc[s] \in {"mark", "dispatch"} => OwedIn(cur[s], snow[s], sets)
  /\ spc[s] = "errput" => ConfiguredIn(cur[s].doc, sets)

ConfInv ==
  /\ StoreConf
  /\ \A h \in Handlers : HandlerConf(h)
  /\ \A s \in Scans : ScanConf(s)
  /\ \A i \in DOMAIN fires : AskedIn(fires[i], sets)

LEMMA ConfImplies == ConfInv => FiresAreConfigured
  BY DEF ConfInv, FiresAreConfigured, AskedIn, Deadline

-----------------------------------------------------------------------------
(* Schedule_sets only grow *)

LEMMA ZeroIsNoId == 0 \notin Ids
  BY SchedulerAssumption

LEMMA GrownKeepsDoc ==
  ASSUME NEW ss, NEW tt, Grown(ss, tt), NEW d \in DocType, ConfiguredIn(d, ss)
  PROVE  ConfiguredIn(d, tt)
  BY ZeroIsNoId DEF Grown, ConfiguredIn, DocType

LEMMA GrownKeepsFire ==
  ASSUME NEW ss, NEW tt, Grown(ss, tt), NEW f \in FireType, NEW t, OwedIn(f, t, ss)
  PROVE  OwedIn(f, t, tt)
  BY GrownKeepsDoc DEF OwedIn, FireType

LEMMA GrownKeepsAsked ==
  ASSUME NEW ss, NEW tt, Grown(ss, tt), NEW f \in FiredType, AskedIn(f, ss)
  PROVE  AskedIn(f, tt)
  BY ZeroIsNoId DEF Grown, AskedIn, FiredType

LEMMA GrownSame == \A ss : Grown(ss, ss)
  BY DEF Grown

LEMMA AcceptSetGrows ==
  ASSUME TypeOK, NEW x \in SetType, sets' = Append(sets, x)
  PROVE  /\ Grown(sets, sets') /\ Len(sets) + 1 \in DOMAIN sets'
         /\ sets'[Len(sets) + 1] = x /\ Len(sets) + 1 \notin DOMAIN sets
<1>1. sets \in Seq(SetType) /\ Len(sets) \in Nat
  BY DEF TypeOK, SetType
<1>2. /\ DOMAIN sets' = 1..(Len(sets) + 1) /\ DOMAIN sets = 1..Len(sets)
      /\ \A r \in 1..Len(sets) : sets'[r] = sets[r]
      /\ sets'[Len(sets) + 1] = x
  BY <1>1, AppendProperties, LenProperties
<1> QED
  BY <1>1, <1>2 DEF Grown

\* What every task has in hand survives a step in which the sets have grown.
LEMMA GrownKeepsConf ==
  ASSUME TypeOK, InHand, ConfInv, Grown(sets, sets'),
         UNCHANGED <<docs, late, spc, snow, queue, cur, fires>>, now' = now
  PROVE  /\ StoreConf' /\ \A s \in Scans : ScanConf(s)'
         /\ \A i \in DOMAIN fires' : AskedIn(fires'[i], sets')
<1>1. StoreConf'
  <2>1. \A k \in Ids : docs[k] # NoDoc => docs[k] \in DocType
    BY DEF TypeOK
  <2>2. \A w \in late : w.doc # NoDoc => w.doc \in DocType
    BY DEF TypeOK
  <2> QED
    BY <2>1, <2>2, GrownKeepsDoc DEF ConfInv, StoreConf
<1>2. ASSUME NEW s \in Scans PROVE ScanConf(s)'
  <2>1. \A f \in queue[s] : f \in FireType
    BY DEF TypeOK
  <2>2. Holds(s) => cur[s] \in FireType /\ cur[s].doc \in DocType
    BY HeldFire
  <2>3. ScanConf(s)
    BY DEF ConfInv
  <2> QED
    BY <2>1, <2>2, <2>3, GrownKeepsDoc, GrownKeepsFire DEF ScanConf, Holds
<1>3. ASSUME NEW i \in DOMAIN fires PROVE AskedIn(fires[i], sets')
  <2>1. fires[i] \in FiredType
    BY FiresFacts DEF TypeOK, FiredType
  <2> QED
    BY <2>1, GrownKeepsAsked DEF ConfInv
<1> QED
  BY <1>1, <1>2, <1>3

-----------------------------------------------------------------------------
(* Scans *)

\* What a batch read finds due was asked for.
LEMMA DueIsOwed ==
  ASSUME TypeOK, StoreConf, NEW keys \in SUBSET Ids, NEW t \in Nat,
         NEW f \in DueFires(keys, t)
  PROVE  OwedIn(f, t, sets)
<1>1. PICK k \in keys : f.doc = docs[k] /\ docs[k] # NoDoc
  BY DEF DueFires
<1>2. f.doc \in DocType /\ f.due \in 0..t /\ f.due \in NextFireMs(f.doc)
  BY <1>1 DEF DueFires, TypeOK
<1>3. f.doc.cfg.enabled \in BOOLEAN /\ f.doc.cfg.trigger \in {"once", "cron"}
  BY <1>2, ConfigFacts DEF DocType
<1>4. Deadline(f.doc.cfg, f.due)
  <2>1. f.doc.cfg.enabled
    BY <1>2, <1>3 DEF NextFireMs
  <2>2. CASE f.doc.cfg.trigger = "once"
    BY <1>2, <2>1, <2>2 DEF NextFireMs, Deadline
  <2>3. CASE f.doc.cfg.trigger = "cron"
    BY <1>2, <2>1, <2>3 DEF NextFireMs, NextCronAfter, Deadline
  <2> QED
    BY <1>3, <2>2, <2>3
<1> QED
  BY <1>1, <1>2, <1>4 DEF OwedIn, StoreConf

LEMMA TakeNextConf ==
  ASSUME TypeOK, NEW s \in Scans, NEW q, TakeNext(s, q),
         \A f \in q : OwedIn(f, snow[s], sets),
         \A r \in Scans : ScanConf(r), UNCHANGED <<sets, now>>
  PROVE  \A r \in Scans : ScanConf(r)'
<1> USE DEF TypeOK, ScanConf
<1>1. CASE /\ q = {}
           /\ spc' = [spc EXCEPT ![s] = "idle"]
           /\ snow' = [snow EXCEPT ![s] = 0]
           /\ sstopped' = [sstopped EXCEPT ![s] = {}]
           /\ queue' = [queue EXCEPT ![s] = {}]
           /\ cur' = [cur EXCEPT ![s] = NoFire]
  BY <1>1
<1>2. CASE \E f \in q :
             /\ spc' = [spc EXCEPT ![s] = "mark"]
             /\ queue' = [queue EXCEPT ![s] = q \ {f}]
             /\ cur' = [cur EXCEPT ![s] = f]
             /\ UNCHANGED <<snow, sstopped>>
  BY <1>2
<1> QED
  BY <1>1, <1>2 DEF TakeNext

\* The dispatch of the fire in hand was asked for, and is not early.
LEMMA FiredIsAsked ==
  ASSUME TypeOK, InHand, NEW s \in Scans, spc[s] = "dispatch", ScanConf(s)
  PROVE  AskedIn(Fired(s), sets)
<1>1. cur[s].doc \in DocType /\ cur[s].due \in Nat
  BY HeldFire DEF Holds
<1>2. OwedIn(cur[s], snow[s], sets) /\ snow[s] <= now /\ snow[s] \in Nat /\ now \in Nat
  BY DEF ScanConf, TypeOK
<1>3. /\ Fired(s).id = cur[s].doc.id /\ Fired(s).rev = cur[s].doc.rev
      /\ Fired(s).due = cur[s].due /\ Fired(s).early = (cur[s].due > now)
  BY DEF Fired
<1>4. ~(cur[s].due > now)
  BY <1>1, <1>2 DEF OwedIn
<1>5. Deadline(sets[cur[s].doc.rev].cfg, cur[s].due)
  BY <1>2 DEF OwedIn, ConfiguredIn
<1> QED
  BY <1>2, <1>3, <1>4, <1>5 DEF AskedIn, OwedIn, ConfiguredIn

LEMMA FiresGrow ==
  ASSUME TypeOK, TypeOK', NEW x, fires' = Append(fires, x), UNCHANGED sets,
         AskedIn(x, sets), \A i \in DOMAIN fires : AskedIn(fires[i], sets)
  PROVE  \A i \in DOMAIN fires' : AskedIn(fires'[i], sets')
<1>1. fires \in Seq(FiredType) /\ Len(fires) \in Nat
  BY DEF TypeOK, FiredType
<1>2. /\ DOMAIN fires' = 1..(Len(fires) + 1) /\ DOMAIN fires = 1..Len(fires)
      /\ \A i \in 1..Len(fires) : fires'[i] = fires[i]
      /\ fires'[Len(fires) + 1] = x
  <2>1. fires \in Seq(Range(fires) \cup {x})
    BY <1>1, LenProperties DEF Range
  <2> QED
    BY <2>1, AppendProperties, LenProperties
<1> QED
  BY <1>1, <1>2

-----------------------------------------------------------------------------
(* Every step *)

LEMMA ConfInit == Init => ConfInv
  BY SchedulerAssumption
  DEF Init, ConfInv, StoreConf, HandlerConf, ScanConf

\* A write of a document that agrees with its schedule_set, or of none.
LEMMA WriteConf ==
  ASSUME TypeOK, StoreConf, NEW id \in Ids, NEW d, d # NoDoc => ConfiguredIn(d, sets),
         docs' = [docs EXCEPT ![id] = d], late' \subseteq late, UNCHANGED sets
  PROVE  StoreConf'
  BY DEF TypeOK, StoreConf

LEMMA LateConf ==
  ASSUME TypeOK, StoreConf, NEW id, NEW d, d # NoDoc => ConfiguredIn(d, sets),
         docs' = docs, LostOrLate(Write(id, d)), UNCHANGED sets
  PROVE  StoreConf'
  BY DEF TypeOK, StoreConf, LostOrLate, Write

LEMMA HandlerDoneConf ==
  ASSUME TypeOK, NEW h \in Handlers, HandlerDone(h), UNCHANGED sets,
         \A g \in Handlers : HandlerConf(g)
  PROVE  \A g \in Handlers : HandlerConf(g)'
  BY DEF TypeOK, HandlerDone, HandlerConf

\* The scans and the dispatches do not change with the handlers and the database.
LEMMA ScansSame ==
  ASSUME ConfInv, UNCHANGED <<spc, snow, queue, cur, fires, sets, now>>
  PROVE  /\ \A s \in Scans : ScanConf(s)'
         /\ \A i \in DOMAIN fires' : AskedIn(fires'[i], sets')
  BY DEF ConfInv, ScanConf

LEMMA HandlersSame ==
  ASSUME ConfInv, UNCHANGED <<hpc, hreq, hdoc, sets>>
  PROVE  \A h \in Handlers : HandlerConf(h)'
  BY DEF ConfInv, HandlerConf

LEMMA HandlerStepConf ==
  ASSUME TypeOK, InHand, ConfInv, NEW h \in Handlers
  PROVE  /\ \A id \in Ids \cup {0}, cfg \in Configs : AcceptSet(h, id, cfg) => ConfInv'
         /\ \A id \in Ids : AcceptDelete(h, id) => ConfInv'
         /\ HandlerStep(h) => ConfInv'
         /\ HandlerFails(h) => ConfInv'
<1>1. ASSUME NEW id \in Ids \cup {0}, NEW cfg \in Configs, AcceptSet(h, id, cfg)
      PROVE  ConfInv'
  <2> DEFINE x == [id |-> id, cfg |-> cfg]
             rev == Len(sets) + 1
  <2>1. /\ x \in SetType /\ sets' = Append(sets, x)
        /\ hreq' = [hreq EXCEPT ![h] = [id |-> id, rev |-> rev, now |-> now]]
        /\ hpc' = [hpc EXCEPT ![h] = IF id = 0 THEN "db_incr" ELSE "db_get"]
        /\ UNCHANGED <<docs, late, hdoc, spc, snow, queue, cur, fires, now>>
    BY <1>1 DEF AcceptSet, SetType, scanVars, workVars, boundVars
  <2>2. /\ Grown(sets, sets') /\ rev \in DOMAIN sets' /\ sets'[rev] = x
        /\ rev \notin DOMAIN sets
    BY <2>1, AcceptSetGrows
  <2> HIDE DEF rev
  <2>3. sets'[rev].id = id
    BY <2>2
  <2>4. ASSUME NEW g \in Handlers PROVE HandlerConf(g)'
    <3>1. CASE g = h
      BY <2>1, <2>2, <2>3, <3>1 DEF HandlerConf, InHand, TypeOK, Setting
    <3>2. CASE g # h
      <4>1. hpc'[g] = hpc[g] /\ hreq'[g] = hreq[g] /\ hdoc'[g] = hdoc[g]
        BY <2>1, <3>2 DEF TypeOK
      <4>2. HandlerConf(g)
        BY DEF ConfInv
      <4>3. hpc[g] = "db_get" => sets'[hreq[g].rev].id = hreq[g].id
        BY <2>2, <4>2, ZeroIsNoId DEF HandlerConf, Grown, InHand, Setting
      <4>4. hpc[g] = "db_set" => ConfiguredIn(hdoc[g], sets')
        BY <2>2, <4>2, GrownKeepsDoc DEF HandlerConf, TypeOK, InHand
      <4>5. hpc[g] = "db_incr" =>
              /\ sets'[hreq[g].rev].id = 0
              /\ \A f \in Handlers \ {g} :
                   hpc'[f] = "db_incr" => hreq'[f].rev # hreq[g].rev
        <5>1. SUFFICES ASSUME hpc[g] = "db_incr"
                       PROVE  /\ sets'[hreq[g].rev].id = 0
                              /\ \A f \in Handlers \ {g} :
                                   hpc'[f] = "db_incr" => hreq'[f].rev # hreq[g].rev
          OBVIOUS
        <5>2. hreq[g].rev \in DOMAIN sets /\ sets[hreq[g].rev].id = 0
          BY <4>2, <5>1 DEF HandlerConf, InHand, Setting
        <5>3. sets'[hreq[g].rev] = sets[hreq[g].rev]
          BY <2>1, <5>2, AppendProperties, LenProperties DEF TypeOK, SetType
        <5>4. \A f \in Handlers \ {g} : hpc'[f] = "db_incr" => hreq'[f].rev # hreq[g].rev
          BY <2>1, <2>2, <4>2, <5>1, <5>2 DEF HandlerConf, TypeOK
        <5> QED
          BY <5>2, <5>3, <5>4
      <4> QED
        BY <4>1, <4>3, <4>4, <4>5 DEF HandlerConf
    <3> QED
      BY <3>1, <3>2
  <2> QED
    BY <2>1, <2>2, <2>4, GrownKeepsConf DEF ConfInv
<1>2. ASSUME NEW id \in Ids, AcceptDelete(h, id) PROVE ConfInv'
  <2>1. /\ hpc' = [hpc EXCEPT ![h] = "db_delete"]
        /\ hreq' = [hreq EXCEPT ![h] = [NoReq EXCEPT !.id = id]]
        /\ UNCHANGED <<docs, late, hdoc, spc, snow, queue, cur, sets, fires, now>>
    BY <1>2 DEF AcceptDelete, scanVars, workVars, boundVars
  <2>2. \A g \in Handlers : HandlerConf(g)'
    BY <2>1 DEF ConfInv, HandlerConf, TypeOK
  <2> QED
    BY <2>1, <2>2, ScansSame DEF ConfInv, StoreConf
<1>3. ASSUME SetReadsExisting(h) PROVE ConfInv'
  <2> DEFINE r == hreq[h]
             created == IF docs[r.id] = NoDoc THEN r.now ELSE docs[r.id].created
             d == BuildDoc(r.id, r.rev, sets[r.rev].cfg, created)
  <2>1. /\ hpc[h] = "db_get" /\ hpc' = [hpc EXCEPT ![h] = "db_set"]
        /\ hdoc' = [hdoc EXCEPT ![h] = d]
        /\ UNCHANGED <<docs, late, hreq, spc, snow, queue, cur, sets, fires, now>>
    BY <1>3 DEF SetReadsExisting, scanVars, workVars, boundVars
  <2>2. r.id \in Ids /\ r.rev \in DOMAIN sets /\ sets[r.rev].id = r.id
    BY <2>1 DEF InHand, Setting, ConfInv, HandlerConf
  <2>3. ConfiguredIn(d, sets)
    BY <2>2 DEF BuildDoc, ConfiguredIn
  <2> HIDE DEF d
  <2>4. \A g \in Handlers : HandlerConf(g)'
    BY <2>1, <2>3 DEF ConfInv, HandlerConf, TypeOK
  <2> QED
    BY <2>1, <2>4, ScansSame DEF ConfInv, StoreConf
<1>4. ASSUME SetTakesNextId(h) PROVE ConfInv'
  <2> DEFINE r == hreq[h]
             n == counter + 1
             d == BuildDoc(n, r.rev, sets[r.rev].cfg, r.now)
  <2>1. /\ hpc[h] = "db_incr" /\ hpc' = [hpc EXCEPT ![h] = "db_set"] /\ n \in Ids
        /\ hdoc' = [hdoc EXCEPT ![h] = d]
        /\ hreq' = [hreq EXCEPT ![h] = [r EXCEPT !.id = n]]
        /\ sets' = [sets EXCEPT ![r.rev].id = n]
        /\ UNCHANGED <<docs, late, spc, snow, queue, cur, fires, now>>
    BY <1>4 DEF SetTakesNextId, scanVars, workVars, boundVars
  <2>2. r.rev \in DOMAIN sets /\ sets[r.rev].id = 0 /\ sets[r.rev] \in SetType
    BY <2>1, SetsFacts DEF InHand, Setting, ConfInv, HandlerConf, TypeOK, SetType
  <2>3. /\ DOMAIN sets' = DOMAIN sets /\ sets'[r.rev] = [sets[r.rev] EXCEPT !.id = n]
        /\ \A q \in DOMAIN sets : q # r.rev => sets'[q] = sets[q]
    BY <2>1, <2>2, LenProperties DEF TypeOK, SetType
  <2>4. Grown(sets, sets')
    BY <2>2, <2>3 DEF Grown
  <2>5. sets'[r.rev].id = n /\ sets'[r.rev].cfg = sets[r.rev].cfg
    BY <2>2, <2>3 DEF SetType
  <2>6. ConfiguredIn(d, sets')
    BY <2>2, <2>3, <2>5 DEF BuildDoc, ConfiguredIn
  <2> HIDE DEF d
  <2>7. ASSUME NEW g \in Handlers PROVE HandlerConf(g)'
    <3>1. CASE g = h
      BY <2>1, <2>6, <3>1 DEF HandlerConf, TypeOK
    <3>2. CASE g # h
      <4>1. hpc'[g] = hpc[g] /\ hreq'[g] = hreq[g] /\ hdoc'[g] = hdoc[g]
        BY <2>1, <3>2 DEF TypeOK
      <4>2. HandlerConf(g) /\ HandlerConf(h)
        BY DEF ConfInv
      <4>3. hpc[g] = "db_get" => sets'[hreq[g].rev].id = hreq[g].id
        BY <2>4, <4>2, ZeroIsNoId DEF HandlerConf, Grown, InHand, Setting
      <4>4. hpc[g] = "db_set" => ConfiguredIn(hdoc[g], sets')
        BY <2>4, <4>2, GrownKeepsDoc DEF HandlerConf, TypeOK, InHand
      <4>5. hpc[g] = "db_incr" =>
              /\ sets'[hreq[g].rev].id = 0
              /\ \A f \in Handlers \ {g} :
                   hpc'[f] = "db_incr" => hreq'[f].rev # hreq[g].rev
        <5>1. SUFFICES ASSUME hpc[g] = "db_incr"
                       PROVE  /\ sets'[hreq[g].rev].id = 0
                              /\ \A f \in Handlers \ {g} :
                                   hpc'[f] = "db_incr" => hreq'[f].rev # hreq[g].rev
          OBVIOUS
        <5>2. hreq[g].rev \in DOMAIN sets /\ sets[hreq[g].rev].id = 0
          BY <4>2, <5>1 DEF HandlerConf, InHand, Setting
        <5>3. hreq[g].rev # r.rev
          BY <2>1, <3>2, <4>2, <5>1 DEF HandlerConf
        <5>4. \A f \in Handlers \ {g} : hpc'[f] = "db_incr" => hreq'[f].rev # hreq[g].rev
          BY <2>1, <4>2, <5>1 DEF HandlerConf, TypeOK
        <5> QED
          BY <2>3, <5>2, <5>3, <5>4
      <4> QED
        BY <4>1, <4>3, <4>4, <4>5 DEF HandlerConf
    <3> QED
      BY <3>1, <3>2
  <2> QED
    BY <2>1, <2>4, <2>7, GrownKeepsConf DEF ConfInv
<1>5. ASSUME SetStores(h) PROVE ConfInv'
  <2>1. /\ hpc[h] = "db_set" /\ HandlerDone(h)
        /\ docs' = [docs EXCEPT ![hdoc[h].id] = hdoc[h]]
        /\ UNCHANGED <<late, spc, snow, queue, cur, sets, fires, now>>
    BY <1>5 DEF SetStores, scanVars, workVars, boundVars
  <2>2. ConfiguredIn(hdoc[h], sets) /\ hdoc[h].id \in Ids
    BY <2>1 DEF ConfInv, HandlerConf, TypeOK, InHand, DocType
  <2> QED
    BY <2>1, <2>2, WriteConf, HandlerDoneConf, ScansSame DEF ConfInv
<1>6. ASSUME DeleteStores(h) PROVE ConfInv'
  <2>1. /\ hpc[h] = "db_delete" /\ HandlerDone(h)
        /\ docs' = [docs EXCEPT ![hreq[h].id] = NoDoc]
        /\ UNCHANGED <<late, spc, snow, queue, cur, sets, fires, now>>
    BY <1>6 DEF DeleteStores, scanVars, workVars, boundVars
  <2>2. hreq[h].id \in Ids
    BY <2>1 DEF InHand
  <2> QED
    BY <2>1, <2>2, WriteConf, HandlerDoneConf, ScansSame DEF ConfInv
<1>7. ASSUME HandlerFails(h) PROVE ConfInv'
  <2>1. /\ HandlerDone(h)
        /\ UNCHANGED <<docs, spc, snow, queue, cur, sets, fires, now>>
    BY <1>7 DEF HandlerFails, scanVars, workVars
  <2>2. \/ LostOrLate(Write(hdoc[h].id, hdoc[h])) /\ hpc[h] = "db_set"
        \/ LostOrLate(Write(hreq[h].id, NoDoc))
        \/ late' = late
    BY <1>7 DEF HandlerFails, TypeOK
  <2>3. StoreConf'
    <3>1. CASE LostOrLate(Write(hdoc[h].id, hdoc[h])) /\ hpc[h] = "db_set"
      BY <2>1, <3>1, LateConf DEF ConfInv, HandlerConf
    <3>2. CASE LostOrLate(Write(hreq[h].id, NoDoc))
      BY <2>1, <3>2, LateConf DEF ConfInv
    <3>3. CASE late' = late
      BY <2>1, <3>3 DEF ConfInv, StoreConf
    <3> QED
      BY <2>2, <3>1, <3>2, <3>3
  <2> QED
    BY <2>1, <2>3, HandlerDoneConf, ScansSame DEF ConfInv
<1> QED
  BY <1>1, <1>2, <1>3, <1>4, <1>5, <1>6, <1>7 DEF HandlerStep

LEMMA ScanStepConf ==
  ASSUME TypeOK, InHand, TypeOK', ConfInv, NEW s \in Scans
  PROVE  /\ StartScan(s) => ConfInv'
         /\ ScanStep(s) => ConfInv'
         /\ ScanFault(s) => ConfInv'
<1> DEFINE same == UNCHANGED <<hpc, hreq, hdoc, sets, now>>
<1>a. /\ StoreConf /\ \A r \in Scans : ScanConf(r)
      /\ \A i \in DOMAIN fires : AskedIn(fires[i], sets)
  BY DEF ConfInv
<1>b. Holds(s) => cur[s].doc.id \in Ids /\ cur[s].doc \in DocType /\ cur[s] \in FireType
  BY HeldFire
\* A scan that takes up its next fire, or ends.
<1>c. ASSUME same, StoreConf', fires' = fires, NEW q, TakeNext(s, q),
             \A f \in q : OwedIn(f, snow[s], sets)
      PROVE  ConfInv'
  BY <1>c, <1>a, TakeNextConf, HandlersSame DEF ConfInv
<1>d. ASSUME same, StoreConf', fires' = fires, NEW d, ConfiguredIn(d, sets),
             NEW pc \in {"errget", "errput"},
             cur' = [cur EXCEPT ![s].doc = d] \/ (cur' = cur /\ pc = "errget"),
             spc' = [spc EXCEPT ![s] = pc], Holds(s),
             UNCHANGED <<snow, queue>>
      PROVE  ConfInv'
  <2>1. ASSUME NEW r \in Scans PROVE ScanConf(r)'
    BY <1>a, <1>b, <1>d DEF ScanConf, TypeOK, FireType
  <2> QED
    BY <2>1, <1>a, <1>d, HandlersSame DEF ConfInv
<1>1. ASSUME StartScan(s) PROVE ConfInv'
  <2>1. /\ spc[s] = "idle" /\ spc' = [spc EXCEPT ![s] = "db_keys"]
        /\ snow' = [snow EXCEPT ![s] = now]
        /\ UNCHANGED <<docs, late, queue, cur, fires>> /\ same
    BY <1>1 DEF StartScan, handlerVars, boundVars
  <2>2. ASSUME NEW r \in Scans PROVE ScanConf(r)'
    <3>1. now \in Nat /\ snow[s] \in Nat /\ \A f \in queue[s] : f.due \in Nat
      BY DEF TypeOK, FireType
    <3> QED
      BY <1>a, <2>1, <3>1 DEF ScanConf, OwedIn, TypeOK
  <2> QED
    BY <2>1, <2>2, <1>a, HandlersSame DEF ConfInv, StoreConf
<1>2. ASSUME ListKeys(s) PROVE ConfInv'
  <2>1. UNCHANGED <<docs, late, fires>> /\ same /\ spc[s] = "db_keys"
    BY <1>2 DEF ListKeys, handlerVars, boundVars
  <2>2. CASE TakeNext(s, {})
    BY <2>1, <2>2, <1>a, <1>c DEF StoreConf
  <2>3. CASE /\ spc' = [spc EXCEPT ![s] = "db_batch_get"]
             /\ UNCHANGED <<snow, queue, cur>>
    <3>1. \A r \in Scans : ScanConf(r)'
      BY <2>1, <2>3, <1>a DEF ScanConf, TypeOK
    <3> QED
      BY <3>1, <2>1, <1>a, HandlersSame DEF ConfInv, StoreConf
  <2> QED
    BY <1>2, <2>2, <2>3 DEF ListKeys
<1>3. ASSUME ReadDocs(s) PROVE ConfInv'
  <2>1. /\ UNCHANGED <<docs, late, fires>> /\ same
        /\ TakeNext(s, DueFires(skeys[s], snow[s]))
    BY <1>3 DEF ReadDocs, handlerVars, boundVars
  <2>2. skeys[s] \in SUBSET Ids /\ snow[s] \in Nat
    BY DEF TypeOK
  <2>3. \A f \in DueFires(skeys[s], snow[s]) : OwedIn(f, snow[s], sets)
    BY <2>2, <1>a, DueIsOwed
  <2> QED
    BY <2>1, <2>3, <1>a, <1>c DEF StoreConf
<1>4. ASSUME ListFails(s) PROVE ConfInv'
  <2>1. UNCHANGED <<docs, late, fires>> /\ same /\ TakeNext(s, {})
    BY <1>4 DEF ListFails, handlerVars
  <2> QED
    BY <2>1, <1>a, <1>c DEF StoreConf
\* The mark changes neither the identity nor the configuration.
<1>5. ASSUME spc[s] = "mark" PROVE ConfiguredIn(Marked(cur[s]), sets)
  BY <1>5, <1>a, <1>b, MarkedFacts DEF ScanConf, OwedIn, ConfiguredIn, Holds
<1>6. ASSUME spc[s] = "mark", same, StoreConf', fires' = fires,
             cur' = [cur EXCEPT ![s].doc = Marked(cur[s])],
             spc' = [spc EXCEPT ![s] = "dispatch"], UNCHANGED <<snow, queue>>
      PROVE  ConfInv'
  <2>1. cur'[s].doc = Marked(cur[s]) /\ cur'[s].due = cur[s].due
    BY <1>6, <1>b DEF TypeOK, Holds, FireType
  <2>2. OwedIn(cur'[s], snow[s], sets)
    BY <2>1, <1>a, <1>b, <1>5, <1>6, MarkedFacts DEF ScanConf, OwedIn, Holds
  <2>3. ASSUME NEW r \in Scans PROVE ScanConf(r)'
    BY <1>a, <1>6, <2>2 DEF ScanConf, TypeOK
  <2> QED
    BY <2>3, <1>a, <1>6, HandlersSame DEF ConfInv
<1>7. ASSUME MarkFired(s) PROVE ConfInv'
  <2>1. /\ docs' = [docs EXCEPT ![Marked(cur[s]).id] = Marked(cur[s])]
        /\ spc[s] = "mark" /\ UNCHANGED <<late, fires, snow, queue>> /\ same
        /\ cur' = [cur EXCEPT ![s].doc = Marked(cur[s])]
        /\ spc' = [spc EXCEPT ![s] = "dispatch"]
    BY <1>7 DEF MarkFired, handlerVars, boundVars
  <2>2. Marked(cur[s]).id \in Ids
    BY <2>1, <1>b, MarkedFacts DEF Holds
  <2> QED
    BY <2>1, <2>2, <1>5, <1>6, <1>a, WriteConf
<1>8. ASSUME MarkFails(s) PROVE ConfInv'
  <2>1. /\ docs' = docs /\ LostOrLate(Write(Marked(cur[s]).id, Marked(cur[s])))
        /\ spc[s] = "mark" /\ UNCHANGED <<fires, snow, queue>> /\ same
        /\ cur' = [cur EXCEPT ![s].doc = Marked(cur[s])]
        /\ spc' = [spc EXCEPT ![s] = "dispatch"]
    BY <1>8 DEF MarkFails, handlerVars
  <2> QED
    BY <2>1, <1>5, <1>6, <1>a, LateConf
<1>9. ASSUME Dispatch(s) PROVE ConfInv'
  <2>1. /\ spc[s] = "dispatch" /\ fires' = Append(fires, Fired(s))
        /\ TakeNext(s, queue[s]) /\ UNCHANGED <<docs, late>> /\ same
    BY <1>9 DEF Dispatch, handlerVars, boundVars
  <2>2. \A i \in DOMAIN fires' : AskedIn(fires'[i], sets')
    BY <2>1, <1>a, FiredIsAsked, FiresGrow
  <2>3. \A f \in queue[s] : OwedIn(f, snow[s], sets)
    BY <1>a DEF ScanConf
  <2>4. \A r \in Scans : ScanConf(r)'
    BY <2>1, <2>3, <1>a, TakeNextConf
  <2> QED
    BY <2>1, <2>2, <2>4, <1>a, HandlersSame DEF ConfInv, StoreConf
<1>10. ASSUME DispatchFails(s) PROVE ConfInv'
  <2>1. /\ spc[s] = "dispatch" /\ fires' = Append(fires, Fired(s))
        /\ spc' = [spc EXCEPT ![s] = "errget"]
        /\ UNCHANGED <<docs, late, snow, queue, cur>> /\ same
    BY <1>10 DEF DispatchFails, handlerVars
  <2>2. \A i \in DOMAIN fires' : AskedIn(fires'[i], sets')
    BY <2>1, <1>a, FiredIsAsked, FiresGrow
  <2>3. \A r \in Scans : ScanConf(r)'
    BY <2>1, <1>a DEF ScanConf, TypeOK
  <2> QED
    BY <2>1, <2>2, <2>3, <1>a, HandlersSame DEF ConfInv, StoreConf
<1>11. ASSUME ReadForError(s) PROVE ConfInv'
  <2> DEFINE d == docs[cur[s].doc.id]
             e == [d EXCEPT !.err = TRUE]
  <2>1. UNCHANGED <<docs, late, fires>> /\ same /\ spc[s] = "errget"
    BY <1>11 DEF ReadForError, handlerVars, boundVars
  <2>2. CASE TakeNext(s, queue[s])
    BY <2>1, <2>2, <1>a, <1>c DEF StoreConf, ScanConf
  <2>3. CASE /\ d # NoDoc /\ cur' = [cur EXCEPT ![s].doc = e]
             /\ spc' = [spc EXCEPT ![s] = "errput"] /\ UNCHANGED <<snow, queue>>
    <3>1. d \in DocType /\ ConfiguredIn(d, sets)
      BY <2>1, <2>3, <1>a, <1>b DEF StoreConf, TypeOK, Holds
    <3>2. e.rev = d.rev /\ e.id = d.id /\ e.cfg = d.cfg
      BY <3>1 DEF DocType
    <3> HIDE DEF d, e
    <3>3. ConfiguredIn(e, sets)
      BY <3>1, <3>2 DEF ConfiguredIn
    <3> QED
      BY <2>1, <2>3, <3>3, <1>a, <1>d DEF Holds, StoreConf
  <2> QED
    BY <1>11, <2>2, <2>3 DEF ReadForError
<1>12. ASSUME TruncatePanics(s) PROVE ConfInv'
  <2>1. UNCHANGED <<docs, late, fires>> /\ same /\ TakeNext(s, {})
    BY <1>12 DEF TruncatePanics, handlerVars
  <2> QED
    BY <2>1, <1>a, <1>c DEF StoreConf
<1>13. ASSUME RecordError(s) PROVE ConfInv'
  <2>1. /\ docs' = [docs EXCEPT ![cur[s].doc.id] = cur[s].doc] /\ spc[s] = "errput"
        /\ UNCHANGED <<late, fires>> /\ same /\ TakeNext(s, queue[s])
    BY <1>13 DEF RecordError, handlerVars, boundVars
  <2>2. StoreConf'
    BY <2>1, <1>a, <1>b, WriteConf DEF ScanConf, Holds
  <2> QED
    BY <2>1, <2>2, <1>a, <1>c DEF ScanConf
<1>14. ASSUME RecordErrorFails(s) PROVE ConfInv'
  <2>1. /\ UNCHANGED <<docs, fires>> /\ same /\ TakeNext(s, queue[s])
        /\ IF spc[s] = "errput" THEN LostOrLate(Write(cur[s].doc.id, cur[s].doc))
                                ELSE late' = late
    BY <1>14 DEF RecordErrorFails, handlerVars
  <2>2. StoreConf'
    <3>1. CASE spc[s] = "errput"
      BY <2>1, <3>1, <1>a, LateConf DEF ScanConf
    <3>2. CASE spc[s] # "errput"
      BY <2>1, <3>2, <1>a DEF StoreConf
    <3> QED
      BY <3>1, <3>2
  <2> QED
    BY <2>1, <2>2, <1>a, <1>c DEF ScanConf
<1> QED
  BY <1>1, <1>2, <1>3, <1>4, <1>7, <1>8, <1>9, <1>10, <1>11, <1>12, <1>13, <1>14
  DEF ScanStep, ScanFault

LEMMA LateWriteConf ==
  ASSUME TypeOK, InHand, ConfInv, NEW w \in late, LateWrite(w)
  PROVE  ConfInv'
<1>1. /\ late' \subseteq late /\ docs' \in {docs, [docs EXCEPT ![w.id] = w.doc]}
      /\ UNCHANGED <<hpc, hreq, hdoc, spc, snow, queue, cur, sets, fires, now>>
  BY DEF LateWrite, handlerVars, scanVars, workVars, boundVars
<1>2. w.id \in Ids /\ (w.doc # NoDoc => ConfiguredIn(w.doc, sets))
  BY DEF TypeOK, ConfInv, StoreConf
<1>3. StoreConf'
  BY <1>1, <1>2, WriteConf DEF ConfInv, StoreConf
<1> QED
  BY <1>1, <1>3, ScansSame, HandlersSame DEF ConfInv

\* A crash leaves the writes under way to the database and forgets the rest.
LEMMA CrashConf ==
  ASSUME TypeOK, InHand, ConfInv, Crash
  PROVE  ConfInv'
<1>1. /\ late' = late \cup InFlightWrites /\ Idle /\ UNCHANGED <<docs, sets, fires, now>>
  BY DEF Crash
<1>2. ASSUME NEW w \in InFlightWrites, w.doc # NoDoc
      PROVE  ConfiguredIn(w.doc, sets)
  <2>1. CASE \E h \in Handlers : hpc[h] = "db_set" /\ w.doc = hdoc[h]
    BY <2>1 DEF ConfInv, HandlerConf
  <2>2. CASE w.doc = NoDoc
    BY <2>2, <1>2
  <2>3. CASE \E s \in Scans : spc[s] = "mark" /\ w.doc = Marked(cur[s])
    <3>1. PICK s \in Scans : spc[s] = "mark" /\ w.doc = Marked(cur[s])
      BY <2>3
    <3>2. cur[s] \in FireType /\ ConfiguredIn(cur[s].doc, sets)
      BY <3>1, HeldFire DEF Holds, ConfInv, ScanConf, OwedIn
    <3> QED
      BY <3>1, <3>2, MarkedFacts DEF ConfiguredIn
  <2>4. CASE \E s \in Scans : spc[s] = "errput" /\ w.doc = cur[s].doc
    BY <2>4 DEF ConfInv, ScanConf
  <2> QED
    BY <2>1, <2>2, <2>3, <2>4 DEF InFlightWrites, Write
<1>3. StoreConf'
  BY <1>1, <1>2 DEF ConfInv, StoreConf
<1>4. \A h \in Handlers : HandlerConf(h)'
  BY <1>1 DEF Idle, HandlerConf
<1>5. \A s \in Scans : ScanConf(s)'
  BY <1>1 DEF Idle, ScanConf, TypeOK
<1> QED
  BY <1>1, <1>3, <1>4, <1>5 DEF ConfInv

LEMMA ConfStep ==
  ASSUME TypeOK, InHand, ConfInv, [Next]_vars
  PROVE  ConfInv'
<1>1. TypeOK'
  BY TypeStep
<1>2. ASSUME Restart PROVE ConfInv'
  BY <1>2, ScansSame, HandlersSame
  DEF Restart, ConfInv, StoreConf, handlerVars, scanVars, workVars, boundVars
<1>3. ASSUME Tick PROVE ConfInv'
  <2>1. /\ now' = now + 1
        /\ UNCHANGED <<docs, late, hpc, hreq, hdoc, spc, snow, queue, cur, sets, fires>>
    BY <1>3 DEF Tick, handlerVars, scanVars, workVars
  <2>2. \A s \in Scans : ScanConf(s)'
    BY <2>1 DEF ConfInv, ScanConf, TypeOK
  <2> QED
    BY <2>1, <2>2, HandlersSame DEF ConfInv, StoreConf
<1>4. CASE UNCHANGED vars
  BY <1>4, ScansSame, HandlersSame
  DEF vars, ConfInv, StoreConf, handlerVars, scanVars, workVars, boundVars
<1> QED
  BY <1>1, <1>2, <1>3, <1>4, HandlerStepConf, ScanStepConf, LateWriteConf, CrashConf
  DEF Next

(* Whatever is dispatched is due and was asked for: it comes from an       *)
(* enabled configuration that a schedule_set stored under the same id and  *)
(* that has this deadline, for any number of scans at once, failed, late   *)
(* and lost writes, and crashes (fire_due, mark_fired, record_last_error). *)
THEOREM FiresAreConfiguredHolds == Spec => []FiresAreConfigured
<1> DEFINE Inv == TypeOK /\ InHand /\ ConfInv
<1>1. Init => Inv
  BY TypeInit, ConfInit
<1>2. Inv /\ [Next]_vars => Inv'
  BY TypeStep, ConfStep
<1>3. Inv => FiresAreConfigured
  BY ConfImplies
<1> HIDE DEF Inv
<1> QED
  BY <1>1, <1>2, <1>3, PTL DEF Spec

=============================================================================
