--------------------------- MODULE Calendar_proofs ---------------------------
(***************************************************************************)
(* Theorems about Calendar, for any number of events, requests, scans,     *)
(* failures and crashes. ShapeInv types the tasks, the writes and the      *)
(* documents; CopyInv says that a plan names one event among all copies of *)
(* documents that are stored, being written or held by a scan;             *)
(* WithdrawnInv and TwiceInv follow a reminder through these copies.       *)
(***************************************************************************)
EXTENDS Calendar, FiniteSetTheorems, TLAPS

-----------------------------------------------------------------------------
(* The shape of the state                                                  *)

PatchType == [start : Nat \cup {Keep}, lead : Int \cup {Keep}, end : BOOLEAN]

\* The document of a create that has no id yet.
DraftType == [id : {0}, plan : Plans, start : Nat, lead : Int \cup {NoLead},
              fired : BOOLEAN]

HandlerType ==
  [pc : {"idle", "db_incr", "db_get", "db_set", "db_delete"}, id : Nat,
   plan : 0..MaxRequests, patch : PatchType, doc : DocType \cup DraftType \cup {NoDoc}]

ScanType ==
  [pc : {"idle", "db_keys", "db_batch_get", "mark", "publish", "notify"}, at : Nat,
   keys : SUBSET Ids, queue : SUBSET DocType, cur : DocType \cup {NoDoc},
   gone : SUBSET Plans]

WriteType == [id : Ids, doc : DocType \cup {NoDoc}]

\* What a request task waits for tells what it has.
HandlerOK(t) ==
  /\ t \in HandlerType
  /\ t.pc = "db_incr" => t.plan # 0 /\ t.doc \in DraftType /\ t.doc.plan = t.plan
  /\ t.pc = "db_get" => t.plan # 0 /\ t.id \in Ids
  /\ t.pc = "db_set" => t.doc \in DocType /\ t.doc.id = t.id
  /\ t.pc = "db_delete" => t.id \in Ids /\ t.doc = NoDoc

ScanOK(t) ==
  /\ t \in ScanType
  /\ t.pc \in {"mark", "publish"} => t.cur \in DocType

WriteOK(w) == w \in WriteType /\ (w.doc # NoDoc => w.doc.id = w.id)

ShapeInv ==
  /\ docs \in [Ids -> DocType \cup {NoDoc}]
  /\ \A k \in Ids : docs[k] # NoDoc => docs[k].id = k
  /\ counter \in Nat
  /\ \A w \in late : WriteOK(w)
  /\ DOMAIN handler = Handlers /\ \A h \in Handlers : HandlerOK(handler[h])
  /\ DOMAIN scan = Scans /\ \A s \in Scans : ScanOK(scan[s])
  /\ handler = [h \in Handlers |-> handler[h]] /\ scan = [s \in Scans |-> scan[s]]
  /\ marked \cup undone \cup orphaned \cup withdrawn \subseteq Plans
  /\ requests \in 0..MaxRequests /\ now \in Nat

LEMMA DocFields ==
  ASSUME NEW d \in DocType
  PROVE  /\ d.id \in Ids /\ d.id \in Nat \ {0} /\ d.plan \in Plans
         /\ d.start \in Nat /\ d.lead \in Int \cup {NoLead} /\ d.fired \in BOOLEAN
  BY CalendarAssumption DEF DocType

LEMMA MarkOfShape ==
  ASSUME NEW d \in DocType
  PROVE  /\ MarkOf(d) \in DocType /\ MarkOf(d).fired
         /\ MarkOf(d).id = d.id /\ MarkOf(d).plan = d.plan
  BY DEF MarkOf, DocType

LEMMA PatchedShape ==
  ASSUME NEW d \in DocType, NEW p \in PatchType, NEW q \in Plans
  PROVE  /\ Patched(d, p, q) \in DocType
         /\ Patched(d, p, q).id = d.id
         /\ \/ Patched(d, p, q).plan = d.plan /\ Patched(d, p, q).fired = d.fired
            \/ Patched(d, p, q).plan = q
<1> DEFINE c == TimesChanged(d, p)
           d1 == [d EXCEPT !.start = IF p.start = Keep THEN d.start ELSE p.start]
           d2 == [d1 EXCEPT !.lead = IF p.lead = Keep THEN d.lead ELSE p.lead]
           d3 == [d2 EXCEPT !.plan = IF c THEN q ELSE d.plan]
           d4 == [d3 EXCEPT !.fired = d.fired /\ ~c]
<1>1. Patched(d, p, q) = d4
  BY DEF Patched, DocType
<1>2. p.start \in Nat \cup {Keep} /\ p.lead \in Int \cup {Keep}
  BY DEF PatchType
<1>3. c \in BOOLEAN
  BY DEF TimesChanged, PatchType
<1> HIDE DEF c
<1>4. d1 \in DocType /\ d1.id = d.id /\ d1.plan = d.plan /\ d1.fired = d.fired
      /\ d1.lead = d.lead
  BY <1>2 DEF DocType
<1> HIDE DEF d1
<1>5. d2 \in DocType /\ d2.id = d.id /\ d2.plan = d.plan /\ d2.fired = d.fired
  BY <1>2, <1>4, DocFields DEF DocType
<1> HIDE DEF d2
<1>6. d3 \in DocType /\ d3.id = d.id /\ d3.plan = (IF c THEN q ELSE d.plan)
      /\ d3.fired = d.fired
  BY <1>5, DocFields DEF DocType
<1> HIDE DEF d3
<1>7. d4 \in DocType /\ d4.id = d.id /\ d4.plan = (IF c THEN q ELSE d.plan)
      /\ d4.fired = (d.fired /\ ~c)
  BY <1>3, <1>6, DocFields DEF DocType
<1> QED
  BY <1>1, <1>3, <1>7, DocFields

LEMMA IdleHandlerOK == HandlerOK(IdleHandler)
  BY CalendarAssumption DEF HandlerOK, IdleHandler, HandlerType, NoPatch, PatchType

LEMMA IdleScanOK == ScanOK(IdleScan)
  BY DEF ScanOK, IdleScan, ScanType

\* What accepted requests start with.
CreateTask(shape) ==
  [IdleHandler EXCEPT !.pc = "db_incr", !.plan = requests + 1,
                      !.doc = NewDoc(shape, requests + 1)]

UpdateTask(id, patch) ==
  [IdleHandler EXCEPT !.pc = "db_get", !.id = id, !.patch = patch, !.plan = requests + 1]

DeleteTask(id) == [IdleHandler EXCEPT !.pc = "db_delete", !.id = id]

LEMMA CreateBegun ==
  ASSUME requests \in Nat, requests < MaxRequests, NEW shape \in Creates
  PROVE  LET t == CreateTask(shape) IN
         HandlerOK(t) /\ t.pc = "db_incr" /\ t.plan = requests + 1
<1>1. requests + 1 \in Plans /\ requests + 1 \in 0..MaxRequests /\ requests + 1 # 0
  BY CalendarAssumption DEF Plans
<1>2. NewDoc(shape, requests + 1) \in DraftType
      /\ NewDoc(shape, requests + 1).plan = requests + 1
  BY <1>1, CalendarAssumption DEF NewDoc, DraftType
<1> QED
  BY <1>1, <1>2, CalendarAssumption
  DEF CreateTask, HandlerOK, IdleHandler, HandlerType, NoPatch, PatchType

LEMMA UpdateBegun ==
  ASSUME requests \in Nat, requests < MaxRequests, NEW id \in Ids, NEW p \in Patches
  PROVE  LET t == UpdateTask(id, p) IN
         HandlerOK(t) /\ t.pc = "db_get" /\ t.plan = requests + 1
<1>1. requests + 1 \in 0..MaxRequests /\ requests + 1 # 0
  BY CalendarAssumption
<1>2. p \in PatchType /\ id \in Nat
  BY CalendarAssumption DEF PatchType
<1> QED
  BY <1>1, <1>2 DEF UpdateTask, HandlerOK, IdleHandler, HandlerType

LEMMA DeleteBegun ==
  ASSUME NEW id \in Ids
  PROVE  HandlerOK(DeleteTask(id)) /\ DeleteTask(id).pc = "db_delete"
<1>1. IdleHandler \in HandlerType /\ IdleHandler.doc = NoDoc /\ id \in Nat
  BY IdleHandlerOK, CalendarAssumption DEF HandlerOK, IdleHandler
<1> DEFINE t == DeleteTask(id)
<1>2. t \in HandlerType /\ t.pc = "db_delete" /\ t.id = id /\ t.doc = NoDoc
  BY <1>1 DEF HandlerType, DeleteTask
<1> QED
  BY <1>2 DEF HandlerOK

\* A stored document lies under its id.
LEMMA StoreShape ==
  ASSUME ShapeInv, NEW w, WriteOK(w), Store(w)
  PROVE  /\ docs' \in [Ids -> DocType \cup {NoDoc}]
         /\ \A k \in Ids : docs'[k] = IF k = w.id THEN w.doc ELSE docs[k]
         /\ \A k \in Ids : docs'[k] # NoDoc => docs'[k].id = k
         /\ marked' \cup undone' \subseteq Plans
<1>1. w.id \in Ids /\ w.doc \in DocType \cup {NoDoc} /\ (w.doc # NoDoc => w.doc.id = w.id)
  BY DEF WriteOK, WriteType
<1>2. docs' = [docs EXCEPT ![w.id] = w.doc]
  BY DEF Store
<1>3. \A k \in Ids : docs'[k] = IF k = w.id THEN w.doc ELSE docs[k]
  BY <1>2 DEF ShapeInv
<1>4. w.doc # NoDoc => w.doc.plan \in Plans
  BY <1>1, DocFields
<1>5. marked' \cup undone' \subseteq Plans
  <2>1. CASE w.doc = NoDoc
    BY <2>1 DEF Store, ShapeInv
  <2>2. CASE w.doc # NoDoc
    <3>1. marked' \subseteq marked \cup {w.doc.plan} /\ undone' \subseteq undone \cup {w.doc.plan}
      BY <2>2 DEF Store
    <3> QED
      BY <1>4, <2>2, <3>1 DEF ShapeInv
  <2> QED
    BY <2>1, <2>2
<1> QED
  BY <1>1, <1>2, <1>3, <1>5 DEF ShapeInv

\* One task changes, to a shape that fits.
LEMMA HandlerShape ==
  ASSUME ShapeInv, NEW h \in Handlers, NEW t, HandlerOK(t), handler' = [handler EXCEPT ![h] = t]
  PROVE  /\ DOMAIN handler' = Handlers /\ \A g \in Handlers : HandlerOK(handler'[g])
         /\ handler' = [g \in Handlers |-> handler'[g]]
         /\ \A g \in Handlers : handler'[g] = IF g = h THEN t ELSE handler[g]
  BY DEF ShapeInv

LEMMA ScanShape ==
  ASSUME ShapeInv, NEW s \in Scans, NEW t, ScanOK(t), scan' = [scan EXCEPT ![s] = t]
  PROVE  /\ DOMAIN scan' = Scans /\ \A r \in Scans : ScanOK(scan'[r])
         /\ scan' = [r \in Scans |-> scan'[r]]
         /\ \A r \in Scans : scan'[r] = IF r = s THEN t ELSE scan[r]
  BY DEF ShapeInv

\* The next state of a request task.
LEMMA TakeIdShape ==
  ASSUME ShapeInv, NEW h \in Handlers, TakeId(h)
  PROVE  \E t : /\ HandlerOK(t) /\ handler' = [handler EXCEPT ![h] = t]
                /\ t.pc = "db_set" /\ t.doc.plan = handler[h].plan /\ t.doc.id = counter + 1
                /\ t.id = counter + 1
<1> DEFINE f1 == [handler EXCEPT ![h].pc = "db_set"]
           f2 == [f1 EXCEPT ![h].id = counter + 1]
           f3 == [f2 EXCEPT ![h].doc.id = counter + 1]
<1>1. /\ handler \in [Handlers -> HandlerType]
      /\ handler[h].doc \in DraftType /\ handler[h].doc.plan = handler[h].plan
      /\ counter + 1 \in Ids /\ counter + 1 \in Nat
  BY CalendarAssumption DEF TakeId, ShapeInv, HandlerOK
<1>2. handler' = f3
  BY DEF TakeId
<1>3. /\ f1 \in [Handlers -> HandlerType] /\ \A g \in Handlers : g # h => f1[g] = handler[g]
      /\ f1[h].pc = "db_set" /\ f1[h].doc = handler[h].doc
  BY <1>1 DEF HandlerType
<1> HIDE DEF f1
<1>4. /\ f2 \in [Handlers -> HandlerType] /\ \A g \in Handlers : g # h => f2[g] = handler[g]
      /\ f2[h].pc = "db_set" /\ f2[h].doc = handler[h].doc /\ f2[h].id = counter + 1
  BY <1>1, <1>3 DEF HandlerType
<1> HIDE DEF f2
<1> DEFINE d == [f2[h].doc EXCEPT !.id = counter + 1]
<1>5. d \in DocType /\ d.id = counter + 1 /\ d.plan = handler[h].plan
  BY <1>1, <1>4 DEF DraftType, DocType
<1>6. f3 = [f2 EXCEPT ![h].doc = d]
  BY <1>4
<1> HIDE DEF d, f3
<1>7. /\ f3 \in [Handlers -> HandlerType] /\ \A g \in Handlers : g # h => f3[g] = handler[g]
      /\ f3[h].pc = "db_set" /\ f3[h].doc = d /\ f3[h].id = counter + 1
  BY <1>4, <1>5, <1>6 DEF HandlerType
<1>8. PICK t : t = f3[h]
  OBVIOUS
<1>9. HandlerOK(t) /\ handler' = [handler EXCEPT ![h] = t]
  BY <1>1, <1>2, <1>5, <1>7, <1>8 DEF HandlerOK
<1> QED
  BY <1>5, <1>7, <1>8, <1>9

\* What an update is about to put: the document it has read, with its own plan if
\* it changes the times.
ReadFrom(d, t, plan) ==
  /\ d \in DocType /\ t.doc.id = d.id
  /\ (t.doc.plan = d.plan /\ t.doc.fired = d.fired) \/ t.doc.plan = plan

LEMMA ReadShape ==
  ASSUME ShapeInv, NEW h \in Handlers, ReadForUpdate(h)
  PROVE  \/ HandlerDone(h)
         \/ \E t : /\ HandlerOK(t) /\ handler' = [handler EXCEPT ![h] = t]
                   /\ t.pc = "db_set" /\ t.id = handler[h].id
                   /\ ReadFrom(docs[handler[h].id], t, handler[h].plan)
<1> SUFFICES ASSUME ~HandlerDone(h)
             PROVE  \E t : /\ HandlerOK(t) /\ handler' = [handler EXCEPT ![h] = t]
                           /\ t.pc = "db_set" /\ t.id = handler[h].id
                           /\ ReadFrom(docs[handler[h].id], t, handler[h].plan)
  OBVIOUS
<1>0. PICK d : d = docs[handler[h].id]
  OBVIOUS
<1>1. PICK e : e = Patched(d, handler[h].patch, handler[h].plan)
  OBVIOUS
<1> DEFINE f1 == [handler EXCEPT ![h].pc = "db_set"]
           f2 == [f1 EXCEPT ![h].doc = e]
<1>2. /\ handler \in [Handlers -> HandlerType] /\ handler[h].id \in Ids /\ handler[h].plan # 0
      /\ handler' = f2 /\ d # NoDoc
  BY <1>0, <1>1 DEF ReadForUpdate, ShapeInv, HandlerOK
<1>3. /\ d \in DocType /\ d.id = handler[h].id /\ handler[h].plan \in Plans
      /\ handler[h].patch \in PatchType
  <2>1. handler[h].plan \in 0..MaxRequests /\ handler[h].patch \in PatchType
    BY <1>2 DEF HandlerType
  <2>2. d \in DocType /\ d.id = handler[h].id
    BY <1>0, <1>2 DEF ShapeInv
  <2> QED
    BY <1>2, <2>1, <2>2, CalendarAssumption DEF Plans
<1>4. e \in DocType /\ e.id = d.id
      /\ ((e.plan = d.plan /\ e.fired = d.fired) \/ e.plan = handler[h].plan)
  BY <1>1, <1>3, PatchedShape
<1>5. /\ f1 \in [Handlers -> HandlerType] /\ \A g \in Handlers : g # h => f1[g] = handler[g]
      /\ f1[h].pc = "db_set" /\ f1[h].id = handler[h].id
  BY <1>2 DEF HandlerType
<1> HIDE DEF f1
<1>6. /\ f2 \in [Handlers -> HandlerType] /\ \A g \in Handlers : g # h => f2[g] = handler[g]
      /\ f2[h].pc = "db_set" /\ f2[h].doc = e /\ f2[h].id = handler[h].id
  BY <1>4, <1>5 DEF HandlerType
<1> HIDE DEF f2
<1>7. PICK t : t = f2[h]
  OBVIOUS
<1>8. HandlerOK(t) /\ handler' = [handler EXCEPT ![h] = t]
  BY <1>2, <1>3, <1>4, <1>6, <1>7 DEF HandlerOK
<1>9. ReadFrom(d, t, handler[h].plan)
  BY <1>3, <1>4, <1>6, <1>7 DEF ReadFrom
<1> QED
  BY <1>0, <1>6, <1>7, <1>8, <1>9

\* The scan ends, or has taken an event from q.
Taken(t, q, gone) ==
  t = IdleScan \/ \E d \in q : /\ t.pc = "mark" /\ t.queue = q \ {d} /\ t.cur = d
                               /\ t.gone = gone

LEMMA TakeNextShape ==
  ASSUME ShapeInv, NEW s \in Scans, NEW q \in SUBSET DocType, TakeNext(s, q)
  PROVE  \E t : /\ ScanOK(t) /\ scan' = [scan EXCEPT ![s] = t]
                /\ Taken(t, q, scan[s].gone)
<1>1. CASE scan' = [scan EXCEPT ![s] = IdleScan]
  BY <1>1, IdleScanOK DEF Taken
<1>2. ASSUME NEW d \in q,
             scan' = [scan EXCEPT ![s].pc = "mark", ![s].keys = {},
                                  ![s].queue = q \ {d}, ![s].cur = d]
      PROVE  \E t : /\ ScanOK(t) /\ scan' = [scan EXCEPT ![s] = t]
                    /\ Taken(t, q, scan[s].gone)
  <2> DEFINE f1 == [scan EXCEPT ![s].pc = "mark"]
             f2 == [f1 EXCEPT ![s].keys = {}]
             f3 == [f2 EXCEPT ![s].queue = q \ {d}]
             f4 == [f3 EXCEPT ![s].cur = d]
  <2>1. scan \in [Scans -> ScanType] /\ scan' = f4 /\ d \in DocType
    BY <1>2 DEF ShapeInv, ScanOK
  <2>2. /\ f1 \in [Scans -> ScanType] /\ \A r \in Scans : r # s => f1[r] = scan[r]
        /\ f1[s].pc = "mark" /\ f1[s].gone = scan[s].gone
    BY <2>1 DEF ScanType
  <2> HIDE DEF f1
  <2>3. /\ f2 \in [Scans -> ScanType] /\ \A r \in Scans : r # s => f2[r] = scan[r]
        /\ f2[s].pc = "mark" /\ f2[s].gone = scan[s].gone
    BY <2>2 DEF ScanType
  <2> HIDE DEF f2
  <2>4. /\ f3 \in [Scans -> ScanType] /\ \A r \in Scans : r # s => f3[r] = scan[r]
        /\ f3[s].pc = "mark" /\ f3[s].gone = scan[s].gone /\ f3[s].queue = q \ {d}
    BY <2>3 DEF ScanType
  <2> HIDE DEF f3
  <2>5. /\ f4 \in [Scans -> ScanType] /\ \A r \in Scans : r # s => f4[r] = scan[r]
        /\ f4[s].pc = "mark" /\ f4[s].gone = scan[s].gone /\ f4[s].queue = q \ {d}
        /\ f4[s].cur = d
    BY <2>1, <2>4 DEF ScanType
  <2> HIDE DEF f4
  <2>6. PICK t : t = f4[s]
    OBVIOUS
  <2>7. ScanOK(t) /\ scan' = [scan EXCEPT ![s] = t] /\ Taken(t, q, scan[s].gone)
    BY <2>1, <2>5, <2>6 DEF ScanOK, Taken
  <2> QED
    BY <2>7
<1> QED
  BY <1>1, <1>2 DEF TakeNext

\* The scan only moves on.
LEMMA ScanPhase ==
  ASSUME ShapeInv, NEW s \in Scans, NEW pc \in {"publish", "notify"}, scan[s].cur \in DocType,
         scan' = [scan EXCEPT ![s].pc = pc]
  PROVE  \E t : /\ ScanOK(t) /\ scan' = [scan EXCEPT ![s] = t]
                /\ t.pc = pc /\ t.queue = scan[s].queue /\ t.cur = scan[s].cur
                /\ t.gone = scan[s].gone
<1>1. scan \in [Scans -> ScanType]
  BY DEF ShapeInv, ScanOK
<1>2. PICK t : t = scan'[s]
  OBVIOUS
<1>3. /\ t \in ScanType /\ scan' = [scan EXCEPT ![s] = t]
      /\ t.pc = pc /\ t.queue = scan[s].queue /\ t.cur = scan[s].cur
      /\ t.gone = scan[s].gone
  BY <1>1, <1>2 DEF ScanType
<1> QED
  BY <1>3 DEF ScanOK

LEMMA ListShape ==
  ASSUME ShapeInv, NEW s \in Scans, ListKeys(s)
  PROVE  \E t : /\ ScanOK(t) /\ scan' = [scan EXCEPT ![s] = t]
                /\ \/ t = IdleScan
                   \/ t.pc = "db_batch_get" /\ t.queue = scan[s].queue /\ t.gone = scan[s].gone
<1> DEFINE keys == {k \in Ids : docs[k] # NoDoc}
<1>1. CASE TakeNext(s, {})
  BY <1>1, TakeNextShape DEF Taken
<1>2. CASE scan' = [scan EXCEPT ![s].pc = "db_batch_get", ![s].keys = keys]
  <2> DEFINE f1 == [scan EXCEPT ![s].pc = "db_batch_get"]
             f2 == [f1 EXCEPT ![s].keys = keys]
  <2>1. scan \in [Scans -> ScanType] /\ scan' = f2
    BY <1>2 DEF ShapeInv, ScanOK
  <2>2. /\ f1 \in [Scans -> ScanType] /\ \A r \in Scans : r # s => f1[r] = scan[r]
        /\ f1[s].pc = "db_batch_get" /\ f1[s].gone = scan[s].gone
        /\ f1[s].queue = scan[s].queue
    BY <2>1 DEF ScanType
  <2> HIDE DEF f1
  <2>3. /\ f2 \in [Scans -> ScanType] /\ \A r \in Scans : r # s => f2[r] = scan[r]
        /\ f2[s].pc = "db_batch_get" /\ f2[s].gone = scan[s].gone
        /\ f2[s].queue = scan[s].queue
    BY <2>2 DEF ScanType
  <2> HIDE DEF f2
  <2>4. PICK t : t = f2[s]
    OBVIOUS
  <2>5. ScanOK(t) /\ scan' = [scan EXCEPT ![s] = t]
    BY <2>1, <2>3, <2>4 DEF ScanOK
  <2> QED
    BY <2>3, <2>4, <2>5
<1> QED
  BY <1>1, <1>2 DEF ListKeys

LEMMA StartShape ==
  ASSUME ShapeInv, NEW s \in Scans, StartScan(s)
  PROVE  \E t : /\ ScanOK(t) /\ scan' = [scan EXCEPT ![s] = t]
                /\ t.pc = "db_keys" /\ t.queue = {} /\ t.gone = withdrawn
<1> DEFINE t == [IdleScan EXCEPT !.pc = "db_keys", !.at = now, !.gone = withdrawn]
<1>1. IdleScan \in ScanType /\ IdleScan.queue = {} /\ withdrawn \subseteq Plans /\ now \in Nat
  BY IdleScanOK DEF ScanOK, IdleScan, ShapeInv
<1>2. /\ t \in ScanType /\ t.pc = "db_keys" /\ t.queue = {} /\ t.gone = withdrawn
  BY <1>1 DEF ScanType
<1>3. scan' = [scan EXCEPT ![s] = t]
  BY DEF StartScan
<1> HIDE DEF t
<1>4. ScanOK(t)
  BY <1>2 DEF ScanOK
<1> QED
  BY <1>2, <1>3, <1>4

\* What a scan has listed as due.
Dues(s) == {docs[k] : k \in {j \in scan[s].keys : Due(docs[j], scan[s].at)}}

LEMMA DuesShape ==
  ASSUME ShapeInv, NEW s \in Scans
  PROVE  /\ Dues(s) \in SUBSET DocType
         /\ \A d \in Dues(s) : \E k \in Ids : docs[k] = d /\ d # NoDoc /\ ~d.fired
<1>1. scan[s].keys \subseteq Ids
  BY DEF ShapeInv, ScanOK, ScanType
<1> QED
  BY <1>1 DEF Dues, Due, ShapeInv

LEMMA ReplacedPlans ==
  ASSUME ShapeInv, NEW w, WriteOK(w)
  PROVE  /\ Replaced(w) \subseteq Plans
         /\ \A p \in Replaced(w) : /\ docs[w.id] # NoDoc /\ docs[w.id].plan = p
                                   /\ w.doc # NoDoc => w.doc.plan # p
<1>1. \A p \in Replaced(w) : /\ docs[w.id] # NoDoc /\ docs[w.id].plan = p
                             /\ w.doc # NoDoc => w.doc.plan # p
  BY DEF Replaced
<1>2. docs[w.id] # NoDoc => docs[w.id].plan \in Plans
  <2>1. docs[w.id] \in DocType \cup {NoDoc}
    BY DEF ShapeInv, WriteOK, WriteType
  <2> QED
    BY <2>1, DocFields
<1> QED
  BY <1>1, <1>2

LEMMA MarkIsWrite ==
  ASSUME NEW d \in DocType
  PROVE  WriteOK(Write(d.id, MarkOf(d)))
  BY MarkOfShape, DocFields DEF WriteOK, WriteType, Write

LEMMA PutIsWrite ==
  ASSUME ShapeInv, NEW h \in Handlers, handler[h].pc \in {"db_set", "db_delete"}
  PROVE  WriteOK(Write(handler[h].id, handler[h].doc))
<1>1. HandlerOK(handler[h])
  BY DEF ShapeInv
<1> QED
  BY <1>1, DocFields DEF HandlerOK, WriteOK, WriteType, Write

LEMMA InFlightShape ==
  ASSUME ShapeInv
  PROVE  \A w \in InFlight : WriteOK(w)
<1>1. \A s \in Scans : scan[s].pc = "mark" => scan[s].cur \in DocType
  BY DEF ShapeInv, ScanOK
<1> QED
  BY <1>1, PutIsWrite, MarkIsWrite DEF InFlight

LEMMA ShapeStep ==
  ASSUME ShapeInv, [Next]_vars
  PROVE  ShapeInv'
<1>0. /\ docs \in [Ids -> DocType \cup {NoDoc}] /\ counter \in Nat
      /\ \A w \in late : WriteOK(w)
      /\ requests \in 0..MaxRequests /\ requests \in Nat /\ now \in Nat
      /\ marked \cup undone \cup orphaned \cup withdrawn \subseteq Plans
      /\ MaxRequests \in Nat
  BY CalendarAssumption DEF ShapeInv
<1>1. ASSUME NEW h \in Handlers, NEW t, Accept(h, t), HandlerOK(t)
      PROVE  ShapeInv'
  <2>1. handler' = [handler EXCEPT ![h] = t] /\ requests' = requests + 1 /\ requests' \in 0..MaxRequests
    BY <1>0, <1>1 DEF Accept, ShapeInv
  <2> QED
    BY <1>0, <1>1, <2>1, HandlerShape DEF Accept, ShapeInv, ghostVars, markVars
<1>2. ASSUME NEW h \in Handlers, NEW shape \in Creates, AcceptCreate(h, shape)
      PROVE  ShapeInv'
  <2>1. Accept(h, CreateTask(shape)) /\ requests < MaxRequests
    BY <1>2 DEF AcceptCreate, Accept, CreateTask
  <2>2. HandlerOK(CreateTask(shape))
    BY <1>0, <2>1, CreateBegun
  <2> QED
    BY <1>1, <2>1, <2>2
<1>3. ASSUME NEW h \in Handlers, NEW id \in Ids, NEW p \in Patches, AcceptUpdate(h, id, p)
      PROVE  ShapeInv'
  <2>1. Accept(h, UpdateTask(id, p)) /\ requests < MaxRequests
    BY <1>3 DEF AcceptUpdate, Accept, UpdateTask
  <2>2. HandlerOK(UpdateTask(id, p))
    BY <1>0, <2>1, UpdateBegun
  <2> QED
    BY <1>1, <2>1, <2>2
<1>4. ASSUME NEW h \in Handlers, NEW id \in Ids, AcceptDelete(h, id)
      PROVE  ShapeInv'
  <2>1. Accept(h, DeleteTask(id))
    BY <1>4 DEF AcceptDelete, DeleteTask
  <2> QED
    BY <1>1, <2>1, DeleteBegun
<1>5. ASSUME NEW h \in Handlers, TakeId(h)
      PROVE  ShapeInv'
  <2>1. PICK t : HandlerOK(t) /\ handler' = [handler EXCEPT ![h] = t]
    BY <1>5, TakeIdShape
  <2> QED
    BY <1>0, <1>5, <2>1, HandlerShape DEF TakeId, ShapeInv, ghostVars, markVars, boundVars
<1>6. ASSUME NEW h \in Handlers, ReadForUpdate(h)
      PROVE  ShapeInv'
  <2>1. PICK t : HandlerOK(t) /\ handler' = [handler EXCEPT ![h] = t]
    <3>1. CASE HandlerDone(h)
      <4>1. handler' = [handler EXCEPT ![h] = IdleHandler]
        BY <3>1 DEF HandlerDone
      <4> QED
        BY <4>1, IdleHandlerOK
    <3>2. CASE ~HandlerDone(h)
      <4>1. PICK t : HandlerOK(t) /\ handler' = [handler EXCEPT ![h] = t]
        BY <1>6, <3>2, ReadShape
      <4> QED
        BY <4>1
    <3> QED
      BY <3>1, <3>2
  <2>2. UNCHANGED <<docs, counter, late, scan, up, dues, ghostVars, boundVars>>
    BY <1>6 DEF ReadForUpdate
  <2> QED
    BY <1>0, <2>1, <2>2, HandlerShape DEF ShapeInv, ghostVars, markVars, boundVars
<1>7. ASSUME NEW h \in Handlers, PutOrDelete(h)
      PROVE  ShapeInv'
  <2>1. PICK w : w = Write(handler[h].id, handler[h].doc)
    OBVIOUS
  <2>2. WriteOK(w) /\ Store(w) /\ handler' = [handler EXCEPT ![h] = IdleHandler]
        /\ withdrawn' \subseteq withdrawn \cup Replaced(w)
    BY <1>7, <2>1, PutIsWrite DEF PutOrDelete, HandlerDone
  <2>3. /\ docs' \in [Ids -> DocType \cup {NoDoc}]
        /\ \A k \in Ids : docs'[k] # NoDoc => docs'[k].id = k
        /\ marked' \cup undone' \subseteq Plans
    BY <2>2, StoreShape
  <2>4. withdrawn' \subseteq Plans
    BY <1>0, <2>2, ReplacedPlans
  <2>5. /\ DOMAIN handler' = Handlers /\ \A g \in Handlers : HandlerOK(handler'[g])
        /\ handler' = [g \in Handlers |-> handler'[g]]
    BY <2>2, HandlerShape, IdleHandlerOK
  <2> QED
    BY <1>0, <1>7, <2>3, <2>4, <2>5 DEF PutOrDelete, ShapeInv, boundVars
<1>8. ASSUME NEW h \in Handlers, HandlerFails(h)
      PROVE  ShapeInv'
  <2>1. /\ DOMAIN handler' = Handlers /\ \A g \in Handlers : HandlerOK(handler'[g])
        /\ handler' = [g \in Handlers |-> handler'[g]]
    BY <1>8, HandlerShape, IdleHandlerOK DEF HandlerFails, HandlerDone
  <2>2. \A w \in late' : WriteOK(w)
    BY <1>0, <1>8, PutIsWrite DEF HandlerFails, LostOrLate
  <2>3. counter' \in Nat
    BY <1>0, <1>8 DEF HandlerFails
  <2> QED
    BY <1>0, <1>8, <2>1, <2>2, <2>3 DEF HandlerFails, ShapeInv, ghostVars, markVars
<1>9. ASSUME NEW s \in Scans, NEW t, ScanOK(t), scan' = [scan EXCEPT ![s] = t],
             UNCHANGED <<docs, counter, late, handler, ghostVars, boundVars>>
      PROVE  ShapeInv'
  BY <1>0, <1>9, ScanShape DEF ShapeInv, ghostVars, markVars, boundVars
<1>10. ASSUME NEW s \in Scans, StartScan(s) PROVE ShapeInv'
  BY <1>9, <1>10, StartShape DEF StartScan
<1>11. ASSUME NEW s \in Scans, ListKeys(s) PROVE ShapeInv'
  BY <1>9, <1>11, ListShape DEF ListKeys
<1>12. ASSUME NEW s \in Scans, ReadDocs(s) PROVE ShapeInv'
  <2>1. TakeNext(s, Dues(s)) /\ Dues(s) \in SUBSET DocType
    BY <1>12, DuesShape DEF ReadDocs, Dues
  <2> QED
    BY <1>9, <1>12, <2>1, TakeNextShape DEF ReadDocs
<1>13. ASSUME NEW s \in Scans, Mark(s) PROVE ShapeInv'
  <2>1. scan[s].cur \in DocType
    BY <1>13 DEF Mark, ShapeInv, ScanOK
  <2>2. PICK w : w = Write(scan[s].cur.id, MarkOf(scan[s].cur))
    OBVIOUS
  <2>3. WriteOK(w) /\ Store(w) /\ scan' = [scan EXCEPT ![s].pc = "publish"]
    BY <1>13, <2>1, <2>2, MarkIsWrite DEF Mark
  <2>4. /\ docs' \in [Ids -> DocType \cup {NoDoc}]
        /\ \A k \in Ids : docs'[k] # NoDoc => docs'[k].id = k
        /\ marked' \cup undone' \subseteq Plans
    BY <2>3, StoreShape
  <2>5. PICK t : ScanOK(t) /\ scan' = [scan EXCEPT ![s] = t]
    BY <2>1, <2>3, ScanPhase
  <2> QED
    BY <1>0, <1>13, <2>4, <2>5, ScanShape DEF Mark, ShapeInv, boundVars
<1>14. ASSUME NEW s \in Scans, ScanFails(s) PROVE ShapeInv'
  <2>1. /\ DOMAIN scan' = Scans /\ \A r \in Scans : ScanOK(scan'[r])
        /\ scan' = [r \in Scans |-> scan'[r]]
    BY <1>14, ScanShape, IdleScanOK DEF ScanFails
  <2>2. scan[s].pc = "mark" => scan[s].cur \in DocType
    BY DEF ShapeInv, ScanOK
  <2>3. \A w \in late' : WriteOK(w)
    BY <1>0, <1>14, <2>2, MarkIsWrite DEF ScanFails, LostOrLate
  <2> QED
    BY <1>0, <1>14, <2>1, <2>3 DEF ScanFails, ShapeInv, ghostVars, markVars
<1>15. ASSUME NEW s \in Scans, Publish(s) PROVE ShapeInv'
  <2>1. scan[s].cur \in DocType
    BY <1>15 DEF Publish, ShapeInv, ScanOK
  <2> QED
    BY <1>9, <1>15, <2>1, ScanPhase DEF Publish
<1>16. ASSUME NEW s \in Scans, Notified(s) PROVE ShapeInv'
  <2>1. scan[s].queue \in SUBSET DocType
    BY DEF ShapeInv, ScanOK, ScanType
  <2> QED
    BY <1>9, <1>16, <2>1, TakeNextShape DEF Notified
<1>17. ASSUME NEW w \in late, LateWrite(w) PROVE ShapeInv'
  <2>1. late' \subseteq late /\ WriteOK(w)
    BY <1>0, <1>17 DEF LateWrite
  <2>2. CASE Store(w) /\ orphaned' = IF IsMark(w) THEN orphaned \cup {w.doc.plan} ELSE orphaned
    <3>1. /\ docs' \in [Ids -> DocType \cup {NoDoc}]
          /\ \A k \in Ids : docs'[k] # NoDoc => docs'[k].id = k
          /\ marked' \cup undone' \subseteq Plans
      BY <2>1, <2>2, StoreShape
    <3>2. IsMark(w) => w.doc.plan \in Plans
      BY <2>1, DocFields DEF IsMark, WriteOK, WriteType
    <3>3. orphaned' \subseteq Plans
      BY <1>0, <2>2, <3>2
    <3> QED
      BY <1>0, <1>17, <2>1, <3>1, <3>3 DEF LateWrite, ShapeInv, boundVars
  <2>3. CASE UNCHANGED <<docs, markVars>>
    BY <1>0, <1>17, <2>1, <2>3 DEF LateWrite, ShapeInv, markVars, boundVars
  <2> QED
    BY <1>17, <2>2, <2>3 DEF LateWrite
<1>18. CASE Crash
  <2>1. \A w \in late' : WriteOK(w)
    BY <1>0, <1>18, InFlightShape DEF Crash
  <2>2. \A s \in Scans : scan[s].pc = "publish" => scan[s].cur.plan \in Plans
    BY DocFields DEF ShapeInv, ScanOK
  <2>3. orphaned' \subseteq Plans
    BY <1>0, <1>18, <2>2 DEF Crash
  <2>4. /\ DOMAIN handler' = Handlers /\ \A g \in Handlers : HandlerOK(handler'[g])
        /\ handler' = [g \in Handlers |-> handler'[g]]
        /\ DOMAIN scan' = Scans /\ \A r \in Scans : ScanOK(scan'[r])
        /\ scan' = [r \in Scans |-> scan'[r]]
    BY <1>18, IdleHandlerOK, IdleScanOK DEF Crash
  <2> QED
    BY <1>0, <1>18, <2>1, <2>3, <2>4 DEF Crash, ShapeInv
<1>19. CASE Restart \/ Tick \/ UNCHANGED vars
  BY <1>0, <1>19 DEF Restart, Tick, vars, ShapeInv, ghostVars, markVars, boundVars
<1> QED
  BY <1>2, <1>3, <1>4, <1>5, <1>6, <1>7, <1>8, <1>10, <1>11, <1>12, <1>13, <1>14, <1>15,
     <1>16, <1>17, <1>18, <1>19 DEF Next, HandlerStep, ScanStep

LEMMA ShapeInit == Init => ShapeInv
<1> SUFFICES ASSUME Init PROVE ShapeInv
  OBVIOUS
<1>1. 0 \in 0..MaxRequests
  BY CalendarAssumption
<1> QED
  BY <1>1, IdleHandlerOK, IdleScanOK DEF Init, ShapeInv

-----------------------------------------------------------------------------
(* The copies of a document                                                *)

Held(t, d) == t.pc = "db_set" /\ t.doc = d

Scanned(t, d) == d \in t.queue \/ (t.pc \in {"mark", "publish"} /\ t.cur = d)

\* Copies that a write may leave in the database.
Writable(d) ==
  /\ d # NoDoc
  /\ \/ \E k \in Ids : docs[k] = d
     \/ \E w \in late : w.doc = d
     \/ \E h \in Handlers : Held(handler[h], d)

Copy(d) == Writable(d) \/ \E s \in Scans : Scanned(scan[s], d)

\* A request task that has not made its document yet.
Awaits(h) == handler[h].pc \in {"db_incr", "db_get"}

LEMMA NoDocIsNone == NoDoc \notin DocType
<1>1. Ids \subseteq Nat /\ Plans \subseteq Nat
  BY CalendarAssumption DEF Plans
<1>2. DocType \subseteq [id : Nat, plan : Nat, start : Nat, lead : Int \cup {NoLead},
                         fired : BOOLEAN]
  BY <1>1 DEF DocType
<1> QED
  BY <1>2, CalendarAssumption

LEMMA CopyIsDoc ==
  ASSUME ShapeInv, NEW d, Copy(d)
  PROVE  d \in DocType
<1>1. \A k \in Ids : docs[k] \in DocType \cup {NoDoc}
  BY DEF ShapeInv
<1>2. \A w \in late : w.doc \in DocType \cup {NoDoc}
  BY DEF ShapeInv, WriteOK, WriteType
<1>3. \A h \in Handlers : handler[h].pc = "db_set" => handler[h].doc \in DocType
  BY DEF ShapeInv, HandlerOK
<1>4. \A s \in Scans : /\ scan[s].queue \subseteq DocType
                       /\ scan[s].pc \in {"mark", "publish"} => scan[s].cur \in DocType
  BY DEF ShapeInv, ScanOK, ScanType
<1> QED
  BY <1>1, <1>2, <1>3, <1>4 DEF Copy, Writable, Held, Scanned

LEMMA CopyIsDocNext ==
  ASSUME ShapeInv', NEW d, Copy(d)'
  PROVE  d \in DocType
<1>1. \A k \in Ids : docs'[k] \in DocType \cup {NoDoc}
  BY DEF ShapeInv
<1>2. \A w \in late' : w.doc \in DocType \cup {NoDoc}
  BY DEF ShapeInv, WriteOK, WriteType
<1>3. \A h \in Handlers : handler'[h].pc = "db_set" => handler'[h].doc \in DocType
  BY DEF ShapeInv, HandlerOK
<1>4. \A s \in Scans : /\ scan'[s].queue \subseteq DocType
                       /\ scan'[s].pc \in {"mark", "publish"} => scan'[s].cur \in DocType
  BY DEF ShapeInv, ScanOK, ScanType
<1> QED
  BY <1>1, <1>2, <1>3, <1>4 DEF Copy, Writable, Held, Scanned

\* Where a copy that a step leaves writable comes from.
WritableFrom(d) ==
  \/ Writable(d)
  \/ \E s \in Scans : /\ scan[s].pc = "mark" /\ scan[s].cur \in DocType
                      /\ d = MarkOf(scan[s].cur)
  \/ \E h \in Handlers :
       /\ Awaits(h) /\ Held(handler'[h], d)
       /\ \/ d.plan = handler[h].plan /\ d.id = counter'
          \/ \E c : /\ Writable(c) /\ c.id = d.id
                    /\ d.plan = handler[h].plan \/ (d.plan = c.plan /\ d.fired = c.fired)

\* Writes, and only they, change what is stored.
LEMMA StoreFrom ==
  ASSUME ShapeInv, NEW w, WriteOK(w), Store(w)
  PROVE  \A k \in Ids : docs'[k] = docs[k] \/ docs'[k] = w.doc
  BY StoreShape

\* A request task changes to t.
LEMMA TaskWritable ==
  ASSUME ShapeInv, NEW h \in Handlers, NEW t, handler' = [handler EXCEPT ![h] = t],
         \A k \in Ids : docs'[k] = docs[k] \/ docs'[k] = handler[h].doc,
         handler[h].pc = "db_set" \/ handler[h].doc = NoDoc \/ docs' = docs,
         \A w \in late' : w \in late \/ (w.doc = handler[h].doc
                             /\ (handler[h].pc = "db_set" \/ handler[h].doc = NoDoc)),
         NEW d, Writable(d)'
  PROVE  Writable(d) \/ Held(t, d)
<1>1. d # NoDoc
  BY DEF Writable
<1>2. CASE \E k \in Ids : docs'[k] = d
  BY <1>1, <1>2 DEF Writable, Held
<1>3. CASE \E w \in late' : w.doc = d
  BY <1>1, <1>3 DEF Writable, Held
<1>4. CASE \E g \in Handlers : Held(handler'[g], d)
  <2>1. \A g \in Handlers : handler'[g] = IF g = h THEN t ELSE handler[g]
    BY DEF ShapeInv
  <2> QED
    BY <1>1, <1>4, <2>1 DEF Writable
<1> QED
  BY <1>2, <1>3, <1>4 DEF Writable

LEMMA WritableOrigin ==
  ASSUME ShapeInv, ShapeInv', [Next]_vars, NEW d, Writable(d)'
  PROVE  WritableFrom(d)
<1>1. ASSUME NEW h \in Handlers, NEW t, Accept(h, t), t.pc # "db_set"
      PROVE  Writable(d)
  <2>1. Writable(d) \/ Held(t, d)
    BY <1>1, TaskWritable DEF Accept
  <2> QED
    BY <1>1, <2>1 DEF Held
<1>2. ASSUME NEW h \in Handlers, TakeId(h)
      PROVE  WritableFrom(d)
  <2>1. PICK t : /\ HandlerOK(t) /\ handler' = [handler EXCEPT ![h] = t]
                 /\ t.pc = "db_set" /\ t.doc.plan = handler[h].plan /\ t.doc.id = counter + 1
    BY <1>2, TakeIdShape
  <2>2. docs' = docs /\ late' = late /\ counter' = counter + 1 /\ Awaits(h)
    BY <1>2 DEF TakeId, Awaits
  <2>3. Writable(d) \/ Held(t, d)
    BY <2>1, <2>2, TaskWritable
  <2>4. counter' \in Nat /\ handler'[h] = t
    BY <2>1 DEF ShapeInv
  <2>5. CASE Held(t, d)
    <3>1. d.plan = handler[h].plan /\ d.id = counter'
      BY <2>1, <2>2, <2>4, <2>5 DEF Held
    <3> QED
      BY <2>2, <2>4, <2>5, <3>1 DEF WritableFrom
  <2> QED
    BY <2>3, <2>5 DEF WritableFrom
<1>3. ASSUME NEW h \in Handlers, ReadForUpdate(h)
      PROVE  WritableFrom(d)
  <2>1. docs' = docs /\ late' = late /\ Awaits(h)
    BY <1>3 DEF ReadForUpdate, Awaits
  <2>2. CASE HandlerDone(h)
    <3>1. handler' = [handler EXCEPT ![h] = IdleHandler]
      BY <2>2 DEF HandlerDone
    <3>2. Writable(d) \/ Held(IdleHandler, d)
      BY <2>1, <3>1, TaskWritable
    <3> QED
      BY <3>2 DEF Held, IdleHandler, WritableFrom
  <2>3. CASE ~HandlerDone(h)
    <3>1. PICK t : /\ HandlerOK(t) /\ handler' = [handler EXCEPT ![h] = t]
                   /\ t.pc = "db_set" /\ t.id = handler[h].id
                   /\ ReadFrom(docs[handler[h].id], t, handler[h].plan)
      BY <1>3, <2>3, ReadShape
    <3>2. Writable(d) \/ Held(t, d)
      BY <2>1, <3>1, TaskWritable
    <3> SUFFICES ASSUME Held(t, d) PROVE WritableFrom(d)
      BY <3>2 DEF WritableFrom
    <3>3. PICK c : c = docs[handler[h].id]
      OBVIOUS
    <3>4. c \in DocType /\ d.id = c.id /\ ((d.plan = c.plan /\ d.fired = c.fired) \/ d.plan = handler[h].plan)
      BY <3>1, <3>3 DEF ReadFrom, Held
    <3>5. handler[h].id \in Ids
      BY <1>3 DEF ReadForUpdate, ShapeInv, HandlerOK
    <3>6. Writable(c) /\ handler'[h] = t
      BY <3>1, <3>3, <3>4, <3>5, NoDocIsNone DEF Writable, ShapeInv
    <3> QED
      BY <2>1, <3>4, <3>6 DEF WritableFrom
  <2> QED
    BY <2>2, <2>3
<1>4. ASSUME NEW h \in Handlers, PutOrDelete(h)
      PROVE  Writable(d)
  <2>1. /\ handler' = [handler EXCEPT ![h] = IdleHandler] /\ late' = late
        /\ handler[h].pc = "db_set" \/ handler[h].doc = NoDoc
    BY <1>4 DEF PutOrDelete, HandlerDone, ShapeInv, HandlerOK
  <2>2. PICK w : w = Write(handler[h].id, handler[h].doc)
    OBVIOUS
  <2>3. WriteOK(w) /\ Store(w) /\ w.doc = handler[h].doc
    BY <1>4, <2>2, PutIsWrite DEF PutOrDelete, Write
  <2>4. \A k \in Ids : docs'[k] = docs[k] \/ docs'[k] = handler[h].doc
    BY <2>3, StoreFrom
  <2>5. Writable(d) \/ Held(IdleHandler, d)
    BY <2>1, <2>4, TaskWritable
  <2> QED
    BY <2>5 DEF Held, IdleHandler
<1>5. ASSUME NEW h \in Handlers, HandlerFails(h)
      PROVE  Writable(d)
  <2>1. handler' = [handler EXCEPT ![h] = IdleHandler] /\ docs' = docs
    BY <1>5 DEF HandlerFails, HandlerDone
  <2>2. handler[h].pc = "db_delete" => handler[h].doc = NoDoc
    BY DEF ShapeInv, HandlerOK
  <2>3. \A w \in late' : w \in late \/ (w.doc = handler[h].doc
                             /\ (handler[h].pc = "db_set" \/ handler[h].doc = NoDoc))
    BY <1>5, <2>2 DEF HandlerFails, LostOrLate, Write
  <2>4. Writable(d) \/ Held(IdleHandler, d)
    BY <2>1, <2>3, TaskWritable
  <2> QED
    BY <2>4 DEF Held, IdleHandler
<1>6. ASSUME UNCHANGED <<docs, late, handler>>
      PROVE  Writable(d)
  BY <1>6 DEF Writable
<1>7. ASSUME NEW s \in Scans, Mark(s)
      PROVE  WritableFrom(d)
  <2>1. scan[s].pc = "mark" /\ scan[s].cur \in DocType /\ late' = late /\ handler' = handler
    BY <1>7 DEF Mark, ShapeInv, ScanOK
  <2>2. PICK w : w = Write(scan[s].cur.id, MarkOf(scan[s].cur))
    OBVIOUS
  <2>3. WriteOK(w) /\ Store(w) /\ w.doc = MarkOf(scan[s].cur)
    BY <1>7, <2>1, <2>2, MarkIsWrite DEF Mark, Write
  <2>4. \A k \in Ids : docs'[k] = docs[k] \/ docs'[k] = MarkOf(scan[s].cur)
    BY <2>3, StoreFrom
  <2>5. Writable(d) \/ d = MarkOf(scan[s].cur)
    BY <2>1, <2>4 DEF Writable
  <2> QED
    BY <2>1, <2>5 DEF WritableFrom
<1>8. ASSUME NEW s \in Scans, ScanFails(s)
      PROVE  WritableFrom(d)
  <2>1. docs' = docs /\ handler' = handler
    BY <1>8 DEF ScanFails
  <2>2. \A w \in late' : w \in late \/ (scan[s].pc = "mark" /\ w.doc = MarkOf(scan[s].cur))
    BY <1>8 DEF ScanFails, LostOrLate, Write
  <2>3. scan[s].pc = "mark" => scan[s].cur \in DocType
    BY DEF ShapeInv, ScanOK
  <2>4. Writable(d) \/ (scan[s].pc = "mark" /\ d = MarkOf(scan[s].cur))
    BY <2>1, <2>2 DEF Writable
  <2> QED
    BY <2>3, <2>4 DEF WritableFrom
<1>9. ASSUME NEW w \in late, LateWrite(w)
      PROVE  Writable(d)
  <2>1. \A k \in Ids : docs'[k] = docs[k] \/ docs'[k] = w.doc
    <3>1. WriteOK(w)
      BY <1>9 DEF ShapeInv
    <3> QED
      BY <1>9, <3>1, StoreFrom DEF LateWrite
  <2>2. late' \subseteq late /\ handler' = handler
    BY <1>9 DEF LateWrite
  <2> QED
    BY <1>9, <2>1, <2>2 DEF Writable
<1>10. CASE Crash
  <2>1. /\ docs' = docs /\ late' = late \cup InFlight
        /\ \A h \in Handlers : handler'[h].pc = "idle"
    BY <1>10 DEF Crash, IdleHandler
  <2>2. \A s \in Scans : scan[s].pc = "mark" => scan[s].cur \in DocType
    BY DEF ShapeInv, ScanOK
  <2>3. \A h \in Handlers : handler[h].pc = "db_delete" => handler[h].doc = NoDoc
    BY DEF ShapeInv, HandlerOK
  <2>4. \A w \in InFlight :
          \/ \E h \in Handlers : w.doc = handler[h].doc
                                 /\ (handler[h].pc = "db_set" \/ handler[h].doc = NoDoc)
          \/ \E s \in Scans : scan[s].pc = "mark" /\ w.doc = MarkOf(scan[s].cur)
    BY <2>3 DEF InFlight, Write
  <2> QED
    BY <2>1, <2>2, <2>4 DEF Writable, WritableFrom, Held
<1>11. ASSUME NEW h \in Handlers,
              \/ \E shape \in Creates : AcceptCreate(h, shape)
              \/ \E id \in Ids, p \in Patches : AcceptUpdate(h, id, p)
              \/ \E id \in Ids : AcceptDelete(h, id)
       PROVE  Writable(d)
  <2>1. CASE \E shape \in Creates : AcceptCreate(h, shape)
    <3>1. PICK shape \in Creates : Accept(h, CreateTask(shape))
      BY <2>1 DEF AcceptCreate, CreateTask
    <3>2. CreateTask(shape).pc # "db_set"
      BY DEF CreateTask, IdleHandler
    <3> QED
      BY <1>1, <3>1, <3>2
  <2>2. CASE \E id \in Ids, p \in Patches : AcceptUpdate(h, id, p)
    <3>1. PICK id \in Ids, p \in Patches : Accept(h, UpdateTask(id, p))
      BY <2>2 DEF AcceptUpdate, UpdateTask
    <3>2. UpdateTask(id, p).pc # "db_set"
      BY DEF UpdateTask, IdleHandler
    <3> QED
      BY <1>1, <3>1, <3>2
  <2>3. CASE \E id \in Ids : AcceptDelete(h, id)
    <3>1. PICK id \in Ids : Accept(h, DeleteTask(id))
      BY <2>3 DEF AcceptDelete, DeleteTask
    <3>2. DeleteTask(id).pc # "db_set"
      BY DEF DeleteTask, IdleHandler
    <3> QED
      BY <1>1, <3>1, <3>2
  <2> QED
    BY <1>11, <2>1, <2>2, <2>3
<1>12. ASSUME NEW s \in Scans,
              StartScan(s) \/ ListKeys(s) \/ ReadDocs(s) \/ Publish(s) \/ Notified(s)
       PROVE  Writable(d)
  BY <1>6, <1>12 DEF StartScan, ListKeys, ReadDocs, Publish, Notified
<1>13. CASE Restart \/ Tick \/ UNCHANGED vars
  <2>1. docs' = docs /\ late' = late /\ handler' = handler
    BY <1>13 DEF Restart, Tick, vars
  <2> QED
    BY <1>6, <2>1 DEF WritableFrom
<1>14. Writable(d) => WritableFrom(d)
  BY DEF WritableFrom
<1>15. ASSUME NEW h \in Handlers, HandlerStep(h) \/ HandlerFails(h)
       PROVE  WritableFrom(d)
  BY <1>2, <1>3, <1>4, <1>5, <1>14, <1>15 DEF HandlerStep
<1>16. ASSUME NEW s \in Scans, StartScan(s) \/ ScanStep(s) \/ ScanFails(s)
       PROVE  WritableFrom(d)
  BY <1>7, <1>8, <1>12, <1>14, <1>16 DEF ScanStep
<1> QED
  BY <1>9, <1>10, <1>11, <1>13, <1>14, <1>15, <1>16 DEF Next

-----------------------------------------------------------------------------
(* What a step does to a scan and to a request task                        *)

\* Scan s has taken an event from q.
Takes(s, q) ==
  \E d \in q : /\ scan'[s].pc = "mark" /\ scan'[s].cur = d
               /\ scan'[s].queue = q \ {d} /\ scan'[s].gone = scan[s].gone

\* Scan s has nothing to mark or publish at the moment.
Rests(s) ==
  /\ scan'[s].pc \notin {"mark", "publish"}
  /\ \/ scan'[s].queue = {} /\ scan'[s].gone \subseteq withdrawn
     \/ scan'[s].queue \subseteq scan[s].queue /\ scan'[s].gone = scan[s].gone

Marks(s) ==
  /\ Mark(s) /\ scan[s].pc = "mark" /\ scan'[s].pc = "publish"
  /\ scan'[s].cur = scan[s].cur /\ scan'[s].queue = scan[s].queue
  /\ scan'[s].gone = scan[s].gone

ScanEffect(s) ==
  \/ scan'[s] = scan[s]
  \/ Rests(s)
  \/ Takes(s, Dues(s))
  \/ Takes(s, scan[s].queue)
  \/ Marks(s)

LEMMA TakeNextEffect ==
  ASSUME ShapeInv, NEW s \in Scans, NEW q \in SUBSET DocType, TakeNext(s, q)
  PROVE  Takes(s, q) \/ Rests(s)
<1>1. PICK t : scan' = [scan EXCEPT ![s] = t] /\ Taken(t, q, scan[s].gone)
  BY TakeNextShape
<1>2. scan'[s] = t
  BY <1>1 DEF ShapeInv
<1>3. CASE t = IdleScan
  BY <1>2, <1>3 DEF Rests, IdleScan
<1> QED
  BY <1>1, <1>2, <1>3 DEF Taken, Takes

LEMMA ScanStepEffect ==
  ASSUME ShapeInv, NEW s \in Scans, StartScan(s) \/ ScanStep(s) \/ ScanFails(s)
  PROVE  ScanEffect(s)
<1>1. CASE StartScan(s)
  <2>1. PICK t : scan' = [scan EXCEPT ![s] = t] /\ t.pc = "db_keys" /\ t.queue = {} /\ t.gone = withdrawn
    BY <1>1, StartShape
  <2>2. scan'[s] = t
    BY <2>1 DEF ShapeInv
  <2> QED
    BY <2>1, <2>2 DEF ScanEffect, Rests
<1>2. CASE ListKeys(s)
  <2>1. PICK t : /\ scan' = [scan EXCEPT ![s] = t]
                 /\ \/ t = IdleScan
                    \/ t.pc = "db_batch_get" /\ t.queue = scan[s].queue /\ t.gone = scan[s].gone
    BY <1>2, ListShape
  <2>2. scan'[s] = t
    BY <2>1 DEF ShapeInv
  <2> QED
    BY <2>1, <2>2 DEF ScanEffect, Rests, IdleScan
<1>3. CASE ReadDocs(s)
  <2>1. TakeNext(s, Dues(s)) /\ Dues(s) \in SUBSET DocType
    BY <1>3, DuesShape DEF ReadDocs, Dues
  <2> QED
    BY <2>1, TakeNextEffect DEF ScanEffect
<1>4. CASE Mark(s)
  <2>1. scan[s].cur \in DocType /\ scan' = [scan EXCEPT ![s].pc = "publish"]
    BY <1>4 DEF Mark, ShapeInv, ScanOK
  <2>2. PICK t : /\ scan' = [scan EXCEPT ![s] = t]
                 /\ t.pc = "publish" /\ t.queue = scan[s].queue /\ t.cur = scan[s].cur
                 /\ t.gone = scan[s].gone
    BY <2>1, ScanPhase
  <2>3. scan'[s] = t /\ scan[s].pc = "mark"
    BY <1>4, <2>2 DEF ShapeInv, Mark
  <2>4. Marks(s)
    BY <1>4, <2>2, <2>3 DEF Marks
  <2> QED
    BY <2>4 DEF ScanEffect
<1>5. CASE Publish(s)
  <2>1. scan[s].cur \in DocType /\ scan' = [scan EXCEPT ![s].pc = "notify"]
    BY <1>5 DEF Publish, ShapeInv, ScanOK
  <2>2. PICK t : /\ scan' = [scan EXCEPT ![s] = t]
                 /\ t.pc = "notify" /\ t.queue = scan[s].queue /\ t.gone = scan[s].gone
    BY <2>1, ScanPhase
  <2>3. scan'[s] = t
    BY <2>2 DEF ShapeInv
  <2> QED
    BY <2>2, <2>3 DEF ScanEffect, Rests
<1>6. CASE Notified(s)
  <2>1. TakeNext(s, scan[s].queue) /\ scan[s].queue \in SUBSET DocType
    BY <1>6 DEF Notified, ShapeInv, ScanOK, ScanType
  <2> QED
    BY <2>1, TakeNextEffect DEF ScanEffect
<1>7. CASE ScanFails(s)
  <2>1. scan'[s] = IdleScan
    BY <1>7 DEF ScanFails, ShapeInv
  <2> QED
    BY <2>1 DEF ScanEffect, Rests, IdleScan
<1> QED
  BY <1>1, <1>2, <1>3, <1>4, <1>5, <1>6, <1>7 DEF ScanStep

LEMMA ScanAlone ==
  ASSUME ShapeInv, NEW s \in Scans, NEW r \in Scans, r # s,
         StartScan(s) \/ ScanStep(s) \/ ScanFails(s)
  PROVE  scan'[r] = scan[r]
<1>1. CASE StartScan(s)
  BY <1>1 DEF StartScan, ShapeInv
<1>2. CASE ListKeys(s)
  BY <1>2, ListShape, ScanShape
<1>3. CASE ReadDocs(s)
  BY <1>3, DuesShape, TakeNextShape, ScanShape DEF ReadDocs, Dues
<1>4. CASE Mark(s) \/ Publish(s) \/ ScanFails(s)
  BY <1>4 DEF Mark, Publish, ScanFails, ShapeInv
<1>5. CASE Notified(s)
  <2>1. scan[s].queue \in SUBSET DocType
    BY DEF ShapeInv, ScanOK, ScanType
  <2> QED
    BY <1>5, <2>1, TakeNextShape, ScanShape DEF Notified
<1> QED
  BY <1>1, <1>2, <1>3, <1>4, <1>5 DEF ScanStep

LEMMA ScanSteps ==
  ASSUME ShapeInv, [Next]_vars, NEW s \in Scans
  PROVE  ScanEffect(s)
<1>1. CASE scan' = scan
  BY <1>1 DEF ScanEffect
<1>2. ASSUME NEW r \in Scans, StartScan(r) \/ ScanStep(r) \/ ScanFails(r)
      PROVE  ScanEffect(s)
  BY <1>2, ScanStepEffect, ScanAlone DEF ScanEffect
<1>3. CASE Crash
  <2>1. scan'[s] = IdleScan
    BY <1>3 DEF Crash
  <2> QED
    BY <2>1 DEF ScanEffect, Rests, IdleScan
<1>4. CASE \E h \in Handlers :
             \/ \E shape \in Creates : AcceptCreate(h, shape)
             \/ \E id \in Ids, p \in Patches : AcceptUpdate(h, id, p)
             \/ \E id \in Ids : AcceptDelete(h, id)
             \/ HandlerStep(h) \/ HandlerFails(h)
  BY <1>1, <1>4 DEF AcceptCreate, AcceptUpdate, AcceptDelete, Accept, HandlerStep, TakeId,
    ReadForUpdate, PutOrDelete, HandlerFails
<1>5. CASE (\E w \in late : LateWrite(w)) \/ Restart \/ Tick \/ UNCHANGED vars
  BY <1>1, <1>5 DEF LateWrite, Restart, Tick, vars
<1> QED
  BY <1>2, <1>3, <1>4, <1>5 DEF Next

\* A request task that awaits its document has been accepted by this step, or
\* has waited before.
AwaitEffect(h) ==
  \/ Awaits(h) /\ handler'[h] = handler[h]
  \/ /\ handler[h].pc = "idle" /\ handler'[h].plan = requests + 1
     /\ requests' = requests + 1
     /\ \A g \in Handlers \ {h} : handler'[g] = handler[g]

LEMMA AwaitSteps ==
  ASSUME ShapeInv, [Next]_vars, NEW h \in Handlers, Awaits(h)'
  PROVE  AwaitEffect(h) /\ requests' \in {requests, requests + 1}
<1>0. requests \in Nat
  BY CalendarAssumption DEF ShapeInv
<1>1. ASSUME NEW g \in Handlers, NEW t, Accept(g, t), t.pc = "db_delete" \/ t.plan = requests + 1
      PROVE  AwaitEffect(h) /\ requests' = requests + 1
  <2>1. /\ \A f \in Handlers : handler'[f] = IF f = g THEN t ELSE handler[f]
        /\ handler[g].pc = "idle" /\ requests' = requests + 1
    BY <1>1 DEF Accept, ShapeInv
  <2> QED
    BY <1>1, <2>1 DEF AwaitEffect, Awaits
<1>2. ASSUME NEW g \in Handlers,
             \/ \E shape \in Creates : AcceptCreate(g, shape)
             \/ \E id \in Ids, p \in Patches : AcceptUpdate(g, id, p)
             \/ \E id \in Ids : AcceptDelete(g, id)
      PROVE  AwaitEffect(h) /\ requests' = requests + 1
  <2>1. CASE \E shape \in Creates : AcceptCreate(g, shape)
    <3>1. PICK shape \in Creates : Accept(g, CreateTask(shape)) /\ requests < MaxRequests
      BY <2>1 DEF AcceptCreate, CreateTask, Accept
    <3> QED
      BY <1>0, <1>1, <3>1, CreateBegun
  <2>2. CASE \E id \in Ids, p \in Patches : AcceptUpdate(g, id, p)
    <3>1. PICK id \in Ids, p \in Patches : Accept(g, UpdateTask(id, p)) /\ requests < MaxRequests
      BY <2>2 DEF AcceptUpdate, UpdateTask, Accept
    <3> QED
      BY <1>0, <1>1, <3>1, UpdateBegun
  <2>3. CASE \E id \in Ids : AcceptDelete(g, id)
    <3>1. PICK id \in Ids : Accept(g, DeleteTask(id))
      BY <2>3 DEF AcceptDelete, DeleteTask
    <3> QED
      BY <1>1, <3>1, DeleteBegun
  <2> QED
    BY <1>2, <2>1, <2>2, <2>3
<1>3. ASSUME handler' = handler, requests' = requests
      PROVE  AwaitEffect(h) /\ requests' = requests
  BY <1>3 DEF AwaitEffect, Awaits
<1>4. ASSUME NEW g \in Handlers, NEW t, handler' = [handler EXCEPT ![g] = t],
             t.pc \notin {"db_incr", "db_get"}, requests' = requests
      PROVE  AwaitEffect(h) /\ requests' = requests
  <2>1. \A f \in Handlers : handler'[f] = IF f = g THEN t ELSE handler[f]
    BY <1>4 DEF ShapeInv
  <2> QED
    BY <1>4, <2>1 DEF AwaitEffect, Awaits
<1>5. ASSUME NEW g \in Handlers, HandlerDone(g), requests' = requests
      PROVE  AwaitEffect(h) /\ requests' = requests
  <2>1. IdleHandler.pc = "idle"
    BY DEF IdleHandler
  <2> QED
    BY <1>4, <1>5, <2>1 DEF HandlerDone
<1>6. ASSUME NEW g \in Handlers, HandlerStep(g) \/ HandlerFails(g)
      PROVE  AwaitEffect(h) /\ requests' = requests
  <2>1. requests' = requests
    BY <1>6 DEF HandlerStep, TakeId, ReadForUpdate, PutOrDelete, HandlerFails, boundVars
  <2>2. CASE TakeId(g)
    BY <1>4, <2>1, <2>2, TakeIdShape
  <2>3. CASE ReadForUpdate(g)
    BY <1>4, <1>5, <2>1, <2>3, ReadShape
  <2>4. CASE PutOrDelete(g) \/ HandlerFails(g)
    BY <1>5, <2>1, <2>4 DEF PutOrDelete, HandlerFails
  <2> QED
    BY <1>6, <2>2, <2>3, <2>4 DEF HandlerStep
<1>7. ASSUME NEW s \in Scans, StartScan(s) \/ ScanStep(s) \/ ScanFails(s)
      PROVE  handler' = handler /\ requests' = requests
  BY <1>7 DEF StartScan, ScanStep, ListKeys, ReadDocs, Mark, Publish, Notified, ScanFails, boundVars
<1>8. CASE Crash
  BY <1>8 DEF Crash, IdleHandler, Awaits
<1>9. CASE (\E w \in late : LateWrite(w)) \/ Restart \/ Tick \/ UNCHANGED vars
  BY <1>3, <1>9 DEF LateWrite, Restart, Tick, vars, boundVars
<1> QED
  BY <1>2, <1>3, <1>6, <1>7, <1>8, <1>9 DEF Next

-----------------------------------------------------------------------------
(* Plans name events                                                       *)

\* A plan is the work of one request, and of one event: no copy of a document
\* has the number of a request that has not made its document yet.
CopyInv ==
  /\ \A d : Copy(d) => d.plan \in 1..requests
  /\ \A c, d : Copy(c) /\ Copy(d) /\ c.plan = d.plan => c.id = d.id
  /\ \A h \in Handlers : Awaits(h) =>
       /\ handler[h].plan \in 1..requests
       /\ \A d : Copy(d) => d.plan # handler[h].plan
       /\ \A g \in Handlers : Awaits(g) /\ handler[g].plan = handler[h].plan => g = h

\* Where a copy comes from.
CopyFrom(d) ==
  \/ \E c : Copy(c) /\ c.plan = d.plan /\ c.id = d.id
  \/ \E h \in Handlers : /\ Awaits(h) /\ ~Awaits(h)' /\ handler'[h].doc = d
                         /\ d.plan = handler[h].plan

\* What a scan has read was stored, or it had it before.
LEMMA ScannedOrigin ==
  ASSUME ShapeInv, [Next]_vars, NEW s \in Scans, NEW d, Scanned(scan'[s], d)
  PROVE  Copy(d)
<1>1. CASE scan'[s] = scan[s]
  BY <1>1 DEF Copy
<1>2. CASE Rests(s)
  BY <1>2 DEF Rests, Copy, Scanned
<1>3. CASE Takes(s, Dues(s))
  BY <1>3, DuesShape DEF Takes, Copy, Scanned, Writable
<1>4. CASE Takes(s, scan[s].queue)
  BY <1>4 DEF Takes, Copy, Scanned
<1>5. CASE Marks(s)
  BY <1>5 DEF Marks, Copy, Scanned
<1> QED
  BY <1>1, <1>2, <1>3, <1>4, <1>5, ScanSteps DEF ScanEffect

LEMMA CopyOrigin ==
  ASSUME ShapeInv, ShapeInv', [Next]_vars, NEW d, Copy(d)'
  PROVE  CopyFrom(d)
<1>1. CASE Writable(d)'
  <2>1. CASE Writable(d)
    BY <2>1 DEF CopyFrom, Copy
  <2>2. ASSUME NEW s \in Scans, scan[s].pc = "mark", scan[s].cur \in DocType,
               d = MarkOf(scan[s].cur)
        PROVE  CopyFrom(d)
    <3>1. PICK c : c = scan[s].cur
      OBVIOUS
    <3>2. Copy(c) /\ c.plan = d.plan /\ c.id = d.id
      BY <2>2, <3>1, MarkOfShape DEF Copy, Scanned
    <3> QED
      BY <3>2 DEF CopyFrom
  <2>3. ASSUME NEW h \in Handlers, Awaits(h), Held(handler'[h], d)
        PROVE  Awaits(h) /\ ~Awaits(h)' /\ handler'[h].doc = d
    BY <2>3 DEF Awaits, Held
  <2>4. ASSUME NEW h \in Handlers, Awaits(h), Held(handler'[h], d), NEW c, Writable(c),
               c.id = d.id, d.plan = handler[h].plan \/ d.plan = c.plan
        PROVE  CopyFrom(d)
    BY <2>3, <2>4 DEF CopyFrom, Copy
  <2>5. WritableFrom(d)
    BY <1>1, WritableOrigin
  <2> QED
    BY <2>1, <2>2, <2>3, <2>4, <2>5 DEF WritableFrom, CopyFrom
<1> QED
  BY <1>1, ScannedOrigin DEF Copy, CopyFrom

LEMMA RequestsGrow ==
  ASSUME ShapeInv, [Next]_vars
  PROVE  requests \in Nat /\ requests' \in {requests, requests + 1}
<1>1. requests \in Nat
  BY CalendarAssumption DEF ShapeInv
<1>2. ASSUME NEW h \in Handlers,
             \/ \E shape \in Creates : AcceptCreate(h, shape)
             \/ \E id \in Ids, p \in Patches : AcceptUpdate(h, id, p)
             \/ \E id \in Ids : AcceptDelete(h, id)
      PROVE  requests' = requests + 1
  BY <1>2 DEF AcceptCreate, AcceptUpdate, AcceptDelete, Accept
<1>3. ASSUME NEW h \in Handlers, HandlerStep(h) \/ HandlerFails(h)
      PROVE  requests' = requests
  BY <1>3 DEF HandlerStep, TakeId, ReadForUpdate, PutOrDelete, HandlerFails, boundVars
<1>4. ASSUME NEW s \in Scans, StartScan(s) \/ ScanStep(s) \/ ScanFails(s)
      PROVE  requests' = requests
  BY <1>4 DEF StartScan, ScanStep, ListKeys, ReadDocs, Mark, Publish, Notified, ScanFails, boundVars
<1>5. CASE (\E w \in late : LateWrite(w)) \/ Crash \/ Restart \/ Tick \/ UNCHANGED vars
  BY <1>1, <1>5 DEF LateWrite, Crash, Restart, Tick, vars, boundVars
<1> QED
  BY <1>1, <1>2, <1>3, <1>4, <1>5 DEF Next

LEMMA CopyStep ==
  ASSUME ShapeInv, ShapeInv', CopyInv, [Next]_vars
  PROVE  CopyInv'
<1>0. requests \in Nat /\ requests' \in {requests, requests + 1}
  BY RequestsGrow
<1>1. \A d : Copy(d)' => CopyFrom(d)
  BY CopyOrigin
<1>2. ASSUME NEW d, Copy(d)'
      PROVE  d.plan \in 1..requests
  BY <1>1, <1>2 DEF CopyFrom, CopyInv
<1>3. ASSUME NEW c, NEW d, Copy(c)', Copy(d)', c.plan = d.plan
      PROVE  c.id = d.id
  <2>1. CopyFrom(c) /\ CopyFrom(d)
    BY <1>1, <1>3
  <2>2. ASSUME NEW h \in Handlers, Awaits(h), ~Awaits(h)', handler'[h].doc = c,
               c.plan = handler[h].plan
        PROVE  c.id = d.id
    BY <1>3, <2>1, <2>2 DEF CopyFrom, CopyInv
  <2>3. ASSUME NEW h \in Handlers, Awaits(h), ~Awaits(h)', handler'[h].doc = d,
               d.plan = handler[h].plan
        PROVE  c.id = d.id
    BY <1>3, <2>1, <2>3 DEF CopyFrom, CopyInv
  <2>4. ASSUME NEW a, NEW b, Copy(a), Copy(b), a.plan = c.plan, a.id = c.id, b.plan = d.plan,
               b.id = d.id
        PROVE  c.id = d.id
    BY <1>3, <2>4 DEF CopyInv
  <2> QED
    BY <2>1, <2>2, <2>3, <2>4 DEF CopyFrom
<1>4. ASSUME NEW h \in Handlers, Awaits(h)'
      PROVE  /\ handler'[h].plan \in 1..requests'
             /\ \A d : Copy(d)' => d.plan # handler'[h].plan
             /\ \A g \in Handlers : Awaits(g)' /\ handler'[g].plan = handler'[h].plan => g = h
  <2>1. CASE Awaits(h) /\ handler'[h] = handler[h]
    <3>1. handler'[h].plan \in 1..requests
      BY <2>1 DEF CopyInv
    <3>2. ASSUME NEW d, Copy(d)' PROVE d.plan # handler'[h].plan
      <4>1. CopyFrom(d)
        BY <1>1, <3>2
      <4> QED
        BY <1>4, <2>1, <4>1 DEF CopyFrom, CopyInv
    <3>3. ASSUME NEW g \in Handlers, Awaits(g)', handler'[g].plan = handler'[h].plan
          PROVE  g = h
      <4>1. AwaitEffect(g)
        BY <3>3, AwaitSteps
      <4>2. handler'[g].plan # requests + 1
        BY <1>0, <3>1, <3>3
      <4> QED
        BY <2>1, <3>3, <4>1, <4>2 DEF AwaitEffect, CopyInv
    <3> QED
      BY <1>0, <3>1, <3>2, <3>3
  <2>2. CASE /\ handler[h].pc = "idle" /\ handler'[h].plan = requests + 1
             /\ requests' = requests + 1
             /\ \A g \in Handlers \ {h} : handler'[g] = handler[g]
    <3>1. ASSUME NEW d, Copy(d)' PROVE d.plan # handler'[h].plan
      BY <1>0, <1>2, <2>2, <3>1
    <3>2. ASSUME NEW g \in Handlers, Awaits(g)', handler'[g].plan = handler'[h].plan
          PROVE  g = h
      <4> SUFFICES ASSUME g # h PROVE FALSE
        OBVIOUS
      <4>1. Awaits(g) /\ handler[g].plan = requests + 1
        BY <2>2, <3>2 DEF Awaits
      <4> QED
        BY <1>0, <4>1 DEF CopyInv
    <3> QED
      BY <1>0, <2>2, <3>1, <3>2
  <2> QED
    BY <1>4, <2>1, <2>2, AwaitSteps DEF AwaitEffect
<1>5. \A d : Copy(d)' => d.plan \in 1..requests'
  BY <1>0, <1>2
<1> QED
  BY <1>3, <1>4, <1>5 DEF CopyInv

-----------------------------------------------------------------------------
(* A withdrawn reminder does not fire                                      *)

\* What may still be written of a withdrawn plan is marked as fired, and no scan
\* that was started after the withdrawal has it.
WithdrawnInv ==
  /\ withdrawn \subseteq 1..requests
  /\ \A d : Writable(d) /\ d.plan \in withdrawn => d.fired
  /\ \A h \in Handlers : Awaits(h) => handler[h].plan \notin withdrawn
  /\ \A s \in Scans :
       /\ scan[s].gone \subseteq withdrawn
       /\ \A d \in scan[s].queue : d.plan \notin scan[s].gone
       /\ scan[s].pc \in {"mark", "publish"} => scan[s].cur.plan \notin scan[s].gone
  /\ \A d \in dues : ~d.gone

LEMMA GhostSteps ==
  ASSUME [Next]_vars
  PROVE  /\ withdrawn' = withdrawn \/ \E h \in Handlers : PutOrDelete(h)
         /\ dues' = dues \/ \E s \in Scans : Publish(s)
<1>1. ASSUME NEW h \in Handlers,
             \/ \E shape \in Creates : AcceptCreate(h, shape)
             \/ \E id \in Ids, p \in Patches : AcceptUpdate(h, id, p)
             \/ \E id \in Ids : AcceptDelete(h, id)
      PROVE  withdrawn' = withdrawn /\ dues' = dues
  BY <1>1 DEF AcceptCreate, AcceptUpdate, AcceptDelete, Accept, ghostVars
<1>2. ASSUME NEW h \in Handlers, HandlerStep(h) \/ HandlerFails(h)
      PROVE  dues' = dues /\ (withdrawn' = withdrawn \/ PutOrDelete(h))
  BY <1>2 DEF HandlerStep, TakeId, ReadForUpdate, PutOrDelete, HandlerFails, ghostVars
<1>3. ASSUME NEW s \in Scans, StartScan(s) \/ ScanStep(s) \/ ScanFails(s)
      PROVE  withdrawn' = withdrawn /\ (dues' = dues \/ Publish(s))
  BY <1>3 DEF StartScan, ScanStep, ListKeys, ReadDocs, Mark, Publish, Notified, ScanFails, ghostVars
<1>4. CASE (\E w \in late : LateWrite(w)) \/ Crash \/ Restart \/ Tick \/ UNCHANGED vars
  BY <1>4 DEF LateWrite, Crash, Restart, Tick, vars, ghostVars
<1> QED
  BY <1>1, <1>2, <1>3, <1>4 DEF Next

\* What a request that nothing else concerned has put an end to.
LEMMA QuietReplaces ==
  ASSUME ShapeInv, CopyInv, NEW h \in Handlers, PutOrDelete(h), Quiet(h),
         NEW p \in Replaced(Write(handler[h].id, handler[h].doc))
  PROVE  /\ p \in 1..requests
         /\ \A g \in Handlers : Awaits(g) => handler[g].plan # p
         /\ \A d : Writable(d)' => d.plan # p
<1>1. PICK w : w = Write(handler[h].id, handler[h].doc)
  OBVIOUS
<1>2. /\ WriteOK(w) /\ w.id \in Ids /\ w.doc = handler[h].doc /\ w.id = handler[h].id
      /\ Store(w) /\ late' = late /\ handler' = [handler EXCEPT ![h] = IdleHandler]
  BY <1>1, PutIsWrite DEF PutOrDelete, Write, HandlerDone, WriteOK, WriteType
<1>3. PICK old : old = docs[w.id]
  OBVIOUS
<1>4. /\ old # NoDoc /\ old.plan = p /\ (w.doc # NoDoc => w.doc.plan # p)
      /\ old.id = w.id /\ Copy(old)
  BY <1>1, <1>2, <1>3, ReplacedPlans DEF Copy, Writable, ShapeInv
<1>5. ASSUME NEW d, Copy(d), d.id # w.id
      PROVE  d.plan # p
  BY <1>4, <1>5 DEF CopyInv
<1>6. ASSUME NEW d, Writable(d)'
      PROVE  d.plan # p
  <2>1. CASE \E k \in Ids : docs'[k] = d
    <3>1. PICK k \in Ids : docs'[k] = d
      BY <2>1
    <3>2. d # NoDoc /\ docs'[k] = IF k = w.id THEN w.doc ELSE docs[k]
      BY <1>2, <1>6, StoreShape DEF Writable
    <3>3. CASE k = w.id
      BY <1>4, <3>1, <3>2, <3>3
    <3>4. CASE k # w.id
      <4>1. docs[k] = d /\ d.id = k /\ Copy(d)
        BY <3>1, <3>2, <3>4 DEF ShapeInv, Copy, Writable
      <4> QED
        BY <1>5, <3>4, <4>1
    <3> QED
      BY <3>3, <3>4
  <2>2. CASE \E v \in late' : v.doc = d
    <3>1. PICK v \in late : v.doc = d
      BY <1>2, <2>2
    <3>2. d # NoDoc /\ v.id # w.id /\ WriteOK(v)
      BY <1>2, <1>6, <3>1 DEF Writable, Quiet, ShapeInv
    <3>3. d.id # w.id /\ Copy(d)
      BY <3>1, <3>2 DEF WriteOK, Copy, Writable
    <3> QED
      BY <1>5, <3>3
  <2>3. CASE \E g \in Handlers : Held(handler'[g], d)
    <3>1. PICK g \in Handlers : Held(handler'[g], d)
      BY <2>3
    <3>2. g # h /\ Held(handler[g], d)
      BY <1>2, <3>1 DEF ShapeInv, Held, IdleHandler
    <3>3. d.id = handler[g].id /\ handler[g].id # w.id
      BY <1>2, <3>2 DEF ShapeInv, HandlerOK, Held, Quiet
    <3>4. Copy(d)
      BY <1>6, <3>2 DEF Copy, Writable
    <3> QED
      BY <1>5, <3>3, <3>4
  <2> QED
    BY <1>6, <2>1, <2>2, <2>3 DEF Writable
<1> QED
  BY <1>4, <1>6 DEF CopyInv

LEMMA WithdrawnStep ==
  ASSUME ShapeInv, ShapeInv', CopyInv, WithdrawnInv, [Next]_vars
  PROVE  WithdrawnInv'
<1>0. requests \in Nat /\ requests' \in {requests, requests + 1}
  BY RequestsGrow
<1>1. /\ withdrawn \subseteq withdrawn'
      /\ \A p \in withdrawn' \ withdrawn :
            /\ p \in 1..requests
            /\ \A g \in Handlers : Awaits(g) => handler[g].plan # p
            /\ \A d : Writable(d)' => d.plan # p
  <2>1. ASSUME NEW h \in Handlers, PutOrDelete(h), withdrawn' # withdrawn
        PROVE  /\ withdrawn \subseteq withdrawn'
               /\ \A p \in withdrawn' \ withdrawn :
                     /\ p \in 1..requests
                     /\ \A g \in Handlers : Awaits(g) => handler[g].plan # p
                     /\ \A d : Writable(d)' => d.plan # p
    <3> DEFINE new == Replaced(Write(handler[h].id, handler[h].doc))
    <3>1. withdrawn' = withdrawn \cup new /\ Quiet(h)
      BY <2>1 DEF PutOrDelete
    <3>2. \A p \in new : /\ p \in 1..requests
                         /\ \A g \in Handlers : Awaits(g) => handler[g].plan # p
                         /\ \A d : Writable(d)' => d.plan # p
      BY <2>1, <3>1, QuietReplaces
    <3> HIDE DEF new
    <3> QED
      BY <3>1, <3>2
  <2> QED
    BY <2>1, GhostSteps
<1>2. withdrawn' \subseteq 1..requests'
  <2>1. withdrawn' \subseteq 1..requests
    BY <1>1 DEF WithdrawnInv
  <2> QED
    BY <1>0, <2>1
<1>3. ASSUME NEW d, Writable(d)', d.plan \in withdrawn'
      PROVE  d.fired
  <2>1. d.plan \in withdrawn
    BY <1>1, <1>3
  <2>2. WritableFrom(d)
    BY <1>3, WritableOrigin
  <2>3. ASSUME NEW s \in Scans, scan[s].cur \in DocType, d = MarkOf(scan[s].cur)
        PROVE  d.fired
    BY <2>3, MarkOfShape
  <2>4. ASSUME NEW h \in Handlers, Awaits(h), d.plan = handler[h].plan
        PROVE  FALSE
    BY <2>1, <2>4 DEF WithdrawnInv
  <2>5. ASSUME NEW c, Writable(c), d.plan = c.plan, d.fired = c.fired
        PROVE  d.fired
    BY <2>1, <2>5 DEF WithdrawnInv
  <2> QED
    BY <2>1, <2>2, <2>3, <2>4, <2>5 DEF WritableFrom, WithdrawnInv
<1>4. ASSUME NEW h \in Handlers, Awaits(h)'
      PROVE  handler'[h].plan \notin withdrawn'
  <2>1. AwaitEffect(h)
    BY <1>4, AwaitSteps
  <2>2. CASE Awaits(h) /\ handler'[h] = handler[h]
    BY <1>1, <2>2 DEF WithdrawnInv
  <2>3. CASE handler'[h].plan = requests + 1
    <3>1. withdrawn' \subseteq 1..requests
      BY <1>1 DEF WithdrawnInv
    <3> QED
      BY <1>0, <2>3, <3>1
  <2> QED
    BY <2>1, <2>2, <2>3 DEF AwaitEffect
<1>5. ASSUME NEW s \in Scans
      PROVE  /\ scan'[s].gone \subseteq withdrawn'
             /\ \A d \in scan'[s].queue : d.plan \notin scan'[s].gone
             /\ scan'[s].pc \in {"mark", "publish"} => scan'[s].cur.plan \notin scan'[s].gone
  <2>0. /\ scan[s].gone \subseteq withdrawn
        /\ \A d \in scan[s].queue : d.plan \notin scan[s].gone
        /\ scan[s].pc \in {"mark", "publish"} => scan[s].cur.plan \notin scan[s].gone
    BY DEF WithdrawnInv
  <2>1. CASE scan'[s] = scan[s]
    BY <1>1, <2>0, <2>1
  <2>2. CASE Rests(s)
    BY <1>1, <2>0, <2>2 DEF Rests
  <2>3. CASE Takes(s, Dues(s))
    <3>1. ASSUME NEW d \in Dues(s) PROVE d.plan \notin scan[s].gone
      <4>1. Writable(d) /\ ~d.fired
        BY <3>1, DuesShape DEF Writable
      <4> QED
        BY <2>0, <4>1 DEF WithdrawnInv
    <3> QED
      BY <1>1, <2>0, <2>3, <3>1 DEF Takes
  <2>4. CASE Takes(s, scan[s].queue)
    BY <1>1, <2>0, <2>4 DEF Takes
  <2>5. CASE Marks(s)
    BY <1>1, <2>0, <2>5 DEF Marks
  <2> QED
    BY <2>1, <2>2, <2>3, <2>4, <2>5, ScanSteps DEF ScanEffect
<1>6. \A d \in dues' : ~d.gone
  <2>1. CASE dues' = dues
    BY <2>1 DEF WithdrawnInv
  <2>2. ASSUME NEW s \in Scans, Publish(s)
        PROVE  \A d \in dues' : ~d.gone
    <3>1. scan[s].cur.plan \notin scan[s].gone
      BY <2>2 DEF Publish, WithdrawnInv
    <3>2. PICK e : /\ dues' = dues \cup {e}
                   /\ e = [n |-> Cardinality(dues) + 1, plan |-> scan[s].cur.plan,
                           gone |-> scan[s].cur.plan \in scan[s].gone]
      BY <2>2 DEF Publish
    <3>3. ~e.gone
      BY <3>1, <3>2
    <3> QED
      BY <3>2, <3>3 DEF WithdrawnInv
  <2> QED
    BY <2>1, <2>2, GhostSteps
<1>7. \A s \in Scans :
        /\ scan'[s].gone \subseteq withdrawn'
        /\ \A d \in scan'[s].queue : d.plan \notin scan'[s].gone
        /\ scan'[s].pc \in {"mark", "publish"} => scan'[s].cur.plan \notin scan'[s].gone
  BY <1>5
<1> QED
  BY <1>2, <1>3, <1>4, <1>6, <1>7 DEF WithdrawnInv

LEMMA CopyInit ==
  ASSUME Init
  PROVE  CopyInv /\ WithdrawnInv
<1>1. /\ \A d : ~Copy(d)
      /\ \A h \in Handlers : ~Awaits(h)
  BY DEF Init, Copy, Writable, Held, Scanned, Awaits, IdleHandler, IdleScan
<1>2. \A d : ~Writable(d)
  BY <1>1 DEF Copy
<1> QED
  BY <1>1, <1>2 DEF Init, CopyInv, WithdrawnInv, IdleScan

LEMMA CalendarInvHolds == Spec => [](ShapeInv /\ CopyInv /\ WithdrawnInv)
<1>1. Init => ShapeInv /\ CopyInv /\ WithdrawnInv
  BY ShapeInit, CopyInit
<1>2. (ShapeInv /\ CopyInv /\ WithdrawnInv) /\ [Next]_vars
      => (ShapeInv /\ CopyInv /\ WithdrawnInv)'
  BY ShapeStep, CopyStep, WithdrawnStep
<1> QED
  BY <1>1, <1>2, PTL DEF Spec

\* calendar/src/main.rs, the update and delete requests against the scan: once a
\* reschedule or a delete is acknowledged with nothing else under way for the
\* event, no scan that starts after that fires the old reminder, for any number of
\* requests and scans, with failures, late writes and crashes.
THEOREM WithdrawnStaysSilent == Spec => []WithdrawnNeverFires
<1>1. WithdrawnInv => WithdrawnNeverFires
  BY DEF WithdrawnInv, WithdrawnNeverFires
<1> QED
  BY <1>1, CalendarInvHolds, PTL

-----------------------------------------------------------------------------
(* Type correctness                                                        *)

\* Ids are taken from the counter.
IdInv == \A d : Copy(d) => d.id <= counter

LEMMA CounterGrows ==
  ASSUME ShapeInv, [Next]_vars
  PROVE  counter \in Nat /\ counter' \in {counter, counter + 1}
<1>1. counter \in Nat
  BY DEF ShapeInv
<1>2. ASSUME NEW h \in Handlers,
             \/ \E shape \in Creates : AcceptCreate(h, shape)
             \/ \E id \in Ids, p \in Patches : AcceptUpdate(h, id, p)
             \/ \E id \in Ids : AcceptDelete(h, id)
      PROVE  counter' = counter
  BY <1>2 DEF AcceptCreate, AcceptUpdate, AcceptDelete, Accept
<1>3. ASSUME NEW h \in Handlers, HandlerStep(h) \/ HandlerFails(h)
      PROVE  counter' = counter \/ counter' = counter + 1
  BY <1>3 DEF HandlerStep, TakeId, ReadForUpdate, PutOrDelete, HandlerFails
<1>4. ASSUME NEW s \in Scans, StartScan(s) \/ ScanStep(s) \/ ScanFails(s)
      PROVE  counter' = counter
  BY <1>4 DEF StartScan, ScanStep, ListKeys, ReadDocs, Mark, Publish, Notified, ScanFails
<1>5. CASE (\E w \in late : LateWrite(w)) \/ Crash \/ Restart \/ Tick \/ UNCHANGED vars
  BY <1>1, <1>5 DEF LateWrite, Crash, Restart, Tick, vars
<1> QED
  BY <1>1, <1>2, <1>3, <1>4, <1>5 DEF Next

LEMMA IdStep ==
  ASSUME ShapeInv, ShapeInv', IdInv, [Next]_vars
  PROVE  IdInv'
<1>0. counter \in Nat /\ counter' \in {counter, counter + 1}
  BY CounterGrows
<1>1. ASSUME NEW c, Copy(c)
      PROVE  c.id \in Nat /\ c.id <= counter'
  <2>1. c.id \in Nat
    BY <1>1, CopyIsDoc, DocFields
  <2> QED
    BY <1>0, <1>1, <2>1 DEF IdInv
<1>2. ASSUME NEW d, Writable(d)'
      PROVE  d.id <= counter'
  <2>1. ASSUME NEW s \in Scans, scan[s].pc = "mark", scan[s].cur \in DocType,
               d = MarkOf(scan[s].cur)
        PROVE  d.id <= counter'
    <3>1. PICK c : c = scan[s].cur
      OBVIOUS
    <3>2. Copy(c) /\ c.id = d.id
      BY <2>1, <3>1, MarkOfShape DEF Copy, Scanned
    <3> QED
      BY <1>1, <3>2
  <2>2. ASSUME NEW c, Writable(c), c.id = d.id
        PROVE  d.id <= counter'
    BY <1>1, <2>2 DEF Copy
  <2>3. d.id = counter' => d.id <= counter'
    BY <1>0
  <2> QED
    BY <1>2, <2>1, <2>2, <2>3, WritableOrigin DEF WritableFrom
<1> QED
  BY <1>1, <1>2, ScannedOrigin DEF Copy, IdInv

\* Every variable has its type, and a document carries the id it is stored under,
\* which has been taken from the counter.
THEOREM CalendarTypeCorrect == Spec => []TypeOK
<1>1. Init => IdInv
  <2> SUFFICES ASSUME Init PROVE \A d : ~Copy(d)
    BY DEF IdInv
  <2> QED
    BY DEF Init, Copy, Writable, Held, Scanned, IdleHandler, IdleScan
<1>2. IdInv /\ ShapeInv /\ ShapeInv' /\ [Next]_vars => IdInv'
  BY IdStep
<1>3. ShapeInv /\ IdInv => TypeOK
  <2> SUFFICES ASSUME ShapeInv, IdInv PROVE TypeOK
    OBVIOUS
  <2>1. \A k \in Ids : docs[k] # NoDoc => docs[k].id = k /\ k <= counter
    BY DEF ShapeInv, IdInv, Copy, Writable
  <2>2. \A w \in late : w.id \in Ids /\ w.doc \in DocType \cup {NoDoc}
    BY DEF ShapeInv, WriteOK, WriteType
  <2>3. \A h \in Handlers :
          /\ handler[h].pc \in {"idle", "db_incr", "db_get", "db_set", "db_delete"}
          /\ handler[h].pc = "db_set" => handler[h].doc \in DocType
    BY DEF ShapeInv, HandlerOK, HandlerType
  <2>4. \A s \in Scans :
          /\ scan[s].pc \in {"idle", "db_keys", "db_batch_get", "mark", "publish", "notify"}
          /\ scan[s].queue \subseteq DocType
          /\ scan[s].pc \in {"mark", "publish"} => scan[s].cur \in DocType
    BY DEF ShapeInv, ScanOK, ScanType
  <2> QED
    BY <2>1, <2>2, <2>3, <2>4 DEF TypeOK, ShapeInv
<1> QED
  BY <1>1, <1>2, <1>3, CalendarInvHolds, PTL DEF Spec

-----------------------------------------------------------------------------
(* A reminder fires twice only when its mark was undone                    *)

\* With scans that do not overlap: what has fired is marked, a stored mark stays
\* unless a put has undone it, and what the scan is about to fire has not fired.
TwiceInv ==
  /\ \A k \in Ids : docs[k] # NoDoc /\ docs[k].plan \in marked \ undone => docs[k].fired
  /\ \A d \in dues : d.plan \in marked
  /\ \A c, d \in dues : c.plan = d.plan /\ c.plan \notin undone => c = d
  /\ \A s \in Scans :
       /\ \A d \in scan[s].queue : d.plan \in undone \/ (\A f \in dues : f.plan # d.plan)
       /\ \A c, d \in scan[s].queue : c.plan = d.plan => c = d
       /\ scan[s].pc \in {"mark", "publish"} =>
            /\ scan[s].cur.plan \in undone \/ (\A f \in dues : f.plan # scan[s].cur.plan)
            /\ \A d \in scan[s].queue : d.plan # scan[s].cur.plan
       /\ scan[s].pc = "publish" => scan[s].cur.plan \in marked

\* A write keeps the marks that no put has undone.
LEMMA StoreKeepsMarks ==
  ASSUME ShapeInv, CopyInv, TwiceInv, NEW w, WriteOK(w), Store(w),
         w.doc # NoDoc => \E c : Copy(c) /\ c.plan = w.doc.plan /\ c.id = w.doc.id
  PROVE  /\ marked \subseteq marked' /\ undone \subseteq undone'
         /\ \A k \in Ids : docs'[k] # NoDoc /\ docs'[k].plan \in marked' \ undone'
                             => docs'[k].fired
<1>1. marked \subseteq marked' /\ undone \subseteq undone'
  BY DEF Store
<1>2. ASSUME NEW k \in Ids, docs'[k] # NoDoc, docs'[k].plan \in marked' \ undone'
      PROVE  docs'[k].fired
  <2>1. docs'[k] = IF k = w.id THEN w.doc ELSE docs[k]
    BY StoreShape
  <2>2. CASE k = w.id
    BY <1>2, <2>1, <2>2 DEF Store
  <2>3. CASE k # w.id
    <3>1. PICK d : d = docs[k]
      OBVIOUS
    <3>2. Copy(d) /\ d.id = k /\ docs'[k] = d
      BY <1>2, <2>1, <2>3, <3>1 DEF Copy, Writable, ShapeInv
    <3>3. w.doc # NoDoc => d.plan # w.doc.plan
      BY <2>3, <3>2 DEF CopyInv, WriteOK
    <3>4. d.plan \in marked \ undone
      BY <1>1, <1>2, <3>2, <3>3 DEF Store
    <3> QED
      BY <1>2, <3>1, <3>2, <3>4 DEF TwiceInv
  <2> QED
    BY <2>2, <2>3
<1> QED
  BY <1>1, <1>2

LEMMA StoreSteps ==
  ASSUME ShapeInv, [Next]_vars
  PROVE  \/ docs' = docs /\ marked' = marked /\ undone' = undone
         \/ \E w : /\ WriteOK(w) /\ Store(w)
                   /\ w.doc # NoDoc => \E c : Copy(c) /\ c.plan = w.doc.plan /\ c.id = w.doc.id
<1> DEFINE Quietly == docs' = docs /\ marked' = marked /\ undone' = undone
           Writes(w) == /\ WriteOK(w) /\ Store(w)
                        /\ w.doc # NoDoc => \E c : Copy(c) /\ c.plan = w.doc.plan /\ c.id = w.doc.id
<1>1. ASSUME NEW h \in Handlers, PutOrDelete(h)
      PROVE  \E w : Writes(w)
  <2>1. PICK w : w = Write(handler[h].id, handler[h].doc)
    OBVIOUS
  <2>2. WriteOK(w) /\ Store(w) /\ w.doc = handler[h].doc
    BY <1>1, <2>1, PutIsWrite DEF PutOrDelete, Write
  <2>3. handler[h].pc = "db_set" \/ handler[h].doc = NoDoc
    BY <1>1 DEF PutOrDelete, ShapeInv, HandlerOK
  <2>4. PICK c : c = handler[h].doc
    OBVIOUS
  <2>5. w.doc # NoDoc => Copy(c)
    BY <2>2, <2>3, <2>4 DEF Copy, Writable, Held
  <2>6. Writes(w)
    BY <2>2, <2>4, <2>5
  <2> QED
    BY <2>6
<1>2. ASSUME NEW s \in Scans, Mark(s)
      PROVE  \E w : Writes(w)
  <2>1. PICK c : c = scan[s].cur
    OBVIOUS
  <2>2. c \in DocType /\ Copy(c)
    BY <1>2, <2>1 DEF Mark, ShapeInv, ScanOK, Copy, Scanned
  <2>3. PICK w : w = Write(c.id, MarkOf(c))
    OBVIOUS
  <2>4. WriteOK(w) /\ Store(w) /\ c.plan = w.doc.plan /\ c.id = w.doc.id
    BY <1>2, <2>1, <2>2, <2>3, MarkIsWrite, MarkOfShape DEF Mark, Write
  <2>5. Writes(w)
    BY <2>2, <2>4
  <2> QED
    BY <2>5
<1>3. ASSUME NEW w \in late, LateWrite(w)
      PROVE  Quietly \/ \E v : Writes(v)
  <2>1. WriteOK(w) /\ (w.doc # NoDoc => Copy(w.doc))
    BY DEF ShapeInv, Copy, Writable
  <2>2. CASE Store(w)
    <3>1. PICK c : c = w.doc
      OBVIOUS
    <3>2. Writes(w)
      BY <2>1, <2>2, <3>1
    <3> QED
      BY <3>2
  <2>3. CASE UNCHANGED <<docs, markVars>>
    BY <2>3 DEF markVars
  <2> QED
    BY <1>3, <2>2, <2>3 DEF LateWrite
<1>4. ASSUME NEW h \in Handlers,
             \/ \E shape \in Creates : AcceptCreate(h, shape)
             \/ \E id \in Ids, p \in Patches : AcceptUpdate(h, id, p)
             \/ \E id \in Ids : AcceptDelete(h, id)
      PROVE  Quietly
  BY <1>4 DEF AcceptCreate, AcceptUpdate, AcceptDelete, Accept, ghostVars, markVars
<1>5. ASSUME NEW h \in Handlers, TakeId(h) \/ ReadForUpdate(h) \/ HandlerFails(h)
      PROVE  Quietly
  BY <1>5 DEF TakeId, ReadForUpdate, HandlerFails, ghostVars, markVars
<1>6. ASSUME NEW s \in Scans,
             StartScan(s) \/ ListKeys(s) \/ ReadDocs(s) \/ Publish(s) \/ Notified(s) \/ ScanFails(s)
      PROVE  Quietly
  BY <1>6 DEF StartScan, ListKeys, ReadDocs, Publish, Notified, ScanFails, ghostVars, markVars
<1>7. CASE Crash \/ Restart \/ Tick \/ UNCHANGED vars
  BY <1>7 DEF Crash, Restart, Tick, vars, ghostVars, markVars
<1> HIDE DEF Quietly, Writes
<1>8. ASSUME NEW h \in Handlers, HandlerStep(h) \/ HandlerFails(h)
      PROVE  Quietly \/ \E w : Writes(w)
  BY <1>1, <1>5, <1>8 DEF HandlerStep
<1>9. ASSUME NEW s \in Scans, StartScan(s) \/ ScanStep(s) \/ ScanFails(s)
      PROVE  Quietly \/ \E w : Writes(w)
  BY <1>2, <1>6, <1>9 DEF ScanStep
<1>10. Quietly \/ \E w : Writes(w)
  <2>1. (Crash \/ Restart \/ Tick \/ UNCHANGED vars) => Quietly
    BY DEF Quietly, Crash, Restart, Tick, vars, ghostVars, markVars
  <2> QED
    BY <1>3, <1>4, <1>8, <1>9, <2>1 DEF Next
<1> QED
  BY <1>10 DEF Quietly, Writes

LEMMA MarksStay ==
  ASSUME ShapeInv, CopyInv, TwiceInv, [Next]_vars
  PROVE  /\ marked \subseteq marked' /\ undone \subseteq undone'
         /\ \A k \in Ids : docs'[k] # NoDoc /\ docs'[k].plan \in marked' \ undone'
                             => docs'[k].fired
<1>1. CASE docs' = docs /\ marked' = marked /\ undone' = undone
  BY <1>1 DEF TwiceInv
<1>2. ASSUME NEW w, WriteOK(w), Store(w),
             w.doc # NoDoc => \E c : Copy(c) /\ c.plan = w.doc.plan /\ c.id = w.doc.id
      PROVE  /\ marked \subseteq marked' /\ undone \subseteq undone'
             /\ \A k \in Ids : docs'[k] # NoDoc /\ docs'[k].plan \in marked' \ undone'
                             => docs'[k].fired
  BY <1>2, StoreKeepsMarks
<1> QED
  BY <1>1, <1>2, StoreSteps

\* Unfired, stored: the reminder has not fired, unless its mark was undone.
LEMMA DuesHaveNotFired ==
  ASSUME ShapeInv, CopyInv, TwiceInv, NEW s \in Scans
  PROVE  /\ \A d \in Dues(s) : d.plan \in undone \/ (\A f \in dues : f.plan # d.plan)
         /\ \A c, d \in Dues(s) : c.plan = d.plan => c = d
<1>1. ASSUME NEW d \in Dues(s)
      PROVE  d.plan \in undone \/ (\A f \in dues : f.plan # d.plan)
  <2>1. d.plan \in undone \/ d.plan \notin marked
    BY <1>1, DuesShape DEF TwiceInv
  <2> QED
    BY <2>1 DEF TwiceInv
<1>2. ASSUME NEW c \in Dues(s), NEW d \in Dues(s), c.plan = d.plan
      PROVE  c = d
  <2>1. PICK j \in Ids, k \in Ids : docs[j] = c /\ docs[k] = d /\ c # NoDoc /\ d # NoDoc
    BY <1>2, DuesShape
  <2>2. c.id = d.id /\ c.id = j /\ d.id = k
    BY <1>2, <2>1 DEF CopyInv, Copy, Writable, ShapeInv
  <2> QED
    BY <2>1, <2>2
<1> QED
  BY <1>1, <1>2

LEMMA TwiceStep ==
  ASSUME NEW s, Scans = {s}, ShapeInv, ShapeInv', CopyInv, TwiceInv, [Next]_vars
  PROVE  TwiceInv'
<1>0. s \in Scans /\ \A r \in Scans : r = s
  OBVIOUS
<1>1. /\ marked \subseteq marked' /\ undone \subseteq undone'
      /\ \A k \in Ids : docs'[k] # NoDoc /\ docs'[k].plan \in marked' \ undone'
                          => docs'[k].fired
  BY MarksStay
<1> DEFINE Pc == scan[s].pc
           Q == scan[s].queue
           Cur == scan[s].cur
<1>2. /\ \A d \in Q : d.plan \in undone \/ (\A f \in dues : f.plan # d.plan)
      /\ \A c, d \in Q : c.plan = d.plan => c = d
      /\ Pc \in {"mark", "publish"} =>
            /\ Cur.plan \in undone \/ (\A f \in dues : f.plan # Cur.plan)
            /\ \A d \in Q : d.plan # Cur.plan
      /\ Pc = "publish" => Cur.plan \in marked
  BY <1>0 DEF TwiceInv
<1>3. CASE Publish(s)
  <2>1. PICK e : dues' = dues \cup {e} /\ e.plan = Cur.plan
    <3>1. PICK e : /\ dues' = dues \cup {e}
                   /\ e = [n |-> Cardinality(dues) + 1, plan |-> Cur.plan,
                           gone |-> Cur.plan \in scan[s].gone]
      BY <1>3 DEF Publish
    <3> QED
      BY <3>1
  <2>2. /\ Pc = "publish" /\ marked' = marked /\ undone' = undone
        /\ scan' = [scan EXCEPT ![s].pc = "notify"]
    BY <1>3 DEF Publish, ghostVars, markVars
  <2>3. scan'[s].pc = "notify" /\ scan'[s].queue = Q
    <3>1. Cur \in DocType
      BY <1>0, <2>2 DEF ShapeInv, ScanOK
    <3>2. PICK t : /\ ScanOK(t) /\ scan' = [scan EXCEPT ![s] = t]
                   /\ t.pc = "notify" /\ t.queue = Q
      BY <1>0, <2>2, <3>1, ScanPhase
    <3>3. scan'[s] = t
      BY <1>0, <3>2, ScanShape
    <3> QED
      BY <3>2, <3>3
  <2>4. \A d \in dues' : d.plan \in marked'
    BY <1>2, <2>1, <2>2 DEF TwiceInv
  <2>5. \A c, d \in dues' : c.plan = d.plan /\ c.plan \notin undone' => c = d
    <3>1. Cur.plan \notin undone => \A d \in dues : d.plan # Cur.plan
      BY <1>2, <2>2
    <3> QED
      BY <2>1, <2>2, <3>1 DEF TwiceInv
  <2>6. \A d \in Q : d.plan \in undone' \/ (\A f \in dues' : f.plan # d.plan)
    <3>1. ASSUME NEW d \in Q PROVE d.plan \in undone' \/ (\A f \in dues' : f.plan # d.plan)
      <4>1. d.plan # Cur.plan
        BY <1>2, <2>2
      <4> QED
        BY <1>2, <2>1, <2>2, <4>1
    <3> QED
      BY <3>1
  <2>7. \A r \in Scans :
          /\ \A d \in scan'[r].queue : d.plan \in undone' \/ (\A f \in dues' : f.plan # d.plan)
          /\ \A c, d \in scan'[r].queue : c.plan = d.plan => c = d
          /\ scan'[r].pc \notin {"mark", "publish"}
    BY <1>0, <1>2, <2>3, <2>6
  <2> QED
    BY <1>1, <2>4, <2>5, <2>7 DEF TwiceInv
<1>4. CASE dues' = dues
  <2>1. \A d \in dues' : d.plan \in marked'
    BY <1>1, <1>4 DEF TwiceInv
  <2>2. \A c, d \in dues' : c.plan = d.plan /\ c.plan \notin undone' => c = d
    BY <1>1, <1>4 DEF TwiceInv
  <2>3. \A p : p \in undone \/ (\A f \in dues : f.plan # p) => p \in undone' \/ (\A f \in dues' : f.plan # p)
    BY <1>1, <1>4
  <2> DEFINE Fresh == /\ \A d \in scan'[s].queue : d.plan \in undone \/ (\A f \in dues : f.plan # d.plan)
                      /\ \A c, d \in scan'[s].queue : c.plan = d.plan => c = d
                      /\ scan'[s].pc \in {"mark", "publish"} =>
                            /\ scan'[s].cur.plan \in undone \/ (\A f \in dues : f.plan # scan'[s].cur.plan)
                            /\ \A d \in scan'[s].queue : d.plan # scan'[s].cur.plan
                      /\ scan'[s].pc = "publish" => scan'[s].cur.plan \in marked'
  <2>4. ASSUME scan'[s] = scan[s] PROVE Fresh
    BY <1>1, <1>2, <2>4
  <2>5. ASSUME Rests(s) PROVE Fresh
    BY <1>2, <2>5 DEF Rests
  <2>6. ASSUME Takes(s, Dues(s)) PROVE Fresh
    BY <1>0, <2>6, DuesHaveNotFired DEF Takes
  <2>7. ASSUME Takes(s, Q) PROVE Fresh
    BY <1>2, <2>7 DEF Takes
  <2>8. ASSUME Marks(s) PROVE Fresh
    <3>1. Cur.plan \in marked'
      <4>1. Cur \in DocType
        BY <1>0, <2>8 DEF Marks, ShapeInv, ScanOK
      <4>2. PICK w : w = Write(Cur.id, MarkOf(Cur))
        OBVIOUS
      <4>3. Store(w) /\ w.doc.fired /\ w.doc.plan = Cur.plan /\ w.doc # NoDoc
        BY <2>8, <4>1, <4>2, MarkOfShape, NoDocIsNone DEF Marks, Mark, Write
      <4> QED
        BY <4>3 DEF Store
    <3> QED
      BY <1>2, <2>8, <3>1 DEF Marks
  <2>9. Fresh
    BY <1>0, <2>4, <2>5, <2>6, <2>7, <2>8, ScanSteps DEF ScanEffect
  <2>10. /\ \A d \in scan'[s].queue : d.plan \in undone' \/ (\A f \in dues' : f.plan # d.plan)
         /\ \A c, d \in scan'[s].queue : c.plan = d.plan => c = d
         /\ scan'[s].pc \in {"mark", "publish"} =>
               /\ scan'[s].cur.plan \in undone' \/ (\A f \in dues' : f.plan # scan'[s].cur.plan)
               /\ \A d \in scan'[s].queue : d.plan # scan'[s].cur.plan
         /\ scan'[s].pc = "publish" => scan'[s].cur.plan \in marked'
    BY <2>3, <2>9
  <2> QED
    BY <1>0, <1>1, <2>1, <2>2, <2>10 DEF TwiceInv
<1> QED
  BY <1>0, <1>3, <1>4, GhostSteps

\* calendar/README.md (78-80), as far as the code keeps it: with scans that do not
\* overlap, the reminder of one time shape fires again only if a put has undone its
\* mark. Failed marks, late writes, lost answers and crashes never do that.
THEOREM FiresTwiceOnlyIfUndone ==
  ASSUME NEW s, Scans = {s}
  PROVE  Spec => []TwiceOnlyIfUndone
<1>1. Init => TwiceInv
  <2> SUFFICES ASSUME Init PROVE TwiceInv
    OBVIOUS
  <2> QED
    BY DEF Init, TwiceInv, IdleScan
<1>2. TwiceInv /\ (ShapeInv /\ CopyInv) /\ ShapeInv' /\ [Next]_vars => TwiceInv'
  BY TwiceStep
<1>3. TwiceInv => TwiceOnlyIfUndone
  <2> SUFFICES ASSUME TwiceInv, NEW p \in Plans, p \notin undone
               PROVE  ~(Cardinality(Fired(p)) > 1)
    BY DEF TwiceOnlyIfUndone
  <2>1. \A c, d \in Fired(p) : c = d
    BY DEF Fired, TwiceInv
  <2>2. CASE Fired(p) = {}
    BY <2>2, FS_EmptySet
  <2>3. CASE Fired(p) # {}
    <3>1. PICK d \in Fired(p) : TRUE
      BY <2>3
    <3>2. Fired(p) = {d}
      BY <2>1, <3>1
    <3>3. Cardinality({d}) = 1
      BY FS_Singleton, Zenon
    <3> QED
      BY <3>2, <3>3
  <2> QED
    BY <2>2, <2>3
<1> QED
  BY <1>1, <1>2, <1>3, CalendarInvHolds, PTL DEF Spec
=============================================================================
