------------------------------ MODULE Scheduler ------------------------------
(***************************************************************************)
(* The `scheduler` plugin: once and cron schedules kept as documents of    *)
(* the `database` plugin.                                                  *)
(*                                                                         *)
(* The plugin has no state of its own. Request handlers and periodic scans *)
(* are tasks that read and write whole documents through round trips to    *)
(* the database, each of which may fail, or time out and still be carried  *)
(* out later. A task is described by the call it waits for; one action     *)
(* answers that call and runs the task up to its next one.                 *)
(*                                                                         *)
(* A document carries the revision that wrote its configuration, the       *)
(* number of the schedule_set request: history, the code does not store it.*)
(***************************************************************************)
EXTENDS Integers, Sequences, FiniteSets

CONSTANTS
  Ids,         \* schedule ids; generated ids are decimal numbers, so all are
  Configs,     \* what a schedule_set may ask for: trigger, enabled, fire
  CronTimes,   \* the occurrences of the cron expression
  Handlers,    \* request tasks that may run at the same time
  Scans,       \* scan tasks that may run at the same time
  Faulty,      \* the calls that may fail or time out
  NoDoc,       \* no document under the key
  MaxTime,     \* bound: last reading of the clock
  MaxSets,     \* bound: schedule_set requests in a behaviour
  MaxFaults,   \* bound: calls that fail
  MaxCrashes   \* bound: crashes of the plugin process

Never == -1    \* last_fired_ms of a document that has not fired

ASSUME SchedulerAssumption ==
  /\ Ids \subseteq Nat \ {0}
  /\ Configs \subseteq [trigger : {"once", "cron"}, at : Nat,
                        enabled : BOOLEAN, fire : {"event", "action"}]
  /\ CronTimes \subseteq Nat
  /\ NoDoc \notin [id : Ids, rev : Nat, cfg : Configs, firedOnce : BOOLEAN,
                   count : Nat, last : Int, err : BOOLEAN, created : Nat]
  /\ {MaxTime, MaxSets, MaxFaults, MaxCrashes} \subseteq Nat

VARIABLES
  docs,        \* the documents stored under `sched:<id>`
  counter,     \* the counter `meta:next_id`
  late,        \* writes whose caller has given up, still to be carried out
  hpc,         \* the call a handler waits for
  hreq,        \* the request it handles
  hdoc,        \* the document it is about to store
  spc,         \* the call a scan waits for
  snow,        \* the scan's now_ms, read when it was started
  skeys,       \* the keys it has listed
  queue,       \* the due fires it has not come to yet
  cur,         \* the due fire in hand
  up,          \* the plugin process is running
  boot,        \* when it was started
  sets,        \* history: the schedule_set requests accepted
  fires,       \* history: what was dispatched, in order
  stopped,     \* history: ids whose deletion or disabling was acknowledged
  sstopped,    \* history: the ids of stopped that were in it when a scan was started, until set anew
  now,         \* wall clock
  faults,      \* number of failed calls
  crashes      \* number of crashes

handlerVars == <<hpc, hreq, hdoc>>
workVars == <<spc, snow, skeys, queue, cur>>
scanVars == <<workVars, sstopped>>
processVars == <<up, boot>>
boundVars == <<now, faults, crashes>>
vars == <<docs, counter, late, handlerVars, scanVars, processVars, sets, fires,
          stopped, boundVars>>

-----------------------------------------------------------------------------
(* The model of a schedule *)

NoReq == [id |-> 0, rev |-> 0, now |-> 0]
NoFire == [doc |-> NoDoc, due |-> 0]

\* Mutant: the anchor of a new document is backdated.
BuildDoc_Backdated(id, rev, cfg, created) ==
  [id |-> id, rev |-> rev, cfg |-> cfg, firedOnce |-> FALSE, count |-> 0,
   last |-> created - 2, err |-> FALSE, created |-> created]

\* build_doc: a set replaces the document and resets its fire state.
BuildDoc(id, rev, cfg, created) ==
  [id |-> id, rev |-> rev, cfg |-> cfg, firedOnce |-> FALSE, count |-> 0,
   last |-> Never, err |-> FALSE, created |-> created]

\* The first occurrence strictly after t, if there is one.
NextCronAfter(t) ==
  {c \in CronTimes : c > t /\ \A b \in CronTimes : b > t => c <= b}

\* Mutant: one-shots do not look at their guard.
NextFireMs_Forgets(d) ==
  CASE ~d.cfg.enabled -> {}
    [] d.cfg.enabled /\ d.cfg.trigger = "once" -> {d.cfg.at}
    [] d.cfg.enabled /\ d.cfg.trigger = "cron" ->
         NextCronAfter(IF d.last = Never THEN d.created ELSE d.last)

\* Mutant: disabled schedules are scanned like the others.
NextFireMs_IgnoresEnabled(d) ==
  CASE d.cfg.trigger = "once" -> IF d.firedOnce THEN {} ELSE {d.cfg.at}
    [] d.cfg.trigger = "cron" ->
         NextCronAfter(IF d.last = Never THEN d.created ELSE d.last)

\* next_fire_ms: the pending deadline, if there is one.
NextFireMs(d) ==
  CASE ~d.cfg.enabled -> {}
    [] d.cfg.enabled /\ d.cfg.trigger = "once" ->
         IF d.firedOnce THEN {} ELSE {d.cfg.at}
    [] d.cfg.enabled /\ d.cfg.trigger = "cron" ->
         NextCronAfter(IF d.last = Never THEN d.created ELSE d.last)

\* due_schedules over the documents the batch read returns; a key deleted
\* since it was listed reads null and is skipped.
DueFires(keys, t) ==
  {f \in [doc : {docs[k] : k \in keys} \ {NoDoc}, due : 0..t] :
     f.due \in NextFireMs(f.doc)}

Marked_NotCounted(f) ==
  [f.doc EXCEPT !.firedOnce = @ \/ f.doc.cfg.trigger = "once",
                !.last = f.due, !.err = FALSE]

\* mark_fired: the document with the fire accounted for.
Marked(f) ==
  [f.doc EXCEPT !.firedOnce = @ \/ f.doc.cfg.trigger = "once",
                !.count = @ + 1, !.last = f.due, !.err = FALSE]

-----------------------------------------------------------------------------
(* Calls *)

Write(id, doc) == [id |-> id, doc |-> doc]

\* Call k fails: the kernel or the database answers with an error.
Fault(k) ==
  /\ k \in Faulty
  /\ faults < MaxFaults
  /\ faults' = faults + 1

\* A failed write is not carried out, or is carried out after its caller's
\* timeout.
LostOrLate(w) == late' \in {late, late \cup {w}}

\* A write whose caller has given up is carried out, or is gone after all.
LateWrite(w) ==
  /\ w \in late
  /\ late' = late \ {w}
  /\ docs' \in {docs, [docs EXCEPT ![w.id] = w.doc]}
  /\ UNCHANGED <<counter, handlerVars, scanVars, processVars, sets, fires,
                 stopped, boundVars>>

-----------------------------------------------------------------------------
(* Request handlers *)

\* No other request and no late write is about to change the schedule.
Quiet(h, id) ==
  /\ \A g \in Handlers \ {h} : hpc[g] = "idle" \/ hreq[g].id # id
  /\ \A w \in late : w.id # id

HandlerDone(h) ==
  /\ hpc' = [hpc EXCEPT ![h] = "idle"]
  /\ hreq' = [hreq EXCEPT ![h] = NoReq]
  /\ hdoc' = [hdoc EXCEPT ![h] = NoDoc]

\* Bound: enough ids are left for one more generated id.
IdsLeft == counter + Cardinality({h \in Handlers : hpc[h] = "db_incr"}) + 1 \in Ids

\* A schedule that is set anew is stopped for no one.
SetAnew(id) ==
  /\ stopped' = stopped \ {id}
  /\ sstopped' = [s \in Scans |-> sstopped[s] \ {id}]

\* schedule_set with an id of the caller's, or without one.
AcceptSet(h, id, cfg) ==
  /\ up /\ hpc[h] = "idle"
  /\ Len(sets) < MaxSets
  /\ id = 0 => IdsLeft
  /\ LET rev == Len(sets) + 1
     IN /\ hreq' = [hreq EXCEPT ![h] = [id |-> id, rev |-> rev, now |-> now]]
        /\ hpc' = [hpc EXCEPT ![h] = IF id = 0 THEN "db_incr" ELSE "db_get"]
        /\ sets' = Append(sets, [id |-> id, cfg |-> cfg])
  /\ SetAnew(id)
  /\ UNCHANGED <<docs, counter, late, hdoc, workVars, processVars, fires, boundVars>>

AcceptDelete(h, id) ==
  /\ up /\ hpc[h] = "idle"
  /\ hpc' = [hpc EXCEPT ![h] = "db_delete"]
  /\ hreq' = [hreq EXCEPT ![h] = [NoReq EXCEPT !.id = id]]
  /\ UNCHANGED <<docs, counter, late, hdoc, scanVars, processVars, sets, fires,
                 stopped, boundVars>>

\* The caller's id: an existing document hands on its creation time.
SetReadsExisting(h) ==
  /\ hpc[h] = "db_get"
  /\ LET r == hreq[h]
         old == docs[r.id]
         created == IF old = NoDoc THEN r.now ELSE old.created
     IN hdoc' = [hdoc EXCEPT ![h] =
                   BuildDoc(r.id, r.rev, sets[r.rev].cfg, created)]
  /\ hpc' = [hpc EXCEPT ![h] = "db_set"]
  /\ UNCHANGED <<docs, counter, late, hreq, scanVars, processVars, sets, fires,
                 stopped, boundVars>>

\* A generated id, within the bound.
SetTakesNextId(h) ==
  /\ hpc[h] = "db_incr"
  /\ counter + 1 \in Ids
  /\ counter' = counter + 1
  /\ LET r == hreq[h]
     IN /\ hdoc' = [hdoc EXCEPT ![h] =
                      BuildDoc(counter + 1, r.rev, sets[r.rev].cfg, r.now)]
        /\ hreq' = [hreq EXCEPT ![h] = [r EXCEPT !.id = counter + 1]]
        /\ sets' = [sets EXCEPT ![r.rev].id = counter + 1]
  /\ hpc' = [hpc EXCEPT ![h] = "db_set"]
  /\ SetAnew(counter + 1)
  /\ UNCHANGED <<docs, late, workVars, processVars, fires, boundVars>>

\* The document is stored and the reply says whether it was created.
SetStores(h) ==
  /\ hpc[h] = "db_set"
  /\ LET d == hdoc[h]
     IN /\ docs' = [docs EXCEPT ![d.id] = d]
        /\ stopped' = IF ~d.cfg.enabled /\ Quiet(h, d.id)
                      THEN stopped \cup {d.id}
                      ELSE stopped
  /\ HandlerDone(h)
  /\ UNCHANGED <<counter, late, scanVars, processVars, sets, fires, boundVars>>

DeleteStores(h) ==
  /\ hpc[h] = "db_delete"
  /\ LET id == hreq[h].id
     IN /\ docs' = [docs EXCEPT ![id] = NoDoc]
        /\ stopped' = IF Quiet(h, id) THEN stopped \cup {id} ELSE stopped
  /\ HandlerDone(h)
  /\ UNCHANGED <<counter, late, scanVars, processVars, sets, fires,
                 boundVars>>

\* A call of the handler fails: the request is answered with an error.
HandlerFails(h) ==
  /\ hpc[h] # "idle"
  /\ Fault(hpc[h])
  /\ CASE hpc[h] = "db_set" ->
            LostOrLate(Write(hdoc[h].id, hdoc[h])) /\ UNCHANGED counter
       [] hpc[h] = "db_delete" ->
            LostOrLate(Write(hreq[h].id, NoDoc)) /\ UNCHANGED counter
       [] hpc[h] = "db_incr" ->
            counter' \in {counter, counter + 1} /\ UNCHANGED late
       [] hpc[h] = "db_get" -> UNCHANGED <<late, counter>>
  /\ HandlerDone(h)
  /\ UNCHANGED <<docs, scanVars, processVars, sets, fires, stopped,
                 now, crashes>>

-----------------------------------------------------------------------------
(* The scan *)

\* The interval ticks: the loop starts a scan, whether or not the previous one
\* has ended.
StartScan(s) ==
  /\ up /\ spc[s] = "idle"
  /\ spc' = [spc EXCEPT ![s] = "db_keys"]
  /\ snow' = [snow EXCEPT ![s] = now]
  /\ sstopped' = [sstopped EXCEPT ![s] = stopped]
  /\ UNCHANGED <<docs, counter, late, handlerVars, skeys, queue, cur,
                 processVars, sets, fires, stopped, boundVars>>

\* The scan takes up the next of the fires in q, or ends.
TakeNext(s, q) ==
  \/ /\ q = {}
     /\ spc' = [spc EXCEPT ![s] = "idle"]
     /\ snow' = [snow EXCEPT ![s] = 0]
     /\ sstopped' = [sstopped EXCEPT ![s] = {}]
     /\ queue' = [queue EXCEPT ![s] = {}]
     /\ cur' = [cur EXCEPT ![s] = NoFire]
  \/ \E f \in q :
       /\ spc' = [spc EXCEPT ![s] = "mark"]
       /\ queue' = [queue EXCEPT ![s] = q \ {f}]
       /\ cur' = [cur EXCEPT ![s] = f]
       /\ UNCHANGED <<snow, sstopped>>

ListKeys(s) ==
  /\ spc[s] = "db_keys"
  /\ LET keys == {k \in Ids : docs[k] # NoDoc}
     IN IF keys = {}
        THEN TakeNext(s, {}) /\ UNCHANGED skeys
        ELSE /\ skeys' = [skeys EXCEPT ![s] = keys]
             /\ spc' = [spc EXCEPT ![s] = "db_batch_get"]
             /\ UNCHANGED <<snow, sstopped, queue, cur>>
  /\ UNCHANGED <<docs, counter, late, handlerVars, processVars, sets, fires,
                 stopped, boundVars>>

ReadDocs(s) ==
  /\ spc[s] = "db_batch_get"
  /\ TakeNext(s, DueFires(skeys[s], snow[s]))
  /\ skeys' = [skeys EXCEPT ![s] = {}]
  /\ UNCHANGED <<docs, counter, late, handlerVars, processVars, sets, fires,
                 stopped, boundVars>>

\* The read failed: the scan ends.
ListFails(s) ==
  /\ spc[s] \in {"db_keys", "db_batch_get"}
  /\ Fault(spc[s])
  /\ TakeNext(s, {})
  /\ skeys' = [skeys EXCEPT ![s] = {}]
  /\ UNCHANGED <<docs, counter, late, handlerVars, processVars, sets, fires,
                 stopped, now, crashes>>

\* Mutant: a fire whose mark cannot be put is skipped.
MarkFails_Skips(s) ==
  /\ spc[s] = "mark"
  /\ Fault("mark")
  /\ LostOrLate(Write(cur[s].doc.id, Marked(cur[s])))
  /\ TakeNext(s, queue[s])
  /\ UNCHANGED <<docs, counter, handlerVars, skeys, processVars, sets, fires,
                 stopped, now, crashes>>

\* Mutant: the mark is put back only after the dispatch, with the error.
MarkFired_Later(s) ==
  /\ spc[s] = "mark"
  /\ cur' = [cur EXCEPT ![s].doc = Marked(cur[s])]
  /\ spc' = [spc EXCEPT ![s] = "dispatch"]
  /\ UNCHANGED <<docs, counter, late, handlerVars, snow, skeys, queue, sstopped,
                 processVars, sets, fires, stopped, boundVars>>

\* mark_fired puts back the document the scan has read.
MarkFired(s) ==
  /\ spc[s] = "mark"
  /\ LET d == Marked(cur[s])
     IN /\ docs' = [docs EXCEPT ![d.id] = d]
        /\ cur' = [cur EXCEPT ![s].doc = d]
  /\ spc' = [spc EXCEPT ![s] = "dispatch"]
  /\ UNCHANGED <<counter, late, handlerVars, snow, skeys, queue, sstopped,
                 processVars, sets, fires, stopped, boundVars>>

\* The mark could not be persisted; the fire is dispatched nevertheless.
MarkFails(s) ==
  /\ spc[s] = "mark"
  /\ Fault("mark")
  /\ LET d == Marked(cur[s])
     IN /\ LostOrLate(Write(d.id, d))
        /\ cur' = [cur EXCEPT ![s].doc = d]
  /\ spc' = [spc EXCEPT ![s] = "dispatch"]
  /\ UNCHANGED <<docs, counter, handlerVars, snow, skeys, queue, sstopped,
                 processVars, sets, fires, stopped, now, crashes>>

\* What is dispatched, with the circumstances the properties ask about.
Fired(s) ==
  LET d == cur[s].doc
  IN [id |-> d.id, rev |-> d.rev, due |-> cur[s].due, early |-> cur[s].due > now,
      run |-> crashes, missed |-> cur[s].due < boot,
      stopped |-> d.id \in sstopped[s]]

\* The event is published, or the action called with success.
Dispatch(s) ==
  /\ spc[s] = "dispatch"
  /\ fires' = Append(fires, Fired(s))
  /\ TakeNext(s, queue[s])
  /\ UNCHANGED <<docs, counter, late, handlerVars, skeys, processVars, sets,
                 stopped, boundVars>>

\* Mutant: a failed action ends the scan.
DispatchFails_Aborts(s) ==
  /\ spc[s] = "dispatch"
  /\ cur[s].doc.cfg.fire = "action"
  /\ Fault("action")
  /\ fires' = Append(fires, Fired(s))
  /\ TakeNext(s, {})
  /\ UNCHANGED <<docs, counter, late, handlerVars, skeys, processVars, sets,
                 stopped, now, crashes>>

\* The action was called and failed, or did not answer in time.
DispatchFails(s) ==
  /\ spc[s] = "dispatch"
  /\ cur[s].doc.cfg.fire = "action"
  /\ Fault("action")
  /\ fires' = Append(fires, Fired(s))
  /\ spc' = [spc EXCEPT ![s] = "errget"]
  /\ UNCHANGED <<docs, counter, late, handlerVars, snow, skeys, queue, cur,
                 sstopped, processVars, sets, stopped, now, crashes>>

\* record_last_error reads the document again; if it is gone there is nothing
\* to record.
ReadForError(s) ==
  /\ spc[s] = "errget"
  /\ LET d == docs[cur[s].doc.id]
     IN IF d = NoDoc
        THEN TakeNext(s, queue[s])
        ELSE /\ cur' = [cur EXCEPT ![s].doc = [d EXCEPT !.err = TRUE]]
             /\ spc' = [spc EXCEPT ![s] = "errput"]
             /\ UNCHANGED <<snow, queue, sstopped>>
  /\ UNCHANGED <<docs, counter, late, handlerVars, skeys, processVars, sets,
                 fires, stopped, boundVars>>

\* String::truncate(256) panics if byte 256 of the error text lies inside a
\* character: the scan task dies with the fires it still had.
TruncatePanics(s) ==
  /\ spc[s] = "errget"
  /\ docs[cur[s].doc.id] # NoDoc
  /\ Fault("truncate")
  /\ TakeNext(s, {})
  /\ UNCHANGED <<docs, counter, late, handlerVars, skeys, processVars, sets,
                 fires, stopped, now, crashes>>

\* It puts the document back with the error.
RecordError(s) ==
  /\ spc[s] = "errput"
  /\ docs' = [docs EXCEPT ![cur[s].doc.id] = cur[s].doc]
  /\ TakeNext(s, queue[s])
  /\ UNCHANGED <<counter, late, handlerVars, skeys, processVars, sets, fires,
                 stopped, boundVars>>

\* Recording the error fails, which is ignored.
RecordErrorFails(s) ==
  /\ spc[s] \in {"errget", "errput"}
  /\ Fault(spc[s])
  /\ IF spc[s] = "errput"
     THEN LostOrLate(Write(cur[s].doc.id, cur[s].doc))
     ELSE UNCHANGED late
  /\ TakeNext(s, queue[s])
  /\ UNCHANGED <<docs, counter, handlerVars, skeys, processVars, sets, fires,
                 stopped, now, crashes>>

-----------------------------------------------------------------------------
(* The process and the clock *)

\* The writes that are on their way when the process dies.
InFlightWrites ==
  {Write(hdoc[h].id, hdoc[h]) : h \in {g \in Handlers : hpc[g] = "db_set"}}
    \cup {Write(hreq[h].id, NoDoc) : h \in {g \in Handlers : hpc[g] = "db_delete"}}
    \cup {Write(cur[s].doc.id, Marked(cur[s])) :
            s \in {r \in Scans : spc[r] = "mark"}}
    \cup {Write(cur[s].doc.id, cur[s].doc) :
            s \in {r \in Scans : spc[r] = "errput"}}

Idle ==
  /\ hpc' = [h \in Handlers |-> "idle"]
  /\ hreq' = [h \in Handlers |-> NoReq]
  /\ hdoc' = [h \in Handlers |-> NoDoc]
  /\ spc' = [s \in Scans |-> "idle"]
  /\ snow' = [s \in Scans |-> 0]
  /\ skeys' = [s \in Scans |-> {}]
  /\ queue' = [s \in Scans |-> {}]
  /\ cur' = [s \in Scans |-> NoFire]
  /\ sstopped' = [s \in Scans |-> {}]

\* The connection breaks, the kernel shuts the plugin down or the process dies:
\* the loop ends and every task with it.
Crash ==
  /\ up /\ crashes < MaxCrashes
  /\ crashes' = crashes + 1
  /\ up' = FALSE
  /\ late' = late \cup InFlightWrites
  /\ Idle
  /\ UNCHANGED <<docs, counter, boot, sets, fires, stopped, now, faults>>

\* The supervisor starts the plugin again; by then the database has finished
\* with what the dead process had asked for.
Restart ==
  /\ ~up /\ late = {}
  /\ up' = TRUE
  /\ boot' = now
  /\ UNCHANGED <<docs, counter, late, handlerVars, scanVars, sets, fires, stopped, boundVars>>

Tick ==
  /\ now < MaxTime
  /\ now' = now + 1
  /\ UNCHANGED <<docs, counter, late, handlerVars, scanVars, processVars, sets,
                 fires, stopped, faults, crashes>>

Init ==
  /\ docs = [i \in Ids |-> NoDoc]
  /\ counter = 0
  /\ late = {}
  /\ hpc = [h \in Handlers |-> "idle"]
  /\ hreq = [h \in Handlers |-> NoReq]
  /\ hdoc = [h \in Handlers |-> NoDoc]
  /\ spc = [s \in Scans |-> "idle"]
  /\ snow = [s \in Scans |-> 0]
  /\ skeys = [s \in Scans |-> {}]
  /\ queue = [s \in Scans |-> {}]
  /\ cur = [s \in Scans |-> NoFire]
  /\ sstopped = [s \in Scans |-> {}]
  /\ up = TRUE
  /\ boot = 0
  /\ sets = << >>
  /\ fires = << >>
  /\ stopped = {}
  /\ now = 0
  /\ faults = 0
  /\ crashes = 0

HandlerStep(h) ==
  SetReadsExisting(h) \/ SetTakesNextId(h) \/ SetStores(h) \/ DeleteStores(h)

ScanStep(s) ==
  \/ ListKeys(s) \/ ReadDocs(s) \/ MarkFired(s) \/ Dispatch(s)
  \/ ReadForError(s) \/ RecordError(s)

ScanFault(s) ==
  \/ ListFails(s) \/ MarkFails(s) \/ DispatchFails(s) \/ TruncatePanics(s)
  \/ RecordErrorFails(s)

Next ==
  \/ \E h \in Handlers, id \in Ids \cup {0}, cfg \in Configs : AcceptSet(h, id, cfg)
  \/ \E h \in Handlers, id \in Ids : AcceptDelete(h, id)
  \/ \E h \in Handlers : HandlerStep(h) \/ HandlerFails(h)
  \/ \E s \in Scans : StartScan(s) \/ ScanStep(s) \/ ScanFault(s)
  \/ \E w \in late : LateWrite(w)
  \/ Crash \/ Restart \/ Tick

Spec == Init /\ [][Next]_vars

\* The interval keeps ticking, the loop runs every task, the database answers.
FairSpec ==
  /\ Spec
  /\ \A s \in Scans : WF_vars(StartScan(s)) /\ WF_vars(ScanStep(s))
  /\ \A h \in Handlers : WF_vars(HandlerStep(h))

-----------------------------------------------------------------------------
(* Properties *)

DocType ==
  [id : Ids, rev : Nat, cfg : Configs, firedOnce : BOOLEAN, count : Nat,
   last : Nat \cup {Never}, err : BOOLEAN, created : Nat]

FireType == [doc : DocType, due : Nat]

\* The shape of every variable.
TypeOK ==
  /\ docs \in [Ids -> DocType \cup {NoDoc}]
  /\ counter \in Nat
  /\ late \subseteq [id : Ids, doc : DocType \cup {NoDoc}]
  /\ hpc \in [Handlers -> {"idle", "db_get", "db_incr", "db_set", "db_delete"}]
  /\ hreq \in [Handlers -> [id : Ids \cup {0}, rev : Nat, now : Nat]]
  /\ hdoc \in [Handlers -> DocType \cup {NoDoc}]
  /\ spc \in [Scans -> {"idle", "db_keys", "db_batch_get", "mark", "dispatch",
                        "errget", "errput"}]
  /\ snow \in [Scans -> Nat]
  /\ skeys \in [Scans -> SUBSET Ids]
  /\ queue \in [Scans -> SUBSET FireType]
  /\ cur \in [Scans -> FireType \cup {NoFire}]
  /\ sstopped \in [Scans -> SUBSET Ids]
  /\ up \in BOOLEAN /\ boot \in Nat
  /\ sets \in Seq([id : Ids \cup {0}, cfg : Configs])
  /\ fires \in Seq([id : Ids, rev : Nat, due : Nat, early : BOOLEAN, run : Nat,
                    missed : BOOLEAN, stopped : BOOLEAN])
  /\ stopped \subseteq Ids
  /\ now \in Nat /\ faults \in Nat /\ crashes \in Nat

FiresOf(r) == {i \in DOMAIN fires : fires[i].rev = r}

\* README, "At-most-once": no occurrence of a schedule is dispatched twice.
NoDoubleFire ==
  \A i, j \in DOMAIN fires :
    fires[i].rev = fires[j].rev /\ fires[i].due = fires[j].due => i = j

\* What is dispatched is due, and comes from a configuration that some
\* schedule_set stored under this id, enabled, and that has this deadline:
\* replaced, deleted and resurrected documents never mix.
FiresAreConfigured ==
  \A i \in DOMAIN fires :
    LET f == fires[i]
        s == sets[f.rev]
    IN /\ ~f.early
       /\ s.id = f.id /\ s.cfg.enabled
       /\ IF s.cfg.trigger = "once" THEN f.due = s.cfg.at ELSE f.due \in CronTimes

\* The stored counters never lag behind what was dispatched: fire_count counts
\* every dispatch of this revision, last_fired_ms is at or past each of them.
CountsCoverFires ==
  \A k \in Ids :
    docs[k] # NoDoc =>
      /\ Cardinality(FiresOf(docs[k].rev)) <= docs[k].count
      /\ \A i \in FiresOf(docs[k].rev) : fires[i].due <= docs[k].last

\* README, "Late firing" and "Cron anchoring": what is pending in a stored
\* document gets dispatched, unless the document is replaced or deleted first.
\* And scan_due: "A failed action dispatch [...] never aborts the remaining
\* fires": a scan ends only when all it had read is dispatched, unless its
\* process died or it panicked while it cut an error text.
Deadlines == CronTimes \cup {c.at : c \in {d \in Configs : d.trigger = "once"}}
PendingFires ==
  /\ [][\A s \in Scans : spc[s] # "idle" /\ spc'[s] = "idle" /\ up' =>
            queue[s] = {} \/ TruncatePanics(s)]_vars
  /\ \A r \in 1..MaxSets, t \in Deadlines \cap 0..MaxTime :
       (\E k \in Ids : docs[k] # NoDoc /\ docs[k].rev = r /\ t \in NextFireMs(docs[k])
                       /\ t <= now)
         ~> \/ \E i \in FiresOf(r) : fires[i].due = t
            \/ \A k \in Ids : docs[k] = NoDoc \/ docs[k].rev # r

\* README, "Cron anchoring": "downtime collapses into at most one catch-up
\* fire" of a schedule.
OneCatchUp ==
  \A i, j \in DOMAIN fires :
    /\ fires[i].rev = fires[j].rev /\ fires[i].run = fires[j].run
    /\ fires[i].missed /\ fires[j].missed
    => i = j

\* README, "Disabled schedules": once the disabling (or deletion) of a schedule
\* is acknowledged, no scan started after that dispatches it.
StoppedNeverFires == \A i \in DOMAIN fires : ~fires[i].stopped

-----------------------------------------------------------------------------
(* The inductive invariant behind NoDoubleFire, for one scan at a time whose
   own writes succeed *)

OneScanAtATime == \A r, s \in Scans : r = s

MarksStick == {"mark", "errput"} \cap Faulty = {}

Setting(h) == hpc[h] \in {"db_get", "db_incr", "db_set"}

Holds(s) == spc[s] \in {"mark", "dispatch", "errget", "errput"}

\* What a task has in hand is there.
InHand ==
  /\ \A h \in Handlers :
       /\ Setting(h) => hreq[h].rev \in DOMAIN sets
       /\ hpc[h] \in {"db_get", "db_delete"} => hreq[h].id \in Ids
       /\ hpc[h] = "db_set" => hdoc[h] # NoDoc
  /\ \A s \in Scans : Holds(s) => cur[s] # NoFire

\* The document belongs to the schedule_set it was built from.
Owned(d) == d.rev \in DOMAIN sets /\ sets[d.rev].id = d.id

\* Occurrence t is no longer pending in the document, nor any before it.
Covers(d, t) == t <= d.last /\ (d.cfg.trigger = "once" => d.firedOnce)

Accounted(d) ==
  \A i \in DOMAIN fires : fires[i].rev = d.rev => Covers(d, fires[i].due)

\* Whatever was dispatched of this revision lies before the fire f.
Unfired(f) ==
  \A i \in DOMAIN fires : fires[i].rev = f.doc.rev => fires[i].due < f.due

\* Revision r has not reached the database yet, so no scan has seen it.
Fresh(r) ==
  /\ \A k \in Ids : docs[k] # NoDoc => docs[k].rev # r
  /\ \A s \in Scans :
       /\ \A f \in queue[s] : f.doc.rev # r
       /\ spc[s] \in {"mark", "dispatch", "errput"} => cur[s].doc.rev # r
  /\ \A i \in DOMAIN fires : fires[i].rev # r

DocInv(k) ==
  docs[k] # NoDoc => docs[k].id = k /\ Owned(docs[k]) /\ Accounted(docs[k])

HandlerInv(h) ==
  /\ hpc[h] # "idle" => up
  /\ hpc[h] = "db_get" => sets[hreq[h].rev].id = hreq[h].id
  /\ hpc[h] = "db_set" => hdoc[h].rev = hreq[h].rev /\ Owned(hdoc[h])
  /\ Setting(h) =>
       /\ Fresh(hreq[h].rev)
       /\ \A g \in Handlers \ {h} : Setting(g) => hreq[g].rev # hreq[h].rev

LateInv(w) ==
  w.doc # NoDoc =>
    /\ w.doc.id = w.id /\ Owned(w.doc) /\ Accounted(w.doc)
    /\ up =>
         /\ Fresh(w.doc.rev)
         /\ \A h \in Handlers : Setting(h) => hreq[h].rev # w.doc.rev
         /\ \A x \in late \ {w} : x.doc # NoDoc => x.doc.rev # w.doc.rev

ScanInv(s) ==
  /\ spc[s] # "idle" => up
  /\ ~Holds(s) => queue[s] = {}
  /\ \A f \in queue[s] :
       /\ Owned(f.doc) /\ Unfired(f)
       /\ \A g \in queue[s] : f.doc.rev = g.doc.rev => f = g
       /\ spc[s] \in {"mark", "dispatch"} => f.doc.rev # cur[s].doc.rev
  /\ spc[s] \in {"mark", "dispatch"} => Owned(cur[s].doc) /\ Unfired(cur[s])
  /\ spc[s] = "dispatch" =>
       /\ Covers(cur[s].doc, cur[s].due)
       /\ \A k \in Ids :
            docs[k] # NoDoc /\ docs[k].rev = cur[s].doc.rev =>
              Covers(docs[k], cur[s].due)
  /\ spc[s] = "errput" => Owned(cur[s].doc) /\ Accounted(cur[s].doc)

FireInv ==
  /\ InHand
  /\ \A k \in Ids : DocInv(k)
  /\ \A h \in Handlers : HandlerInv(h)
  /\ \A w \in late : LateInv(w)
  /\ \A s \in Scans : ScanInv(s)
  /\ \A i \in DOMAIN fires : fires[i].rev \in DOMAIN sets
  /\ NoDoubleFire
=============================================================================
