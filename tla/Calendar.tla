------------------------------ MODULE Calendar -------------------------------
(***************************************************************************)
(* The `calendar` plugin: events kept as documents of the `database`       *)
(* plugin, and a periodic scan that fires the reminders that are due.      *)
(*                                                                         *)
(* As in Scheduler, request handlers and scans are tasks that read and     *)
(* write whole documents through round trips, each of which may fail, or   *)
(* time out and still be carried out; a task is described by the call it   *)
(* waits for. Two things differ: an update puts back the reminder_fired it *)
(* has read, and a mark that fails ends the scan.                          *)
(*                                                                         *)
(* Of a document the module keeps the time shape (the start, the lead, and *)
(* that the end moved), the guard reminder_fired, and a number `plan` that *)
(* is history: the request that gave the event its present time shape.     *)
(***************************************************************************)
EXTENDS Integers, FiniteSets

CONSTANTS
  Ids,          \* event ids, taken from a counter: 1..n
  Creates,      \* time shapes of new events: start and lead
  Patches,      \* what updates change
  NoLead,       \* remind_before_ms is null: no reminder
  Keep,         \* a field the patch leaves alone
  NoDoc,        \* no document under the key
  Handlers,     \* request tasks that may run at the same time
  Scans,        \* scan tasks that may run at the same time
  MaxTime,      \* bound: last reading of the clock
  MaxRequests,  \* bound: requests in a behaviour
  MaxFaults,    \* bound: calls that fail
  MaxCrashes    \* bound: crashes of the plugin process

ASSUME CalendarAssumption ==
  /\ Ids \subseteq Nat \ {0}
  /\ {NoLead, Keep} \cap Int = {} /\ NoLead # Keep
  /\ Creates \subseteq [start : Nat, lead : Nat \cup {NoLead}]
  /\ Patches \subseteq [start : Nat \cup {Keep}, lead : Int \cup {Keep},
                        end : BOOLEAN]
  /\ {MaxTime, MaxRequests, MaxFaults, MaxCrashes} \subseteq Nat
  /\ NoDoc \notin [id : Nat, plan : Nat, start : Nat, lead : Int \cup {NoLead},
                   fired : BOOLEAN]

VARIABLES
  docs,      \* the documents stored under `event:<id>`
  counter,   \* the counter `meta:next_id`
  late,      \* writes whose caller has given up, still to be carried out
  handler,   \* what each request task waits for, and its document
  scan,      \* what each scan waits for, and what it has read
  up,        \* the plugin process is running
  dues,      \* history: the reminders fired, as a set of numbered records
  marked,    \* history: plans whose reminder was marked as fired
  undone,    \* history: marked plans that a put made unfired again
  orphaned,  \* history: plans marked for a scan that cannot publish any more
  withdrawn, \* history: plans whose replacement or deletion was acknowledged
  now, requests, faults, crashes   \* clock and bounded counters

markVars == <<marked, undone, orphaned>>
ghostVars == <<markVars, withdrawn>>
boundVars == <<now, requests, faults, crashes>>
vars == <<docs, counter, late, handler, scan, up, dues, ghostVars, boundVars>>

-----------------------------------------------------------------------------
(* Events and reminders *)

\* A new event, its id still to come.
NewDoc(shape, plan) ==
  [id |-> 0, plan |-> plan, start |-> shape.start, lead |-> shape.lead,
   fired |-> FALSE]

\* The patch moves the start, the end or the lead to another value.
TimesChanged(d, p) ==
  \/ p.start \notin {Keep, d.start}
  \/ p.lead \notin {Keep, d.lead}
  \/ p.end

\* Mutant: a rescheduled event stays marked.
Patched_StaysFired(d, p, plan) ==
  [d EXCEPT !.start = IF p.start = Keep THEN @ ELSE p.start,
            !.lead = IF p.lead = Keep THEN @ ELSE p.lead,
            !.plan = IF TimesChanged(d, p) THEN plan ELSE @]

\* event_update: a new time shape deserves a new reminder; any other patch
\* puts back the guard it has read.
Patched(d, p, plan) ==
  [d EXCEPT !.start = IF p.start = Keep THEN @ ELSE p.start,
            !.lead = IF p.lead = Keep THEN @ ELSE p.lead,
            !.plan = IF TimesChanged(d, p) THEN plan ELSE @,
            !.fired = @ /\ ~TimesChanged(d, p)]

RemindAt(d) == d.start - d.lead

\* Mutant: the guard is not looked at.
Due_Unguarded(d, t) == d # NoDoc /\ d.lead # NoLead /\ RemindAt(d) <= t

\* due_events: unfired events with a reminder whose time has come.
Due(d, t) == d # NoDoc /\ d.lead # NoLead /\ ~d.fired /\ RemindAt(d) <= t

-----------------------------------------------------------------------------
(* Calls *)

Write(id, doc) == [id |-> id, doc |-> doc]

\* The database stores or deletes a document.
Store(w) ==
  /\ docs' = [docs EXCEPT ![w.id] = w.doc]
  /\ IF w.doc = NoDoc THEN UNCHANGED <<marked, undone>>
     ELSE /\ marked' = IF w.doc.fired THEN marked \cup {w.doc.plan} ELSE marked
          /\ undone' = IF ~w.doc.fired /\ w.doc.plan \in marked
                       THEN undone \cup {w.doc.plan} ELSE undone

Fault == faults < MaxFaults /\ faults' = faults + 1

\* A failed write is not carried out, or only after its caller's timeout.
LostOrLate(w) == late' \in {late, late \cup {w}}

\* The mark of a scan, as opposed to an update that puts a mark back.
IsMark(w) == w.doc # NoDoc /\ w.doc.fired /\ w.doc.plan \notin marked

\* A write whose caller has given up is carried out, or is gone after all.
LateWrite(w) ==
  /\ w \in late
  /\ late' = late \ {w}
  /\ \/ /\ Store(w)
        /\ orphaned' = IF IsMark(w) THEN orphaned \cup {w.doc.plan} ELSE orphaned
     \/ UNCHANGED <<docs, markVars>>
  /\ UNCHANGED <<counter, handler, scan, up, dues, withdrawn, boundVars>>

-----------------------------------------------------------------------------
(* Request handlers; event_get and event_list change nothing *)

NoPatch == [start |-> Keep, lead |-> Keep, end |-> FALSE]
IdleHandler == [pc |-> "idle", id |-> 0, plan |-> 0, patch |-> NoPatch, doc |-> NoDoc]

HandlerDone(h) == handler' = [handler EXCEPT ![h] = IdleHandler]

\* The loop spawns a task for the request.
Accept(h, begun) ==
  /\ up /\ handler[h].pc = "idle"
  /\ requests < MaxRequests
  /\ requests' = requests + 1
  /\ handler' = [handler EXCEPT ![h] = begun]
  /\ UNCHANGED <<docs, counter, late, scan, up, dues, ghostVars, now, faults, crashes>>

AcceptCreate(h, shape) ==
  Accept(h, [IdleHandler EXCEPT !.pc = "db_incr", !.plan = requests + 1,
                                !.doc = NewDoc(shape, requests + 1)])

AcceptUpdate(h, id, patch) ==
  Accept(h, [IdleHandler EXCEPT !.pc = "db_get", !.id = id, !.patch = patch,
                                !.plan = requests + 1])

AcceptDelete(h, id) ==
  Accept(h, [IdleHandler EXCEPT !.pc = "db_delete", !.id = id])

\* next_id answers a create. Bound: ids are left.
TakeId(h) ==
  /\ handler[h].pc = "db_incr"
  /\ counter + 1 \in Ids
  /\ counter' = counter + 1
  /\ handler' = [handler EXCEPT ![h].pc = "db_set", ![h].id = counter + 1,
                                ![h].doc.id = counter + 1]
  /\ UNCHANGED <<docs, late, scan, up, dues, ghostVars, boundVars>>

\* The event to update is read and patched; a missing one is an error, and so
\* is an end that would lie before the start.
ReadForUpdate(h) ==
  LET t == handler[h] IN
  /\ t.pc = "db_get"
  /\ \/ /\ docs[t.id] # NoDoc
        /\ handler' = [handler EXCEPT ![h].pc = "db_set",
                         ![h].doc = Patched(docs[t.id], t.patch, t.plan)]
     \/ /\ docs[t.id] = NoDoc \/ t.patch.end \/ t.patch.start # Keep
        /\ HandlerDone(h)
  /\ UNCHANGED <<docs, counter, late, scan, up, dues, ghostVars, boundVars>>

\* No other request and no late write concerns the event.
Quiet(h) ==
  /\ \A g \in Handlers \ {h} : handler[g].id # handler[h].id
  /\ \A w \in late : w.id # handler[h].id

\* The plan that a write puts an end to.
Replaced(w) ==
  LET old == {docs[k] : k \in {w.id}} \ {NoDoc}
      new == {w.doc} \ {NoDoc}
  IN {d.plan : d \in old} \ {d.plan : d \in new}

\* The new or updated event is put, or the event deleted; the reply follows.
PutOrDelete(h) ==
  LET w == Write(handler[h].id, handler[h].doc) IN
  /\ handler[h].pc \in {"db_set", "db_delete"}
  /\ Store(w)
  /\ withdrawn' = IF Quiet(h) THEN withdrawn \cup Replaced(w) ELSE withdrawn
  /\ HandlerDone(h)
  /\ UNCHANGED <<counter, late, scan, up, dues, orphaned, boundVars>>

\* The call fails or times out, and so does the request.
HandlerFails(h) ==
  LET t == handler[h] IN
  /\ t.pc # "idle"
  /\ Fault
  /\ IF t.pc \in {"db_set", "db_delete"}
     THEN LostOrLate(Write(t.id, t.doc)) ELSE UNCHANGED late
  /\ IF t.pc = "db_incr" THEN counter' \in {counter, counter + 1}
                         ELSE UNCHANGED counter
  /\ HandlerDone(h)
  /\ UNCHANGED <<docs, scan, up, dues, ghostVars, now, requests, crashes>>

-----------------------------------------------------------------------------
(* The scan *)

\* `gone` is history: what was withdrawn when the scan was started.
IdleScan ==
  [pc |-> "idle", at |-> 0, keys |-> {}, queue |-> {}, cur |-> NoDoc, gone |-> {}]

\* The interval ticks, whether or not the previous scan has ended.
StartScan(s) ==
  /\ up /\ scan[s].pc = "idle"
  /\ scan' = [scan EXCEPT ![s] = [IdleScan EXCEPT !.pc = "db_keys", !.at = now,
                                                !.gone = withdrawn]]
  /\ UNCHANGED <<docs, counter, late, handler, up, dues, ghostVars, boundVars>>

\* The scan turns to one of the events in q, or ends.
TakeNext(s, q) ==
  \/ q = {} /\ scan' = [scan EXCEPT ![s] = IdleScan]
  \/ \E d \in q :
       scan' = [scan EXCEPT ![s].pc = "mark", ![s].keys = {},
                            ![s].queue = q \ {d}, ![s].cur = d]

ListKeys(s) ==
  /\ scan[s].pc = "db_keys"
  /\ LET keys == {k \in Ids : docs[k] # NoDoc} IN
       IF keys = {} THEN TakeNext(s, {})
       ELSE scan' = [scan EXCEPT ![s].pc = "db_batch_get", ![s].keys = keys]
  /\ UNCHANGED <<docs, counter, late, handler, up, dues, ghostVars, boundVars>>

\* The documents of the listed keys; one deleted meanwhile reads null.
ReadDocs(s) ==
  /\ scan[s].pc = "db_batch_get"
  /\ TakeNext(s, {docs[k] : k \in {j \in scan[s].keys : Due(docs[j], scan[s].at)}})
  /\ UNCHANGED <<docs, counter, late, handler, up, dues, ghostVars, boundVars>>

MarkOf(d) == [d EXCEPT !.fired = TRUE]

\* The clone the scan has read is put back, marked.
Mark(s) ==
  LET d == scan[s].cur IN
  /\ scan[s].pc = "mark"
  /\ Store(Write(d.id, MarkOf(d)))
  /\ scan' = [scan EXCEPT ![s].pc = "publish"]
  /\ UNCHANGED <<counter, late, handler, up, dues, orphaned, withdrawn, boundVars>>

\* Mutant: a failed mark is only logged.
ScanFails_Continues(s) ==
  /\ scan[s].pc \in {"db_keys", "db_batch_get", "mark"}
  /\ Fault
  /\ IF scan[s].pc = "mark"
     THEN scan' = [scan EXCEPT ![s].pc = "publish"]
     ELSE scan' = [scan EXCEPT ![s] = IdleScan]
  /\ UNCHANGED <<docs, counter, late, handler, up, dues, ghostVars, now,
                 requests, crashes>>

\* The scan ends at the first read or mark that fails; what it had not come to
\* waits for the next one.
ScanFails(s) ==
  /\ scan[s].pc \in {"db_keys", "db_batch_get", "mark"}
  /\ Fault
  /\ IF scan[s].pc = "mark"
     THEN LostOrLate(Write(scan[s].cur.id, MarkOf(scan[s].cur)))
     ELSE UNCHANGED late
  /\ scan' = [scan EXCEPT ![s] = IdleScan]
  /\ UNCHANGED <<docs, counter, handler, up, dues, ghostVars, now, requests, crashes>>

\* The `due` event is queued for the kernel.
Publish(s) ==
  LET d == scan[s].cur IN
  /\ scan[s].pc = "publish"
  /\ dues' = dues \cup {[n |-> Cardinality(dues) + 1, plan |-> d.plan,
                         gone |-> d.plan \in scan[s].gone]}
  /\ scan' = [scan EXCEPT ![s].pc = "notify"]
  /\ UNCHANGED <<docs, counter, late, handler, up, ghostVars, boundVars>>

\* notify_send has answered, failed or timed out: all the same to the scan.
Notified(s) ==
  /\ scan[s].pc = "notify"
  /\ TakeNext(s, scan[s].queue)
  /\ UNCHANGED <<docs, counter, late, handler, up, dues, ghostVars, boundVars>>

-----------------------------------------------------------------------------
(* The process and the clock *)

InFlight ==
  {Write(handler[h].id, handler[h].doc) :
     h \in {g \in Handlers : handler[g].pc \in {"db_set", "db_delete"}}}
  \cup {Write(scan[s].cur.id, MarkOf(scan[s].cur)) :
          s \in {r \in Scans : scan[r].pc = "mark"}}

\* The loop ends and every task with it; a mark without its event is orphaned.
Crash ==
  /\ up /\ crashes < MaxCrashes
  /\ crashes' = crashes + 1
  /\ up' = FALSE
  /\ late' = late \cup InFlight
  /\ orphaned' = orphaned \cup
       {scan[s].cur.plan : s \in {r \in Scans : scan[r].pc = "publish"}}
  /\ handler' = [h \in Handlers |-> IdleHandler]
  /\ scan' = [s \in Scans |-> IdleScan]
  /\ UNCHANGED <<docs, counter, dues, marked, undone, withdrawn, now, requests,
                 faults>>

\* The supervisor starts the plugin again, when the database has dealt with
\* what the dead process had asked for.
Restart ==
  /\ ~up /\ late = {}
  /\ up' = TRUE
  /\ UNCHANGED <<docs, counter, late, handler, scan, dues, ghostVars, boundVars>>

Tick ==
  /\ now < MaxTime
  /\ now' = now + 1
  /\ UNCHANGED <<docs, counter, late, handler, scan, up, dues, ghostVars,
                 requests, faults, crashes>>

Init ==
  /\ docs = [k \in Ids |-> NoDoc] /\ counter = 0 /\ late = {}
  /\ handler = [h \in Handlers |-> IdleHandler]
  /\ scan = [s \in Scans |-> IdleScan]
  /\ up = TRUE
  /\ dues = {} /\ marked = {} /\ undone = {} /\ orphaned = {} /\ withdrawn = {}
  /\ now = 0 /\ requests = 0 /\ faults = 0 /\ crashes = 0

HandlerStep(h) == TakeId(h) \/ ReadForUpdate(h) \/ PutOrDelete(h)

ScanStep(s) == ListKeys(s) \/ ReadDocs(s) \/ Mark(s) \/ Publish(s) \/ Notified(s)

Next ==
  \/ \E h \in Handlers :
       \/ \E shape \in Creates : AcceptCreate(h, shape)
       \/ \E id \in Ids, p \in Patches : AcceptUpdate(h, id, p)
       \/ \E id \in Ids : AcceptDelete(h, id)
       \/ HandlerStep(h) \/ HandlerFails(h)
  \/ \E s \in Scans : StartScan(s) \/ ScanStep(s) \/ ScanFails(s)
  \/ \E w \in late : LateWrite(w)
  \/ Crash \/ Restart \/ Tick

Spec == Init /\ [][Next]_vars

\* The interval ticks, the loop runs every task, the database answers or lets
\* the timeout pass, the supervisor restarts the plugin.
FairSpec ==
  /\ Spec
  /\ \A s \in Scans : WF_vars(StartScan(s)) /\ WF_vars(ScanStep(s))
  /\ \A h \in Handlers : WF_vars(HandlerStep(h))
  /\ WF_vars(Restart) /\ WF_vars(\E w \in late : LateWrite(w))

-----------------------------------------------------------------------------
(* Properties *)

Plans == 1..MaxRequests

DocType == [id : Ids, plan : Plans, start : Nat, lead : Int \cup {NoLead},
            fired : BOOLEAN]

\* Every variable has its type; a document carries the id it is stored under,
\* and what a task is about to store has one.
TypeOK ==
  /\ docs \in [Ids -> DocType \cup {NoDoc}]
  /\ \A k \in Ids : docs[k] # NoDoc => docs[k].id = k /\ k <= counter
  /\ counter \in Nat
  /\ \A w \in late : w.id \in Ids /\ w.doc \in DocType \cup {NoDoc}
  /\ \A h \in Handlers :
       /\ handler[h].pc \in {"idle", "db_incr", "db_get", "db_set", "db_delete"}
       /\ handler[h].pc = "db_set" => handler[h].doc \in DocType
  /\ \A s \in Scans :
       /\ scan[s].pc \in {"idle", "db_keys", "db_batch_get", "mark", "publish",
                          "notify"}
       /\ scan[s].queue \subseteq DocType
       /\ scan[s].pc \in {"mark", "publish"} => scan[s].cur \in DocType
  /\ marked \cup undone \cup orphaned \cup withdrawn \subseteq Plans

Fired(p) == {d \in dues : d.plan = p}

\* README.md "At-most-once" (78-80), as far as it goes: with scans that do not
\* overlap, the reminder of one time shape fires twice only if an update put
\* back, unfired, an event it had read before the mark. Crashes, failed marks
\* and late writes alone never make it fire again.
TwiceOnlyIfUndone ==
  \A p \in Plans : Cardinality(Fired(p)) > 1 => p \in undone

\* Once a reschedule or a delete is acknowledged and nothing else was under way
\* for the event, no scan started after that fires the old reminder - although
\* a scan started before may still put the old document back.
WithdrawnNeverFires == \A d \in dues : ~d.gone

\* Plan p is stored and its reminder is due.
Pending(p) ==
  \E k \in Ids :
    /\ docs[k] # NoDoc /\ docs[k].plan = p
    /\ docs[k].lead # NoLead /\ RemindAt(docs[k]) <= now

\* README.md "Late firing" and "Reschedule resets" (81-85): the reminder of
\* every time shape an event is given fires, unless the event changes first. It
\* is lost only when its mark is carried out for a scan that has given up or
\* died.
ReminderFires ==
  \A p \in Plans :
    Pending(p) ~> \/ Fired(p) # {}
                  \/ \A k \in Ids : docs[k] = NoDoc \/ docs[k].plan # p
                  \/ p \in orphaned
=============================================================================
