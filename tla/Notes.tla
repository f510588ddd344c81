-------------------------------- MODULE Notes --------------------------------
(***************************************************************************)
(* The notes plugin: one loop owns the connection; every request is a task *)
(* that reaches the database through calls the loop sends and whose        *)
(* answers it hands back by number. A task that waits too long gives up,   *)
(* its call is carried out all the same. An update reads the whole note    *)
(* and writes the whole note.                                              *)
(***************************************************************************)
EXTENDS Integers, Sequences, SequencesExt, FiniteSetsExt

CONSTANTS
  NoteTasks,        \* request tasks that may run at the same time
  NoteRequests,     \* the requests callers send
  NotesStored,      \* the notes stored so far, in the order of their ids
  Blank,            \* a text that is empty once trimmed
  Absent,           \* a field that is not given; no note
  NoteChannel,      \* capacity of the rpc and the outbound channel, 64 in the code
  MaxNoteRequests,  \* bound: requests
  MaxNoteFaults,    \* bound: calls that fail, answers that come too late
  MaxNoteCrashes    \* bound: times the plugin stops

ASSUME NotesAssumption ==
  /\ NoteChannel \in Nat \ {0} /\ MaxNoteRequests \in Nat /\ Blank # Absent
  /\ \A r \in NoteRequests :
       /\ r.action \in {"note_create", "note_get", "note_update", "note_delete", "note_list"}
       /\ r.action \in {"note_get", "note_update", "note_delete"} => "id" \in DOMAIN r
  /\ NotesStored \in Seq({NotesStored[i] : i \in DOMAIN NotesStored})
  /\ \A i \in DOMAIN NotesStored : NotesStored[i] # Absent =>
       /\ DOMAIN NotesStored[i] = {"title", "body", "tags"}
       /\ ~(NotesStored[i].title = Blank /\ NotesStored[i].body = Blank)

VARIABLES
  noteTask,     \* what each task waits for
  noteRpc,      \* rpc channel: calls the loop has not sent yet
  noteSeq,      \* number of the last call sent
  notePending,  \* the loop's map from call numbers to the waiting tasks
  noteFlight,   \* calls on their way to the database
  noteAnswers,  \* answers on their way back
  noteOut,      \* outbound channel
  noteSent,     \* what the kernel has received: replies and events
  noteDocs,     \* the database: note:<id>
  noteCounter,  \* the database: meta:next_id
  noteOwner,    \* history: the request each id was created for
  noteChanged,  \* history: requests whose write the database has carried out
  noteRaced,    \* history: ids written over what a task had not read
  noteSpent     \* requests, faults and crashes so far

noteVars == <<noteTask, noteRpc, noteSeq, notePending, noteFlight, noteAnswers, noteOut,
              noteSent, noteDocs, noteCounter, noteOwner, noteChanged, noteRaced, noteSpent>>

-----------------------------------------------------------------------------
(* Requests: texts and tags with their length in bytes.                    *)

MAX_TITLE == 512
MAX_BODY == 256 * 1024
MAX_TAGS == 32
MAX_TAG == 64
MAX_NOTE_LIMIT == 500

\* Blank tags are skipped, a tag counts once.
SanitizedTags(raw) ==
  FoldSeq(LAMBDA tag, out : IF tag = Blank \/ tag \in ToSet(out) THEN out
                            ELSE Append(out, tag), <<>>, raw)
ValidTags(raw) ==
  /\ \A tag \in ToSet(raw) : tag = Blank \/ tag.bytes <= MAX_TAG
  /\ Len(SanitizedTags(raw)) <= MAX_TAGS

Sized(text, max) == text \in {Absent, Blank} \/ text.bytes <= max

BlankNote(title, body) == title = Blank /\ body = Blank

ValidNoteRequest(r) ==
  CASE r.action = "note_create" -> /\ ~BlankNote(r.title, r.body)
                                   /\ Sized(r.title, MAX_TITLE) /\ Sized(r.body, MAX_BODY)
                                   /\ ValidTags(r.tags)
    [] r.action = "note_update" -> /\ {r.title, r.body, r.tags} # {Absent}
                                   /\ Sized(r.title, MAX_TITLE) /\ Sized(r.body, MAX_BODY)
                                   /\ r.tags = Absent \/ ValidTags(r.tags)
    [] r.action = "note_list" -> r.limit \in 1..MAX_NOTE_LIMIT
    [] OTHER -> r.id # Absent

NewText(old, new) == IF new = Absent THEN old ELSE new
NotePatched(note, r) ==
  [note EXCEPT !.title = NewText(@, r.title), !.body = NewText(@, r.body),
               !.tags = IF r.tags = Absent THEN @ ELSE SanitizedTags(r.tags)]

-----------------------------------------------------------------------------
NoteIdle == [pc |-> "idle"]

NotesInit ==
  /\ noteTask = [t \in NoteTasks |-> NoteIdle]
  /\ noteRpc = <<>> /\ noteSeq = 0 /\ notePending = <<>>
  /\ noteFlight = {} /\ noteAnswers = {}
  /\ noteOut = <<>> /\ noteSent = {}
  /\ noteDocs = [i \in 1..(MaxNoteRequests + Len(NotesStored)) |->
                   IF i \in DOMAIN NotesStored THEN NotesStored[i] ELSE Absent]
  /\ noteCounter = Len(NotesStored)
  /\ noteOwner = [i \in DOMAIN noteDocs |-> {}]
  /\ noteChanged = {} /\ noteRaced = {}
  /\ noteSpent = [requests |-> 0, faults |-> 0, crashes |-> 0]

NoteFault == /\ noteSpent.faults < MaxNoteFaults
             /\ noteSpent' = [noteSpent EXCEPT !.faults = @ + 1]

noteDatabase == <<noteDocs, noteCounter, noteOwner, noteChanged, noteRaced>>
noteWire == <<noteFlight, noteAnswers, noteSent>>

-----------------------------------------------------------------------------
(* The tasks                                                               *)

\* Rpc.call: the call enters the channel, the task waits for its answer.
NoteCall(t, task, op) ==
  /\ Len(noteRpc) < NoteChannel
  /\ noteRpc' = Append(noteRpc, [task |-> t, request |-> task.request, op |-> op])
  /\ noteTask' = [noteTask EXCEPT ![t] = [task EXCEPT !.pc = "wait", !.expects = op.kind,
                                                     !.result = Absent]]

\* The messages for the kernel: the reply, and after it the event of a change.
Saying(task, ok, changed) ==
  LET Message(event) ==
        [event |-> event, request |-> task.request, id |-> task.id, ok |-> ok,
         did |-> IF changed THEN task.params.action ELSE "nothing"]
  IN  IF changed THEN <<Message(FALSE), Message(TRUE)>> ELSE <<Message(FALSE)>>
NoteReply(t, task, ok, changed) ==
  noteTask' = [noteTask EXCEPT ![t] =
                 [task EXCEPT !.pc = "reply", !.say = Saying(task, ok, changed)]]

FirstOp(r) == CASE r.action = "note_create" -> [kind |-> "db_incr"]
                [] r.action \in {"note_get", "note_update"} -> [kind |-> "db_get", id |-> r.id]
                [] r.action = "note_delete" -> [kind |-> "db_delete", id |-> r.id]
                [] r.action = "note_list" -> [kind |-> "db_keys"]

NoteAccept(t, r) ==
  /\ noteTask[t].pc = "idle"
  /\ noteSpent.requests < MaxNoteRequests
  /\ noteSpent' = [noteSpent EXCEPT !.requests = @ + 1]
  /\ noteTask' = [noteTask EXCEPT ![t] =
       [pc |-> IF ValidNoteRequest(r) THEN "first" ELSE "refuse",
        request |-> noteSpent'.requests, params |-> r, note |-> Absent,
        id |-> IF "id" \in DOMAIN r THEN r.id ELSE Absent, expects |-> Absent, result |-> Absent, say |-> <<>>]]
  /\ UNCHANGED <<noteRpc, noteSeq, notePending, noteOut, noteWire, noteDatabase>>

NoteFirstCall(t) ==
  /\ noteTask[t].pc \in {"first", "refuse"}
  /\ IF noteTask[t].pc = "refuse"
       THEN NoteReply(t, noteTask[t], FALSE, FALSE) /\ UNCHANGED noteRpc
       ELSE NoteCall(t, noteTask[t], FirstOp(noteTask[t].params))
  /\ UNCHANGED <<noteSeq, notePending, noteOut, noteWire, noteDatabase, noteSpent>>

PutOp(note, id, read) == [kind |-> "db_set", id |-> id, note |-> note, read |-> read]

\* What a task does with the answer to its call.
\* Mutant: the check of what remains looks at the patch alone.
NoteUpdated_Unmerged(t, task, read) ==
  LET note == NotePatched(read, task.params)
  IN  IF read = Absent \/ BlankNote(task.params.title, task.params.body)
        THEN NoteReply(t, task, FALSE, FALSE) /\ UNCHANGED noteRpc
        ELSE NoteCall(t, task, PutOp(note, task.id, read))
NoteUpdated(t, task, read) ==
  IF read = Absent \/ BlankNote(NewText(read.title, task.params.title),
                                NewText(read.body, task.params.body))
    THEN NoteReply(t, task, FALSE, FALSE) /\ UNCHANGED noteRpc
    ELSE NoteCall(t, task, PutOp(NotePatched(read, task.params), task.id, read))

NoteCreated(t, task, id) ==
  NoteCall(t, [task EXCEPT !.id = id],
           PutOp([title |-> task.params.title, body |-> task.params.body,
                  tags |-> SanitizedTags(task.params.tags)], id, Absent))

\* note_list: a second call fetches the documents, unless there are none.
NoteListed(t, task, ids) ==
  IF ids = {} THEN NoteReply(t, task, TRUE, FALSE) /\ UNCHANGED noteRpc
              ELSE NoteCall(t, task, [kind |-> "db_batch_get", ids |-> ids])

\* A call that failed, or whose answer has another shape, ends the request.
NoteContinue(t) ==
  /\ noteTask[t].pc = "wait" /\ noteTask[t].result # Absent
  /\ LET task == noteTask[t]
         answer == task.result
         wrote == answer.data[1] \in {"db_set", "db_delete"}
     IN  IF ~answer.ok \/ answer.data[1] # task.expects
           THEN NoteReply(t, task, FALSE, FALSE) /\ UNCHANGED noteRpc
         ELSE CASE answer.data[1] = "db_incr" -> NoteCreated(t, task, answer.data[2])
                [] answer.data[1] = "db_keys" -> NoteListed(t, task, answer.data[2])
                [] answer.data[1] = "db_get" /\ task.params.action = "note_update" ->
                     NoteUpdated(t, task, answer.data[2])
                [] OTHER -> NoteReply(t, task, TRUE, wrote /\ answer.data[2]) /\ UNCHANGED noteRpc
  /\ UNCHANGED <<noteSeq, notePending, noteOut, noteWire, noteDatabase, noteSpent>>

\* The time of a call is over before the loop hands its answer back.
NoteTimeout(t) ==
  /\ noteTask[t].pc = "wait" /\ noteTask[t].result = Absent
  /\ NoteFault
  /\ NoteReply(t, noteTask[t], FALSE, FALSE)
  /\ UNCHANGED <<noteRpc, noteSeq, notePending, noteOut, noteWire, noteDatabase>>

\* One message of the task enters the outbound channel.
NoteSay(t) ==
  /\ noteTask[t].pc = "reply"
  /\ Len(noteOut) < NoteChannel
  /\ LET say == noteTask[t].say
     IN  /\ noteOut' = Append(noteOut, Head(say))
         /\ noteTask' = [noteTask EXCEPT ![t] =
              IF Len(say) = 1 THEN NoteIdle ELSE [noteTask[t] EXCEPT !.say = Tail(say)]]
  /\ UNCHANGED <<noteRpc, noteSeq, notePending, noteWire, noteDatabase, noteSpent>>

-----------------------------------------------------------------------------
(* The loop                                                                *)

\* Mutant: the number of a call is that of an earlier one.
NextCall_Reused == Cardinality(DOMAIN notePending) + 1
NextCall == noteSeq + 1

LoopSendsCall ==
  /\ noteRpc # <<>>
  /\ LET call == Head(noteRpc)
         n == NextCall
     IN  /\ noteSeq' = n
         /\ notePending' = [m \in DOMAIN notePending \cup {n} |->
                              IF m = n THEN [task |-> call.task, request |-> call.request]
                              ELSE notePending[m]]
         /\ noteFlight' = noteFlight \cup {[n |-> n, request |-> call.request, op |-> call.op]}
  /\ noteRpc' = Tail(noteRpc)
  /\ UNCHANGED <<noteTask, noteAnswers, noteOut, noteSent, noteDatabase, noteSpent>>

\* The answer goes to the task that waits under its number; one whose task has
\* given up is dropped.
LoopHandsBack(a) ==
  /\ a \in noteAnswers
  /\ noteAnswers' = noteAnswers \ {a}
  /\ notePending' = [m \in DOMAIN notePending \ {a.n} |-> notePending[m]]
  /\ noteTask' =
       [t \in NoteTasks |->
          IF /\ a.n \in DOMAIN notePending
             /\ notePending[a.n].task = t
             /\ noteTask[t].pc = "wait" /\ noteTask[t].request = notePending[a.n].request
             /\ noteTask[t].result = Absent
            THEN [noteTask[t] EXCEPT !.result = a] ELSE noteTask[t]]
  /\ UNCHANGED <<noteRpc, noteSeq, noteFlight, noteOut, noteSent, noteDatabase, noteSpent>>

LoopSendsMessage ==
  /\ noteOut # <<>>
  /\ noteSent' = noteSent \cup {Head(noteOut)}
  /\ noteOut' = Tail(noteOut)
  /\ UNCHANGED <<noteTask, noteRpc, noteSeq, notePending, noteFlight, noteAnswers,
                 noteDatabase, noteSpent>>

-----------------------------------------------------------------------------
(* The database, which carries out the calls in any order.                 *)

NoteIds == {i \in DOMAIN noteDocs : noteDocs[i] # Absent}
StoredNote(id) == IF id \in NoteIds THEN noteDocs[id] ELSE Absent

NoteAnswer(call, ok, value) ==
  /\ noteFlight' = noteFlight \ {call}
  /\ noteAnswers' = noteAnswers \cup
       {[n |-> call.n, ok |-> ok, data |-> <<call.op.kind, value>>]}

DatabaseServes(call) ==
  /\ call \in noteFlight
  /\ LET op == call.op
     IN  CASE op.kind = "db_incr" ->
                /\ noteCounter' = noteCounter + 1
                /\ noteOwner' = [noteOwner EXCEPT ![noteCounter'] = @ \cup {call.request}]
                /\ NoteAnswer(call, TRUE, noteCounter')
                /\ UNCHANGED <<noteDocs, noteChanged, noteRaced>>
           [] op.kind = "db_set" ->
                /\ noteDocs' = [noteDocs EXCEPT ![op.id] = op.note]
                /\ noteChanged' = noteChanged \cup {call.request}
                /\ noteRaced' = IF StoredNote(op.id) = op.read THEN noteRaced
                                ELSE noteRaced \cup {op.id}
                /\ NoteAnswer(call, TRUE, TRUE)
                /\ UNCHANGED <<noteCounter, noteOwner>>
           [] op.kind = "db_delete" ->
                /\ noteDocs' = [noteDocs EXCEPT ![op.id] = Absent]
                /\ noteChanged' = IF op.id \in NoteIds THEN noteChanged \cup {call.request}
                                  ELSE noteChanged
                /\ NoteAnswer(call, TRUE, op.id \in NoteIds)
                /\ UNCHANGED <<noteCounter, noteOwner, noteRaced>>
           [] op.kind = "db_get" ->
                NoteAnswer(call, TRUE, StoredNote(op.id)) /\ UNCHANGED noteDatabase
           [] op.kind = "db_keys" ->
                NoteAnswer(call, TRUE, NoteIds) /\ UNCHANGED noteDatabase
           [] op.kind = "db_batch_get" ->
                NoteAnswer(call, TRUE, op.ids \cap NoteIds) /\ UNCHANGED noteDatabase
  /\ UNCHANGED <<noteTask, noteRpc, noteSeq, notePending, noteOut, noteSent, noteSpent>>

DatabaseFails(call) ==
  /\ call \in noteFlight
  /\ NoteFault
  /\ NoteAnswer(call, FALSE, Absent)
  /\ UNCHANGED <<noteTask, noteRpc, noteSeq, notePending, noteOut, noteSent, noteDatabase>>

\* The loop ends, and every task and channel with it; calls that were sent are
\* carried out, their answers find nobody. A new process counts from one again,
\* on a connection of its own.
NotesRestart ==
  /\ noteSpent.crashes < MaxNoteCrashes
  /\ noteSpent' = [noteSpent EXCEPT !.crashes = @ + 1]
  /\ noteTask' = [t \in NoteTasks |-> NoteIdle]
  /\ noteRpc' = <<>> /\ noteSeq' = 0 /\ notePending' = <<>>
  /\ noteOut' = <<>> /\ noteAnswers' = {}
  /\ noteFlight' = {[c EXCEPT !.n = 0] : c \in noteFlight}
  /\ UNCHANGED <<noteSent, noteDatabase>>

NotesNext ==
  \/ \E t \in NoteTasks : \/ \E r \in NoteRequests : NoteAccept(t, r)
                          \/ NoteFirstCall(t) \/ NoteContinue(t)
                          \/ NoteTimeout(t) \/ NoteSay(t)
  \/ LoopSendsCall \/ LoopSendsMessage
  \/ \E a \in noteAnswers : LoopHandsBack(a)
  \/ \E c \in noteFlight : DatabaseServes(c) \/ DatabaseFails(c)
  \/ NotesRestart

NotesSpec == NotesInit /\ [][NotesNext]_noteVars
-----------------------------------------------------------------------------
(* What callers and subscribers are told is true, whatever answers were    *)
(* late: a reply that names a change comes from the request that made it,  *)
(* an event comes after the reply it belongs to, an id was given to one    *)
(* create. A stored note is never blank; and a note deleted with success   *)
(* stays deleted, unless an update wrote over what it had not read.        *)
NotesTellTheTruth ==
  /\ \A m \in noteSent :
       /\ m.did # "nothing" => m.ok /\ m.request \in noteChanged
       /\ m.event => [m EXCEPT !.event = FALSE] \in noteSent
       /\ m.did = "note_create" => noteOwner[m.id] = {m.request}
       /\ m.did = "note_delete" /\ m.id \notin noteRaced => noteDocs[m.id] = Absent
  /\ \A i \in NoteIds : ~BlankNote(noteDocs[i].title, noteDocs[i].body)
=============================================================================
