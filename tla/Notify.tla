------------------------------ MODULE Notify ---------------------------------
(***************************************************************************)
(* The notify plugin: a sequential loop that shows a notification through  *)
(* a host program, has it spoken through the tts plugin, and keeps an      *)
(* inbox file. The file is read again for every request and replaced as a  *)
(* whole, so nothing is kept in memory between two requests.               *)
(***************************************************************************)
EXTENDS Integers, Sequences, SequencesExt, FiniteSetsExt

CONSTANTS
  NotifyRequests,     \* the requests callers send
  EnabledProviders,   \* NOTIFY_PLUGIN_ENABLED_PROVIDERS, {}: names an unknown one
  HostBinaries,       \* the programs found on PATH
  MaxEntries,         \* 500 in the code
  NoneGiven,          \* an optional field that is absent
  MaxNotifyRequests,  \* bound: requests
  MaxNotifyFaults,    \* bound: failing file operations, programs and calls
  MaxNotifyCrashes,   \* bound: crashes
  MaxMillis           \* bound: values of the clock

ASSUME NotifyAssumption ==
  /\ MaxEntries \in Nat \ {0}
  /\ MaxMillis \in Nat
  /\ NoneGiven \notin [ms : Nat, seq : Nat]
  /\ \A r \in NotifyRequests : r.action = "notify_send" => r.silent \in BOOLEAN

VARIABLES
  notifyTask,     \* the request being handled
  inboxFile,      \* inbox.json, oldest entry first
  inboxDisk,      \* inbox.json after a power loss
  speechFile,     \* a temporary audio file exists
  millis,         \* the clock, which may be set back
  shown,          \* history: requests whose notification was shown
  heard,          \* history: requests whose notification was spoken
  kept,           \* history: the entries ever stored
  notifyReplies,  \* history: the replies
  notifySpent     \* requests, faults and crashes so far

notifyVars == <<notifyTask, inboxFile, inboxDisk, speechFile, millis, shown, heard,
                kept, notifyReplies, notifySpent>>

MAX_MESSAGE_BYTES == 4096
MAX_TITLE_BYTES == 256
MAX_TIMEOUT_MS == 600000
MAX_ID_BYTES == 128
URGENCIES == {"low", "normal", "critical"}
Providers == {"notify-send", "wall", "espeak"}

\* message and title are lengths in bytes.
ValidNotification(r) ==
  /\ r.message \in 1..MAX_MESSAGE_BYTES
  /\ r.title \in 0..MAX_TITLE_BYTES
  /\ r.urgency \in URGENCIES \cup {NoneGiven}
  /\ r.timeout_ms \in 0..MAX_TIMEOUT_MS
  /\ r.provider \in Providers

ValidId(r) == r.idBytes \in 1..MAX_ID_BYTES

\* The programs that serve a provider, in the order in which they are tried.
ProviderBinaries(provider) ==
  IF provider = "espeak" THEN <<"espeak-ng", "espeak">> ELSE <<provider>>

\* The gate in front of every delivery: the operator's list, then PATH.
Deliverable(provider) ==
  /\ provider \in EnabledProviders
  /\ \E b \in ToSet(ProviderBinaries(provider)) : b \in HostBinaries

\* A player for the audio that tts answers with, wav unless configured.
PlayerFound == {"paplay", "pw-play", "aplay"} \cap HostBinaries # {}

NotifyIdle == [pc |-> "idle"]
NotifyFault == /\ notifySpent.faults < MaxNotifyFaults
               /\ notifySpent' = [notifySpent EXCEPT !.faults = @ + 1]
AtPc(pc) == notifyTask.pc = pc

NotifyInit ==
  /\ notifyTask = NotifyIdle
  /\ inboxFile = <<>> /\ inboxDisk = <<>>
  /\ speechFile = FALSE
  /\ millis = 0
  /\ shown = {} /\ heard = {} /\ kept = {} /\ notifyReplies = {}
  /\ notifySpent = [requests |-> 0, faults |-> 0, crashes |-> 0]

\* What the caller is told: whether it went well, the id of the stored entry
\* and whether the notification was spoken.
NotifyReply(ok, id, spoken) ==
  [request |-> notifyTask.request, ok |-> ok, id |-> id, spoken |-> spoken]

Answered(reply) ==
  /\ notifyReplies' = notifyReplies \cup {reply}
  /\ notifyTask' = NotifyIdle

NotifyError == Answered(NotifyReply(FALSE, NoneGiven, FALSE))

-----------------------------------------------------------------------------
(* notify_send                                                             *)

NotifyAccept ==
  /\ AtPc("idle")
  /\ notifySpent.requests < MaxNotifyRequests
  /\ notifySpent' = [notifySpent EXCEPT !.requests = @ + 1]
  /\ \E r \in NotifyRequests :
       \/ /\ r.action = "notify_send"
          /\ IF ValidNotification(r)
               THEN notifyTask' = [pc |-> IF r.silent THEN "store" ELSE "deliver",
                                   request |-> notifySpent'.requests, params |-> r,
                                   spoken |-> FALSE, id |-> NoneGiven]
               ELSE notifyTask' = NotifyIdle
       \/ /\ r.action \in {"notify_mark_read", "notify_delete"}
          /\ \E k \in kept :
               notifyTask' = IF ValidId(r)
                               THEN [pc |-> "edit", request |-> notifySpent'.requests,
                                     params |-> r, id |-> k.id, spoken |-> FALSE]
                               ELSE NotifyIdle
  /\ UNCHANGED <<inboxFile, inboxDisk, speechFile, millis, shown, heard, kept, notifyReplies>>

\* The program runs and ends well: the notification is on the screen. Nothing
\* that fails later takes it back.
Deliver ==
  /\ AtPc("deliver")
  /\ IF Deliverable(notifyTask.params.provider)
       THEN /\ shown' = shown \cup {notifyTask.request}
            /\ notifyTask' = [notifyTask EXCEPT !.pc =
                                IF notifyTask.params.speak THEN "speak" ELSE "store"]
            /\ UNCHANGED notifyReplies
       ELSE NotifyError /\ UNCHANGED shown
  /\ UNCHANGED <<inboxFile, inboxDisk, speechFile, millis, heard, kept, notifySpent>>

\* The program can not be started or ends with an error.
DeliverFails ==
  /\ AtPc("deliver")
  /\ NotifyFault
  /\ NotifyError
  /\ UNCHANGED <<inboxFile, inboxDisk, speechFile, millis, shown, heard, kept>>

\* tts answers and the audio is written to a temporary file. While it waits for
\* the answer the loop reads nothing else.
Synthesize ==
  /\ AtPc("speak")
  /\ PlayerFound
  /\ speechFile' = TRUE
  /\ notifyTask' = [notifyTask EXCEPT !.pc = "play"]
  /\ UNCHANGED <<inboxFile, inboxDisk, millis, shown, heard, kept, notifyReplies, notifySpent>>

\* The call, its answer or the player is unusable, or the file can not be
\* written, of which a part may stay.
SynthesizeFails ==
  /\ AtPc("speak")
  /\ \/ NotifyFault /\ speechFile' \in {speechFile, TRUE}
     \/ ~PlayerFound /\ UNCHANGED <<notifySpent, speechFile>>
  /\ notifyTask' = [notifyTask EXCEPT !.pc = "store"]
  /\ UNCHANGED <<inboxFile, inboxDisk, millis, shown, heard, kept, notifyReplies>>

\* The player ends, well or not; the file goes either way.
Play ==
  /\ AtPc("play")
  /\ \/ /\ heard' = heard \cup {notifyTask.request}
        /\ notifyTask' = [notifyTask EXCEPT !.pc = "store", !.spoken = TRUE]
        /\ UNCHANGED notifySpent
     \/ /\ NotifyFault
        /\ notifyTask' = [notifyTask EXCEPT !.pc = "store"]
        /\ UNCHANGED heard
  /\ speechFile' = FALSE
  /\ UNCHANGED <<inboxFile, inboxDisk, millis, shown, kept, notifyReplies>>

-----------------------------------------------------------------------------
(* The inbox                                                               *)

\* The number of the next entry: one more than the highest stored one.
\* Mutant: the entry at the front is taken for the newest.
NextSeq_OfFirst(entries) == IF entries = <<>> THEN 1 ELSE 1 + Head(entries).id.seq
NextSeq(entries) == 1 + Max({0} \cup {e.id.seq : e \in ToSet(entries)})

\* The newest MaxEntries entries.
Pruned(entries) == SubSeq(entries, 1 + Max({0, Len(entries) - MaxEntries}), Len(entries))

NewEntry == [id |-> [ms |-> millis, seq |-> NextSeq(inboxFile)],
             request |-> notifyTask.request,
             delivered |-> ~notifyTask.params.silent,
             silent |-> notifyTask.params.silent,
             spoken |-> notifyTask.spoken, read |-> FALSE]

\* The temporary file has been renamed; the sync of the directory that follows
\* may fail, which is ignored.
Persist(entries) ==
  /\ inboxFile' = entries
  /\ \/ inboxDisk' = entries /\ UNCHANGED notifySpent
     \/ NotifyFault /\ UNCHANGED inboxDisk

Store ==
  /\ AtPc("store")
  /\ Persist(Pruned(Append(inboxFile, NewEntry)))
  /\ kept' = kept \cup {NewEntry}
  /\ notifyTask' = [notifyTask EXCEPT !.pc = "answer", !.id = NewEntry.id]
  /\ UNCHANGED <<speechFile, millis, shown, heard, notifyReplies>>

\* The file can not be read or replaced: a silent notification fails, one that
\* was shown goes without an entry.
\* Mutant: the failure of the entry is answered for a shown notification too.
StoreFails_Refuses ==
  /\ AtPc("store")
  /\ NotifyFault
  /\ NotifyError
  /\ UNCHANGED <<inboxFile, inboxDisk, speechFile, millis, shown, heard, kept>>
StoreFails ==
  /\ AtPc("store")
  /\ NotifyFault
  /\ IF notifyTask.params.silent
       THEN NotifyError
       ELSE notifyTask' = [notifyTask EXCEPT !.pc = "answer"] /\ UNCHANGED notifyReplies
  /\ UNCHANGED <<inboxFile, inboxDisk, speechFile, millis, shown, heard, kept>>

AnswerSend ==
  /\ AtPc("answer")
  /\ Answered(NotifyReply(TRUE, notifyTask.id, notifyTask.spoken))
  /\ UNCHANGED <<inboxFile, inboxDisk, speechFile, millis, shown, heard, kept, notifySpent>>

\* notify_mark_read and notify_delete: the file is replaced only on a change. An id
\* names one entry of the file at most (NotifyTellsTheTruth), so that what
\* notify_delete retains is all but that one.
Edited(entries, id) ==
  LET named == {i \in DOMAIN entries : entries[i].id = id}
  IN  CASE named = {} -> entries
        [] named # {} /\ notifyTask.params.action = "notify_delete" -> RemoveAt(entries, Min(named))
        [] OTHER -> [entries EXCEPT ![Min(named)].read = TRUE]

Edit ==
  /\ AtPc("edit")
  /\ LET entries == Edited(inboxFile, notifyTask.id)
     IN  IF entries # inboxFile THEN Persist(entries)
         ELSE UNCHANGED <<inboxFile, inboxDisk, notifySpent>>
  /\ notifyTask' = NotifyIdle
  /\ UNCHANGED <<speechFile, millis, shown, heard, kept, notifyReplies>>

EditFails ==
  /\ AtPc("edit")
  /\ NotifyFault
  /\ notifyTask' = NotifyIdle
  /\ UNCHANGED <<inboxFile, inboxDisk, speechFile, millis, shown, heard, kept, notifyReplies>>

-----------------------------------------------------------------------------
(* The clock, and the process or the machine going down.                   *)

ClockMoves ==
  /\ AtPc("idle")
  /\ millis' \in 0..MaxMillis \ {millis}
  /\ UNCHANGED <<notifyTask, inboxFile, inboxDisk, speechFile, shown, heard, kept,
                 notifyReplies, notifySpent>>

NotifyCrash ==
  /\ notifySpent.crashes < MaxNotifyCrashes
  /\ notifySpent' = [notifySpent EXCEPT !.crashes = @ + 1]
  /\ notifyTask' = NotifyIdle
  /\ inboxFile' \in {inboxFile, inboxDisk}
  /\ inboxDisk' = inboxFile'
  /\ UNCHANGED <<speechFile, millis, shown, heard, kept, notifyReplies>>

NotifyNext ==
  \/ NotifyAccept \/ Deliver \/ DeliverFails \/ Synthesize \/ SynthesizeFails \/ Play
  \/ Store \/ StoreFails \/ AnswerSend \/ Edit \/ EditFails
  \/ ClockMoves \/ NotifyCrash

NotifySpec == NotifyInit /\ [][NotifyNext]_notifyVars

-----------------------------------------------------------------------------
(* A caller may retry what was answered with an error: such a request has  *)
(* neither been shown nor stored. One answered with success was shown or   *)
(* is silent, has the entry the reply names if it names one, and the reply *)
(* and the entry agree on whether it was spoken. An id names at most one   *)
(* entry of the inbox, whatever was deleted or pruned before and however   *)
(* the clock moves, and the inbox keeps the order of arrival, which        *)
(* notify_list reverses.                                                   *)
NotifyTellsTheTruth ==
  /\ \A a \in notifyReplies :
       LET stored == {e \in kept : e.request = a.request}
       IN  IF a.ok
             THEN /\ a.spoken <=> a.request \in heard
                  /\ {e.id : e \in stored} = {a.id} \ {NoneGiven}
                  /\ \A e \in stored : e.spoken = a.spoken /\ e.delivered = (a.request \in shown)
                  /\ a.request \in shown \/ stored # {}
             ELSE a.request \notin shown /\ stored = {}
  /\ \A i, j \in DOMAIN inboxFile :
       i < j => /\ inboxFile[i].id # inboxFile[j].id
                /\ inboxFile[i].request < inboxFile[j].request
=============================================================================
