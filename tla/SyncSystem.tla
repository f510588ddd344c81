----------------------------- MODULE SyncSystem ------------------------------
(***************************************************************************)
(* The `sync` plugin composed with one `sync-client` plugin through the    *)
(* kernel. The client subscribes to the deltas, pulls a snapshot that      *)
(* replaces its mirror, then applies deltas as they arrive and skips those *)
(* at or below the mirror's version. The kernel (not part of src/) keeps   *)
(* one in-order queue of frames per connection, hands each reply to its    *)
(* caller, and may deliver again an event that was never acknowledged.     *)
(***************************************************************************)
EXTENDS SyncHost

CONSTANTS
  OtherOps,     \* operations other plugins send to `sync`
  MaxConnects   \* bound: connections the client opens

ASSUME SystemAssumption ==
  /\ OtherOps \subseteq {"set", "del", "get", "snapshot", "bad"}
  /\ MaxConnects \in Nat
  /\ Callers = 0..MaxConnects
  /\ HeartbeatKeys # {}

VARIABLES
  conn,      \* phase of the client's serve cycle
  epoch,     \* number of the current (or last) connection
  mirror,    \* the client's copy: version and rows
  inbox,     \* frames the kernel has queued on the client's connection
  calls,     \* the client's requests the plugin has not accepted yet
  dropped,   \* events read and discarded, hence never acknowledged
  synced     \* history: the snapshot of this connection replaced the mirror

clientVars == <<conn, epoch, mirror, inbox, calls, dropped, synced>>
systemVars == <<hostVars, clientVars>>

EmptyMirror == [version |-> 0, rows |-> EmptyRows]

-----------------------------------------------------------------------------
(* The client *)

\* serve_cycle: register, then on_init subscribes.
Connect ==
  /\ conn = "down"
  /\ epoch < MaxConnects
  /\ conn' = "subscribed"
  /\ epoch' = epoch + 1
  /\ UNCHANGED <<hostVars, mirror, inbox, calls, dropped, synced>>

\* on_init asks for the snapshot.
Pull ==
  /\ conn = "subscribed"
  /\ conn' = "awaiting"
  /\ calls' = calls \cup {Request("snapshot", NoKey, NoValue, epoch)}
  /\ UNCHANGED <<hostVars, epoch, mirror, inbox, dropped, synced>>

\* Mutant: the snapshot is merged into the mirror instead of replacing it.
AwaitFrame_Merges ==
  /\ conn = "awaiting"
  /\ inbox # << >>
  /\ inbox' = Tail(inbox)
  /\ LET e == Head(inbox)
     IN IF e.type = "delta"
        THEN /\ dropped' = dropped \cup {e}
             /\ UNCHANGED <<conn, mirror, synced>>
        ELSE /\ conn' = "live"
             /\ synced' = (e.status = "ok")
             /\ mirror' =
                  IF e.status = "ok"
                  THEN [version |-> e.version,
                        rows |-> [k \in Keys |-> IF e.rows[k] = NoValue
                                                 THEN mirror.rows[k] ELSE e.rows[k]]]
                  ELSE mirror
             /\ UNCHANGED dropped
  /\ UNCHANGED <<hostVars, epoch, calls>>

\* While send_action waits it discards every frame that is not its response.
\* A response ends the wait; only a successful one replaces the mirror.
AwaitFrame ==
  /\ conn = "awaiting"
  /\ inbox # << >>
  /\ inbox' = Tail(inbox)
  /\ LET e == Head(inbox)
     IN IF e.type = "delta"
        THEN /\ dropped' = dropped \cup {e}
             /\ UNCHANGED <<conn, mirror, synced>>
        ELSE /\ conn' = "live"
             /\ synced' = (e.status = "ok")
             /\ mirror' = IF e.status = "ok"
                          THEN [version |-> e.version, rows |-> e.rows]
                          ELSE mirror
             /\ UNCHANGED dropped
  /\ UNCHANGED <<hostVars, epoch, calls>>

\* snapshot_timeout_ms elapses: the stale mirror is kept and served.
PullTimeout ==
  /\ conn = "awaiting"
  /\ conn' = "live"
  /\ UNCHANGED <<hostVars, epoch, mirror, inbox, calls, dropped, synced>>

\* Mutants: no version check; the check is off by one; a del leaves a null behind.
ApplyDelta_Always(m, e) ==
  [version |-> e.version,
   rows |-> [m.rows EXCEPT ![e.key] = IF e.op = "set" THEN e.value ELSE NoValue]]
ApplyDelta_SkipsNext(m, e) ==
  IF e.version <= m.version + 1 THEN m ELSE ApplyDelta_Always(m, e)

\* on_event's effect on the mirror: skip what the version covers, else apply.
ApplyDelta(m, e) ==
  IF e.version <= m.version
  THEN m
  ELSE [version |-> e.version,
        rows |-> [m.rows EXCEPT ![e.key] = IF e.op = "set" THEN e.value ELSE NoValue]]

\* The loop handles its next frame: on_event for a delta, which is then
\* acknowledged; on_message ignores every response.
HandleFrame ==
  /\ conn = "live"
  /\ inbox # << >>
  /\ inbox' = Tail(inbox)
  /\ LET e == Head(inbox)
     IN /\ mirror' = IF e.type = "delta" THEN ApplyDelta(mirror, e) ELSE mirror
        /\ dropped' = dropped \ {e}
  /\ UNCHANGED <<hostVars, conn, epoch, calls, synced>>

\* heartbeat_task: a fire-and-forget sync_set of this device's heartbeat.
Beat ==
  /\ conn = "live"
  /\ \A c \in calls : c.op # "set"
  /\ accepted < MaxRequests
  /\ \E k \in HeartbeatKeys, v \in Values \ BigValues :
       calls' = calls \cup {Request("set", k, v, epoch)}
  /\ UNCHANGED <<hostVars, conn, epoch, mirror, inbox, dropped, synced>>

\* The connection ends, by the peer or by PluginShutdown. The mirror survives.
Disconnect ==
  /\ conn # "down"
  /\ conn' = "down"
  /\ inbox' = << >>
  /\ dropped' = {}
  /\ synced' = FALSE
  /\ UNCHANGED <<hostVars, epoch, mirror, calls>>

-----------------------------------------------------------------------------
(* The kernel between them *)

\* The plugin takes up a request: the client's, or another plugin's.
HostAccepts(t) ==
  \/ /\ \E r \in Requests : r.from = 0 /\ r.op \in OtherOps /\ Accept(t, r)
     /\ UNCHANGED clientVars
  \/ \E r \in calls :
       /\ Accept(t, r)
       /\ calls' = calls \ {r}
       /\ UNCHANGED <<conn, epoch, mirror, inbox, dropped, synced>>

\* What the plugin sends reaches the client if it is a delta and the client is
\* subscribed, or the reply to a call of the present connection.
ForClient(e) ==
  /\ conn # "down"
  /\ e.type = "delta" \/ e.req.from = epoch

HostSends ==
  /\ LoopSend
  /\ inbox' = IF ForClient(Head(chan)) THEN Append(inbox, Head(chan)) ELSE inbox
  /\ UNCHANGED <<conn, epoch, mirror, calls, dropped, synced>>

\* The kernel delivers an unacknowledged event once more.
Redeliver ==
  /\ conn = "live"
  /\ \E e \in dropped :
       /\ \A i \in DOMAIN inbox : inbox[i] # e
       /\ inbox' = Append(inbox, e)
  /\ UNCHANGED <<hostVars, conn, epoch, mirror, calls, dropped, synced>>

-----------------------------------------------------------------------------

SystemInit ==
  /\ HostInit
  /\ conn = "down"
  /\ epoch = 0
  /\ mirror = EmptyMirror
  /\ inbox = << >>
  /\ calls = {}
  /\ dropped = {}
  /\ synced = FALSE

HostStep ==
  /\ (\E t \in Tasks : TaskStep(t) \/ Fail(t)) \/ Crash \/ Tick
  /\ UNCHANGED clientVars

ClientStep ==
  \/ Connect \/ Pull \/ AwaitFrame \/ PullTimeout \/ HandleFrame \/ Beat
  \/ Disconnect

SystemNext ==
  \/ HostStep
  \/ \E t \in Tasks : HostAccepts(t)
  \/ HostSends
  \/ Redeliver
  \/ ClientStep

SystemSpec == SystemInit /\ [][SystemNext]_systemVars

\* Tasks and loops run, the kernel passes calls on, and the client, once its
\* process is up, reconnects and reads what it is sent.
SystemFairSpec ==
  /\ SystemSpec
  /\ \A t \in Tasks : WF_systemVars(TaskStep(t) /\ UNCHANGED clientVars)
  /\ WF_systemVars(\E t \in Tasks : HostAccepts(t))
  /\ WF_systemVars(HostSends)
  /\ WF_systemVars(Connect) /\ WF_systemVars(Pull)
  /\ WF_systemVars(AwaitFrame) /\ WF_systemVars(HandleFrame)

-----------------------------------------------------------------------------
(* Properties *)

\* The mirror never moves back, although a pull replaces it wholesale and
\* deltas arrive out of order.
MirrorMonotone == [][mirror'.version >= mirror.version]_systemVars

\* The mirror never claims a version the store has not reached: not after a
\* restart of either side, not from a frame of an earlier connection. And what
\* it shows for a key was stored under that key at some version it claims.
MirrorShowsCommitted ==
  /\ mirror.version <= db.version
  /\ \A k \in Keys : mirror.rows[k] # NoValue =>
       \E v \in DOMAIN log :
         /\ v <= mirror.version /\ log[v].op = "set"
         /\ log[v].key = k /\ log[v].value = mirror.rows[k]

\* After a successful pull the mirror is the store's content at the mirror's
\* version ("at-or-below means the snapshot or an earlier delta already
\* covered it").
MirrorExact == synced => mirror.rows = ContentAt(log, mirror.version)

\* Once calls and connections have ended, a mirror that pulled its snapshot
\* becomes and stays equal to the store.
MirrorConverges ==
  <>[](synced => mirror = [version |-> db.version, rows |-> db.rows])
=============================================================================
