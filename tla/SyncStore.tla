------------------------------ MODULE SyncStore ------------------------------
(***************************************************************************)
(* What the host-side `sync` plugin promises, without saying how: one      *)
(* key/value store with a version that counts its mutations, a history in  *)
(* which entry v is the mutation that produced version v, and a delta      *)
(* announced at most once per version, never before the version exists.    *)
(*                                                                         *)
(* plugins/sync/README.md states this contract; SyncHost is the plugin     *)
(* that is shown to implement it.                                          *)
(***************************************************************************)
EXTENDS Naturals, Sequences

CONSTANTS
  Keys,           \* keys of the store, ordered (a subset of Nat)
  HeartbeatKeys,  \* the keys matching `heartbeat.%`
  Values,         \* JSON values
  NoValue         \* the value of a key that has no row

VARIABLES
  rows,           \* [Keys -> Values \cup {NoValue}]
  log,            \* log[v] is the mutation that produced version v
  announced       \* the versions whose delta has left the plugin

storeVars == <<rows, log, announced>>

EmptyRows == [k \in Keys |-> NoValue]

\* The content after the first v mutations of the history h.
ContentAt(h, v) == IF v = 0 THEN EmptyRows ELSE h[v].rows

\* m is a mutation of the content r: a set stores a value, a del removes a
\* row that was there (removing nothing is not a mutation).
Mutates(m, r) ==
  \/ /\ m.op = "set"
     /\ m.key \in Keys
     /\ m.value \in Values
     /\ m.rows = [r EXCEPT ![m.key] = m.value]
  \/ /\ m.op = "del"
     /\ m.key \in Keys
     /\ m.value = NoValue
     /\ r[m.key] # NoValue
     /\ m.rows = [r EXCEPT ![m.key] = NoValue]

StoreInit ==
  /\ rows = EmptyRows
  /\ log = << >>
  /\ announced = {}

\* One transaction commits: some heartbeats expire and at most one mutation of
\* the caller's follows them. The new versions are consecutive.
CommitBatch ==
  /\ Len(log') > Len(log)
  /\ \A v \in 1..Len(log) : log'[v] = log[v]
  /\ \A v \in (Len(log) + 1)..Len(log') :
       /\ log'[v].version = v
       /\ Mutates(log'[v], ContentAt(log', v - 1))
       /\ v < Len(log') => log'[v].op = "del" /\ log'[v].key \in HeartbeatKeys
  /\ rows' = ContentAt(log', Len(log'))
  /\ UNCHANGED announced

\* The delta of a committed version leaves the plugin, once.
Announce ==
  \E v \in 1..Len(log) :
    /\ v \notin announced
    /\ announced' = announced \cup {v}
    /\ UNCHANGED <<rows, log>>

StoreNext == CommitBatch \/ Announce

StoreSpec == StoreInit /\ [][StoreNext]_storeVars
=============================================================================
