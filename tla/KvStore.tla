------------------------------- MODULE KvStore -------------------------------
(***************************************************************************)
(* What the `database` plugin promises one caller: a table of keys in      *)
(* which every change is one operation applied, in one step, to what the   *)
(* change before it left behind. A counter, a list and a document are      *)
(* updated from the value they really have, not from one read earlier.     *)
(*                                                                         *)
(* plugins/database/USAGE.md states this; Database is the plugin that is   *)
(* shown to implement it.                                                  *)
(***************************************************************************)
EXTENDS Integers, Sequences

CONSTANTS
  Keys,    \* keys of the table
  MaxInt   \* the largest integer; the smallest is -MaxInt - 1

VARIABLES
  rows,    \* rows[k]: type and content of the value, and its deadline
  log      \* history: the operations that changed the table, in order

kvVars == <<rows, log>>

Absent == [type |-> "none", n |-> 0, exp |-> 0]

\* Deadline 0 stands for none.
Dead(row, t) == row.exp # 0 /\ row.exp <= t

Alive(row, t) == row.type # "none" /\ ~Dead(row, t)

\* Integers are stored in two's complement and wrap around.
Wrap(n) == ((n + MaxInt + 1) % (2 * (MaxInt + 1))) - MaxInt - 1

\* The value an update of `row` at time t leaves behind. It starts afresh
\* where no live value is; it keeps whatever deadline the row has.
Updated(r, row, t) ==
  CASE r.op = "incr" ->
         [row EXCEPT !.type = "int",
                     !.n = Wrap(IF Alive(row, t) THEN row.n + r.n ELSE r.n)]
    [] r.op = "append" ->
         [row EXCEPT !.type = "list", !.n = IF Alive(row, t) THEN row.n + 1 ELSE 1]
    [] r.op = "patch" -> IF row.type = "doc" THEN [row EXCEPT !.n = r.n] ELSE row

\* The table after operation r at time t.
Effect(r, t, table) ==
  CASE r.op = "sweep" ->
         [k \in Keys |-> IF Dead(table[k], t) THEN Absent ELSE table[k]]
    [] r.op = "set" ->
         [table EXCEPT ![r.key] = [type |-> r.type, n |-> r.n,
                                   exp |-> IF r.ttl = 0 THEN 0 ELSE t + r.ttl]]
    [] r.op = "query" ->
         [table EXCEPT ![r.key] = [type |-> r.type, n |-> r.n, exp |-> 0]]
    [] r.op = "del" -> [table EXCEPT ![r.key] = Absent]
    [] OTHER -> [table EXCEPT ![r.key] = Updated(r, @, t)]

\* The history starts with the table that is found.
KvInit == Len(log) = 1 /\ log[1].rows = rows

\* One operation takes effect.
KvNext ==
  /\ Len(log') = Len(log) + 1
  /\ SubSeq(log', 1, Len(log)) = log
  /\ LET e == log'[Len(log')] IN rows' = Effect(e.req, e.at, rows)

KvSpec == KvInit /\ [][KvNext]_kvVars
=============================================================================
