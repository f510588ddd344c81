----------------------------- MODULE MCCalendar ------------------------------
(***************************************************************************)
(* Instances of Calendar for TLC.                                          *)
(***************************************************************************)
EXTENDS Calendar

\* A reminder at time 0, one hour ahead of the event.
MCCreates == {[start |-> 1, lead |-> 1]}

\* Another field only; another start, whose reminder is at time 1; a negative
\* lead, which only event_update accepts, with the reminder at time 2 or 3.
MCPatches ==
  {[start |-> Keep, lead |-> Keep, end |-> FALSE],
   [start |-> 2, lead |-> Keep, end |-> FALSE],
   [start |-> Keep, lead |-> -1, end |-> FALSE]}
=============================================================================
