------------------------------ MODULE MCDatabase ------------------------------
(***************************************************************************)
(* Instances of Database for TLC.                                          *)
(***************************************************************************)
EXTENDS Database, TLC

MCKeys == {1, 2}

\* Every operation on key 1, and enough on key 2 to tear a batch.
MCRequests ==
  { Request("set", 1, "int", 0, 1), Request("set", 1, "doc", 0, 0),
    Request("set", 2, "doc", 1, 0),
    Request("query", 1, "int", MaxInt, 0),
    Request("del", 1, "none", 0, 0),
    Request("incr", 1, "none", 1, 0),
    Request("append", 1, "none", 0, 0),
    Request("patch", 1, "none", 2, 0),
    Request("get", 1, "none", 0, 0),
    Request("batch", 0, "none", 0, 0),
    Request("keys", 0, "none", 0, 0),
    NoRequest }

MCFirstRows ==
  {[EmptyTable EXCEPT ![1] = r] :
     r \in {Absent, Row("int", 0, 1), Row("list", 1, 0), Row("doc", 0, 0)}}

\* Tasks are interchangeable.
TaskSymmetry == Permutations(Tasks)
=============================================================================
