------------------------------ MODULE MCDbFiles ------------------------------
(* Instances of DbFiles: two processes, and two database files kept         *)
(* elsewhere, one of an older schema and one of a future one.               *)
EXTENDS DbFiles

OldAndFuture == {[commit |-> 0, schema |-> 1], [commit |-> 0, schema |-> Build + 1]}
=============================================================================
