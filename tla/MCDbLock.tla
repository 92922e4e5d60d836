------------------------------ MODULE MCDbLock ------------------------------
(* Instances of DbLock: processes that may each open or restore.           *)
EXTENDS DbLock, TLC

PidSymmetry == Permutations(Pid)
=============================================================================
