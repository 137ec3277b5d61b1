------------------------------ MODULE MCStore -------------------------------
(* Store for TLC: transactions that can be read back are interchangeable.   *)
EXTENDS Store, TLC

TxnSymmetry == Permutations(Txn \ Unreadable)
=============================================================================
