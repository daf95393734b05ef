----------------------------- MODULE MCWalFile -----------------------------
(***************************************************************************)
(* A small instance of WalFile for TLC: a SET whose value can be cut into  *)
(* another value, a DEL, and a record that is not valid.                   *)
(***************************************************************************)
EXTENDS WalFile

MCRecords ==
  {[seq |-> 1, type |-> "set", key |-> <<107>>, value |-> <<118, 170>>],
   [seq |-> 2, type |-> "del", key |-> <<107>>, value |-> <<>>],
   [seq |-> 2, type |-> "set", key |-> <<107>>, value |-> <<>>]}
=============================================================================
