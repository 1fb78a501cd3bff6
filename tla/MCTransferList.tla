--------------------------- MODULE MCTransferList ---------------------------
(* A small instance of TransferList. *)
EXTENDS TransferList
CONSTANT t1
=============================================================================
