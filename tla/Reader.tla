------------------------------- MODULE Reader -------------------------------
(***************************************************************************)
(* GetTelegramFileReader: a file of one message is read by tgFileReader,   *)
(* one of several by multiPartReader.                                      *)
(***************************************************************************)
EXTENDS Prefetch, PartReader

VARIABLE reader  \* which of the two the file has

vars == <<reader, readerVars, partVars>>

Init == reader \in {"one", "parts"} /\ ReaderInit /\ PartInit

GetTelegramFileReader ==
  \/ reader = "one" /\ ReaderNext /\ UNCHANGED partVars
  \/ reader = "parts" /\ PartNext /\ UNCHANGED readerVars

Next == GetTelegramFileReader /\ UNCHANGED reader

Spec == Init /\ [][Next]_vars

\* Type invariant of both readers.
TypeOK == reader \in {"one", "parts"} /\ ReaderTypeOK /\ PartTypeOK

\* Nothing is kept that was to be given back: the slots of a read-ahead that ended, and the
\* reader opened ahead of a stream that is closed.
GivesBack == SlotsReturned /\ ClosedHoldsNone
=============================================================================
