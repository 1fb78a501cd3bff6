------------------------------- MODULE Library -------------------------------
(***************************************************************************)
(* What the file store promises a reader: a file appears whole in one      *)
(* step, alone or in place of another; as long as it is there its bytes    *)
(* are the same, and can be read; and it is taken away in one step.        *)
(***************************************************************************)
VARIABLES
  shelf,   \* the files: id to the messages that hold the bytes
  media,   \* messages that are there and that nobody is deleting
  whole    \* the sets of messages that are all bytes of one upload

libraryVars == <<shelf, media, whole>>

Init == shelf = [f \in {} |-> {}] /\ media = {}

Readable == \A f \in DOMAIN shelf : shelf[f] \subseteq media

Shelved(new, bytes, gone) ==
  shelf' = [f \in (DOMAIN shelf \ gone) \cup {new} |-> IF f = new THEN bytes ELSE shelf[f]]

Store(f, bytes) == f \notin DOMAIN shelf /\ Shelved(f, bytes, {})
Replace(f, bytes, g) == f \notin DOMAIN shelf /\ Shelved(f, bytes, {g})
Remove(gone) == shelf' = [f \in DOMAIN shelf \ gone |-> shelf[f]]
\* Messages come and go by themselves, those of the files apart.
Turnover == UNCHANGED shelf

Next ==
  /\ \/ \E f \in DOMAIN shelf', bytes \in whole :
          Store(f, bytes) \/ \E g \in DOMAIN shelf : Replace(f, bytes, g)
     \/ \E gone \in SUBSET DOMAIN shelf : Remove(gone)
     \/ Turnover
  /\ Readable'
  /\ UNCHANGED whole

Spec == Init /\ [][Next]_libraryVars
=============================================================================
