---------------------------- MODULE EditHistory -----------------------------
(***************************************************************************)
(* What an editor with undo promises: undo gives back the document as it   *)
(* was before the last edit that was not undone, one edit at a time, and   *)
(* nothing older than the last replacement of the document.                *)
(***************************************************************************)
EXTENDS Naturals, Sequences

VARIABLES
    origin,           \* the document as it came from outside
    doc,              \* the document
    past              \* the documents before each edit that can be undone

Begins == doc = origin /\ past = <<>>

Edits == past' = Append(past, doc)

Undoes ==
    /\ past # <<>>
    /\ doc' = past[Len(past)]
    /\ past' = SubSeq(past, 1, Len(past) - 1)

Replaces == doc' = origin' /\ past' = <<>>

HistorySpec == Begins /\ [][Edits \/ Undoes \/ Replaces]_<<doc, past>>
=============================================================================
