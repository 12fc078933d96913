-------------------------- MODULE DocumentTimeline --------------------------
(***************************************************************************)
(* What undo and redo promise: a present document between the documents    *)
(* undo returns to and those redo returns to.  An edit happens whole or    *)
(* not at all; only an edit that happened forgets the redo side, and only  *)
(* the oldest part of the undo side is ever given up.                      *)
(***************************************************************************)
EXTENDS Naturals, Sequences

VARIABLES
  past,     \* undo goes to the last of these
  present,  \* the document, or what stands for no document
  future    \* redo goes to the last of these

line == <<past, present, future>>

\* What is left of a history when its oldest entries are given up.
Recent(history) == {SubSeq(history, k, Len(history)) : k \in 1..(Len(history) + 1)}

Init == past = <<>> /\ future = <<>>

Edit ==
  /\ past' \in Recent(Append(past, present))
  /\ future' = <<>>

\* The document changes where it stands, or old entries are given up late.
Amend == past' \in Recent(past) /\ UNCHANGED future

Undo ==
  /\ past # <<>>
  /\ present' = past[Len(past)]
  /\ past' = SubSeq(past, 1, Len(past) - 1)
  /\ future' = Append(future, present)

Redo ==
  /\ future # <<>>
  /\ present' = future[Len(future)]
  /\ future' = SubSeq(future, 1, Len(future) - 1)
  /\ past' = Append(past, present)

\* Another document: undo never reaches across.
Replace == past' = <<>> /\ future' = <<>>

Next == Edit \/ Amend \/ Undo \/ Redo \/ Replace

Spec == Init /\ [][Next]_line
=============================================================================
