------------------------ MODULE ProjectFiles_proofs ------------------------
(***************************************************************************)
(* What the document, its history and its files guarantee for any number   *)
(* of projects, edits, files, saves, autosaves, crashes and write errors.  *)
(* First the history by itself: that it refines the timeline undo and redo *)
(* promise, that its depth is kept, and that nothing it can bring back is  *)
(* a project a file cannot store.  Then the open document and its files:   *)
(* that a document which says it is saved is what its file holds, that no  *)
(* ended save or autosave leaves an outdated recovery file, that work      *)
(* reported as safe can be restored, and that an import reaches the        *)
(* document it was prepared for.                                           *)
(***************************************************************************)
EXTENDS ProjectFiles, SequenceTheorems, WellFoundedInduction, TLAPS

(***************************************************************************)
(* Numbers: every set of them has a least one.                             *)
(***************************************************************************)
Below == {pair \in Nat \X Nat : pair[1] < pair[2]}

LEMMA BelowWellFounded == IsWellFoundedOn(Below, Nat)
  BY NatLessThanWellFounded DEF OpToRel, Below

LEMMA LeastNumber ==
  ASSUME NEW T, T \subseteq Nat, T # {}
  PROVE  \E x \in T : \A y \in T : x <= y
<1>1. PICK x \in T : \A y \in T : ~(<<y, x>> \in Below)
  BY BelowWellFounded, WFMin
<1>2. ASSUME NEW y \in T PROVE x <= y
  <2>1. ~(y < x)
    BY <1>1 DEF Below
  <2> QED
    BY <2>1
<1> QED
  BY <1>2

(***************************************************************************)
(* The limits.                                                             *)
(***************************************************************************)

\* What enforce_limits keeps: the newest entries, no more than the depth allows.
LEMMA LimitsKeepNewest ==
  ASSUME NEW S, NEW stack \in Seq(S)
  PROVE  \E k \in 1..(Len(stack) + 1) :
           /\ enforce_limits(stack) = SubSeq(stack, k, Len(stack))
           /\ Len(SubSeq(stack, k, Len(stack))) <= MAX_HISTORY_DEPTH
<1> DEFINE n == Len(stack)
           Keeps == {k \in 1..(n + 1) : Fits(Newest(stack, k))}
           Chosen(k) == /\ Fits(Newest(stack, k))
                        /\ \A j \in 1..(k - 1) : ~Fits(Newest(stack, j))
<1>1. n \in Nat
  BY LenProperties
<1>2. n + 1 \in Keeps
  <2>1. Newest(stack, n + 1) = <<>>
    BY <1>1, SubSeqEmpty DEF Newest
  <2>2. Fits(<<>>)
    BY ProjectHistoryAssumption DEF Fits
  <2> QED
    BY <1>1, <2>1, <2>2
<1>3. PICK k \in Keeps : \A j \in Keeps : k <= j
  <2>1. Keeps \subseteq Nat /\ Keeps # {}
    BY <1>1, <1>2
  <2> HIDE DEF Keeps
  <2> QED
    BY <2>1, LeastNumber
<1>4. k \in 1..(n + 1) /\ Chosen(k)
  <2>1. ASSUME NEW j \in 1..(k - 1) PROVE ~Fits(Newest(stack, j))
    BY <1>1, <1>3
  <2> QED
    BY <1>3, <2>1
<1> DEFINE kept == CHOOSE i \in 1..(n + 1) : Chosen(i)
<1>5. kept \in 1..(n + 1) /\ Chosen(kept)
  <2> HIDE DEF Chosen
  <2> QED
    BY <1>4
<1>6. enforce_limits(stack) = SubSeq(stack, kept, Len(stack))
  BY DEF enforce_limits, Newest
<1>7. Len(SubSeq(stack, kept, Len(stack))) <= MAX_HISTORY_DEPTH
  BY <1>5 DEF Fits, Newest
<1> QED
  BY <1>5, <1>6, <1>7

\* A part of a stack is a stack of the same documents.
LEMMA PartOfStack ==
  ASSUME NEW S, NEW stack \in Seq(S), NEW i \in 1..(Len(stack) + 1), NEW j \in 0..Len(stack)
  PROVE  /\ SubSeq(stack, i, j) \in Seq(S)
         /\ Len(SubSeq(stack, i, j)) = IF i <= j THEN j - i + 1 ELSE 0
         /\ \A k \in 1..Len(SubSeq(stack, i, j)) :
              /\ i + k - 1 \in 1..Len(stack)
              /\ SubSeq(stack, i, j)[k] = stack[i + k - 1]
<1>1. Len(stack) \in Nat
  BY LenProperties
<1>2. \A k \in i..j : stack[k] \in S
  BY <1>1, ElementOfSeq
<1>3. i \in Int /\ j \in Int
  BY <1>1
<1>4. /\ SubSeq(stack, i, j) \in Seq(S)
      /\ Len(SubSeq(stack, i, j)) = IF i <= j THEN j - i + 1 ELSE 0
      /\ \A k \in 1..j - i + 1 : SubSeq(stack, i, j)[k] = stack[i + k - 1]
  BY <1>2, <1>3, SubSeqProperties
<1> QED
  BY <1>1, <1>3, <1>4

\* The limits shorten a stack and change none of its documents.
LEMMA LimitsType ==
  ASSUME NEW S, NEW stack \in Seq(S)
  PROVE  /\ enforce_limits(stack) \in Seq(S)
         /\ Len(enforce_limits(stack)) <= MAX_HISTORY_DEPTH
         /\ Len(enforce_limits(stack)) <= Len(stack)
<1>1. PICK k \in 1..(Len(stack) + 1) :
        /\ enforce_limits(stack) = SubSeq(stack, k, Len(stack))
        /\ Len(SubSeq(stack, k, Len(stack))) <= MAX_HISTORY_DEPTH
  BY LimitsKeepNewest
<1>2. Len(stack) \in Nat
  BY LenProperties
<1>3. /\ SubSeq(stack, k, Len(stack)) \in Seq(S)
      /\ Len(SubSeq(stack, k, Len(stack))) = IF k <= Len(stack) THEN Len(stack) - k + 1 ELSE 0
  BY <1>2, PartOfStack
<1> QED
  BY <1>1, <1>2, <1>3

(***************************************************************************)
(* The history's invariant.                                                *)
(***************************************************************************)

\* Between edits nothing is set aside.  During one, the undo stack has grown from
\* where the edit began; before the first snapshot nothing has changed, after it
\* the redo entries are set aside and not among those redo sees.
EditInv ==
  /\ gate \in {"free", "edit"}
  /\ gate = "free" => edit_start = NoEdit /\ cleared_redo = <<>>
  /\ gate = "edit" =>
       /\ edit_start \in 0..Len(undo_stack)
       /\ project \in Project /\ before \in Project
       /\ HasEditSnapshot => redo_stack = <<>>
       /\ ~HasEditSnapshot => project = before /\ cleared_redo = <<>>

HistoryInv == HistoryTypeOK /\ EditInv

\* NoProject is no project, and NoEdit no depth.
LEMMA Nones == NoProject \notin Project /\ NoEdit \notin Nat
<1>1. \A p \in Project : "content" \in DOMAIN p
  BY DEF Project
<1>2. "content" \notin DOMAIN NoProject
  BY DEF NoProject
<1> QED
  BY <1>1, <1>2 DEF NoEdit

\* A project with another content is a project.
LEMMA ChangedType ==
  ASSUME NEW p \in Project, NEW content \in Contents
  PROVE  [p EXCEPT !.content = content, !.dirty = TRUE] \in Project
  BY DEF Project

LEMMA DirtyType == ASSUME NEW p \in Project PROVE [p EXCEPT !.dirty = TRUE] \in Project
  BY DEF Project

\* The ends of a stack that is not empty.
LEMMA EndsOfStack ==
  ASSUME NEW S, NEW stack \in Seq(S), stack # <<>>
  PROVE  /\ Last(stack) \in S
         /\ Front(stack) \in Seq(S)
         /\ Len(Front(stack)) = Len(stack) - 1
         /\ Len(stack) \in Nat \ {0}
<1>1. Len(stack) \in Nat \ {0}
  BY EmptySeq
<1>2. Last(stack) \in S
  BY <1>1, ElementOfSeq DEF Last
<1>3. 1 \in 1..(Len(stack) + 1) /\ Len(stack) - 1 \in 0..Len(stack)
  BY <1>1
<1>4. Front(stack) \in Seq(S)
  BY <1>3, PartOfStack DEF Front
<1>5. Len(Front(stack)) = IF 1 <= Len(stack) - 1 THEN Len(stack) - 1 - 1 + 1 ELSE 0
  BY <1>3, PartOfStack DEF Front
<1>6. Len(Front(stack)) = Len(stack) - 1
  <2> DEFINE n == Len(stack)
             m == Len(Front(stack))
  <2>1. n \in Nat \ {0} /\ m = IF 1 <= n - 1 THEN n - 1 - 1 + 1 ELSE 0
    BY <1>1, <1>5
  <2> HIDE DEF n, m
  <2>2. m = n - 1
    BY <2>1
  <2> QED
    BY <2>2 DEF n, m
<1> QED
  BY <1>1, <1>2, <1>4, <1>6

\* The undo stack as it was when the edit began.
LEMMA StartOfStack ==
  ASSUME NEW S, NEW stack \in Seq(S), NEW n \in 0..Len(stack)
  PROVE  /\ SubSeq(stack, 1, n) \in Seq(S)
         /\ Len(SubSeq(stack, 1, n)) = n
         /\ \A k \in 1..n : SubSeq(stack, 1, n)[k] = stack[k]
<1>1. Len(stack) \in Nat /\ 1 \in 1..(Len(stack) + 1)
  BY LenProperties
<1>2. Len(SubSeq(stack, 1, n)) = IF 1 <= n THEN n - 1 + 1 ELSE 0
  BY <1>1, PartOfStack
<1>3. Len(SubSeq(stack, 1, n)) = n
  BY <1>1, <1>2
<1>4. \A k \in 1..n : SubSeq(stack, 1, n)[k] = stack[1 + k - 1]
  BY <1>1, <1>3, PartOfStack
<1>5. \A k \in 1..n : 1 + k - 1 = k
  BY <1>1
<1> QED
  BY <1>1, <1>3, <1>4, <1>5, PartOfStack

\* What was there before the last entry is untouched by it.
LEMMA StartKept ==
  ASSUME NEW S, NEW stack \in Seq(S), NEW p \in S, NEW n \in 0..Len(stack)
  PROVE  SubSeq(Append(stack, p), 1, n) = SubSeq(stack, 1, n)
<1> DEFINE grown == Append(stack, p)
<1>1. /\ grown \in Seq(S)
      /\ Len(grown) = Len(stack) + 1
      /\ \A i \in 1..Len(stack) : grown[i] = stack[i]
  BY AppendProperties
<1> HIDE DEF grown
<1>2. Len(stack) \in Nat /\ n \in 0..Len(grown)
  BY <1>1, LenProperties
<1>3. /\ SubSeq(grown, 1, n) \in Seq(S)
      /\ Len(SubSeq(grown, 1, n)) = n
      /\ \A i \in 1..n : SubSeq(grown, 1, n)[i] = grown[i]
  BY <1>1, <1>2, StartOfStack
<1>4. /\ SubSeq(stack, 1, n) \in Seq(S)
      /\ Len(SubSeq(stack, 1, n)) = n
      /\ \A i \in 1..n : SubSeq(stack, 1, n)[i] = stack[i]
  BY StartOfStack
<1>5. \A i \in 1..n : SubSeq(grown, 1, n)[i] = SubSeq(stack, 1, n)[i]
  BY <1>1, <1>2, <1>3, <1>4
<1>6. SubSeq(grown, 1, n) = SubSeq(stack, 1, n)
  BY <1>3, <1>4, <1>5, SeqEqual
<1> QED
  BY <1>6 DEF grown

LEMMA InvInit == HistoryInit => HistoryInv
  BY DEF HistoryInit, HistoryInv, HistoryTypeOK, EditInv, NoEdit

LEMMA InvStep == HistoryInv /\ [HistoryNext]_documentVars => HistoryInv'
<1> SUFFICES ASSUME HistoryInv, [HistoryNext]_documentVars PROVE HistoryInv'
  OBVIOUS
<1> USE DEF HistoryInv, HistoryTypeOK
<1>0. Len(undo_stack) \in Nat /\ Len(redo_stack) \in Nat
  BY LenProperties
<1>1. CASE BeginEdit
  <2>1. project \in Project
    BY <1>1 DEF BeginEdit, IsOpen
  <2> QED
    BY <1>0, <1>1, <2>1 DEF BeginEdit, EditInv, HasEditSnapshot
<1>2. CASE PushSnapshot
  <2>1. project \in Project
    BY <1>2 DEF PushSnapshot, EditInv
  <2>2. undo_stack' \in Seq(Project) /\ Len(undo_stack') = Len(undo_stack) + 1
    BY <1>2, <2>1, AppendProperties DEF PushSnapshot
  <2>3. HistoryTypeOK'
    <3>1. cleared_redo' \in {cleared_redo, redo_stack} /\ redo_stack' \in {redo_stack, <<>>}
      BY <1>2 DEF PushSnapshot
    <3>2. UNCHANGED <<project, edit_start, before, gate>>
      BY <1>2 DEF PushSnapshot
    <3>3. <<>> \in Seq(Project)
      OBVIOUS
    <3> QED
      BY <2>2, <3>1, <3>2, <3>3
  <2>4. HasEditSnapshot'
    BY <1>0, <1>2, <2>2, Nones DEF PushSnapshot, EditInv, HasEditSnapshot
  <2>5. redo_stack' = <<>>
    BY <1>0, <1>2, Nones DEF PushSnapshot, EditInv, HasEditSnapshot
  <2> QED
    BY <1>0, <1>2, <2>2, <2>3, <2>4, <2>5 DEF PushSnapshot, EditInv
<1>3. CASE EditChanges
  <2>1. PICK content \in Contents : project' = Changed(content)
    BY <1>3 DEF EditChanges
  <2>2. project' \in Project
    BY <1>3, <2>1, ChangedType DEF EditChanges, EditInv, Changed
  <2> QED
    BY <1>3, <2>2 DEF EditChanges, EditInv, HasEditSnapshot, historyVars
<1>4. CASE CommitEdit
  <2> DEFINE grown == IF HasEditSnapshot
                      THEN Append(SubSeq(undo_stack, 1, edit_start), before)
                      ELSE undo_stack
  <2>1. grown \in Seq(Project)
    <3>1. SubSeq(undo_stack, 1, edit_start) \in Seq(Project) /\ before \in Project
      BY <1>4, StartOfStack DEF CommitEdit, EditInv
    <3> QED
      BY <3>1, AppendProperties
  <2>2. undo_stack' = enforce_limits(grown)
    BY <1>4 DEF CommitEdit
  <2>3. undo_stack' \in Seq(Project)
    <3> HIDE DEF grown
    <3> QED
      BY <2>1, <2>2, LimitsType
  <2> QED
    BY <1>4, <2>3 DEF CommitEdit, EditInv
<1>5. CASE RollbackEdit
  <2>1. SubSeq(undo_stack, 1, edit_start) \in Seq(Project)
    BY <1>5, StartOfStack DEF RollbackEdit, EditInv
  <2> QED
    BY <1>5, <2>1 DEF RollbackEdit, EditInv
<1>6. CASE DirectEdit
  <2>1. PICK content \in Storable : RecordChange(content)
    BY <1>6 DEF DirectEdit
  <2>2. project \in Project /\ project' \in Project
    BY <1>6, <2>1, ChangedType, ProjectHistoryAssumption DEF DirectEdit, IsOpen, RecordChange, Changed
  <2>3. undo_stack' \in Seq(Project)
    <3>1. Append(undo_stack, project) \in Seq(Project)
      BY <2>2, AppendProperties
    <3> QED
      BY <2>1, <3>1, LimitsType DEF RecordChange
  <2> QED
    BY <1>6, <2>1, <2>2, <2>3 DEF DirectEdit, RecordChange, EditInv
<1>7. CASE AmendProject
  <2>1. project' \in Project
    BY <1>7, ChangedType, ProjectHistoryAssumption DEF AmendProject, IsOpen, Changed
  <2> QED
    BY <1>7, <2>1 DEF AmendProject, historyVars, EditInv
<1>8. CASE UndoProject
  <2>1. project \in Project
    BY <1>8 DEF UndoProject, IsOpen
  <2>2. Last(undo_stack) \in Project /\ undo_stack' \in Seq(Project)
    BY <1>8, EndsOfStack DEF UndoProject
  <2>3. project' \in Project
    BY <1>8, <2>2, DirtyType DEF UndoProject
  <2>4. redo_stack' \in Seq(Project)
    BY <1>8, <2>1, AppendProperties DEF UndoProject
  <2> QED
    BY <1>8, <2>2, <2>3, <2>4 DEF UndoProject, EditInv
<1>9. CASE RedoProject
  <2>1. project \in Project
    BY <1>9 DEF RedoProject, IsOpen
  <2>2. Last(redo_stack) \in Project /\ redo_stack' \in Seq(Project)
    BY <1>9, EndsOfStack DEF RedoProject
  <2>3. project' \in Project
    BY <1>9, <2>2, DirtyType DEF RedoProject
  <2>4. undo_stack' \in Seq(Project)
    BY <1>9, <2>1, AppendProperties DEF RedoProject
  <2> QED
    BY <1>9, <2>2, <2>3, <2>4 DEF RedoProject, EditInv
<1>10. CASE ReplaceProject
  <2>1. PICK p \in Project \cup {NoProject} : Install(p)
    <3>1. \A id \in Ids, content \in Storable, dirty \in BOOLEAN :
            [id |-> id, content |-> content, dirty |-> dirty] \in Project
      BY ProjectHistoryAssumption DEF Project
    <3> QED
      BY <1>10, <3>1 DEF ReplaceProject
  <2>2. /\ gate = "free" /\ gate' = "free" /\ before' = before
        /\ project' = p /\ edit_start' = NoEdit
        /\ undo_stack' = <<>> /\ redo_stack' = <<>> /\ cleared_redo' = <<>>
    BY <2>1 DEF Install
  <2> QED
    BY <2>2 DEF EditInv
<1>11. CASE UNCHANGED documentVars
  BY <1>11 DEF documentVars, historyVars, EditInv, HasEditSnapshot
<1> QED
  BY <1>1, <1>2, <1>3, <1>4, <1>5, <1>6, <1>7, <1>8, <1>9, <1>10, <1>11
     DEF HistoryNext, HistoryStep

LEMMA InvCorrect == HistorySpec => []HistoryInv
  BY InvInit, InvStep, PTL DEF HistorySpec

\* The history is well typed, and between edits nothing is set aside, whatever the
\* edits, their snapshots and their failures (atomic_edit, history.rs).
THEOREM TypeCorrect == HistorySpec => []HistoryTypeOK
<1>1. HistoryInv => HistoryTypeOK
  BY DEF HistoryInv
<1> QED
  BY <1>1, InvCorrect, PTL

(***************************************************************************)
(* The depth.                                                              *)
(***************************************************************************)

\* DepthKept needs to know what a commit or a rollback would leave.
DepthInv ==
  /\ gate = "free" => Len(undo_stack) + Len(redo_stack) <= MAX_HISTORY_DEPTH
  /\ gate = "edit" =>
       edit_start + Len(redo_stack) + Len(cleared_redo) <= MAX_HISTORY_DEPTH

LEMMA DepthStep ==
  HistoryInv /\ DepthInv /\ [HistoryNext]_documentVars => DepthInv'
<1> SUFFICES ASSUME HistoryInv, DepthInv, [HistoryNext]_documentVars PROVE DepthInv'
  OBVIOUS
<1> USE DEF HistoryInv, HistoryTypeOK, DepthInv
<1>0. /\ Len(undo_stack) \in Nat /\ Len(redo_stack) \in Nat /\ Len(cleared_redo) \in Nat
      /\ MAX_HISTORY_DEPTH \in Nat \ {0}
      /\ Len(<<>>) = 0
  BY LenProperties, ProjectHistoryAssumption
<1>1. CASE BeginEdit
  BY <1>0, <1>1 DEF BeginEdit, EditInv
<1>2. CASE PushSnapshot
  <2>1. \/ cleared_redo' = redo_stack /\ redo_stack' = <<>>
        \/ cleared_redo' = cleared_redo /\ redo_stack' = redo_stack
    BY <1>2 DEF PushSnapshot
  <2>2. edit_start \in Nat /\ edit_start' = edit_start /\ gate = "edit" /\ gate' = "edit"
    BY <1>0, <1>2 DEF PushSnapshot, EditInv
  <2> QED
    BY <1>0, <2>1, <2>2
<1>3. CASE EditChanges
  BY <1>3 DEF EditChanges, historyVars
<1>4. CASE CommitEdit
  <2>1. CASE HasEditSnapshot
    <3> DEFINE grown == Append(SubSeq(undo_stack, 1, edit_start), before)
    <3>1. grown \in Seq(Project)
      <4>1. SubSeq(undo_stack, 1, edit_start) \in Seq(Project) /\ before \in Project
        BY <1>4, StartOfStack DEF CommitEdit, EditInv
      <4> QED
        BY <4>1, AppendProperties
    <3>2. undo_stack' = enforce_limits(grown) /\ gate' = "free" /\ redo_stack' = <<>>
      BY <1>4, <2>1 DEF CommitEdit, EditInv
    <3> HIDE DEF grown
    <3>3. Len(undo_stack') <= MAX_HISTORY_DEPTH /\ Len(undo_stack') \in Nat
      BY <3>1, <3>2, LimitsType, LenProperties
    <3> QED
      BY <1>0, <3>2, <3>3
  <2>2. CASE ~HasEditSnapshot
    <3>1. edit_start = Len(undo_stack) /\ cleared_redo = <<>>
      BY <1>0, <1>4, <2>2, Nones DEF CommitEdit, EditInv, HasEditSnapshot
    <3>2. undo_stack' = enforce_limits(undo_stack) /\ gate' = "free" /\ redo_stack' = redo_stack
      BY <1>4, <2>2 DEF CommitEdit
    <3>3. Len(undo_stack') <= Len(undo_stack) /\ Len(undo_stack') \in Nat
      BY <3>2, LimitsType, LenProperties
    <3> QED
      BY <1>0, <1>4, <3>1, <3>2, <3>3 DEF CommitEdit
  <2> QED
    BY <2>1, <2>2
<1>5. CASE RollbackEdit
  <2>1. gate' = "free" /\ gate = "edit" /\ edit_start \in Nat
    BY <1>0, <1>5 DEF RollbackEdit, EditInv
  <2>2. CASE HasEditSnapshot
    <3>1. Len(undo_stack') = edit_start /\ redo_stack' = cleared_redo /\ redo_stack = <<>>
      BY <1>5, <2>2, StartOfStack DEF RollbackEdit, EditInv
    <3> QED
      BY <1>0, <2>1, <3>1
  <2>3. CASE ~HasEditSnapshot
    <3>1. edit_start = Len(undo_stack)
      BY <1>0, <1>5, <2>3, Nones DEF RollbackEdit, EditInv, HasEditSnapshot
    <3>2. UNCHANGED <<undo_stack, redo_stack>>
      BY <1>5, <2>3 DEF RollbackEdit
    <3> QED
      BY <1>0, <2>1, <3>1, <3>2
  <2> QED
    BY <2>2, <2>3
<1>6. CASE DirectEdit
  <2>1. PICK content \in Storable : RecordChange(content)
    BY <1>6 DEF DirectEdit
  <2>2. Append(undo_stack, project) \in Seq(Project)
    BY <1>6, AppendProperties DEF DirectEdit, IsOpen
  <2>3. Len(undo_stack') <= MAX_HISTORY_DEPTH /\ Len(undo_stack') \in Nat
    BY <2>1, <2>2, LimitsType, LenProperties DEF RecordChange
  <2> QED
    BY <1>0, <1>6, <2>1, <2>3 DEF DirectEdit, RecordChange
<1>7. CASE AmendProject
  BY <1>7 DEF AmendProject, historyVars
<1>8. CASE UndoProject
  <2>1. project \in Project
    BY <1>8 DEF UndoProject, IsOpen
  <2>2. Len(undo_stack') = Len(undo_stack) - 1
    BY <1>8, EndsOfStack DEF UndoProject
  <2>3. Len(redo_stack') = Len(redo_stack) + 1
    BY <1>8, <2>1, AppendProperties DEF UndoProject
  <2> QED
    BY <1>0, <1>8, <2>2, <2>3 DEF UndoProject
<1>9. CASE RedoProject
  <2>1. project \in Project
    BY <1>9 DEF RedoProject, IsOpen
  <2>2. Len(redo_stack') = Len(redo_stack) - 1
    BY <1>9, EndsOfStack DEF RedoProject
  <2>3. Len(undo_stack') = Len(undo_stack) + 1
    BY <1>9, <2>1, AppendProperties DEF RedoProject
  <2> QED
    BY <1>0, <1>9, <2>2, <2>3 DEF RedoProject
<1>10. CASE ReplaceProject
  <2>1. gate' = "free" /\ undo_stack' = <<>> /\ redo_stack' = <<>>
    BY <1>10 DEF ReplaceProject, Install
  <2> QED
    BY <1>0, <2>1
<1>11. CASE UNCHANGED documentVars
  BY <1>11 DEF documentVars, historyVars
<1> QED
  BY <1>1, <1>2, <1>3, <1>4, <1>5, <1>6, <1>7, <1>8, <1>9, <1>10, <1>11
     DEF HistoryNext, HistoryStep

\* Undo and redo together never hold more documents than the limit allows between
\* edits: redo_project appends to the undo stack without enforcing a limit, and what
\* bounds it is that undo and redo only move documents between the two.
THEOREM DepthIsKept == HistorySpec => []DepthKept
<1>1. HistoryInit => DepthInv
  BY ProjectHistoryAssumption, Len(<<>>) = 0 DEF HistoryInit, DepthInv
<1>2. HistoryInv /\ DepthInv => DepthKept
  BY DEF HistoryInv, EditInv, DepthInv, DepthKept
<1> QED
  BY <1>1, <1>2, DepthStep, InvCorrect, PTL DEF HistorySpec

(***************************************************************************)
(* What can be brought back.                                               *)
(***************************************************************************)

AllStorable(stack) == \A i \in 1..Len(stack) : stack[i].content \in Storable

\* During an edit the project and its new snapshots may be anything; what a rollback
\* would return to, and what a commit would record, is storable.
StorableInv ==
  /\ AllStorable(redo_stack)
  /\ gate = "free" =>
       /\ IsOpen => project.content \in Storable
       /\ AllStorable(undo_stack)
  /\ gate = "edit" =>
       /\ before.content \in Storable
       /\ AllStorable(SubSeq(undo_stack, 1, edit_start))
       /\ AllStorable(cleared_redo)

LEMMA StorableAppend ==
  ASSUME NEW stack \in Seq(Project), AllStorable(stack),
         NEW p \in Project, p.content \in Storable
  PROVE  Append(stack, p) \in Seq(Project) /\ AllStorable(Append(stack, p))
<1>1. Len(stack) \in Nat
  BY LenProperties
<1>2. /\ Append(stack, p) \in Seq(Project)
      /\ Len(Append(stack, p)) = Len(stack) + 1
      /\ \A i \in 1..Len(stack) : Append(stack, p)[i] = stack[i]
      /\ Append(stack, p)[Len(stack) + 1] = p
  BY AppendProperties
<1> QED
  BY <1>1, <1>2 DEF AllStorable

LEMMA StorableSub ==
  ASSUME NEW stack \in Seq(Project), AllStorable(stack),
         NEW i \in 1..(Len(stack) + 1), NEW j \in 0..Len(stack)
  PROVE  AllStorable(SubSeq(stack, i, j))
  BY PartOfStack DEF AllStorable

LEMMA StorableLimits ==
  ASSUME NEW stack \in Seq(Project), AllStorable(stack)
  PROVE  AllStorable(enforce_limits(stack))
<1>1. PICK k \in 1..(Len(stack) + 1) : enforce_limits(stack) = SubSeq(stack, k, Len(stack))
  BY LimitsKeepNewest
<1>2. Len(stack) \in 0..Len(stack)
  BY LenProperties
<1> QED
  BY <1>1, <1>2, StorableSub

LEMMA StorableEnds ==
  ASSUME NEW stack \in Seq(Project), AllStorable(stack), stack # <<>>
  PROVE  Last(stack).content \in Storable /\ AllStorable(Front(stack))
<1>1. Len(stack) \in Nat \ {0}
  BY EmptySeq
<1>2. Len(stack) - 1 \in 0..Len(stack) /\ 1 \in 1..(Len(stack) + 1)
  BY <1>1
<1> QED
  BY <1>1, <1>2, StorableSub DEF Last, Front, AllStorable

LEMMA StorableStep ==
  HistoryInv /\ StorableInv /\ [HistoryNext]_documentVars => StorableInv'
<1> SUFFICES ASSUME HistoryInv, StorableInv, [HistoryNext]_documentVars
             PROVE  StorableInv'
  OBVIOUS
<1> USE DEF HistoryInv, HistoryTypeOK, StorableInv
<1>0. AllStorable(<<>>) /\ Len(undo_stack) \in Nat
  BY LenProperties, Len(<<>>) = 0 DEF AllStorable
<1>1. CASE BeginEdit
  <2>1. AllStorable(SubSeq(undo_stack, 1, Len(undo_stack)))
    BY <1>1, SubSeqFull DEF BeginEdit
  <2> QED
    BY <1>0, <1>1, <2>1 DEF BeginEdit
<1>2. CASE PushSnapshot
  <2>1. project \in Project /\ edit_start \in 0..Len(undo_stack)
    BY <1>2 DEF PushSnapshot, EditInv
  <2>2. SubSeq(undo_stack', 1, edit_start) = SubSeq(undo_stack, 1, edit_start)
    BY <1>2, <2>1, StartKept DEF PushSnapshot
  <2>3. \/ cleared_redo' = redo_stack /\ redo_stack' = <<>>
        \/ cleared_redo' = cleared_redo /\ redo_stack' = redo_stack
    BY <1>2 DEF PushSnapshot
  <2>4. AllStorable(redo_stack') /\ AllStorable(cleared_redo')
    BY <1>0, <1>2, <2>3 DEF PushSnapshot
  <2>5. UNCHANGED <<edit_start, before, gate>> /\ gate = "edit"
    BY <1>2 DEF PushSnapshot
  <2> QED
    BY <2>2, <2>4, <2>5 DEF AllStorable
<1>3. CASE EditChanges
  BY <1>3 DEF EditChanges, historyVars
<1>4. CASE CommitEdit
  <2>1. CASE HasEditSnapshot
    <3> DEFINE grown == Append(SubSeq(undo_stack, 1, edit_start), before)
    <3>1. grown \in Seq(Project) /\ AllStorable(grown)
      <4>1. SubSeq(undo_stack, 1, edit_start) \in Seq(Project) /\ before \in Project
        BY <1>4, StartOfStack DEF CommitEdit, EditInv
      <4>2. AllStorable(SubSeq(undo_stack, 1, edit_start)) /\ before.content \in Storable
        BY <1>4 DEF CommitEdit
      <4> QED
        BY <4>1, <4>2, StorableAppend
    <3>2. undo_stack' = enforce_limits(grown) /\ UNCHANGED <<project, redo_stack>>
          /\ gate' = "free" /\ project.content \in Storable
      BY <1>4, <2>1 DEF CommitEdit, Acceptable
    <3> HIDE DEF grown
    <3>3. AllStorable(undo_stack')
      BY <3>1, <3>2, StorableLimits
    <3> QED
      BY <3>2, <3>3
  <2>2. CASE ~HasEditSnapshot
    <3>1. edit_start = Len(undo_stack) /\ project = before
      BY <1>0, <1>4, <2>2, Nones DEF CommitEdit, EditInv, HasEditSnapshot
    <3>2. undo_stack' = enforce_limits(undo_stack) /\ gate' = "free"
          /\ UNCHANGED <<project, redo_stack>>
      BY <1>4, <2>2 DEF CommitEdit
    <3>3. AllStorable(undo_stack) /\ before.content \in Storable
      <4>1. SubSeq(undo_stack, 1, edit_start) = undo_stack
        BY <3>1, SubSeqFull
      <4> QED
        BY <1>4, <4>1 DEF CommitEdit
    <3> QED
      BY <3>1, <3>2, <3>3, StorableLimits
  <2> QED
    BY <2>1, <2>2
<1>5. CASE RollbackEdit
  <2>1. gate' = "free" /\ gate = "edit" /\ project' = before
    BY <1>5 DEF RollbackEdit
  <2>2. CASE HasEditSnapshot
    BY <1>5, <2>1, <2>2 DEF RollbackEdit
  <2>3. CASE ~HasEditSnapshot
    <3>1. edit_start = Len(undo_stack) /\ UNCHANGED <<undo_stack, redo_stack>>
      BY <1>0, <1>5, <2>3, Nones DEF RollbackEdit, EditInv, HasEditSnapshot
    <3>2. SubSeq(undo_stack, 1, edit_start) = undo_stack
      BY <3>1, SubSeqFull
    <3> QED
      BY <2>1, <3>1, <3>2
  <2> QED
    BY <2>2, <2>3
<1>6. CASE DirectEdit
  <2>1. PICK content \in Storable : RecordChange(content)
    BY <1>6 DEF DirectEdit
  <2>2. gate = "free" /\ project \in Project /\ project.content \in Storable
    BY <1>6 DEF DirectEdit, IsOpen
  <2>3. AllStorable(undo_stack')
    <3>1. Append(undo_stack, project) \in Seq(Project)
          /\ AllStorable(Append(undo_stack, project))
      BY <2>2, StorableAppend
    <3> QED
      BY <2>1, <3>1, StorableLimits DEF RecordChange
  <2>4. project'.content \in Storable
    BY <2>1, <2>2 DEF RecordChange, Changed, Project
  <2> QED
    BY <1>0, <2>1, <2>2, <2>3, <2>4 DEF RecordChange
<1>7. CASE AmendProject
  <2>1. project'.content \in Storable
    BY <1>7 DEF AmendProject, Changed, IsOpen, Project
  <2> QED
    BY <1>7, <2>1 DEF AmendProject, historyVars
<1>8. CASE UndoProject
  <2>1. gate = "free" /\ project \in Project /\ project.content \in Storable
    BY <1>8 DEF UndoProject, IsOpen
  <2>2. Last(undo_stack) \in Project /\ Last(undo_stack).content \in Storable
    BY <1>8, EndsOfStack, StorableEnds DEF UndoProject
  <2>3. project'.content \in Storable
    BY <1>8, <2>2 DEF UndoProject, Project
  <2>4. AllStorable(undo_stack') /\ AllStorable(redo_stack')
    BY <1>8, <2>1, StorableEnds, StorableAppend DEF UndoProject
  <2> QED
    BY <1>8, <2>3, <2>4 DEF UndoProject
<1>9. CASE RedoProject
  <2>1. gate = "free" /\ project \in Project /\ project.content \in Storable
    BY <1>9 DEF RedoProject, IsOpen
  <2>2. Last(redo_stack) \in Project /\ Last(redo_stack).content \in Storable
    BY <1>9, EndsOfStack, StorableEnds DEF RedoProject
  <2>3. project'.content \in Storable
    BY <1>9, <2>2 DEF RedoProject, Project
  <2>4. AllStorable(undo_stack') /\ AllStorable(redo_stack')
    BY <1>9, <2>1, StorableEnds, StorableAppend DEF RedoProject
  <2> QED
    BY <1>9, <2>3, <2>4 DEF RedoProject
<1>10. CASE ReplaceProject
  <2>1. /\ gate' = "free" /\ undo_stack' = <<>> /\ redo_stack' = <<>>
        /\ IsOpen' => project'.content \in Storable
    BY <1>10 DEF ReplaceProject, Install, IsOpen
  <2> QED
    BY <1>0, <2>1
<1>11. CASE UNCHANGED documentVars
  BY <1>11 DEF documentVars, historyVars, IsOpen
<1> QED
  BY <1>1, <1>2, <1>3, <1>4, <1>5, <1>6, <1>7, <1>8, <1>9, <1>10, <1>11
     DEF HistoryNext, HistoryStep

\* Whatever an edit passed through and recorded on the way, neither the document nor
\* anything undo and redo can bring back holds a number a project file cannot store
\* (the check before the commit, and the snapshots the commit gives up).
THEOREM HistoryIsStorable == HistorySpec => []HistoryStorable
<1>1. HistoryInit => StorableInv
  BY Len(<<>>) = 0 DEF HistoryInit, StorableInv, AllStorable, IsOpen
<1>2. HistoryInv /\ StorableInv => HistoryStorable
  BY LenProperties
     DEF HistoryInv, HistoryTypeOK, EditInv, StorableInv, AllStorable, HistoryStorable
<1> QED
  BY <1>1, <1>2, StorableStep, InvCorrect, PTL DEF HistorySpec

(***************************************************************************)
(* The refinement.                                                         *)
(***************************************************************************)

View == {Shown(p) : p \in Project \cup {NoProject}}

\* A stack is shown document by document.
LEMMA ShownStack ==
  ASSUME NEW stack \in Seq(Project)
  PROVE  /\ ShownAll(stack) \in Seq(View)
         /\ Len(ShownAll(stack)) = Len(stack)
         /\ \A i \in 1..Len(stack) : ShownAll(stack)[i] = Shown(stack[i])
<1>1. Len(stack) \in Nat /\ DOMAIN stack = 1..Len(stack)
  BY LenProperties
<1>2. \A i \in 1..Len(stack) : Shown(stack[i]) \in View
  BY ElementOfSeq DEF View
<1>3. ShownAll(stack) = [i \in 1..Len(stack) |-> Shown(stack[i])]
  BY <1>1 DEF ShownAll
<1>4. ShownAll(stack) \in [1..Len(stack) -> View]
  BY <1>2, <1>3
<1>5. ShownAll(stack) \in Seq(View)
  BY <1>1, <1>4, SeqDef
<1>6. Len(ShownAll(stack)) = Len(stack)
  <2>1. DOMAIN ShownAll(stack) = 1..Len(stack)
    BY <1>4
  <2>2. DOMAIN ShownAll(stack) = 1..Len(ShownAll(stack)) /\ Len(ShownAll(stack)) \in Nat
    BY <1>5, LenProperties
  <2> QED
    BY <1>1, <2>1, <2>2
<1> QED
  BY <1>3, <1>5, <1>6

LEMMA ShownEmpty == ShownAll(<<>>) = <<>>
<1>1. ShownAll(<<>>) \in Seq(View) /\ Len(ShownAll(<<>>)) = 0
  BY ShownStack, Len(<<>>) = 0, <<>> \in Seq(Project)
<1> QED
  BY <1>1, EmptySeq

LEMMA ShownAppend ==
  ASSUME NEW stack \in Seq(Project), NEW p \in Project
  PROVE  ShownAll(Append(stack, p)) = Append(ShownAll(stack), Shown(p))
<1> DEFINE left == ShownAll(Append(stack, p))
           right == Append(ShownAll(stack), Shown(p))
<1>1. Len(stack) \in Nat
  BY LenProperties
<1>2. /\ Append(stack, p) \in Seq(Project)
      /\ Len(Append(stack, p)) = Len(stack) + 1
      /\ \A i \in 1..Len(stack) : Append(stack, p)[i] = stack[i]
      /\ Append(stack, p)[Len(stack) + 1] = p
  BY AppendProperties
<1>3. /\ left \in Seq(View)
      /\ Len(left) = Len(stack) + 1
      /\ \A i \in 1..(Len(stack) + 1) : left[i] = Shown(Append(stack, p)[i])
  BY <1>2, ShownStack
<1>4. /\ ShownAll(stack) \in Seq(View)
      /\ Len(ShownAll(stack)) = Len(stack)
      /\ \A i \in 1..Len(stack) : ShownAll(stack)[i] = Shown(stack[i])
  BY ShownStack
<1>5. Shown(p) \in View
  BY DEF View
<1>6. /\ right \in Seq(View)
      /\ Len(right) = Len(stack) + 1
      /\ \A i \in 1..Len(stack) : right[i] = ShownAll(stack)[i]
      /\ right[Len(stack) + 1] = Shown(p)
  BY <1>4, <1>5, AppendProperties
<1> HIDE DEF left, right
<1>7. \A i \in 1..Len(left) : left[i] = right[i]
  BY <1>1, <1>2, <1>3, <1>4, <1>6
<1>8. left = right
  BY <1>3, <1>6, <1>7, SeqEqual
<1> QED
  BY <1>8 DEF left, right

LEMMA ShownSub ==
  ASSUME NEW stack \in Seq(Project),
         NEW i \in 1..(Len(stack) + 1), NEW j \in 0..Len(stack)
  PROVE  ShownAll(SubSeq(stack, i, j)) = SubSeq(ShownAll(stack), i, j)
<1> DEFINE part == SubSeq(stack, i, j)
           left == ShownAll(part)
           right == SubSeq(ShownAll(stack), i, j)
<1>1. Len(stack) \in Nat
  BY LenProperties
<1>2. /\ part \in Seq(Project)
      /\ Len(part) = IF i <= j THEN j - i + 1 ELSE 0
      /\ \A k \in 1..Len(part) : i + k - 1 \in 1..Len(stack) /\ part[k] = stack[i + k - 1]
  BY PartOfStack
<1>3. /\ ShownAll(stack) \in Seq(View)
      /\ Len(ShownAll(stack)) = Len(stack)
      /\ \A k \in 1..Len(stack) : ShownAll(stack)[k] = Shown(stack[k])
  BY ShownStack
<1>4. /\ right \in Seq(View)
      /\ Len(right) = IF i <= j THEN j - i + 1 ELSE 0
      /\ \A k \in 1..Len(right) : right[k] = ShownAll(stack)[i + k - 1]
  BY <1>3, PartOfStack
<1> HIDE DEF part, right
<1>5. /\ left \in Seq(View)
      /\ Len(left) = Len(part)
      /\ \A k \in 1..Len(part) : left[k] = Shown(part[k])
  BY <1>2, ShownStack
<1> HIDE DEF left
<1>6. \A k \in 1..Len(left) : left[k] = right[k]
  BY <1>2, <1>3, <1>4, <1>5
<1>7. left = right
  BY <1>2, <1>4, <1>5, <1>6, SeqEqual
<1> QED
  BY <1>7 DEF left, part, right

LEMMA ShownLimits ==
  ASSUME NEW stack \in Seq(Project)
  PROVE  ShownAll(enforce_limits(stack)) \in Timeline!Recent(ShownAll(stack))
<1>1. PICK k \in 1..(Len(stack) + 1) : enforce_limits(stack) = SubSeq(stack, k, Len(stack))
  BY LimitsKeepNewest
<1>2. Len(stack) \in 0..Len(stack)
  BY LenProperties
<1>3. ShownAll(enforce_limits(stack)) = SubSeq(ShownAll(stack), k, Len(stack))
  BY <1>1, <1>2, ShownSub
<1>4. Len(ShownAll(stack)) = Len(stack)
  BY ShownStack
<1> QED
  BY <1>3, <1>4 DEF Timeline!Recent

\* A history is a recent part of itself.
LEMMA WholeIsRecent ==
  ASSUME NEW stack \in Seq(Project)
  PROVE  ShownAll(stack) \in Timeline!Recent(ShownAll(stack))
<1>1. ShownAll(stack) \in Seq(View)
  BY ShownStack
<1>2. SubSeq(ShownAll(stack), 1, Len(ShownAll(stack))) = ShownAll(stack)
  BY <1>1, SubSeqFull
<1>3. 1 \in 1..(Len(ShownAll(stack)) + 1)
  BY <1>1, LenProperties
<1> QED
  BY <1>2, <1>3 DEF Timeline!Recent

\* The last document is shown last, and the rest is shown as it was.
LEMMA ShownEnds ==
  ASSUME NEW stack \in Seq(Project), stack # <<>>
  PROVE  /\ ShownAll(stack) # <<>>
         /\ ShownAll(stack)[Len(ShownAll(stack))] = Shown([Last(stack) EXCEPT !.dirty = TRUE])
         /\ ShownAll(Front(stack)) = SubSeq(ShownAll(stack), 1, Len(ShownAll(stack)) - 1)
<1>1. Len(stack) \in Nat \ {0} /\ Last(stack) \in Project
  BY EndsOfStack
<1>2. ShownAll(stack) \in Seq(View) /\ Len(ShownAll(stack)) = Len(stack)
      /\ ShownAll(stack)[Len(stack)] = Shown(stack[Len(stack)])
  BY <1>1, ShownStack
<1>3. Shown([Last(stack) EXCEPT !.dirty = TRUE]) = Shown(Last(stack))
  <2> DEFINE last == Last(stack)
             marked == [last EXCEPT !.dirty = TRUE]
  <2>1. last \in Project /\ marked \in Project
    BY <1>1, DirtyType
  <2>2. marked.id = last.id /\ marked.content = last.content
    BY <1>1 DEF Project
  <2> HIDE DEF last, marked
  <2>3. Shown(marked) = Shown(last)
    BY <2>1, <2>2, Nones DEF Shown
  <2> QED
    BY <2>3 DEF last, marked
<1>4. ShownAll(stack) # <<>>
  BY <1>1, <1>2, Len(<<>>) = 0
<1>5. ShownAll(Front(stack)) = SubSeq(ShownAll(stack), 1, Len(stack) - 1)
  <2>1. 1 \in 1..(Len(stack) + 1) /\ Len(stack) - 1 \in 0..Len(stack)
    BY <1>1
  <2> QED
    BY <2>1, ShownSub DEF Front
<1> QED
  BY <1>2, <1>3, <1>4, <1>5 DEF Last

\* What is committed, between edits and during one.
LEMMA CommittedFree ==
  ASSUME gate = "free"
  PROVE  CommittedUndo = undo_stack /\ CommittedRedo = redo_stack /\ CommittedProject = project
  BY DEF CommittedUndo, CommittedRedo, CommittedProject, InEdit

LEMMA CommittedEditing ==
  ASSUME gate = "edit"
  PROVE  /\ CommittedUndo = SubSeq(undo_stack, 1, edit_start)
         /\ CommittedRedo = IF HasEditSnapshot THEN cleared_redo ELSE redo_stack
         /\ CommittedProject = before
  BY DEF CommittedUndo, CommittedRedo, CommittedProject, InEdit

LEMMA RefinesStep ==
  HistoryInv /\ [HistoryNext]_documentVars => [Timeline!Next]_(Timeline!line)
<1> SUFFICES ASSUME HistoryInv, [HistoryNext]_documentVars
             PROVE  [Timeline!Next]_(Timeline!line)
  OBVIOUS
<1> USE DEF HistoryInv, HistoryTypeOK
<1> DEFINE Same == UNCHANGED <<CommittedUndo, CommittedProject, CommittedRedo>>
<1>0. Len(undo_stack) \in Nat
  BY LenProperties
<1>a. ASSUME Same PROVE UNCHANGED Timeline!line
  BY <1>a DEF Timeline!line
<1>1. CASE BeginEdit
  <2>1. gate = "free" /\ gate' = "edit" /\ edit_start' = Len(undo_stack) /\ before' = project
        /\ UNCHANGED <<undo_stack, redo_stack>>
    BY <1>1 DEF BeginEdit
  <2>2. ~HasEditSnapshot'
    BY <1>0, <2>1 DEF HasEditSnapshot
  <2>3. SubSeq(undo_stack, 1, Len(undo_stack)) = undo_stack
    BY SubSeqFull
  <2>4. Same
    BY <2>1, <2>2, <2>3 DEF CommittedUndo, CommittedRedo, CommittedProject, InEdit
  <2> QED
    BY <1>a, <2>4
<1>2. CASE PushSnapshot
  <2>1. /\ gate = "edit" /\ UNCHANGED <<edit_start, before, gate>>
        /\ project \in Project /\ edit_start \in 0..Len(undo_stack)
        /\ undo_stack' = Append(undo_stack, project)
    BY <1>2 DEF PushSnapshot, EditInv
  <2>2. SubSeq(undo_stack', 1, edit_start) = SubSeq(undo_stack, 1, edit_start)
    BY <2>1, StartKept
  <2>3. HasEditSnapshot'
    <3>1. Len(undo_stack') = Len(undo_stack) + 1
      BY <2>1, AppendProperties
    <3> QED
      BY <1>0, <2>1, <3>1, Nones DEF HasEditSnapshot
  <2>4. cleared_redo' = IF HasEditSnapshot THEN cleared_redo ELSE redo_stack
    BY <1>0, <1>2, <2>1, Nones DEF PushSnapshot, HasEditSnapshot
  <2>5. Same
    BY <2>1, <2>2, <2>3, <2>4 DEF CommittedUndo, CommittedRedo, CommittedProject, InEdit
  <2> QED
    BY <1>a, <2>5
<1>3. CASE EditChanges
  <2>1. Same
    BY <1>3 DEF EditChanges, historyVars, CommittedUndo, CommittedRedo, CommittedProject,
                InEdit, HasEditSnapshot
  <2> QED
    BY <1>a, <2>1
<1>4. CASE CommitEdit
  <2>1. /\ gate = "edit" /\ gate' = "free" /\ UNCHANGED <<project, redo_stack>>
        /\ before \in Project
    BY <1>4 DEF CommitEdit, EditInv
  <2>2. CASE HasEditSnapshot
    <3> DEFINE start == SubSeq(undo_stack, 1, edit_start)
    <3>1. start \in Seq(Project)
      BY <1>4, StartOfStack DEF CommitEdit, EditInv
    <3>2. CommittedUndo = start /\ CommittedProject = before
      BY <2>1, CommittedEditing
    <3>3. CommittedUndo' = enforce_limits(Append(start, before)) /\ CommittedRedo' = <<>>
      BY <1>4, <2>1, <2>2 DEF CommitEdit, EditInv, CommittedUndo, CommittedRedo, InEdit
    <3> HIDE DEF start
    <3>4. Append(start, before) \in Seq(Project)
      BY <2>1, <3>1, AppendProperties
    <3>5. ShownAll(CommittedUndo')
            \in Timeline!Recent(Append(ShownAll(CommittedUndo), Shown(CommittedProject)))
      BY <2>1, <3>1, <3>2, <3>3, <3>4, ShownLimits, ShownAppend
    <3>6. ShownAll(CommittedRedo') = <<>>
      BY <3>3, ShownEmpty
    <3> QED
      BY <3>5, <3>6 DEF Timeline!Next, Timeline!Edit
  <2>3. CASE ~HasEditSnapshot
    <3>1. edit_start = Len(undo_stack)
      BY <1>0, <1>4, <2>3, Nones DEF CommitEdit, EditInv, HasEditSnapshot
    <3>2. CommittedUndo = undo_stack /\ CommittedRedo = redo_stack
      BY <2>1, <2>3, <3>1, SubSeqFull, CommittedEditing
    <3>3. CommittedUndo' = enforce_limits(undo_stack) /\ CommittedRedo' = redo_stack
      BY <1>4, <2>1, <2>3 DEF CommitEdit, CommittedUndo, CommittedRedo, InEdit
    <3>4. ShownAll(CommittedUndo') \in Timeline!Recent(ShownAll(CommittedUndo))
      BY <3>2, <3>3, ShownLimits
    <3> QED
      BY <3>2, <3>3, <3>4 DEF Timeline!Next, Timeline!Amend
  <2> QED
    BY <2>2, <2>3
<1>5. CASE RollbackEdit
  <2>1. gate = "edit" /\ gate' = "free" /\ project' = before
    BY <1>5 DEF RollbackEdit
  <2>2. CASE HasEditSnapshot
    <3>1. undo_stack' = SubSeq(undo_stack, 1, edit_start) /\ redo_stack' = cleared_redo
      BY <1>5, <2>2 DEF RollbackEdit
    <3>2. Same
      BY <2>1, <2>2, <3>1 DEF CommittedUndo, CommittedRedo, CommittedProject, InEdit
    <3> QED
      BY <1>a, <3>2
  <2>3. CASE ~HasEditSnapshot
    <3>1. edit_start = Len(undo_stack) /\ UNCHANGED <<undo_stack, redo_stack>>
      BY <1>0, <1>5, <2>3, Nones DEF RollbackEdit, EditInv, HasEditSnapshot
    <3>2. SubSeq(undo_stack, 1, edit_start) = undo_stack
      BY <3>1, SubSeqFull
    <3>3. Same
      BY <2>1, <2>3, <3>1, <3>2 DEF CommittedUndo, CommittedRedo, CommittedProject, InEdit
    <3> QED
      BY <1>a, <3>3
  <2> QED
    BY <2>2, <2>3
<1>6. CASE DirectEdit
  <2>1. PICK content \in Storable : RecordChange(content)
    BY <1>6 DEF DirectEdit
  <2>2. gate = "free" /\ gate' = "free" /\ project \in Project
    BY <1>6, <2>1 DEF DirectEdit, RecordChange, IsOpen
  <2>3. CommittedUndo = undo_stack /\ CommittedProject = project
    BY <2>2, CommittedFree
  <2>4. CommittedUndo' = enforce_limits(Append(undo_stack, project)) /\ CommittedRedo' = <<>>
    BY <2>1, <2>2 DEF RecordChange, CommittedUndo, CommittedRedo, InEdit
  <2>5. Append(undo_stack, project) \in Seq(Project)
    BY <2>2, AppendProperties
  <2>6. ShownAll(CommittedUndo')
          \in Timeline!Recent(Append(ShownAll(CommittedUndo), Shown(CommittedProject)))
    BY <2>2, <2>3, <2>4, <2>5, ShownLimits, ShownAppend
  <2>7. ShownAll(CommittedRedo') = <<>>
    BY <2>4, ShownEmpty
  <2> QED
    BY <2>6, <2>7 DEF Timeline!Next, Timeline!Edit
<1>7. CASE AmendProject
  <2>1. gate = "free" /\ gate' = "free" /\ UNCHANGED <<undo_stack, redo_stack>>
    BY <1>7 DEF AmendProject, historyVars
  <2>2. /\ CommittedUndo = undo_stack /\ CommittedRedo = redo_stack
        /\ CommittedUndo' = undo_stack /\ CommittedRedo' = redo_stack
    BY <2>1 DEF CommittedUndo, CommittedRedo, InEdit
  <2>3. ShownAll(CommittedUndo') \in Timeline!Recent(ShownAll(CommittedUndo))
    BY <2>2, WholeIsRecent
  <2> QED
    BY <2>2, <2>3 DEF Timeline!Next, Timeline!Amend
<1>8. CASE UndoProject
  <2>1. /\ gate = "free" /\ gate' = "free" /\ project \in Project /\ undo_stack # <<>>
        /\ project' = [Last(undo_stack) EXCEPT !.dirty = TRUE]
        /\ undo_stack' = Front(undo_stack) /\ redo_stack' = Append(redo_stack, project)
    BY <1>8 DEF UndoProject, IsOpen
  <2>2. CommittedUndo = undo_stack /\ CommittedRedo = redo_stack /\ CommittedProject = project
    BY <2>1, CommittedFree
  <2>3. /\ CommittedUndo' = Front(undo_stack) /\ CommittedRedo' = Append(redo_stack, project)
        /\ CommittedProject' = [Last(undo_stack) EXCEPT !.dirty = TRUE]
    BY <2>1 DEF CommittedUndo, CommittedRedo, CommittedProject, InEdit
  <2> QED
    BY <2>1, <2>2, <2>3, ShownEnds, ShownAppend DEF Timeline!Next, Timeline!Undo
<1>9. CASE RedoProject
  <2>1. /\ gate = "free" /\ gate' = "free" /\ project \in Project /\ redo_stack # <<>>
        /\ project' = [Last(redo_stack) EXCEPT !.dirty = TRUE]
        /\ redo_stack' = Front(redo_stack) /\ undo_stack' = Append(undo_stack, project)
    BY <1>9 DEF RedoProject, IsOpen
  <2>2. CommittedUndo = undo_stack /\ CommittedRedo = redo_stack /\ CommittedProject = project
    BY <2>1, CommittedFree
  <2>3. /\ CommittedRedo' = Front(redo_stack) /\ CommittedUndo' = Append(undo_stack, project)
        /\ CommittedProject' = [Last(redo_stack) EXCEPT !.dirty = TRUE]
    BY <2>1 DEF CommittedUndo, CommittedRedo, CommittedProject, InEdit
  <2> QED
    BY <2>1, <2>2, <2>3, ShownEnds, ShownAppend DEF Timeline!Next, Timeline!Redo
<1>10. CASE ReplaceProject
  <2>1. gate' = "free" /\ undo_stack' = <<>> /\ redo_stack' = <<>>
    BY <1>10 DEF ReplaceProject, Install
  <2>2. CommittedUndo' = <<>> /\ CommittedRedo' = <<>>
    BY <2>1 DEF CommittedUndo, CommittedRedo, InEdit
  <2> QED
    BY <2>2, ShownEmpty DEF Timeline!Next, Timeline!Replace
<1>11. CASE UNCHANGED documentVars
  <2>1. Same
    BY <1>11 DEF documentVars, historyVars, CommittedUndo, CommittedRedo, CommittedProject,
                 InEdit, HasEditSnapshot
  <2> QED
    BY <1>a, <2>1
<1> QED
  BY <1>1, <1>2, <1>3, <1>4, <1>5, <1>6, <1>7, <1>8, <1>9, <1>10, <1>11
     DEF HistoryNext, HistoryStep

\* The history implements the timeline: an edit happens whole or not at all, whatever
\* snapshots it recorded and wherever it failed; only an edit that happened forgets the
\* redo side, and only the oldest documents are ever given up.
THEOREM HistoryRefinesTimeline == HistorySpec => TimelineKept
<1>1. HistoryInit => Timeline!Init
  <2> SUFFICES ASSUME HistoryInit PROVE Timeline!Init
    OBVIOUS
  <2>1. CommittedUndo = <<>> /\ CommittedRedo = <<>>
    BY CommittedFree DEF HistoryInit
  <2> QED
    BY <2>1, ShownEmpty DEF Timeline!Init
<1> QED
  BY <1>1, RefinesStep, InvCorrect, PTL DEF HistorySpec, TimelineKept, Timeline!Spec

(***************************************************************************)
(* The invariant of the document and its files.                            *)
(***************************************************************************)

Autosaves == [step : {"write", "source", "check", "discard", "discard_source"},
              id : Ids, content : Contents, saves : 0..MaxSaves,
              source : AnyPath, outdated : BOOLEAN, carries : BOOLEAN, current : BOOLEAN]
LoadsMade == [id : Ids, content : Storable, dirty : BOOLEAN, path : AnyPath,
              carries : BOOLEAN, overtaken : BOOLEAN]
Leases == [id : Ids, epoch : 0..MaxEpoch, current : BOOLEAN]

\* The history is that of ProjectHistory, which nothing changes while a save runs.
DocumentInv ==
  /\ HistoryTypeOK
  /\ gate = "save" => edit_start = NoEdit /\ cleared_redo = <<>>
  /\ gate # "save" => EditInv

\* The types of what ProjectFiles adds to it.
FilesType ==
  /\ path \in AnyPath
  /\ epoch \in 0..MaxEpoch /\ save_count \in 0..MaxSaves
  /\ saving \in [step : {"idle", "write", "count", "discard", "source"}, path : AnyPath]
  /\ autosave = NotAutosaving \/ autosave \in Autosaves
  /\ lease = NoLease \/ lease \in Leases
  /\ loading = NoLoad \/ loading \in LoadsMade
  /\ files \in [Paths -> Saved \cup {NoFile}]
  /\ recovery \in [Ids -> Copy \cup {NoCopy}]
  /\ sidecar \in [Ids -> AnyPath]
  /\ app \in {"running", "closing", "closed", "crashed"}
  /\ promised \in [Ids -> Work \cup {NoWork}]
  /\ carries \in BOOLEAN /\ overtaken \in BOOLEAN
  /\ {interrupted, dismissed, known} \subseteq SUBSET Ids
  /\ edits \in 0..MaxEdits /\ autosaves \in 0..MaxAutosaves
  /\ crashes \in 0..MaxCrashes /\ faults \in 0..MaxFaults

\* Undo, redo and a rollback never leave the project that is open.
ProjectOf(id) == {p \in Project : p.id = id}
IdInv ==
  IsOpen =>
    /\ undo_stack \in Seq(ProjectOf(project.id))
    /\ redo_stack \in Seq(ProjectOf(project.id))
    /\ cleared_redo \in Seq(ProjectOf(project.id))
    /\ gate = "edit" => before \in ProjectOf(project.id)

\* A save holds the gate from its first step to its last; nothing is under way
\* when the application is not.
PhaseInv ==
  /\ gate = "save" <=> saving.step # "idle"
  /\ gate # "free" => IsOpen
  /\ saving.step \in {"write", "count"} => saving.path \in Paths /\ save_count < MaxSaves
  /\ app \in {"closed", "crashed"} => ~IsOpen /\ autosave = NotAutosaving /\ gate = "free"

\* What says it is saved is what its file holds, or what loading makes of that: the
\* project, the one a rollback would bring back, one that is read and not installed yet,
\* and the one a save is about to mark.  Excepted is a file saved over since it was read.
Clean(p) == p.dirty \/ path = NoPath \/ overtaken \/ SavedIn(path, p)
LoadedIs(l) == l.dirty \/ l.overtaken \/ (l.path \in Paths /\ SavedIn(l.path, l))
SavedInv ==
  /\ IsOpen => Clean(project)
  /\ gate = "edit" => Clean(before)
  /\ loading # NoLoad => LoadedIs(loading)
  /\ saving.step = "count" =>
       files[saving.path] = [id |-> project.id, content |-> project.content]

\* A lease that outlived its document has an epoch that is over.
LeaseInv ==
  lease # NoLease => lease.epoch <= epoch /\ (~lease.current => lease.epoch < epoch)

\* A save has passed the autosave in progress, or is about to be counted.
Overtaken ==
  save_count > autosave.saves \/ (saving.step = "count" /\ project.id = autosave.id)

\* Work that was reported and neither saved nor given up.
Owes(w) == w # NoWork /\ ~w.forgone
Owed(id) == Owes(promised[id])

\* What the autosave in progress will find at its check: an outdated copy is one a
\* save has overtaken, and that save it sees.  It reports what it wrote, and it writes
\* over or removes reported work only with work made from it.
AutosaveInv ==
  autosave # NotAutosaving =>
    /\ autosave.saves <= save_count
    /\ autosave.outdated => Overtaken
    /\ recovery[autosave.id] # NoCopy /\ recovery[autosave.id].outdated
         => autosave.id \in interrupted \/ Overtaken
    /\ autosave.step \in {"discard", "discard_source"} => autosave.saves < save_count
    /\ autosave.step = "discard_source" => recovery[autosave.id] = NoCopy
    /\ app = "running" /\ autosave.step \in {"source", "check"}
         /\ autosave.current /\ ~autosave.outdated
         => /\ recovery[autosave.id] # NoCopy /\ ~recovery[autosave.id].outdated
            /\ recovery[autosave.id].content = autosave.content
    /\ saving.step \in {"count", "discard"} /\ project.id = autosave.id => autosave.outdated
    /\ Owed(autosave.id) =>
         /\ IsOpen /\ project.id = autosave.id /\ carries
         /\ autosave.carries /\ save_count = autosave.saves

\* A save that has written its file has settled what its project was promised.
PromiseInv ==
  /\ saving.step \in {"count", "discard"} => ~Owed(project.id)
  /\ AutosavedWorkSurvives

FilesInv ==
  /\ DocumentInv /\ FilesType
  /\ IdInv /\ PhaseInv /\ SavedInv /\ LeaseInv
  /\ AutosaveInv /\ PromiseInv /\ RecoveryNotOutdated

(***************************************************************************)
(* What the parts of the state are not.                                    *)
(***************************************************************************)

\* The values that stand for nothing are none of the records they stand beside.
LEMMA FilesNones ==
  /\ NoFile \notin Saved /\ NoCopy \notin Copy
  /\ NotAutosaving \notin Autosaves /\ NoLease \notin Leases
  /\ NoLoad \notin LoadsMade /\ NoWork \notin Work
<1>1. ASSUME NoFile \in Saved PROVE FALSE
  <2>1. "content" \in DOMAIN NoFile
    BY <1>1 DEF Saved
  <2> QED
    BY <2>1 DEF NoFile
<1>2. ASSUME NoCopy \in Copy PROVE FALSE
  <2>1. "source" \in DOMAIN NoCopy
    BY <1>2 DEF Copy
  <2> QED
    BY <2>1 DEF NoCopy
<1>3. ASSUME NotAutosaving \in Autosaves PROVE FALSE
  <2>1. "saves" \in DOMAIN NotAutosaving
    BY <1>3 DEF Autosaves
  <2> QED
    BY <2>1 DEF NotAutosaving
<1>4. ASSUME NoLease \in Leases PROVE FALSE
  <2>1. "current" \in DOMAIN NoLease
    BY <1>4 DEF Leases
  <2> QED
    BY <2>1 DEF NoLease
<1>5. ASSUME NoLoad \in LoadsMade PROVE FALSE
  <2>1. "path" \in DOMAIN NoLoad
    BY <1>5 DEF LoadsMade
  <2> QED
    BY <2>1 DEF NoLoad
<1>6. ASSUME NoWork \in Work PROVE FALSE
  <2>1. "content" \in DOMAIN NoWork
    BY <1>6 DEF Work
  <2> QED
    BY <2>1 DEF NoWork
<1> QED
  BY <1>1, <1>2, <1>3, <1>4, <1>5, <1>6

\* Forgoing, and saving or closing, touch what one project was promised, which is owed
\* nothing then.
LEMMA SettledIs ==
  ASSUME FilesType, NEW id \in Ids
  PROVE  /\ Settled(id) \in [Ids -> Work \cup {NoWork}]
         /\ Forgone(id) \in [Ids -> Work \cup {NoWork}]
         /\ ~Owes(Settled(id)[id]) /\ ~Owes(Forgone(id)[id])
         /\ \A i \in Ids \ {id} :
              Settled(id)[i] = promised[i] /\ Forgone(id)[i] = promised[i]
<1>1. promised \in [Ids -> Work \cup {NoWork}]
  BY DEF FilesType
<1>2. /\ Forgone(id) \in [Ids -> Work \cup {NoWork}]
      /\ ~Owes(Forgone(id)[id])
      /\ \A i \in Ids \ {id} : Forgone(id)[i] = promised[i]
  <2>1. CASE promised[id] = NoWork
    BY <1>1, <2>1 DEF Forgone, Owes
  <2>2. CASE promised[id] # NoWork
    <3> DEFINE given == [promised[id] EXCEPT !.forgone = TRUE]
    <3>1. promised[id] \in Work
      BY <1>1, <2>2
    <3>2. given \in Work /\ given.forgone
      BY <3>1 DEF Work
    <3>3. Forgone(id) = [promised EXCEPT ![id] = given]
      BY <2>2 DEF Forgone
    <3> HIDE DEF given
    <3> QED
      BY <1>1, <3>2, <3>3 DEF Owes
  <2> QED
    BY <2>1, <2>2
<1>3. CASE carries
  BY <1>1, <1>2, <1>3 DEF Settled, Owes
<1>4. CASE ~carries
  BY <1>2, <1>4 DEF Settled
<1> QED
  BY <1>2, <1>3, <1>4

\* A change keeps a project the same project.
LEMMA SameProject ==
  ASSUME NEW id, NEW p \in ProjectOf(id)
  PROVE  /\ p \in Project /\ p.id = id
         /\ [p EXCEPT !.dirty = TRUE] \in ProjectOf(id)
         /\ [p EXCEPT !.dirty = TRUE].dirty
         /\ \A content \in Contents :
              /\ [p EXCEPT !.content = content, !.dirty = TRUE] \in ProjectOf(id)
              /\ [p EXCEPT !.content = content, !.dirty = TRUE].dirty
  BY DEF ProjectOf, Project

(***************************************************************************)
(* Editing.                                                                *)
(***************************************************************************)

\* A step of the history: no save runs, the project stays the same project, and what
\* it becomes is marked dirty unless it is what the edit began with.
LEMMA HistoryMoves ==
  ASSUME DocumentInv, IsOpen, HistoryStep,
         NEW id, project \in ProjectOf(id),
         undo_stack \in Seq(ProjectOf(id)), redo_stack \in Seq(ProjectOf(id)),
         cleared_redo \in Seq(ProjectOf(id)),
         gate = "edit" => before \in ProjectOf(id)
  PROVE  /\ gate # "save" /\ gate' # "save" /\ DocumentInv'
         /\ project' \in ProjectOf(id)
         /\ undo_stack' \in Seq(ProjectOf(id)) /\ redo_stack' \in Seq(ProjectOf(id))
         /\ cleared_redo' \in Seq(ProjectOf(id))
         /\ gate' = "edit" => before' \in ProjectOf(id)
         /\ project' = project \/ project'.dirty \/ (gate = "edit" /\ project' = before)
         /\ gate' = "edit" => before' = project \/ (gate = "edit" /\ before' = before)
<1> DEFINE S == ProjectOf(id)
<1>1. gate \in {"free", "edit"}
  BY DEF HistoryStep, BeginEdit, PushSnapshot, EditChanges, CommitEdit, RollbackEdit,
         DirectEdit, AmendProject, UndoProject, RedoProject
<1>2. EditInv
  BY <1>1 DEF DocumentInv
<1>3. HistoryInv'
  <2>1. HistoryInv
    BY <1>2 DEF DocumentInv, HistoryInv
  <2> QED
    BY <2>1, InvStep DEF HistoryNext
<1>4. DocumentInv' /\ gate' # "save"
  BY <1>3 DEF HistoryInv, DocumentInv, EditInv
<1> DEFINE Rest ==
      /\ project' \in S
      /\ undo_stack' \in Seq(S) /\ redo_stack' \in Seq(S)
      /\ cleared_redo' \in Seq(S)
      /\ gate' = "edit" => before' \in S
      /\ project' = project \/ project'.dirty \/ (gate = "edit" /\ project' = before)
      /\ gate' = "edit" => before' = project \/ (gate = "edit" /\ before' = before)
<1>5. <<>> \in Seq(S)
  OBVIOUS
<1>6. ASSUME BeginEdit PROVE Rest
  BY <1>5, <1>6 DEF BeginEdit
<1>7. ASSUME PushSnapshot PROVE Rest
  <2>1. Append(undo_stack, project) \in Seq(S)
    BY AppendProperties
  <2>2. cleared_redo' \in {cleared_redo, redo_stack} /\ redo_stack' \in {redo_stack, <<>>}
    BY <1>7 DEF PushSnapshot
  <2>3. UNCHANGED <<project, before, gate>> /\ undo_stack' = Append(undo_stack, project)
    BY <1>7 DEF PushSnapshot
  <2> QED
    BY <1>5, <2>1, <2>2, <2>3
<1>8. ASSUME EditChanges PROVE Rest
  <2>1. PICK content \in Contents : project' = Changed(content)
    BY <1>8 DEF EditChanges
  <2>2. project' \in S /\ project'.dirty
    BY <2>1, SameProject DEF Changed
  <2> QED
    BY <1>8, <2>2 DEF EditChanges, historyVars
<1>9. ASSUME CommitEdit PROVE Rest
  <2> DEFINE grown == IF HasEditSnapshot
                      THEN Append(SubSeq(undo_stack, 1, edit_start), before)
                      ELSE undo_stack
  <2>1. grown \in Seq(S)
    <3>1. SubSeq(undo_stack, 1, edit_start) \in Seq(S)
      BY <1>2, <1>9, StartOfStack DEF CommitEdit, EditInv
    <3>2. before \in S
      BY <1>9 DEF CommitEdit
    <3> QED
      BY <3>1, <3>2, AppendProperties
  <2>2. undo_stack' = enforce_limits(grown)
    BY <1>9 DEF CommitEdit
  <2>3. undo_stack' \in Seq(S)
    <3> HIDE DEF grown
    <3> QED
      BY <2>1, <2>2, LimitsType
  <2>4. /\ UNCHANGED <<project, redo_stack>> /\ cleared_redo' = <<>> /\ gate' = "free"
    BY <1>9 DEF CommitEdit
  <2> QED
    BY <1>5, <2>3, <2>4
<1>10. ASSUME RollbackEdit PROVE Rest
  <2>1. SubSeq(undo_stack, 1, edit_start) \in Seq(S)
    BY <1>2, <1>10, StartOfStack DEF RollbackEdit, EditInv
  <2>2. /\ gate = "edit" /\ gate' = "free" /\ project' = before
        /\ undo_stack' \in {undo_stack, SubSeq(undo_stack, 1, edit_start)}
        /\ redo_stack' \in {redo_stack, cleared_redo}
        /\ cleared_redo' \in {cleared_redo, <<>>}
    BY <1>10 DEF RollbackEdit
  <2> QED
    BY <1>5, <2>1, <2>2
<1>11. ASSUME DirectEdit PROVE Rest
  <2>1. PICK content \in Storable : RecordChange(content)
    BY <1>11 DEF DirectEdit
  <2>2. project' \in S /\ project'.dirty
    BY <2>1, SameProject, ProjectHistoryAssumption DEF RecordChange, Changed
  <2>3. Append(undo_stack, project) \in Seq(S)
    BY AppendProperties
  <2>4. undo_stack' \in Seq(S)
    BY <2>1, <2>3, LimitsType DEF RecordChange
  <2>5. gate' = "free" /\ redo_stack' = <<>> /\ cleared_redo' = cleared_redo
    BY <1>11, <2>1 DEF DirectEdit, RecordChange
  <2> QED
    BY <1>5, <2>2, <2>4, <2>5
<1>12. ASSUME AmendProject PROVE Rest
  <2>1. PICK content \in Storable : project' = Changed(content)
    BY <1>12 DEF AmendProject
  <2>2. project' \in S /\ project'.dirty
    BY <2>1, SameProject, ProjectHistoryAssumption DEF Changed
  <2> QED
    BY <1>12, <2>2 DEF AmendProject, historyVars
<1>13. ASSUME UndoProject PROVE Rest
  <2>1. Last(undo_stack) \in S /\ Front(undo_stack) \in Seq(S)
    BY <1>13, EndsOfStack DEF UndoProject
  <2>2. project' \in S /\ project'.dirty
    BY <1>13, <2>1, SameProject DEF UndoProject
  <2>3. Append(redo_stack, project) \in Seq(S)
    BY AppendProperties
  <2> QED
    BY <1>13, <2>1, <2>2, <2>3 DEF UndoProject
<1>14. ASSUME RedoProject PROVE Rest
  <2>1. Last(redo_stack) \in S /\ Front(redo_stack) \in Seq(S)
    BY <1>14, EndsOfStack DEF RedoProject
  <2>2. project' \in S /\ project'.dirty
    BY <1>14, <2>1, SameProject DEF RedoProject
  <2>3. Append(undo_stack, project) \in Seq(S)
    BY AppendProperties
  <2> QED
    BY <1>14, <2>1, <2>2, <2>3 DEF RedoProject
<1>15. Rest
  BY <1>6, <1>7, <1>8, <1>9, <1>10, <1>11, <1>12, <1>13, <1>14 DEF HistoryStep
<1> QED
  BY <1>1, <1>4, <1>15

\* An edit, or an import that is committed, in the files' view: the same project is
\* open, what says it is saved is what was or will be rolled back to.
LEMMA EditEffect ==
  ASSUME FilesInv, Edit \/ CommitImport
  PROVE  /\ DocumentInv' /\ IdInv'
         /\ app = "running" /\ gate # "save" /\ gate' # "save"
         /\ gate' # "free" => IsOpen'
         /\ IsOpen' <=> IsOpen
         /\ IsOpen => project'.id = project.id
         /\ \/ project' = project
            \/ project'.dirty
            \/ gate = "edit" /\ project' = before
         /\ gate' = "edit" =>
              (IsOpen /\ before' = project) \/ (gate = "edit" /\ before' = before)
         /\ lease' \in {lease, NoLease} /\ edits' \in 0..MaxEdits
         /\ UNCHANGED <<path, epoch, save_count, saving, autosave, loading, diskVars,
                        app, ghostVars, autosaves, crashes, faults>>
<1>1. CASE IsOpen /\ HistoryStep
  <2> DEFINE id == project.id
  <2>1. project \in ProjectOf(id)
    BY <1>1 DEF FilesInv, DocumentInv, HistoryTypeOK, IsOpen, ProjectOf
  <2>2. /\ undo_stack \in Seq(ProjectOf(id)) /\ redo_stack \in Seq(ProjectOf(id))
        /\ cleared_redo \in Seq(ProjectOf(id))
        /\ gate = "edit" => before \in ProjectOf(id)
    BY <1>1 DEF FilesInv, IdInv
  <2>3. DocumentInv
    BY DEF FilesInv
  <2> HIDE DEF id
  <2>4. /\ gate # "save" /\ gate' # "save" /\ DocumentInv'
        /\ project' \in ProjectOf(id)
        /\ undo_stack' \in Seq(ProjectOf(id)) /\ redo_stack' \in Seq(ProjectOf(id))
        /\ cleared_redo' \in Seq(ProjectOf(id))
        /\ gate' = "edit" => before' \in ProjectOf(id)
        /\ project' = project \/ project'.dirty \/ (gate = "edit" /\ project' = before)
        /\ gate' = "edit" => before' = project \/ (gate = "edit" /\ before' = before)
    BY <1>1, <2>1, <2>2, <2>3, HistoryMoves
  <2>5. project' \in Project /\ project'.id = id
    BY <2>4, SameProject
  <2>6. IsOpen'
    BY <2>5, Nones DEF IsOpen
  <2>7. IdInv'
    BY <2>4, <2>5 DEF IdInv
  <2>8. project'.id = project.id
    BY <2>5 DEF id
  <2>9. /\ lease' \in {lease, NoLease} /\ edits' \in 0..MaxEdits /\ app = "running"
        /\ UNCHANGED <<path, epoch, save_count, saving, autosave, loading, diskVars,
                       app, ghostVars, autosaves, crashes, faults>>
    <3>1. edits \in 0..MaxEdits /\ MaxEdits \in Nat
      BY ProjectFilesAssumption DEF FilesInv, FilesType
    <3>2. edits' = edits \/ (edits < MaxEdits /\ edits' = edits + 1)
      BY DEF Edit, CommitImport
    <3>3. edits' \in 0..MaxEdits
      BY <3>1, <3>2
    <3> QED
      BY <3>3 DEF Edit, CommitImport
  <2> QED
    BY <1>1, <2>4, <2>6, <2>7, <2>8, <2>9
<1>2. CASE ~(IsOpen /\ HistoryStep)
  <2>1. CommitImport /\ UNCHANGED documentVars
    <3>1. ASSUME Edit PROVE FALSE
      <4>1. HistoryStep /\ ~IsOpen
        BY <1>2, <3>1 DEF Edit
      <4>2. gate = "free"
        BY <4>1 DEF FilesInv, PhaseInv
      <4> QED
        BY <4>1, <4>2 DEF HistoryStep, BeginEdit, PushSnapshot, EditChanges, CommitEdit,
                          RollbackEdit, DirectEdit, AmendProject, UndoProject, RedoProject
    <3>2. ASSUME CommitImport, LeaseHolds PROVE FALSE
      <4>1. IsOpen /\ DirectEdit
        BY <3>2 DEF CommitImport, LeaseHolds, DirectEdit
      <4> QED
        BY <1>2, <4>1 DEF HistoryStep
    <3> QED
      BY <3>1, <3>2 DEF CommitImport
  <2>2. UNCHANGED <<project, undo_stack, redo_stack, cleared_redo, edit_start, before, gate>>
    BY <2>1 DEF documentVars, historyVars
  <2>3. DocumentInv' /\ IdInv'
    BY <2>2 DEF FilesInv, DocumentInv, HistoryTypeOK, EditInv, HasEditSnapshot, IdInv, IsOpen
  <2>4. edits' \in 0..MaxEdits
    <3>1. edits \in 0..MaxEdits /\ MaxEdits \in Nat
      BY ProjectFilesAssumption DEF FilesInv, FilesType
    <3>2. edits < MaxEdits /\ edits' = edits + 1
      BY <2>1 DEF CommitImport
    <3> QED
      BY <3>1, <3>2
  <2>5. /\ gate = "free" /\ gate' = "free" /\ app = "running" /\ lease' = NoLease
        /\ UNCHANGED <<path, epoch, save_count, saving, autosave, loading, diskVars,
                       app, ghostVars, autosaves, crashes, faults>>
    BY <2>1, <2>2 DEF CommitImport
  <2> QED
    BY <2>2, <2>3, <2>4, <2>5 DEF IsOpen
<1> QED
  BY <1>1, <1>2

(***************************************************************************)
(* Another document.                                                       *)
(***************************************************************************)

Leaves == CreateProject \/ CloseProject \/ InstallLoaded

\* An autosave of a document that is left goes on as before.
SameAutosave ==
  /\ autosave = NotAutosaving => autosave' = NotAutosaving
  /\ autosave # NotAutosaving =>
       /\ autosave' \in Autosaves /\ autosave' # NotAutosaving
       /\ autosave'.id = autosave.id /\ autosave'.step = autosave.step
       /\ autosave'.saves = autosave.saves /\ autosave'.content = autosave.content
       /\ autosave'.outdated = autosave.outdated /\ autosave'.carries = autosave.carries
       /\ autosave'.current => autosave.current

LEMMA LeftBehindIs ==
  ASSUME FilesType, autosave' \in {autosave, LeftBehind(autosave)}
  PROVE  SameAutosave
<1>1. CASE autosave = NotAutosaving
  BY <1>1 DEF LeftBehind, SameAutosave
<1>2. CASE autosave # NotAutosaving
  <2>1. autosave \in Autosaves
    BY <1>2 DEF FilesType
  <2>2. autosave' = autosave \/ autosave' = [autosave EXCEPT !.current = FALSE]
    BY <1>2 DEF LeftBehind
  <2>3. autosave' \in Autosaves
    BY <2>1, <2>2 DEF Autosaves
  <2>4. autosave' # NotAutosaving
    BY <2>3, FilesNones
  <2>5. /\ autosave'.id = autosave.id /\ autosave'.step = autosave.step
        /\ autosave'.saves = autosave.saves /\ autosave'.content = autosave.content
        /\ autosave'.outdated = autosave.outdated /\ autosave'.carries = autosave.carries
        /\ autosave'.current => autosave.current
    BY <2>1, <2>2 DEF Autosaves
  <2> QED
    BY <1>2, <2>3, <2>4, <2>5 DEF SameAutosave
<1> QED
  BY <1>1, <1>2

\* What replaces the document: nothing, a new project, or one that was loaded.
Replaces(p, f, kept) ==
  /\ Replace(p, f, kept)
  /\ p \in Project \cup {NoProject} /\ f \in AnyPath /\ kept \in BOOLEAN
  /\ p # NoProject => p.dirty \/ f = NoPath \/ overtaken' \/ SavedIn(f, p)
  /\ p = NoProject => ~kept

LEMMA LeavesReplace ==
  ASSUME FilesInv, Leaves
  PROVE  /\ \E p, f, kept : Replaces(p, f, kept)
         /\ overtaken' \in BOOLEAN /\ known' \subseteq Ids
         /\ loading' \in {loading, NoLoad}
<1> USE DEF FilesInv
<1>0. known \subseteq Ids
  BY DEF FilesType
<1>1. CASE CreateProject
  <2>1. PICK id \in Ids, content \in Storable :
          Replace([id |-> id, content |-> content, dirty |-> FALSE], NoPath, FALSE)
    BY <1>1 DEF CreateProject
  <2>2. [id |-> id, content |-> content, dirty |-> FALSE] \in Project
    BY ProjectHistoryAssumption DEF Project
  <2>3. Replaces([id |-> id, content |-> content, dirty |-> FALSE], NoPath, FALSE)
    BY <2>1, <2>2, Nones DEF Replaces, AnyPath
  <2>4. known' \subseteq Ids /\ overtaken' \in BOOLEAN /\ loading' = loading
    BY <1>0, <1>1 DEF CreateProject
  <2> QED
    BY <2>3, <2>4
<1>2. CASE CloseProject
  <2>1. Replaces(NoProject, NoPath, FALSE)
    BY <1>2 DEF CloseProject, Replaces, AnyPath
  <2> QED
    BY <1>0, <1>2, <2>1 DEF CloseProject
<1>3. CASE InstallLoaded
  <2> DEFINE p == [id |-> loading.id, content |-> loading.content, dirty |-> loading.dirty]
  <2>1. /\ Replace(p, loading.path, loading.carries) /\ overtaken' = loading.overtaken
        /\ loading # NoLoad /\ loading' = NoLoad /\ known' = known
    BY <1>3 DEF InstallLoaded
  <2>2. loading \in LoadsMade
    BY <2>1 DEF FilesType
  <2>3. /\ loading.path \in AnyPath /\ loading.carries \in BOOLEAN
        /\ loading.overtaken \in BOOLEAN /\ p \in Project
        /\ p.id = loading.id /\ p.content = loading.content /\ p.dirty = loading.dirty
    BY <2>2, ProjectHistoryAssumption DEF LoadsMade, Project
  <2>4. p.dirty \/ overtaken' \/ SavedIn(loading.path, p)
    <3>1. loading.dirty \/ loading.overtaken \/ SavedIn(loading.path, loading)
      BY <2>1 DEF SavedInv, LoadedIs
    <3>2. SavedIn(loading.path, loading) => SavedIn(loading.path, p)
      BY <2>3 DEF SavedIn
    <3> HIDE DEF p
    <3> QED
      BY <2>1, <2>3, <3>1, <3>2
  <2>5. Replaces(p, loading.path, loading.carries)
    <3> HIDE DEF p
    <3> QED
      BY <2>1, <2>3, <2>4, Nones DEF Replaces
  <2> QED
    BY <1>0, <2>1, <2>3, <2>5
<1> QED
  BY <1>1, <1>2, <1>3 DEF Leaves

\* Whatever replaces the document: its history is empty, it is new or says it is
\* unsaved or is what its file holds, the epoch is new, and the document left behind
\* is promised nothing any more, unless its own recovery copy replaces it.
LEMMA LeaveEffect ==
  ASSUME FilesInv, Leaves
  PROVE  /\ DocumentInv' /\ IdInv'
         /\ app = "running" /\ gate = "free" /\ gate' = "free"
         /\ undo_stack' = <<>> /\ redo_stack' = <<>>
         /\ IsOpen' => Clean(project)'
         /\ path' \in AnyPath
         /\ epoch' \in 0..MaxEpoch /\ epoch' = epoch + 1 /\ lease' = Outlived(lease)
         /\ autosave' = LeftBehind(autosave) /\ SameAutosave
         /\ loading' \in {loading, NoLoad}
         /\ carries' \in BOOLEAN /\ overtaken' \in BOOLEAN
         /\ promised' \in [Ids -> Work \cup {NoWork}]
         /\ \A i \in Ids : promised'[i] = promised[i] \/ ~Owes(promised'[i])
         /\ IsOpen /\ carries /\ Owes(promised'[project.id]) =>
              IsOpen' /\ project'.id = project.id /\ carries'
         /\ dismissed' \subseteq Ids /\ known' \subseteq Ids
         /\ UNCHANGED <<save_count, saving, diskVars, app, interrupted, countVars>>
<1> USE DEF FilesInv
<1>1. PICK p, f, kept : Replaces(p, f, kept)
  BY LeavesReplace
<1>2. /\ gate = "free" /\ gate' = "free" /\ before' = before /\ project' = p
      /\ undo_stack' = <<>> /\ redo_stack' = <<>> /\ cleared_redo' = <<>> /\ edit_start' = NoEdit
  BY <1>1 DEF Replaces, Replace, Install
<1>3. DocumentInv'
  BY <1>1, <1>2 DEF Replaces, DocumentInv, HistoryTypeOK, EditInv
<1>4. IdInv'
  BY <1>2 DEF IdInv
<1>5. /\ app = "running" /\ path' = f /\ carries' = kept
      /\ epoch < MaxEpoch /\ epoch' = epoch + 1
      /\ lease' = Outlived(lease) /\ autosave' = LeftBehind(autosave)
      /\ dismissed' = (dismissed \cup CurrentId) \ {p.id}
      /\ UNCHANGED <<save_count, saving, diskVars, app, interrupted, countVars>>
  BY <1>1 DEF Replaces, Replace
<1>6. IsOpen' => Clean(project)'
  <2> SUFFICES ASSUME IsOpen' PROVE Clean(project)'
    OBVIOUS
  <2>1. p # NoProject /\ UNCHANGED files
    BY <1>2, <1>5 DEF IsOpen, diskVars
  <2>2. p.dirty \/ f = NoPath \/ overtaken' \/ SavedIn(f, p)
    BY <1>1, <2>1 DEF Replaces
  <2>3. SavedIn(f, p) => SavedIn(path, project)'
    BY <1>2, <1>5, <2>1 DEF SavedIn
  <2> QED
    BY <1>2, <1>5, <2>2, <2>3 DEF Clean
<1>7. path' \in AnyPath /\ carries' \in BOOLEAN
  BY <1>1, <1>5 DEF Replaces
<1>8. epoch' \in 0..MaxEpoch
  <2>1. epoch \in 0..MaxEpoch /\ MaxEpoch \in Nat
    BY ProjectFilesAssumption DEF FilesType
  <2> QED
    BY <1>5, <2>1
<1>9. CurrentId \subseteq Ids /\ (IsOpen => project.id \in Ids)
  BY DEF CurrentId, IsOpen, DocumentInv, HistoryTypeOK, Project
<1>10. dismissed' \subseteq Ids
  BY <1>5, <1>9 DEF FilesType
<1>11. promised \in [Ids -> Work \cup {NoWork}]
  BY DEF FilesType
<1>12. promised' = IF IsOpen /\ carries /\ ~(kept /\ p.id = project.id)
                   THEN [promised EXCEPT ![project.id] = NoWork] ELSE promised
  BY <1>1 DEF Replaces, Replace
<1>13. /\ promised' \in [Ids -> Work \cup {NoWork}]
       /\ \A i \in Ids : promised'[i] = promised[i] \/ ~Owes(promised'[i])
  BY <1>9, <1>11, <1>12 DEF Owes
<1>14. IsOpen /\ carries /\ Owes(promised'[project.id]) =>
         IsOpen' /\ project'.id = project.id /\ carries'
  <2> SUFFICES ASSUME IsOpen, carries,
                      IsOpen' /\ project'.id = project.id /\ carries' => FALSE
               PROVE  ~Owes(promised'[project.id])
    OBVIOUS
  <2>1. CASE kept /\ p.id = project.id
    <3>1. p # NoProject
      BY <1>1, <2>1 DEF Replaces
    <3> QED
      BY <1>2, <1>5, <2>1, <3>1 DEF IsOpen
  <2>2. CASE ~(kept /\ p.id = project.id)
    BY <1>9, <1>11, <1>12, <2>2 DEF Owes
  <2> QED
    BY <2>1, <2>2
<1>15. SameAutosave
  BY <1>5, LeftBehindIs
<1> QED
  BY <1>2, <1>3, <1>4, <1>5, <1>6, <1>7, <1>8, <1>10, <1>13, <1>14, <1>15, LeavesReplace

(***************************************************************************)
(* The steps that leave the document's content and history alone.          *)
(***************************************************************************)

\* Steps that touch nothing of the document.
Loading == OpenLoads \/ RestoreLoads
Aside == \/ TakeLease \/ Loading \/ DiscardRecovery \/ SaveWrites \/ SaveDiscards
         \/ BeginAutosave \/ AutosaveWrites \/ AutosaveWritesSource \/ AutosaveFails
         \/ AutosaveChecks \/ AutosaveDiscards \/ AutosaveDiscardsSource
         \/ CloseApp \/ Start

\* Steps that take the gate for a save, or give it back.
Gates == BeginSave \/ SaveFails \/ SaveDiscardsSource

\* Every step, by what it does to the document.
LEMMA NextIs ==
  Next => \/ Edit \/ CommitImport \/ Leaves \/ Aside \/ Gates \/ SaveCounts \/ Exit \/ Crash
  BY DEF Next, DocumentStep, SaveStep, AutosaveStep, AppStep, Leaves, Loading, Aside, Gates

\* The document is as it was.
LEMMA AsideEffect == Aside \/ UNCHANGED vars => UNCHANGED documentVars
<1>1. UNCHANGED vars => UNCHANGED documentVars
  BY DEF vars
<1>2. Aside => UNCHANGED documentVars
  BY DEF Aside, TakeLease, Loading, OpenLoads, RestoreLoads, Loads, DiscardRecovery,
         SaveWrites, SaveDiscards, BeginAutosave, AutosaveWrites, AutosaveWritesSource,
         AutosaveFails, AutosaveChecks, AutosaveDiscards, AutosaveDiscardsSource, CloseApp,
         Start
<1> QED
  BY <1>1, <1>2

\* A save is in progress, and the document it saves is open, until its last step.
LEMMA SavingEffect ==
  ASSUME FilesInv, saving.step # "idle"
  PROVE  /\ gate = "save" /\ IsOpen /\ project \in Project /\ project.id \in Ids
         /\ app \in {"running", "closing"}
<1>1. gate = "save" /\ IsOpen /\ app \in {"running", "closing"}
  BY DEF FilesInv, PhaseInv, FilesType
<1>2. project \in Project
  BY <1>1 DEF FilesInv, DocumentInv, HistoryTypeOK, IsOpen
<1> QED
  BY <1>1, <1>2 DEF Project

\* What the process held is gone.
LEMMA EndEffect ==
  ASSUME Exit \/ Crash
  PROVE  /\ project' = NoProject /\ before' = NoProject /\ gate' = "free"
         /\ undo_stack' = <<>> /\ redo_stack' = <<>> /\ cleared_redo' = <<>>
         /\ edit_start' = NoEdit
         /\ path' = NoPath /\ epoch' = 0 /\ save_count' = 0
         /\ saving' = NotSaving /\ autosave' = NotAutosaving /\ lease' = NoLease
         /\ loading' = NoLoad /\ carries' \in BOOLEAN /\ overtaken' \in BOOLEAN
         /\ app' \in {"closed", "crashed"}
         /\ interrupted' = interrupted
              \cup (IF saving.step = "idle" THEN {} ELSE {project.id})
              \cup (IF autosave.step = "idle" THEN {} ELSE {autosave.id})
         /\ UNCHANGED <<files, promised, dismissed, known, recovery>>
  BY DEF Exit, Crash, Ends

\* The history stays that of one open project, whoever holds the gate.
LEMMA DocumentStays ==
  ASSUME FilesInv, [Next]_vars
  PROVE  DocumentInv' /\ IdInv'
<1>1. CASE Edit \/ CommitImport
  BY <1>1, EditEffect
<1>2. CASE Leaves
  BY <1>2, LeaveEffect
<1>3. CASE Aside \/ UNCHANGED vars
  <2>1. UNCHANGED <<project, undo_stack, redo_stack, cleared_redo, edit_start, before, gate>>
    BY <1>3, AsideEffect DEF documentVars, historyVars
  <2> QED
    BY <2>1 DEF FilesInv, DocumentInv, HistoryTypeOK, EditInv, HasEditSnapshot, IdInv, IsOpen
<1>4. CASE Gates
  <2>1. /\ UNCHANGED <<project, undo_stack, redo_stack, cleared_redo, edit_start, before>>
        /\ \/ gate = "free" /\ gate' = "save"
           \/ saving.step # "idle" /\ gate' = "free"
    BY <1>4 DEF Gates, BeginSave, SaveFails, SaveDiscardsSource, historyVars
  <2>2. \/ gate = "free" /\ gate' = "save"
        \/ gate = "save" /\ gate' = "free"
    BY <2>1 DEF FilesInv, PhaseInv
  <2> QED
    BY <2>1, <2>2 DEF FilesInv, DocumentInv, HistoryTypeOK, EditInv, IdInv, IsOpen
<1>5. CASE SaveCounts
  <2>1. /\ UNCHANGED <<undo_stack, redo_stack, cleared_redo, edit_start, before, gate>>
        /\ project' = [project EXCEPT !.dirty = FALSE]
        /\ gate = "save" /\ IsOpen /\ project \in Project
    BY <1>5, SavingEffect DEF SaveCounts, historyVars
  <2>2. project' \in Project /\ project'.id = project.id
    BY <2>1 DEF Project
  <2>3. DocumentInv'
    BY <2>1, <2>2 DEF FilesInv, DocumentInv, HistoryTypeOK
  <2>4. IdInv'
    BY <2>1, <2>2 DEF FilesInv, IdInv
  <2> QED
    BY <2>3, <2>4
<1>6. CASE Exit \/ Crash
  <2>1. /\ project' = NoProject /\ before' = NoProject /\ gate' = "free"
        /\ undo_stack' = <<>> /\ redo_stack' = <<>> /\ cleared_redo' = <<>>
        /\ edit_start' = NoEdit
    BY <1>6, EndEffect
  <2>2. DocumentInv'
    BY <2>1 DEF DocumentInv, HistoryTypeOK, EditInv
  <2>3. IdInv'
    BY <2>1 DEF IdInv, IsOpen
  <2> QED
    BY <2>2, <2>3
<1> QED
  BY <1>1, <1>2, <1>3, <1>4, <1>5, <1>6, NextIs


\* The types of the files, the save and the autosave.
LEMMA FilesTypeStays ==
  ASSUME FilesInv, [Next]_vars
  PROVE  FilesType'
<1>0. FilesType /\ project \in Project \cup {NoProject}
  BY DEF FilesInv, DocumentInv, HistoryTypeOK
<1>a. /\ MaxSaves \in Nat /\ MaxAutosaves \in Nat /\ MaxCrashes \in Nat
      /\ MaxFaults \in Nat /\ MaxEpoch \in Nat
  BY ProjectFilesAssumption
<1>b. CurrentId \subseteq Ids /\ (IsOpen => project \in Project /\ project.id \in Ids)
  BY <1>0 DEF CurrentId, IsOpen, Project
<1>c. autosave # NotAutosaving =>
        /\ autosave \in Autosaves /\ autosave.id \in Ids /\ autosave.content \in Contents
        /\ autosave.source \in AnyPath /\ autosave.outdated \in BOOLEAN
        /\ autosave.carries \in BOOLEAN
  BY <1>0 DEF FilesType, Autosaves
<1>d. autosave.step # "idle" => autosave # NotAutosaving
  BY DEF NotAutosaving
<1>1. CASE Edit \/ CommitImport
  <2>1. /\ lease' \in {lease, NoLease} /\ edits' \in 0..MaxEdits
        /\ UNCHANGED <<path, epoch, save_count, saving, autosave, loading, diskVars,
                       app, ghostVars, autosaves, crashes, faults>>
    BY <1>1, EditEffect
  <2> QED
    BY <1>0, <2>1 DEF FilesType, diskVars, ghostVars
<1>2. CASE Leaves
  <2>1. /\ path' \in AnyPath /\ epoch' \in 0..MaxEpoch /\ lease' = Outlived(lease)
        /\ autosave' = LeftBehind(autosave) /\ SameAutosave /\ loading' \in {loading, NoLoad}
        /\ carries' \in BOOLEAN /\ overtaken' \in BOOLEAN
        /\ promised' \in [Ids -> Work \cup {NoWork}]
        /\ dismissed' \subseteq Ids /\ known' \subseteq Ids
        /\ UNCHANGED <<save_count, saving, diskVars, app, interrupted, countVars>>
    BY <1>2, LeaveEffect
  <2>2. lease' = NoLease \/ lease' \in Leases
    BY <1>0, <2>1 DEF FilesType, Outlived, Leases
  <2>3. autosave' = NotAutosaving \/ autosave' \in Autosaves
    BY <2>1 DEF SameAutosave
  <2> QED
    BY <1>0, <2>1, <2>2, <2>3 DEF FilesType, diskVars, countVars
<1>3. CASE TakeLease
  <2>1. lease' \in Leases
    BY <1>0, <1>3, <1>b DEF TakeLease, FilesType, Leases
  <2> QED
    BY <1>0, <1>3, <2>1 DEF TakeLease, FilesType, diskVars, ghostVars, countVars
<1>4. CASE DiscardRecovery
  <2>1. PICK id \in Ids :
          /\ recovery' = [recovery EXCEPT ![id] = NoCopy]
          /\ sidecar' = [sidecar EXCEPT ![id] = NoPath]
          /\ promised' = [promised EXCEPT ![id] = NoWork]
          /\ autosave' \in {autosave, LeftBehind(autosave)}
          /\ interrupted' = interrupted \ {id}
    BY <1>4 DEF DiscardRecovery
  <2>2. SameAutosave
    BY <1>0, <2>1, LeftBehindIs
  <2>3. autosave' = NotAutosaving \/ autosave' \in Autosaves
    BY <2>2 DEF SameAutosave
  <2>4. /\ recovery' \in [Ids -> Copy \cup {NoCopy}] /\ sidecar' \in [Ids -> AnyPath]
        /\ promised' \in [Ids -> Work \cup {NoWork}] /\ interrupted' \subseteq Ids
    BY <1>0, <2>1 DEF FilesType, AnyPath
  <2> QED
    BY <1>0, <1>4, <2>3, <2>4 DEF DiscardRecovery, FilesType, countVars
<1>22. CASE OpenLoads
  <2>1. PICK f \in Paths :
          /\ files[f] # NoFile
          /\ loading' = [id |-> files[f].id, content |-> Migrated[files[f].content],
                         dirty |-> files[f].content \in Retooled, path |-> f,
                         carries |-> FALSE, overtaken |-> FALSE]
    BY <1>22 DEF OpenLoads, Loads
  <2>2. files[f] \in Saved
    BY <1>0, <2>1 DEF FilesType
  <2>3. files[f].id \in Ids /\ Migrated[files[f].content] \in Storable
    BY <2>2, ProjectFilesAssumption DEF Saved
  <2>4. loading' \in LoadsMade
    BY <2>1, <2>3 DEF LoadsMade, AnyPath
  <2> QED
    BY <1>0, <1>22, <2>4 DEF OpenLoads, Loads, FilesType, ghostVars, countVars
<1>23. CASE RestoreLoads
  <2>1. PICK id \in Ids : recovery[id] # NoCopy /\ loading' = RestoredFrom(id)
    BY <1>23 DEF RestoreLoads, Loads
  <2>2. recovery[id] \in Copy /\ sidecar[id] \in AnyPath
    BY <1>0, <2>1 DEF FilesType
  <2>3. Migrated[recovery[id].content] \in Storable
    BY <2>2, ProjectFilesAssumption DEF Copy
  <2>4. Holds(id) \in BOOLEAN
    BY <2>2 DEF Holds, Copy
  <2>5. loading' \in LoadsMade
    <3> HIDE DEF Holds
    <3> QED
      BY <2>1, <2>2, <2>3, <2>4 DEF RestoredFrom, LoadsMade, AnyPath
  <2> QED
    BY <1>0, <1>23, <2>5 DEF RestoreLoads, Loads, FilesType, ghostVars, countVars
<1>5. CASE BeginSave
  <2>1. saving' \in [step : {"idle", "write", "count", "discard", "source"}, path : AnyPath]
    BY <1>5 DEF BeginSave, AnyPath
  <2> QED
    BY <1>0, <1>5, <2>1 DEF BeginSave, FilesType, diskVars, ghostVars, countVars
<1>6. CASE SaveWrites
  <2>1. project \in Project /\ project.id \in Ids
    BY <1>6, SavingEffect DEF SaveWrites
  <2>2. [id |-> project.id, content |-> project.content] \in Saved
    BY <1>6, <2>1 DEF SaveWrites, Saved, Project
  <2>3. files' \in [Paths -> Saved \cup {NoFile}]
    BY <1>0, <1>6, <2>2 DEF SaveWrites, FilesType
  <2>4. recovery' \in [Ids -> Copy \cup {NoCopy}]
    <3>1. CASE recovery[project.id] = NoCopy
      BY <1>0, <1>6, <3>1 DEF SaveWrites, FilesType
    <3>2. CASE recovery[project.id] # NoCopy
      <4> DEFINE marked == [recovery[project.id] EXCEPT !.outdated = TRUE]
      <4>1. recovery[project.id] \in Copy
        BY <1>0, <2>1, <3>2 DEF FilesType
      <4>2. marked \in Copy
        BY <4>1 DEF Copy
      <4>3. recovery' = [recovery EXCEPT ![project.id] = marked]
        BY <1>6, <3>2 DEF SaveWrites
      <4> HIDE DEF marked
      <4> QED
        BY <1>0, <4>2, <4>3 DEF FilesType
    <3> QED
      BY <3>1, <3>2
  <2>5. autosave' = NotAutosaving \/ autosave' \in Autosaves
    BY <1>0, <1>6 DEF SaveWrites, FilesType, Autosaving, Autosaves
  <2>6. saving' \in [step : {"idle", "write", "count", "discard", "source"}, path : AnyPath]
    BY <1>0, <1>6 DEF SaveWrites, FilesType
  <2>7. promised' \in [Ids -> Work \cup {NoWork}]
    BY <1>0, <1>6, <2>1, SettledIs DEF SaveWrites
  <2>8. loading' = NoLoad \/ loading' \in LoadsMade
    BY <1>0, <1>6 DEF SaveWrites, FilesType, LoadsMade
  <2> QED
    BY <1>0, <1>6, <2>3, <2>4, <2>5, <2>6, <2>7, <2>8 DEF SaveWrites, FilesType, countVars
<1>7. CASE SaveFails
  <2>1. faults' \in 0..MaxFaults
    <3>1. faults \in 0..MaxFaults /\ (faults' = faults \/ (faults < MaxFaults /\ faults' = faults + 1))
      BY <1>0, <1>7 DEF SaveFails, FilesType
    <3> QED
      BY <1>a, <3>1
  <2> QED
    BY <1>0, <1>7, <2>1 DEF SaveFails, FilesType, NotSaving, AnyPath, diskVars, ghostVars
<1>8. CASE SaveCounts
  <2>1. save_count' \in 0..MaxSaves
    <3>1. save_count \in 0..MaxSaves /\ save_count < MaxSaves /\ save_count' = save_count + 1
      BY <1>0, <1>8 DEF SaveCounts, FilesType, FilesInv, PhaseInv
    <3> QED
      BY <1>a, <3>1
  <2>2. /\ saving' \in [step : {"idle", "write", "count", "discard", "source"}, path : AnyPath]
        /\ path' \in AnyPath
    BY <1>0, <1>8 DEF SaveCounts, FilesType
  <2> QED
    BY <1>0, <1>8, <2>1, <2>2 DEF SaveCounts, FilesType, diskVars, ghostVars, countVars
<1>9. CASE SaveDiscards
  <2>1. saving' \in [step : {"idle", "write", "count", "discard", "source"}, path : AnyPath]
    BY <1>0, <1>9 DEF SaveDiscards, FilesType
  <2>2. recovery' \in [Ids -> Copy \cup {NoCopy}] /\ interrupted' \subseteq Ids
    BY <1>0, <1>9 DEF SaveDiscards, FilesType
  <2> QED
    BY <1>0, <1>9, <2>1, <2>2 DEF SaveDiscards, FilesType, countVars
<1>10. CASE SaveDiscardsSource
  BY <1>0, <1>10 DEF SaveDiscardsSource, FilesType, NotSaving, AnyPath, ghostVars, countVars
<1>11. CASE BeginAutosave
  <2>1. autosaves' \in 0..MaxAutosaves
    <3>1. autosaves \in 0..MaxAutosaves /\ autosaves < MaxAutosaves /\ autosaves' = autosaves + 1
      BY <1>0, <1>11 DEF BeginAutosave, FilesType
    <3> QED
      BY <1>a, <3>1
  <2>2. autosave' \in Autosaves
    BY <1>0, <1>11, <1>b DEF BeginAutosave, FilesType, Autosaves, Project
  <2>3. promised' \in [Ids -> Work \cup {NoWork}]
    BY <1>0, <1>11, <1>b, SettledIs DEF BeginAutosave, FilesType
  <2> QED
    BY <1>0, <1>11, <2>1, <2>2, <2>3 DEF BeginAutosave, FilesType, diskVars
<1>12. CASE AutosaveWrites
  <2>1. autosave # NotAutosaving /\ autosave.step = "write"
    BY <1>12, <1>d DEF AutosaveWrites
  <2>2. [content |-> autosave.content, source |-> autosave.source,
         outdated |-> autosave.outdated, carries |-> autosave.carries] \in Copy
    BY <1>12, <2>1, <1>c DEF AutosaveWrites, Copy
  <2>3. recovery' \in [Ids -> Copy \cup {NoCopy}]
    BY <1>0, <1>12, <2>2 DEF AutosaveWrites, FilesType
  <2>4. autosave' \in Autosaves
    BY <1>12, <1>c, <2>1 DEF AutosaveWrites, Autosaves
  <2> QED
    BY <1>0, <1>12, <2>3, <2>4 DEF AutosaveWrites, FilesType, ghostVars, countVars
<1>13. CASE AutosaveWritesSource
  <2>1. autosave # NotAutosaving /\ autosave.step = "source"
    BY <1>13, <1>d DEF AutosaveWritesSource
  <2>2. autosave' \in Autosaves
    BY <1>13, <1>c, <2>1 DEF AutosaveWritesSource, Autosaves
  <2>3. sidecar' \in [Ids -> AnyPath]
    BY <1>0, <1>13, <1>c, <2>1 DEF AutosaveWritesSource, FilesType
  <2> QED
    BY <1>0, <1>13, <2>2, <2>3 DEF AutosaveWritesSource, FilesType, ghostVars, countVars
<1>14. CASE AutosaveFails
  <2>1. faults' \in 0..MaxFaults
    <3>1. faults \in 0..MaxFaults /\ (faults' = faults \/ (faults < MaxFaults /\ faults' = faults + 1))
      BY <1>0, <1>14 DEF AutosaveFails, FilesType
    <3> QED
      BY <1>a, <3>1
  <2>2. interrupted' \subseteq Ids
    BY <1>0, <1>14, <1>c, <1>d DEF AutosaveFails, FilesType
  <2> QED
    BY <1>0, <1>14, <2>1, <2>2 DEF AutosaveFails, FilesType, diskVars
<1>15. CASE AutosaveChecks
  <2>1. autosave # NotAutosaving
    BY <1>15, <1>d DEF AutosaveChecks
  <2>2. autosave' = NotAutosaving \/ autosave' \in Autosaves
    BY <1>15, <1>c, <2>1 DEF AutosaveChecks, Autosaves
  <2>3. CASE UNCHANGED <<promised, carries, loading>>
    BY <1>0, <1>15, <2>2, <2>3 DEF AutosaveChecks, FilesType, diskVars, countVars
  <2>4. CASE Reports
    <3>1. [content |-> autosave.content, forgone |-> FALSE] \in Work
      BY <1>c, <2>1 DEF Work
    <3>2. promised' \in [Ids -> Work \cup {NoWork}]
      BY <1>0, <2>4, <3>1 DEF Reports, FilesType
    <3>3. carries' \in BOOLEAN /\ (loading' = NoLoad \/ loading' \in LoadsMade)
      BY <1>0, <2>4 DEF Reports, FilesType, LoadsMade
    <3> QED
      BY <1>0, <1>15, <2>2, <3>2, <3>3 DEF AutosaveChecks, FilesType, diskVars, countVars
  <2> QED
    BY <1>15, <2>3, <2>4 DEF AutosaveChecks
<1>16. CASE AutosaveDiscards
  <2>1. autosave # NotAutosaving
    BY <1>16, <1>d DEF AutosaveDiscards
  <2>2. autosave' \in Autosaves
    BY <1>16, <1>c, <2>1 DEF AutosaveDiscards, Autosaves
  <2>3. recovery' \in [Ids -> Copy \cup {NoCopy}]
    BY <1>0, <1>16 DEF AutosaveDiscards, FilesType
  <2> QED
    BY <1>0, <1>16, <2>2, <2>3 DEF AutosaveDiscards, FilesType, ghostVars, countVars
<1>17. CASE AutosaveDiscardsSource
  BY <1>0, <1>17 DEF AutosaveDiscardsSource, FilesType, AnyPath, ghostVars, countVars
<1>18. CASE CloseApp
  <2>1. recovery' \in [Ids -> Copy \cup {NoCopy}] /\ sidecar' \in [Ids -> AnyPath]
    BY <1>0, <1>18 DEF CloseApp, FilesType, AnyPath
  <2>2. promised' \in [Ids -> Work \cup {NoWork}] /\ dismissed' \subseteq Ids
    BY <1>0, <1>18, <1>b, SettledIs DEF CloseApp, FilesType
  <2> QED
    BY <1>0, <1>18, <2>1, <2>2 DEF CloseApp, FilesType, countVars
<1>19. CASE Exit \/ Crash
  <2>1. interrupted' \subseteq Ids
    <3>1. saving.step # "idle" => project.id \in Ids
      BY SavingEffect
    <3>2. autosave.step # "idle" => autosave.id \in Ids
      BY <1>c, <1>d
    <3>3. interrupted \subseteq Ids
      BY <1>0 DEF FilesType
    <3>4. interrupted' = interrupted
            \cup (IF saving.step = "idle" THEN {} ELSE {project.id})
            \cup (IF autosave.step = "idle" THEN {} ELSE {autosave.id})
      BY <1>19, EndEffect
    <3> QED
      BY <3>1, <3>2, <3>3, <3>4
  <2>2. sidecar' \in [Ids -> AnyPath]
    BY <1>0, <1>19 DEF Exit, Crash, FilesType, AnyPath
  <2>3. crashes' \in 0..MaxCrashes
    <3>1. crashes \in 0..MaxCrashes
          /\ (crashes' = crashes \/ (crashes < MaxCrashes /\ crashes' = crashes + 1))
      BY <1>0, <1>19 DEF Exit, Crash, FilesType, countVars
    <3> QED
      BY <1>a, <3>1
  <2>4. UNCHANGED <<edits, autosaves, faults>>
    BY <1>19 DEF Exit, Crash, countVars
  <2>5. /\ path' = NoPath /\ epoch' = 0 /\ save_count' = 0
        /\ saving' = NotSaving /\ autosave' = NotAutosaving /\ lease' = NoLease
        /\ loading' = NoLoad /\ carries' \in BOOLEAN /\ overtaken' \in BOOLEAN
        /\ app' \in {"closed", "crashed"}
        /\ UNCHANGED <<files, promised, dismissed, known, recovery>>
    BY <1>19, EndEffect
  <2> QED
    BY <1>0, <1>a, <2>1, <2>2, <2>3, <2>4, <2>5 DEF FilesType, NotSaving, AnyPath
<1>20. CASE Start
  BY <1>0, <1>20 DEF Start, FilesType, diskVars, ghostVars, countVars
<1>21. CASE UNCHANGED vars
  BY <1>0, <1>21 DEF vars, filesVars, FilesType, diskVars, ghostVars, countVars
<1> QED
  BY <1>1, <1>2, <1>3, <1>4, <1>5, <1>6, <1>7, <1>8, <1>9, <1>10, <1>11, <1>12, <1>13, <1>14,
     <1>15, <1>16, <1>17, <1>18, <1>19, <1>20, <1>21, <1>22, <1>23, NextIs
  DEF Loading, Aside, Gates


(***************************************************************************)
(* The save in progress, and what is saved.                                *)
(***************************************************************************)

\* An autosave in progress has a step, and the application has not ended.
LEMMA AutosavingEffect ==
  ASSUME FilesInv
  PROVE  /\ autosave.step # "idle" <=> autosave # NotAutosaving
         /\ autosave # NotAutosaving =>
              /\ autosave \in Autosaves /\ autosave.id \in Ids
              /\ autosave.saves \in 0..MaxSaves /\ autosave.outdated \in BOOLEAN
              /\ app \in {"running", "closing"}
<1>1. autosave = NotAutosaving \/ autosave \in Autosaves
  BY DEF FilesInv, FilesType
<1>2. NotAutosaving.step = "idle"
  BY DEF NotAutosaving
<1>3. autosave \in Autosaves => /\ autosave.step # "idle" /\ autosave.id \in Ids
                               /\ autosave.saves \in 0..MaxSaves /\ autosave.outdated \in BOOLEAN
  BY DEF Autosaves
<1>4. autosave # NotAutosaving => app \in {"running", "closing"}
  BY DEF FilesInv, FilesType, PhaseInv
<1> QED
  BY <1>1, <1>2, <1>3, <1>4

\* The gate is held exactly while an edit or a save runs.
LEMMA PhaseStays ==
  ASSUME FilesInv, [Next]_vars
  PROVE  PhaseInv'
<1>0. PhaseInv /\ saving \in [step : {"idle", "write", "count", "discard", "source"}, path : AnyPath]
  BY DEF FilesInv, FilesType
<1>1. CASE Edit \/ CommitImport
  <2>1. /\ app = "running" /\ gate # "save" /\ gate' # "save"
        /\ gate' # "free" => IsOpen'
        /\ UNCHANGED <<path, epoch, save_count, saving, autosave, app>>
    BY <1>1, EditEffect
  <2> QED
    BY <1>0, <2>1 DEF PhaseInv
<1>2. CASE Leaves
  <2>1. /\ app = "running" /\ gate = "free" /\ gate' = "free"
        /\ UNCHANGED <<save_count, saving, app>>
    BY <1>2, LeaveEffect
  <2> QED
    BY <1>0, <2>1 DEF PhaseInv
<1>3. CASE TakeLease \/ Loading \/ DiscardRecovery \/ CloseApp \/ Start \/ UNCHANGED vars
  <2>1. UNCHANGED <<project, gate>>
    BY <1>3, AsideEffect DEF Aside, documentVars
  <2>2. /\ UNCHANGED <<saving, save_count>>
        /\ app' \in {"running", "closing"} \/ UNCHANGED <<app, autosave>>
    BY <1>3 DEF TakeLease, Loading, OpenLoads, RestoreLoads, Loads, DiscardRecovery, CloseApp,
                Start, vars, filesVars
  <2> QED
    BY <1>0, <2>1, <2>2 DEF PhaseInv, IsOpen
<1>4. CASE BeginSave
  <2>1. saving' = [step |-> "write", path |-> saving'.path] /\ saving'.path \in Paths
    BY <1>4 DEF BeginSave
  <2> QED
    BY <1>0, <1>4, <2>1 DEF BeginSave, PhaseInv, IsOpen
<1>5. CASE SaveWrites
  <2>1. /\ saving.step = "write" /\ saving'.step = "count" /\ saving'.path = saving.path
        /\ UNCHANGED <<project, gate, save_count, app>>
    BY <1>0, <1>5 DEF SaveWrites, documentVars
  <2> QED
    BY <1>0, <2>1, SavingEffect DEF PhaseInv, IsOpen
<1>6. CASE SaveFails \/ SaveDiscardsSource
  <2>1. saving.step # "idle" /\ saving' = NotSaving /\ gate' = "free" /\ app' = app
    BY <1>6 DEF SaveFails, SaveDiscardsSource
  <2> QED
    BY <1>0, <2>1, SavingEffect DEF PhaseInv, NotSaving
<1>7. CASE SaveCounts
  <2>1. /\ saving.step = "count" /\ saving'.step = "discard"
        /\ project' = [project EXCEPT !.dirty = FALSE] /\ UNCHANGED <<gate, app>>
    BY <1>0, <1>7 DEF SaveCounts
  <2>2. project' \in Project
    BY <2>1, SavingEffect DEF Project
  <2>3. IsOpen'
    BY <2>2, Nones DEF IsOpen
  <2> QED
    BY <1>0, <2>1, <2>3, SavingEffect DEF PhaseInv
<1>8. CASE SaveDiscards
  <2>1. /\ saving.step = "discard" /\ saving'.step = "source"
        /\ UNCHANGED <<project, gate, app>>
    BY <1>0, <1>8 DEF SaveDiscards, documentVars
  <2> QED
    BY <1>0, <2>1, SavingEffect DEF PhaseInv, IsOpen
<1>9. CASE AutosaveStep
  <2>1. UNCHANGED <<project, gate>>
    BY <1>9, AsideEffect DEF Aside, AutosaveStep, documentVars
  <2>2. UNCHANGED <<saving, save_count, app>>
    BY <1>9 DEF AutosaveStep, BeginAutosave, AutosaveWrites, AutosaveWritesSource, AutosaveFails,
                AutosaveChecks, AutosaveDiscards, AutosaveDiscardsSource
  <2>3. app \in {"running", "closing"}
    <3>1. app = "running" \/ autosave.step # "idle"
      BY <1>9 DEF AutosaveStep, BeginAutosave, AutosaveWrites, AutosaveWritesSource, AutosaveFails,
                  AutosaveChecks, AutosaveDiscards, AutosaveDiscardsSource
    <3> QED
      BY <3>1, AutosavingEffect
  <2> QED
    BY <1>0, <2>1, <2>2, <2>3 DEF PhaseInv, IsOpen
<1>10. CASE Exit \/ Crash
  <2>1. /\ project' = NoProject /\ gate' = "free" /\ saving' = NotSaving
        /\ autosave' = NotAutosaving
    BY <1>10, EndEffect
  <2> QED
    BY <2>1 DEF PhaseInv, NotSaving, IsOpen
<1> QED
  BY <1>1, <1>2, <1>3, <1>4, <1>5, <1>6, <1>7, <1>8, <1>9, <1>10, NextIs
     DEF Aside, Gates, AutosaveStep

\* While a save runs nothing else moves the document, and nothing but a save the files.
LEMMA SavedStays ==
  ASSUME FilesInv, [Next]_vars
  PROVE  SavedInv'
<1>0. SavedInv /\ PhaseInv
  BY DEF FilesInv
<1>1. CASE Edit \/ CommitImport
  <2>1. /\ gate # "save" /\ (IsOpen' <=> IsOpen)
        /\ \/ project' = project
           \/ project'.dirty
           \/ gate = "edit" /\ project' = before
        /\ gate' = "edit" => (IsOpen /\ before' = project) \/ (gate = "edit" /\ before' = before)
        /\ UNCHANGED <<path, saving, files, loading, overtaken>>
    BY <1>1, EditEffect DEF diskVars, ghostVars
  <2>2. saving'.step = "idle"
    BY <1>0, <2>1 DEF PhaseInv
  <2>3. IsOpen' => Clean(project)'
    BY <1>0, <2>1 DEF SavedInv, Clean, SavedIn
  <2>4. gate' = "edit" => Clean(before)'
    BY <1>0, <2>1 DEF SavedInv, Clean, SavedIn
  <2>5. loading' # NoLoad => LoadedIs(loading)'
    BY <1>0, <2>1 DEF SavedInv, LoadedIs, SavedIn
  <2> QED
    BY <2>2, <2>3, <2>4, <2>5 DEF SavedInv
<1>2. CASE Leaves
  <2>1. /\ gate = "free" /\ gate' = "free" /\ UNCHANGED <<saving, files>>
        /\ loading' \in {loading, NoLoad} /\ (IsOpen' => Clean(project)')
    BY <1>2, LeaveEffect DEF diskVars
  <2>2. loading' # NoLoad => LoadedIs(loading)'
    BY <1>0, <2>1 DEF SavedInv, LoadedIs, SavedIn
  <2> QED
    BY <1>0, <2>1, <2>2 DEF PhaseInv, SavedInv
<1>3. CASE (Aside /\ ~SaveWrites) \/ UNCHANGED vars
  <2>1. UNCHANGED <<project, gate, before>>
    BY <1>3, AsideEffect DEF documentVars, historyVars
  <2>2. UNCHANGED <<files, path, overtaken>> /\ (saving' = saving \/ saving'.step = "source")
    <3>1. CASE SaveDiscards
      <4>1. saving' = [saving EXCEPT !.step = "source"]
        BY <3>1 DEF SaveDiscards
      <4>2. saving'.step = "source"
        BY <4>1 DEF FilesInv, FilesType
      <4> QED
        BY <3>1, <4>2 DEF SaveDiscards
    <3>2. CASE ~SaveDiscards
      BY <1>3, <3>2 DEF Aside, TakeLease, Loading, OpenLoads, RestoreLoads, Loads,
             DiscardRecovery, BeginAutosave, AutosaveWrites,
             AutosaveWritesSource, AutosaveFails, AutosaveChecks, AutosaveDiscards,
             AutosaveDiscardsSource, CloseApp, Start, diskVars, ghostVars, vars, filesVars
    <3> QED
      BY <3>1, <3>2
  <2>3. loading' # NoLoad => LoadedIs(loading)'
    <3>1. CASE OpenLoads
      <4>1. PICK f \in Paths :
              /\ files[f] # NoFile
              /\ loading' = [id |-> files[f].id, content |-> Migrated[files[f].content],
                             dirty |-> files[f].content \in Retooled, path |-> f,
                             carries |-> FALSE, overtaken |-> FALSE]
        BY <3>1 DEF OpenLoads, Loads
      <4>2. /\ loading'.path = f /\ loading'.id = files[f].id
            /\ loading'.content = Migrated[files[f].content]
        BY <4>1
      <4> QED
        BY <2>2, <4>1, <4>2 DEF LoadedIs, SavedIn
    <3>2. CASE RestoreLoads
      <4>1. PICK id \in Ids : loading' = RestoredFrom(id)
        BY <3>2 DEF RestoreLoads, Loads
      <4>2. loading'.dirty
        BY <4>1 DEF RestoredFrom
      <4> QED
        BY <4>2 DEF LoadedIs
    <3>3. CASE AutosaveChecks
      <4>1. loading' = loading \/ loading' = [loading EXCEPT !.carries = FALSE]
        BY <3>3 DEF AutosaveChecks, Reports
      <4>2. CASE loading' = loading
        BY <1>0, <2>2, <4>2 DEF SavedInv, LoadedIs, SavedIn
      <4>3. CASE loading # NoLoad /\ loading' = [loading EXCEPT !.carries = FALSE]
        <5>1. loading \in LoadsMade /\ LoadedIs(loading)
          BY <1>0, <4>3 DEF FilesInv, FilesType, SavedInv
        <5>2. /\ loading'.path = loading.path /\ loading'.id = loading.id
              /\ loading'.content = loading.content
              /\ loading'.dirty = loading.dirty /\ loading'.overtaken = loading.overtaken
          BY <4>3, <5>1 DEF LoadsMade
        <5> QED
          BY <2>2, <5>1, <5>2 DEF LoadedIs, SavedIn
      <4>4. loading = NoLoad => loading' = loading
        BY <3>3 DEF AutosaveChecks, Reports
      <4> QED
        BY <4>1, <4>2, <4>3, <4>4
    <3>4. CASE ~(OpenLoads \/ RestoreLoads \/ AutosaveChecks)
      <4>1. loading' = loading
        BY <1>3, <3>4 DEF Aside, TakeLease, Loading, DiscardRecovery, SaveDiscards, BeginAutosave,
               AutosaveWrites, AutosaveWritesSource, AutosaveFails, AutosaveDiscards,
               AutosaveDiscardsSource, CloseApp, Start, vars, filesVars
      <4> QED
        BY <1>0, <2>2, <4>1 DEF SavedInv, LoadedIs, SavedIn
    <3> QED
      BY <3>1, <3>2, <3>3, <3>4
  <2>4. (IsOpen' => Clean(project)') /\ (gate' = "edit" => Clean(before)')
    BY <1>0, <2>1, <2>2 DEF SavedInv, Clean, SavedIn, IsOpen
  <2> QED
    BY <1>0, <2>1, <2>2, <2>3, <2>4 DEF SavedInv
<1>4. CASE SaveWrites
  <2> DEFINE file == [id |-> project.id, content |-> project.content]
  <2>1. /\ saving.step = "write" /\ saving'.path = saving.path
        /\ UNCHANGED <<project, gate, path, overtaken>>
        /\ files' = [files EXCEPT ![saving.path] = file]
    BY <1>4 DEF SaveWrites, documentVars, FilesInv, FilesType
  <2>2. gate = "save" /\ saving.path \in Paths /\ IsOpen
    BY <1>0, <2>1 DEF PhaseInv
  <2>3. files \in [Paths -> Saved \cup {NoFile}] /\ path \in AnyPath
    BY DEF FilesInv, FilesType
  <2>4. files'[saving.path] = file
    BY <2>1, <2>2, <2>3
  <2>5. file # NoFile
    <3>1. project \in Project /\ project.content \in Storable
      BY <1>4, <2>2 DEF SaveWrites, FilesInv, DocumentInv, HistoryTypeOK, IsOpen
    <3>2. file \in Saved
      BY <3>1 DEF Saved, Project
    <3> QED
      BY <3>2, FilesNones
  <2>6. Clean(project)'
    <3>1. CASE path = saving.path
      BY <2>1, <2>4, <2>5, <3>1 DEF Clean, SavedIn
    <3>2. CASE path # saving.path /\ path # NoPath
      <4>1. files'[path] = files[path]
        BY <2>1, <2>3, <3>2 DEF AnyPath
      <4> QED
        BY <1>0, <2>1, <2>2, <4>1 DEF SavedInv, Clean, SavedIn
    <3>3. CASE path = NoPath
      BY <2>1, <3>3 DEF Clean
    <3> QED
      BY <3>1, <3>2, <3>3
  <2>7. loading' # NoLoad => LoadedIs(loading)'
    <3>1. loading' = IF loading # NoLoad /\ loading.path = saving.path
                     THEN [loading EXCEPT !.overtaken = TRUE] ELSE loading
      BY <1>4 DEF SaveWrites
    <3>2. CASE loading = NoLoad
      BY <3>1, <3>2
    <3>3. CASE loading # NoLoad
      <4>1. loading \in LoadsMade /\ LoadedIs(loading)
        BY <1>0, <3>3 DEF FilesInv, FilesType, SavedInv
      <4>2. CASE loading.path = saving.path
        <5>1. loading'.overtaken
          BY <3>1, <3>3, <4>1, <4>2 DEF LoadsMade
        <5> QED
          BY <5>1 DEF LoadedIs
      <4>3. CASE loading.path # saving.path
        <5>1. loading' = loading
          BY <3>1, <4>3
        <5>2. loading.path \in Paths => files'[loading.path] = files[loading.path]
          BY <2>1, <2>3, <4>3
        <5> QED
          BY <4>1, <5>1, <5>2 DEF LoadedIs, SavedIn
      <4> QED
        BY <4>2, <4>3
    <3> QED
      BY <3>2, <3>3
  <2> QED
    BY <2>1, <2>2, <2>4, <2>6, <2>7 DEF SavedInv
<1>5. CASE BeginSave \/ SaveFails \/ SaveDiscardsSource
  <2>1. /\ saving'.step # "count" /\ gate' # "edit"
        /\ UNCHANGED <<project, files, path, loading, overtaken>>
    BY <1>5 DEF BeginSave, SaveFails, SaveDiscardsSource, NotSaving, diskVars, ghostVars
  <2>2. IsOpen' => Clean(project)'
    BY <1>0, <2>1 DEF SavedInv, Clean, SavedIn, IsOpen
  <2>3. loading' # NoLoad => LoadedIs(loading)'
    BY <1>0, <2>1 DEF SavedInv, LoadedIs, SavedIn
  <2> QED
    BY <2>1, <2>2, <2>3 DEF SavedInv
<1>7. CASE SaveCounts
  <2>1. /\ saving.step = "count" /\ saving'.step = "discard" /\ path' = saving.path
        /\ project' = [project EXCEPT !.dirty = FALSE] /\ UNCHANGED <<gate, files, loading>>
    BY <1>7 DEF SaveCounts, diskVars, FilesInv, FilesType
  <2>2. project \in Project /\ gate = "save" /\ saving.path \in Paths
    BY <1>0, <2>1, SavingEffect DEF PhaseInv
  <2>3. project'.id = project.id /\ project'.content = project.content
    BY <2>1, <2>2 DEF Project
  <2>4. files[saving.path] \in Saved
    <3>1. files[saving.path] = [id |-> project.id, content |-> project.content]
      BY <1>0, <2>1 DEF SavedInv
    <3>2. files[saving.path] # NoFile
      <4>1. "content" \in DOMAIN files[saving.path] /\ "content" \notin DOMAIN NoFile
        BY <3>1 DEF NoFile
      <4> QED
        BY <4>1
    <3> QED
      BY <2>2, <3>2 DEF FilesInv, FilesType
  <2>5. Clean(project)'
    BY <1>0, <2>1, <2>3, <2>4, FilesNones DEF SavedInv, Clean, SavedIn
  <2>6. loading' # NoLoad => LoadedIs(loading)'
    BY <1>0, <2>1 DEF SavedInv, LoadedIs, SavedIn
  <2> QED
    BY <2>1, <2>2, <2>5, <2>6 DEF SavedInv
<1>8. CASE Exit \/ Crash
  <2>1. project' = NoProject /\ gate' = "free" /\ saving' = NotSaving /\ loading' = NoLoad
    BY <1>8, EndEffect
  <2> QED
    BY <2>1 DEF SavedInv, NotSaving, IsOpen
<1> QED
  BY <1>1, <1>2, <1>3, <1>4, <1>5, <1>7, <1>8, NextIs DEF Gates, Aside

\* A lease outlived is a lease whose epoch is over.
LEMMA LeaseStays ==
  ASSUME FilesInv, [Next]_vars
  PROVE  LeaseInv'
<1>0. LeaseInv /\ epoch \in Nat /\ (lease = NoLease \/ lease \in Leases)
  BY DEF FilesInv, FilesType
<1>1. CASE Leaves
  <2>1. epoch' = epoch + 1 /\ lease' = Outlived(lease)
    BY <1>1, LeaveEffect
  <2>2. lease # NoLease => lease'.epoch = lease.epoch /\ lease.epoch \in Nat
    BY <1>0, <2>1 DEF Outlived, Leases
  <2>3. lease = NoLease => lease' = NoLease
    BY <2>1 DEF Outlived
  <2> QED
    BY <1>0, <2>1, <2>2, <2>3 DEF LeaseInv
<1>2. CASE TakeLease
  <2>1. lease' = [id |-> project.id, epoch |-> epoch, current |-> TRUE] /\ epoch' = epoch
    BY <1>2 DEF TakeLease
  <2> QED
    BY <1>0, <2>1 DEF LeaseInv
<1>3. CASE Exit \/ Crash
  <2>1. lease' = NoLease
    BY <1>3, EndEffect
  <2> QED
    BY <2>1 DEF LeaseInv
<1>4. CASE Edit \/ CommitImport
  <2>1. lease' \in {lease, NoLease} /\ epoch' = epoch
    BY <1>4, EditEffect
  <2> QED
    BY <1>0, <2>1 DEF LeaseInv
<1>5. CASE (Aside /\ ~TakeLease) \/ Gates \/ SaveCounts \/ UNCHANGED vars
  <2>1. UNCHANGED <<lease, epoch>>
    BY <1>5 DEF Aside, Loading, OpenLoads, RestoreLoads, Loads, DiscardRecovery, SaveWrites, SaveDiscards, BeginAutosave, AutosaveWrites,
                AutosaveWritesSource, AutosaveFails, AutosaveChecks, AutosaveDiscards,
                AutosaveDiscardsSource, CloseApp, Start, Gates, BeginSave, SaveFails,
                SaveDiscardsSource, SaveCounts, vars, filesVars
  <2> QED
    BY <1>0, <2>1 DEF LeaseInv
<1> QED
  BY <1>1, <1>2, <1>3, <1>4, <1>5, NextIs


(***************************************************************************)
(* The recovery files.                                                     *)
(***************************************************************************)

\* A recovery file that is gone, or that has been written: what it is afterwards.
LEMMA RecoveryAfter ==
  ASSUME FilesInv, NEW i \in Ids
  PROVE  /\ SaveWrites =>
              /\ recovery'[i] = NoCopy <=> recovery[i] = NoCopy
              /\ i = project.id /\ recovery'[i] # NoCopy => recovery'[i].outdated
              /\ i # project.id => recovery'[i] = recovery[i]
         /\ SaveDiscards =>
              recovery'[i] = IF i = project.id THEN NoCopy ELSE recovery[i]
         /\ AutosaveWrites =>
              IF i = autosave.id
              THEN /\ recovery'[i] # NoCopy /\ recovery'[i].outdated = autosave.outdated
                   /\ recovery'[i].content = autosave.content
                   /\ recovery'[i].carries = autosave.carries
              ELSE recovery'[i] = recovery[i]
         /\ AutosaveDiscards =>
              recovery'[i] = IF i = autosave.id THEN NoCopy ELSE recovery[i]
         /\ CloseApp => recovery'[i] = IF i \in CurrentId THEN NoCopy ELSE recovery[i]
<1>0. recovery \in [Ids -> Copy \cup {NoCopy}]
  BY DEF FilesInv, FilesType
<1>1. ASSUME SaveWrites
      PROVE  /\ recovery'[i] = NoCopy <=> recovery[i] = NoCopy
             /\ i = project.id /\ recovery'[i] # NoCopy => recovery'[i].outdated
             /\ i # project.id => recovery'[i] = recovery[i]
  <2>1. CASE recovery[project.id] = NoCopy
    BY <1>1, <2>1 DEF SaveWrites
  <2>2. CASE recovery[project.id] # NoCopy
    <3> DEFINE marked == [recovery[project.id] EXCEPT !.outdated = TRUE]
    <3>1. recovery' = [recovery EXCEPT ![project.id] = marked] /\ project.id \in Ids
      BY <1>1, <2>2, SavingEffect DEF SaveWrites
    <3>2. recovery[project.id] \in Copy
      BY <1>0, <2>2, <3>1
    <3>3. marked \in Copy /\ marked.outdated
      BY <3>2 DEF Copy
    <3>4. marked # NoCopy
      BY <3>3, FilesNones
    <3> HIDE DEF marked
    <3> QED
      BY <1>0, <2>2, <3>1, <3>3, <3>4
  <2> QED
    BY <2>1, <2>2
<1>2. SaveDiscards => recovery'[i] = IF i = project.id THEN NoCopy ELSE recovery[i]
  BY <1>0 DEF SaveDiscards
<1>3. ASSUME AutosaveWrites
      PROVE  IF i = autosave.id
             THEN /\ recovery'[i] # NoCopy /\ recovery'[i].outdated = autosave.outdated
                  /\ recovery'[i].content = autosave.content
                  /\ recovery'[i].carries = autosave.carries
             ELSE recovery'[i] = recovery[i]
  <2> DEFINE new == [content |-> autosave.content, source |-> autosave.source,
                     outdated |-> autosave.outdated, carries |-> autosave.carries]
  <2>1. autosave \in Autosaves /\ autosave.content \in Storable
    BY <1>3, AutosavingEffect DEF AutosaveWrites
  <2>2. new \in Copy
    BY <2>1 DEF Autosaves, Copy
  <2>3. /\ new # NoCopy /\ new.outdated = autosave.outdated
        /\ new.content = autosave.content /\ new.carries = autosave.carries
    BY <2>2, FilesNones
  <2>4. recovery' = [recovery EXCEPT ![autosave.id] = new]
    BY <1>3 DEF AutosaveWrites
  <2> HIDE DEF new
  <2> QED
    BY <1>0, <2>3, <2>4
<1>4. AutosaveDiscards => recovery'[i] = IF i = autosave.id THEN NoCopy ELSE recovery[i]
  BY <1>0 DEF AutosaveDiscards
<1>5. CloseApp => recovery'[i] = IF i \in CurrentId THEN NoCopy ELSE recovery[i]
  BY DEF CloseApp
<1> QED
  BY <1>1, <1>2, <1>3, <1>4, <1>5

\* An outdated recovery file belongs to an operation cut short, or to one that will
\* still remove it.
OutdatedStays(i) ==
  recovery[i] # NoCopy /\ recovery[i].outdated =>
    \/ i \in interrupted
    \/ saving.step \in {"count", "discard"} /\ project.id = i
    \/ Autosaving(i)

\* No ended save or autosave leaves an outdated recovery file.
LEMMA RecoveryStays ==
  ASSUME FilesInv, [Next]_vars
  PROVE  RecoveryNotOutdated'
<1> SUFFICES ASSUME NEW i \in Ids PROVE OutdatedStays(i)'
  BY DEF RecoveryNotOutdated, OutdatedStays
<1>0. /\ OutdatedStays(i) /\ PhaseInv /\ AutosaveInv
      /\ saving \in [step : {"idle", "write", "count", "discard", "source"}, path : AnyPath]
      /\ recovery \in [Ids -> Copy \cup {NoCopy}]
  BY DEF FilesInv, FilesType, RecoveryNotOutdated, OutdatedStays
<1>1. CASE Edit \/ CommitImport
  <2>1. /\ gate # "save" /\ UNCHANGED <<saving, autosave, recovery, interrupted>>
    BY <1>1, EditEffect DEF diskVars, ghostVars
  <2> QED
    BY <1>0, <2>1 DEF PhaseInv, OutdatedStays, Autosaving
<1>2. CASE Leaves
  <2>1. /\ gate = "free" /\ SameAutosave /\ UNCHANGED <<saving, recovery, interrupted>>
    BY <1>2, LeaveEffect DEF diskVars
  <2> QED
    BY <1>0, <2>1 DEF PhaseInv, OutdatedStays, Autosaving, SameAutosave
<1>3. CASE TakeLease \/ Loading \/ AutosaveWritesSource \/ Start \/ UNCHANGED vars
  <2>1. project' = project
    BY <1>3, AsideEffect DEF Aside, documentVars
  <2>2. UNCHANGED <<saving, recovery, interrupted>> /\ (Autosaving(i) => Autosaving(i)')
    <3>1. CASE AutosaveWritesSource
      <4>1. autosave' = [autosave EXCEPT !.step = "check"] /\ autosave \in Autosaves
        BY <3>1, AutosavingEffect DEF AutosaveWritesSource
      <4>2. autosave'.id = autosave.id /\ autosave' \in Autosaves
        BY <4>1 DEF Autosaves
      <4> QED
        BY <3>1, <4>2, FilesNones DEF AutosaveWritesSource, Autosaving, ghostVars
    <3>2. CASE TakeLease \/ Loading \/ Start \/ UNCHANGED vars
      BY <3>2 DEF TakeLease, Loading, OpenLoads, RestoreLoads, Loads, Start, vars, filesVars, diskVars, ghostVars, Autosaving
    <3> QED
      BY <1>3, <3>1, <3>2
  <2> QED
    BY <1>0, <2>1, <2>2 DEF OutdatedStays
<1>4. CASE DiscardRecovery
  <2>1. PICK id \in Ids :
          /\ recovery' = [recovery EXCEPT ![id] = NoCopy]
          /\ interrupted' = interrupted \ {id}
          /\ autosave' \in {autosave, LeftBehind(autosave)} /\ UNCHANGED <<saving, project>>
    BY <1>4 DEF DiscardRecovery, documentVars
  <2>2. SameAutosave
    BY <2>1, LeftBehindIs DEF FilesInv
  <2>3. CASE i = id
    BY <1>0, <2>1, <2>3 DEF OutdatedStays
  <2>4. CASE i # id
    BY <1>0, <2>1, <2>2, <2>4 DEF OutdatedStays, Autosaving, SameAutosave
  <2> QED
    BY <2>3, <2>4
<1>5. CASE BeginSave \/ SaveFails \/ SaveCounts \/ SaveDiscardsSource
  <2>1. /\ UNCHANGED <<autosave, recovery, interrupted>>
    BY <1>5 DEF BeginSave, SaveFails, SaveCounts, SaveDiscardsSource, diskVars, ghostVars
  <2>2. saving.step \in {"count", "discard"} => saving'.step = "discard" /\ project'.id = project.id
    <3>1. CASE SaveCounts
      <4>1. /\ saving' = [saving EXCEPT !.step = "discard"]
            /\ project' = [project EXCEPT !.dirty = FALSE] /\ project \in Project
        BY <3>1, SavingEffect DEF SaveCounts
      <4> QED
        BY <1>0, <4>1 DEF Project
    <3>2. CASE BeginSave
      BY <1>0, <3>2 DEF BeginSave, PhaseInv
    <3>3. CASE SaveFails \/ SaveDiscardsSource
      BY <3>3 DEF SaveFails, SaveDiscardsSource
    <3> QED
      BY <1>5, <3>1, <3>2, <3>3
  <2> QED
    BY <1>0, <2>1, <2>2 DEF OutdatedStays, Autosaving
<1>6. CASE SaveWrites
  <2>1. /\ saving'.step = "count" /\ project' = project /\ interrupted' = interrupted
        /\ saving.step = "write"
    BY <1>0, <1>6 DEF SaveWrites, documentVars
  <2>2. Autosaving(i) /\ i # project.id => Autosaving(i)'
    BY <1>6 DEF SaveWrites, Autosaving
  <2>3. i # project.id => recovery'[i] = recovery[i]
    BY <1>6, RecoveryAfter
  <2> QED
    BY <1>0, <2>1, <2>2, <2>3 DEF OutdatedStays
<1>7. CASE SaveDiscards
  <2>1. /\ recovery'[i] = IF i = project.id THEN NoCopy ELSE recovery[i]
        /\ interrupted' = interrupted \ {project.id}
        /\ autosave' = autosave /\ project' = project
    BY <1>7, RecoveryAfter DEF SaveDiscards, documentVars
  <2> QED
    BY <1>0, <2>1 DEF OutdatedStays, Autosaving
<1>8. CASE BeginAutosave
  <2>1. autosave = NotAutosaving /\ UNCHANGED <<recovery, interrupted, saving, project>>
    BY <1>8 DEF BeginAutosave, documentVars, diskVars, ghostVars
  <2> QED
    BY <1>0, <2>1 DEF OutdatedStays, Autosaving
<1>9. CASE AutosaveWrites
  <2>1. /\ autosave' = [autosave EXCEPT !.step = "source"] /\ autosave \in Autosaves
        /\ UNCHANGED <<saving, project, interrupted>>
    BY <1>9, AutosavingEffect DEF AutosaveWrites, documentVars, ghostVars
  <2>2. autosave' \in Autosaves /\ autosave'.id = autosave.id
    BY <2>1 DEF Autosaves
  <2>3. i # autosave.id => recovery'[i] = recovery[i]
    BY <1>9, RecoveryAfter
  <2> QED
    BY <1>0, <2>1, <2>2, <2>3, FilesNones DEF OutdatedStays, Autosaving
<1>10. CASE AutosaveFails
  <2>1. /\ interrupted' = interrupted \cup {autosave.id}
        /\ UNCHANGED <<recovery, saving, project>>
    BY <1>10 DEF AutosaveFails, documentVars, diskVars
  <2> QED
    BY <1>0, <2>1 DEF OutdatedStays, Autosaving
<1>11. CASE AutosaveChecks
  <2>1. /\ autosave \in Autosaves /\ autosave # NotAutosaving /\ autosave.saves \in Nat
        /\ save_count \in Nat
    BY <1>11, AutosavingEffect DEF AutosaveChecks, FilesInv, FilesType
  <2>2. UNCHANGED <<recovery, interrupted, saving, project>>
    BY <1>11 DEF AutosaveChecks, documentVars, diskVars
  <2>3. CASE save_count # autosave.saves
    <3>1. autosave' = [autosave EXCEPT !.step = "discard"]
      BY <1>11, <2>3 DEF AutosaveChecks
    <3>2. autosave' \in Autosaves /\ autosave'.id = autosave.id
      BY <2>1, <3>1 DEF Autosaves
    <3> QED
      BY <1>0, <2>2, <3>2, FilesNones DEF OutdatedStays, Autosaving
  <2>4. CASE save_count = autosave.saves
    <3>1. recovery[autosave.id] # NoCopy /\ recovery[autosave.id].outdated =>
            \/ autosave.id \in interrupted
            \/ saving.step = "count" /\ project.id = autosave.id
      BY <1>0, <2>1, <2>4 DEF AutosaveInv, Overtaken
    <3> QED
      BY <1>0, <2>2, <3>1 DEF OutdatedStays, Autosaving
  <2> QED
    BY <2>3, <2>4
<1>12. CASE AutosaveDiscards
  <2>1. /\ autosave' = [autosave EXCEPT !.step = "discard_source"] /\ autosave \in Autosaves
        /\ UNCHANGED <<saving, project, interrupted>>
    BY <1>12, AutosavingEffect DEF AutosaveDiscards, documentVars, ghostVars
  <2>2. recovery'[i] = IF i = autosave.id THEN NoCopy ELSE recovery[i]
    BY <1>12, RecoveryAfter
  <2> QED
    BY <1>0, <2>1, <2>2 DEF OutdatedStays, Autosaving
<1>13. CASE AutosaveDiscardsSource
  <2>1. /\ autosave # NotAutosaving /\ autosave.step = "discard_source"
        /\ UNCHANGED <<recovery, interrupted, saving, project>>
    BY <1>13, AutosavingEffect DEF AutosaveDiscardsSource, documentVars, ghostVars
  <2>2. recovery[autosave.id] = NoCopy
    BY <1>0, <2>1 DEF AutosaveInv
  <2> QED
    BY <1>0, <2>1, <2>2 DEF OutdatedStays, Autosaving
<1>14. CASE CloseApp
  <2>1. recovery'[i] = IF i \in CurrentId THEN NoCopy ELSE recovery[i]
    BY <1>14, RecoveryAfter
  <2>2. UNCHANGED <<interrupted, saving, project, autosave>>
    BY <1>14 DEF CloseApp, documentVars
  <2> QED
    BY <1>0, <2>1, <2>2 DEF OutdatedStays, Autosaving
<1>15. CASE Exit \/ Crash
  <2>1. /\ interrupted' = interrupted
             \cup (IF saving.step = "idle" THEN {} ELSE {project.id})
             \cup (IF autosave.step = "idle" THEN {} ELSE {autosave.id})
        /\ recovery' = recovery
    BY <1>15, EndEffect
  <2>2. i \notin interrupted' =>
          i \notin interrupted /\ (saving.step # "idle" => i # project.id) /\ ~Autosaving(i)
    BY <2>1, AutosavingEffect DEF Autosaving
  <2> QED
    BY <1>0, <2>1, <2>2 DEF OutdatedStays
<1> QED
  BY <1>1, <1>2, <1>3, <1>4, <1>5, <1>6, <1>7, <1>8, <1>9, <1>10, <1>11, <1>12, <1>13, <1>14,
     <1>15, NextIs DEF Aside, Gates


\* What is owed is in a recovery file that no save has overtaken.
Kept(i) == Owed(i) => Holds(i)

\* It stays there while neither changes.
LEMMA KeptSame ==
  ASSUME NEW i, Kept(i), recovery'[i] = recovery[i],
         promised'[i] = promised[i] \/ ~Owes(promised'[i])
  PROVE  Kept(i)'
  BY DEF Kept, Owed, Owes, Holds

\* What is owed to no project needs no copy.
LEMMA KeptNone ==
  ASSUME NEW i, ~Owes(promised'[i])
  PROVE  Kept(i)'
  BY DEF Kept, Owed

\* A promise is withdrawn before what it rests on is overwritten or removed.
LEMMA PromiseStays ==
  ASSUME FilesInv, [Next]_vars
  PROVE  PromiseInv'
<1>0. /\ PromiseInv /\ PhaseInv /\ AutosaveInv /\ FilesType
      /\ saving \in [step : {"idle", "write", "count", "discard", "source"}, path : AnyPath]
      /\ promised \in [Ids -> Work \cup {NoWork}]
      /\ recovery \in [Ids -> Copy \cup {NoCopy}]
      /\ IsOpen => project.id \in Ids
  BY DEF FilesInv, FilesType, DocumentInv, HistoryTypeOK, IsOpen, Project
<1> DEFINE Withdrawn == saving.step \in {"count", "discard"} => ~Owed(project.id)
<1>b. ASSUME Withdrawn', \A i \in Ids : Kept(i)' PROVE PromiseInv'
  BY <1>b DEF PromiseInv, AutosavedWorkSurvives, Kept, Owed, Owes
<1>c. Withdrawn /\ \A i \in Ids : Kept(i)
  BY <1>0 DEF PromiseInv, AutosavedWorkSurvives, Kept, Owed, Owes
<1>1. CASE Edit \/ CommitImport \/ Leaves
  <2>1. /\ gate # "save" /\ UNCHANGED <<saving, recovery>>
        /\ \A i \in Ids : promised'[i] = promised[i] \/ ~Owes(promised'[i])
    BY <1>1, EditEffect, LeaveEffect DEF diskVars, ghostVars
  <2>2. Withdrawn'
    BY <1>0, <2>1 DEF PhaseInv
  <2>3. \A i \in Ids : Kept(i)'
    BY <1>c, <2>1, KeptSame
  <2> QED
    BY <1>b, <2>2, <2>3
<1>2. CASE \/ TakeLease \/ Loading \/ AutosaveWritesSource \/ AutosaveFails
           \/ AutosaveDiscardsSource \/ Start \/ UNCHANGED vars
  <2>1. project' = project
    BY <1>2, AsideEffect DEF Aside, documentVars
  <2>2. UNCHANGED <<saving, recovery, promised>>
    BY <1>2 DEF TakeLease, Loading, OpenLoads, RestoreLoads, Loads, AutosaveWritesSource,
                AutosaveFails, AutosaveDiscardsSource, Start, vars, filesVars, diskVars, ghostVars
  <2>3. \A i \in Ids : Kept(i)'
    BY <1>c, <2>2, KeptSame
  <2>4. Withdrawn'
    BY <1>c, <2>1, <2>2 DEF Owed
  <2> QED
    BY <1>b, <2>3, <2>4
<1>3. CASE BeginAutosave
  <2>1. /\ gate = "free" /\ IsOpen /\ UNCHANGED <<recovery, saving>>
        /\ promised' \in {promised, Forgone(project.id)}
    BY <1>3 DEF BeginAutosave, diskVars
  <2>2. \A i \in Ids : promised'[i] = promised[i] \/ ~Owes(promised'[i])
    BY <1>0, <2>1, SettledIs
  <2>3. \A i \in Ids : Kept(i)'
    BY <1>c, <2>1, <2>2, KeptSame
  <2>4. Withdrawn'
    BY <1>0, <2>1 DEF PhaseInv
  <2> QED
    BY <1>b, <2>3, <2>4
<1>4. CASE DiscardRecovery
  <2>1. PICK id \in Ids :
          /\ recovery' = [recovery EXCEPT ![id] = NoCopy]
          /\ promised' = [promised EXCEPT ![id] = NoWork]
          /\ UNCHANGED <<saving, project>>
    BY <1>4 DEF DiscardRecovery, documentVars
  <2>2. ~Owes(promised'[id]) /\ \A i \in Ids : i # id => promised'[i] = promised[i]
    BY <1>0, <2>1 DEF Owes
  <2>3. \A i \in Ids : i # id => recovery'[i] = recovery[i]
    BY <1>0, <2>1
  <2>4. \A i \in Ids : Kept(i)'
    BY <1>c, <2>2, <2>3, KeptSame, KeptNone
  <2>5. saving.step \in {"count", "discard"} => project.id \in Ids
    BY SavingEffect
  <2>6. Withdrawn'
    BY <1>c, <2>1, <2>2, <2>5 DEF Owed
  <2> QED
    BY <1>b, <2>4, <2>6
<1>5. CASE BeginSave \/ SaveFails \/ SaveCounts \/ SaveDiscardsSource
  <2>1. UNCHANGED <<recovery, promised>>
    BY <1>5 DEF BeginSave, SaveFails, SaveCounts, SaveDiscardsSource, diskVars, ghostVars
  <2>2. saving'.step \in {"count", "discard"} =>
          saving.step \in {"count", "discard"} /\ project'.id = project.id
    <3>1. CASE SaveCounts
      <4>1. /\ saving.step = "count" /\ project \in Project
            /\ project' = [project EXCEPT !.dirty = FALSE]
        BY <3>1, SavingEffect DEF SaveCounts
      <4> QED
        BY <4>1 DEF Project
    <3>2. CASE BeginSave \/ SaveFails \/ SaveDiscardsSource
      BY <3>2 DEF BeginSave, SaveFails, SaveDiscardsSource, NotSaving
    <3> QED
      BY <1>5, <3>1, <3>2
  <2>3. \A i \in Ids : Kept(i)'
    BY <1>c, <2>1, KeptSame
  <2>4. Withdrawn'
    BY <1>c, <2>1, <2>2 DEF Owed
  <2> QED
    BY <1>b, <2>3, <2>4
<1>6. CASE SaveWrites
  <2>1. promised' = Settled(project.id) /\ project' = project /\ project.id \in Ids
    BY <1>6, SavingEffect DEF SaveWrites, documentVars
  <2>2. /\ ~Owes(promised'[project.id])
        /\ \A i \in Ids : i # project.id => promised'[i] = promised[i]
    BY <1>0, <2>1, SettledIs
  <2>3. \A i \in Ids : i # project.id => recovery'[i] = recovery[i]
    BY <1>6, RecoveryAfter
  <2>4. \A i \in Ids : Kept(i)'
    BY <1>c, <2>2, <2>3, KeptSame, KeptNone
  <2> QED
    BY <1>b, <2>1, <2>2, <2>4 DEF Owed
<1>7. CASE SaveDiscards
  <2>1. /\ UNCHANGED <<promised, project>> /\ saving.step = "discard" /\ saving'.step = "source"
    BY <1>0, <1>7 DEF SaveDiscards, documentVars
  <2>2. ~Owed(project.id)
    BY <1>c, <2>1
  <2>3. \A i \in Ids : i # project.id => recovery'[i] = recovery[i]
    BY <1>7, RecoveryAfter
  <2>4. \A i \in Ids : Kept(i)'
    BY <1>c, <2>1, <2>2, <2>3, KeptSame, KeptNone DEF Owed
  <2> QED
    BY <1>b, <2>1, <2>4
<1>8. CASE AutosaveWrites
  <2>1. UNCHANGED <<promised, project, saving>> /\ autosave # NotAutosaving
    BY <1>8, AutosavingEffect DEF AutosaveWrites, documentVars, ghostVars
  <2>2. Owed(autosave.id) => ~autosave.outdated /\ autosave.carries
    <3> SUFFICES ASSUME Owed(autosave.id) PROVE ~autosave.outdated /\ autosave.carries
      OBVIOUS
    <3>1. project.id = autosave.id /\ save_count = autosave.saves /\ autosave.carries
      BY <1>0, <2>1 DEF AutosaveInv
    <3>2. autosave.saves \in Nat
      BY <2>1, AutosavingEffect
    <3>3. autosave.outdated => saving.step = "count"
      BY <1>0, <2>1, <3>1, <3>2 DEF AutosaveInv, Overtaken
    <3> QED
      BY <1>c, <3>1, <3>3
  <2>3. ASSUME NEW i \in Ids PROVE Kept(i)'
    <3>1. CASE i = autosave.id
      <4>1. /\ recovery'[i] # NoCopy /\ recovery'[i].outdated = autosave.outdated
            /\ recovery'[i].carries = autosave.carries
        BY <1>8, <3>1, RecoveryAfter
      <4>2. Owed(i) => ~recovery'[i].outdated /\ recovery'[i].carries
        BY <2>2, <3>1, <4>1
      <4> QED
        BY <2>1, <4>1, <4>2 DEF Kept, Holds, Owed, Owes
    <3>2. CASE i # autosave.id
      <4>1. recovery'[i] = recovery[i]
        BY <1>8, <3>2, RecoveryAfter
      <4> QED
        BY <1>c, <2>1, <4>1, KeptSame
    <3> QED
      BY <3>1, <3>2
  <2>4. Withdrawn'
    BY <1>c, <2>1 DEF Owed
  <2> QED
    BY <1>b, <2>3, <2>4
<1>9. CASE AutosaveChecks
  <2>1. /\ UNCHANGED <<recovery, project, saving>>
        /\ autosave # NotAutosaving /\ autosave.step = "check" /\ autosave.id \in Ids
    BY <1>9, AutosavingEffect DEF AutosaveChecks, documentVars, diskVars
  <2>2. CASE promised' = promised
    <3>1. \A i \in Ids : Kept(i)'
      BY <1>c, <2>1, <2>2, KeptSame
    <3>2. Withdrawn'
      BY <1>c, <2>1, <2>2 DEF Owed
    <3> QED
      BY <1>b, <3>1, <3>2
  <2>3. CASE app = "running" /\ ~autosave.outdated /\ autosave.current /\ Reports
    <3> DEFINE work == [content |-> autosave.content, forgone |-> FALSE]
    <3>1. promised' = [promised EXCEPT ![autosave.id] = work]
      BY <2>3 DEF Reports
    <3>2. /\ recovery[autosave.id] # NoCopy /\ ~recovery[autosave.id].outdated
          /\ recovery[autosave.id].content = work.content
      BY <1>0, <2>1, <2>3 DEF AutosaveInv
    <3>3. promised'[autosave.id] = work /\ \A i \in Ids : i # autosave.id => promised'[i] = promised[i]
      BY <1>0, <2>1, <3>1
    <3> HIDE DEF work
    <3>4. ASSUME NEW i \in Ids, i = autosave.id PROVE Kept(i)'
      BY <2>1, <3>2, <3>3, <3>4 DEF Kept, Holds, Owed, Owes
    <3>5. \A i \in Ids : Kept(i)'
      BY <1>c, <2>1, <3>3, <3>4, KeptSame
    <3>6. saving.step \in {"count", "discard"} => project.id # autosave.id /\ project.id \in Ids
      BY <1>0, <2>1, <2>3, SavingEffect DEF AutosaveInv
    <3>7. Withdrawn'
      BY <1>c, <2>1, <3>3, <3>6 DEF Owed
    <3> QED
      BY <1>b, <3>5, <3>7
  <2> QED
    BY <1>9, <2>2, <2>3 DEF AutosaveChecks
<1>10. CASE AutosaveDiscards
  <2>1. /\ UNCHANGED <<promised, project, saving>>
        /\ autosave # NotAutosaving /\ autosave.step = "discard"
    BY <1>10, AutosavingEffect DEF AutosaveDiscards, documentVars, ghostVars
  <2>2. ~Owed(autosave.id)
    <3>1. autosave.saves < save_count /\ autosave.saves \in Nat
      BY <1>0, <2>1, AutosavingEffect DEF AutosaveInv
    <3>2. save_count # autosave.saves
      BY <3>1
    <3> QED
      BY <1>0, <2>1, <3>2 DEF AutosaveInv
  <2>3. \A i \in Ids : i # autosave.id => recovery'[i] = recovery[i]
    BY <1>10, RecoveryAfter
  <2>4. \A i \in Ids : Kept(i)'
    BY <1>c, <2>1, <2>2, <2>3, KeptSame, KeptNone DEF Owed
  <2>5. Withdrawn'
    BY <1>c, <2>1 DEF Owed
  <2> QED
    BY <1>b, <2>4, <2>5
<1>11. CASE CloseApp
  <2>1. /\ promised' = IF IsOpen THEN Settled(project.id) ELSE promised
        /\ gate = "free" /\ saving' = saving
    BY <1>11 DEF CloseApp
  <2>2. \A i \in Ids : IF i \in CurrentId THEN ~Owes(promised'[i])
                                          ELSE promised'[i] = promised[i]
    BY <1>0, <2>1, SettledIs DEF CurrentId
  <2>3. \A i \in Ids : i \notin CurrentId => recovery'[i] = recovery[i]
    BY <1>11, RecoveryAfter
  <2>4. \A i \in Ids : Kept(i)'
    BY <1>c, <2>2, <2>3, KeptSame, KeptNone
  <2>5. Withdrawn'
    BY <1>0, <2>1 DEF PhaseInv
  <2> QED
    BY <1>b, <2>4, <2>5
<1>12. CASE Exit \/ Crash
  <2>1. UNCHANGED <<promised, recovery>> /\ saving' = NotSaving
    BY <1>12, EndEffect
  <2>2. \A i \in Ids : Kept(i)'
    BY <1>c, <2>1, KeptSame
  <2> QED
    BY <1>b, <2>1, <2>2 DEF NotSaving
<1> QED
  BY <1>1, <1>2, <1>3, <1>4, <1>5, <1>6, <1>7, <1>8, <1>9, <1>10, <1>11, <1>12, NextIs
     DEF Aside, Gates


\* The autosave in progress keeps seeing whatever save overtakes it.
LEMMA AutosaveStays ==
  ASSUME FilesInv, [Next]_vars
  PROVE  AutosaveInv'
<1>0. /\ PromiseInv /\ PhaseInv /\ AutosaveInv /\ RecoveryNotOutdated /\ FilesType
      /\ saving \in [step : {"idle", "write", "count", "discard", "source"}, path : AnyPath]
      /\ save_count \in Nat
  BY DEF FilesInv, FilesType
<1>a. autosave # NotAutosaving =>
        /\ autosave \in Autosaves /\ autosave.id \in Ids /\ autosave.saves \in Nat
        /\ autosave.outdated \in BOOLEAN
  BY AutosavingEffect
<1>b. NotAutosaving \notin Autosaves
  BY FilesNones
<1>1. CASE Edit \/ CommitImport
  <2>1. /\ gate # "save" /\ gate' # "save" /\ (IsOpen' <=> IsOpen)
        /\ IsOpen => project'.id = project.id
        /\ UNCHANGED <<save_count, saving, autosave, recovery, app, promised, carries,
                       interrupted>>
    BY <1>1, EditEffect DEF diskVars, ghostVars
  <2>2. saving.step = "idle"
    BY <1>0, <2>1 DEF PhaseInv
  <2> QED
    BY <1>0, <2>1, <2>2 DEF AutosaveInv, Overtaken, Owed
<1>2. CASE Leaves
  <2>1. /\ gate = "free" /\ SameAutosave
        /\ \A i \in Ids : promised'[i] = promised[i] \/ ~Owes(promised'[i])
        /\ IsOpen /\ carries /\ Owes(promised'[project.id]) =>
             IsOpen' /\ project'.id = project.id /\ carries'
        /\ UNCHANGED <<save_count, saving, recovery, app, interrupted>>
    BY <1>2, LeaveEffect DEF diskVars
  <2>2. saving.step = "idle"
    BY <1>0, <2>1 DEF PhaseInv
  <2>3. autosave # NotAutosaving /\ Owes(promised'[autosave.id]) =>
          /\ IsOpen' /\ project'.id = autosave.id /\ carries'
          /\ autosave.carries /\ save_count = autosave.saves
    BY <1>0, <1>a, <2>1 DEF AutosaveInv, Owed, Owes
  <2> QED
    BY <1>0, <2>1, <2>2, <2>3 DEF AutosaveInv, Overtaken, Owed, SameAutosave
<1>3. CASE TakeLease \/ Loading \/ UNCHANGED vars
  <2>1. UNCHANGED <<project, save_count, saving, autosave, recovery, app, promised, carries,
                    interrupted>>
    BY <1>3 DEF TakeLease, Loading, OpenLoads, RestoreLoads, Loads, vars, filesVars,
                documentVars, diskVars, ghostVars
  <2> QED
    BY <1>0, <2>1 DEF AutosaveInv, Overtaken, IsOpen, Owed
<1>4. CASE Start
  <2>1. app \in {"closed", "crashed"} /\ autosave' = autosave
    BY <1>4 DEF Start
  <2> QED
    BY <1>0, <2>1 DEF AutosaveInv, PhaseInv
<1>5. CASE DiscardRecovery
  <2>1. PICK id \in Ids :
          /\ recovery' = [recovery EXCEPT ![id] = NoCopy]
          /\ promised' = [promised EXCEPT ![id] = NoWork]
          /\ autosave' = IF Autosaving(id) THEN LeftBehind(autosave) ELSE autosave
          /\ interrupted' = interrupted \ {id}
          /\ UNCHANGED <<saving, project, save_count, app, carries>>
    BY <1>5 DEF DiscardRecovery, documentVars
  <2>2. SameAutosave
    BY <1>0, <2>1, LeftBehindIs
  <2>3. CASE autosave = NotAutosaving \/ autosave.id # id
    <3>1. autosave # NotAutosaving =>
            /\ recovery'[autosave.id] = recovery[autosave.id]
            /\ autosave.id \in interrupted' <=> autosave.id \in interrupted
            /\ promised'[autosave.id] = promised[autosave.id]
            /\ autosave' = autosave
      BY <1>0, <1>a, <2>1, <2>3 DEF Autosaving, FilesType
    <3> QED
      BY <1>0, <2>1, <2>2, <3>1 DEF AutosaveInv, Overtaken, IsOpen, Owed, SameAutosave
  <2>4. CASE autosave # NotAutosaving /\ autosave.id = id
    <3>1. recovery'[id] = NoCopy /\ ~Owes(promised'[id])
      BY <1>0, <2>1 DEF FilesType, Owes
    <3>2. ~autosave'.current
      <4>1. autosave' = [autosave EXCEPT !.current = FALSE]
        BY <2>1, <2>4 DEF Autosaving, LeftBehind
      <4> QED
        BY <1>a, <2>4, <4>1 DEF Autosaves
    <3> QED
      BY <1>0, <2>1, <2>2, <2>4, <3>1, <3>2 DEF AutosaveInv, Overtaken, Owed, SameAutosave
  <2> QED
    BY <2>3, <2>4
<1>6. CASE BeginSave \/ SaveFails \/ SaveDiscardsSource
  <2>1. /\ saving'.step \in {"write", "idle"} /\ saving.step \in {"write", "source", "idle"}
        /\ UNCHANGED <<autosave, project, save_count, app, recovery, interrupted, promised,
                       carries>>
    <3>1. CASE BeginSave
      BY <1>0, <3>1 DEF BeginSave, PhaseInv, diskVars, ghostVars
    <3>2. CASE SaveFails \/ SaveDiscardsSource
      BY <3>2 DEF SaveFails, SaveDiscardsSource, NotSaving, diskVars, ghostVars
    <3> QED
      BY <1>6, <3>1, <3>2
  <2> QED
    BY <1>0, <2>1 DEF AutosaveInv, Overtaken, IsOpen, Owed
<1>7. CASE SaveWrites
  <2>1. /\ saving.step = "write" /\ saving'.step = "count"
        /\ promised' = Settled(project.id) /\ project.id \in Ids
        /\ UNCHANGED <<project, save_count, app, interrupted, carries>>
    BY <1>0, <1>7, SavingEffect DEF SaveWrites, documentVars
  <2>4. /\ ~Owes(promised'[project.id])
        /\ \A i \in Ids \ {project.id} : promised'[i] = promised[i]
    BY <1>0, <2>1, SettledIs
  <2>2. CASE Autosaving(project.id)
    <3>1. autosave' = [autosave EXCEPT !.outdated = TRUE] /\ autosave # NotAutosaving
          /\ autosave.id = project.id
      BY <1>7, <2>2 DEF SaveWrites, Autosaving
    <3>2. /\ autosave'.id = project.id /\ autosave'.saves = autosave.saves
          /\ autosave'.step = autosave.step /\ autosave'.outdated
      BY <1>a, <3>1 DEF Autosaves
    <3>3. recovery'[project.id] = NoCopy <=> recovery[project.id] = NoCopy
      BY <1>7, <1>a, <3>1, RecoveryAfter
    <3> QED
      BY <1>0, <2>1, <2>4, <3>1, <3>2, <3>3 DEF AutosaveInv, Overtaken, Owed
  <2>3. CASE ~Autosaving(project.id)
    <3>1. autosave' = autosave /\ (autosave # NotAutosaving => autosave.id # project.id)
      BY <1>7, <2>3 DEF SaveWrites, Autosaving
    <3>2. autosave # NotAutosaving => recovery'[autosave.id] = recovery[autosave.id]
      BY <1>7, <1>a, <3>1, RecoveryAfter
    <3>3. autosave # NotAutosaving => promised'[autosave.id] = promised[autosave.id]
      BY <1>a, <2>4, <3>1
    <3> QED
      BY <1>0, <2>1, <3>1, <3>2, <3>3 DEF AutosaveInv, Overtaken, IsOpen, Owed
  <2> QED
    BY <2>2, <2>3
<1>8. CASE SaveCounts
  <2>1. /\ saving.step = "count" /\ saving'.step = "discard" /\ save_count' = save_count + 1
        /\ project' = [project EXCEPT !.dirty = FALSE] /\ project \in Project
        /\ UNCHANGED <<autosave, recovery, app, interrupted, promised>>
    BY <1>0, <1>8, SavingEffect DEF SaveCounts, diskVars, ghostVars
  <2>2. project'.id = project.id
    BY <2>1 DEF Project
  <2>3. autosave # NotAutosaving => /\ autosave.saves < save_count' /\ autosave.saves <= save_count'
                                    /\ save_count' > autosave.saves
    BY <1>0, <1>a, <2>1 DEF AutosaveInv
  <2>4. autosave # NotAutosaving => ~Owed(autosave.id)
    BY <1>0, <2>1 DEF AutosaveInv, PromiseInv
  <2> QED
    BY <1>0, <2>1, <2>2, <2>3, <2>4 DEF AutosaveInv, Overtaken, Owed
<1>9. CASE SaveDiscards
  <2>1. /\ saving.step = "discard" /\ saving'.step = "source"
        /\ interrupted' = interrupted \ {project.id}
        /\ UNCHANGED <<project, save_count, autosave, app, promised, carries>>
    BY <1>0, <1>9 DEF SaveDiscards, documentVars
  <2>2. autosave # NotAutosaving =>
          recovery'[autosave.id] = IF autosave.id = project.id THEN NoCopy ELSE recovery[autosave.id]
    BY <1>9, <1>a, RecoveryAfter
  <2> QED
    BY <1>0, <2>1, <2>2 DEF AutosaveInv, Overtaken, IsOpen, Owed
<1>10. CASE BeginAutosave
  <2>1. /\ gate = "free" /\ IsOpen /\ autosave = NotAutosaving
        /\ autosave' = [step |-> "write", id |-> project.id, content |-> project.content,
                        saves |-> save_count, source |-> path, outdated |-> FALSE,
                        carries |-> carries, current |-> TRUE]
        /\ promised' = IF carries THEN promised ELSE Forgone(project.id)
        /\ UNCHANGED <<project, save_count, saving, recovery, app, carries, interrupted>>
    BY <1>10 DEF BeginAutosave, documentVars, diskVars
  <2>2. /\ autosave'.step = "write" /\ autosave'.id = project.id
        /\ autosave'.saves = save_count /\ ~autosave'.outdated
        /\ carries => autosave'.carries
    BY <2>1
  <2>3. saving.step = "idle" /\ project.id \in Ids
    BY <1>0, <2>1 DEF PhaseInv, FilesInv, DocumentInv, HistoryTypeOK, IsOpen, Project
  <2>4. recovery[project.id] # NoCopy /\ recovery[project.id].outdated => project.id \in interrupted
    BY <1>0, <2>1, <2>3 DEF RecoveryNotOutdated, Autosaving
  <2>5. ~carries => ~Owes(promised'[project.id])
    BY <1>0, <2>1, <2>3, SettledIs
  <2> QED
    BY <1>0, <2>1, <2>2, <2>3, <2>4, <2>5 DEF AutosaveInv, Overtaken, IsOpen, Owed
<1>11. CASE AutosaveWrites
  <2>1. /\ autosave.step = "write" /\ autosave' = [autosave EXCEPT !.step = "source"]
        /\ autosave # NotAutosaving
        /\ UNCHANGED <<project, save_count, saving, app, promised, carries, interrupted>>
    BY <1>11, AutosavingEffect DEF AutosaveWrites, documentVars, ghostVars
  <2>2. /\ autosave'.step = "source" /\ autosave'.id = autosave.id
        /\ autosave'.saves = autosave.saves /\ autosave'.outdated = autosave.outdated
        /\ autosave'.content = autosave.content /\ autosave'.carries = autosave.carries
    BY <1>a, <2>1 DEF Autosaves
  <2>3. /\ recovery'[autosave.id] # NoCopy
        /\ recovery'[autosave.id].outdated = autosave.outdated
        /\ recovery'[autosave.id].content = autosave.content
    BY <1>11, <1>a, <2>1, RecoveryAfter
  <2> QED
    BY <1>0, <2>1, <2>2, <2>3 DEF AutosaveInv, Overtaken, IsOpen, Owed
<1>12. CASE AutosaveWritesSource
  <2>1. /\ autosave.step = "source" /\ autosave' = [autosave EXCEPT !.step = "check"]
        /\ autosave # NotAutosaving
        /\ UNCHANGED <<project, save_count, saving, app, promised, carries, interrupted,
                       recovery>>
    BY <1>12, AutosavingEffect DEF AutosaveWritesSource, documentVars, ghostVars
  <2>2. /\ autosave'.step = "check" /\ autosave'.id = autosave.id
        /\ autosave'.saves = autosave.saves /\ autosave'.outdated = autosave.outdated
        /\ autosave'.content = autosave.content /\ autosave'.carries = autosave.carries
        /\ autosave'.current => autosave.current
    BY <1>a, <2>1 DEF Autosaves
  <2> QED
    BY <1>0, <2>1, <2>2 DEF AutosaveInv, Overtaken, IsOpen, Owed
<1>13. CASE AutosaveFails \/ AutosaveDiscardsSource
  <2>1. autosave' = NotAutosaving
    BY <1>13 DEF AutosaveFails, AutosaveDiscardsSource
  <2> QED
    BY <2>1 DEF AutosaveInv
<1>14. CASE AutosaveChecks
  <2>1. CASE save_count = autosave.saves
    <3>1. autosave' = NotAutosaving
      BY <1>14, <2>1 DEF AutosaveChecks
    <3> QED
      BY <3>1 DEF AutosaveInv
  <2>2. CASE save_count # autosave.saves
    <3>1. /\ autosave' = [autosave EXCEPT !.step = "discard"] /\ autosave # NotAutosaving
          /\ UNCHANGED <<project, save_count, saving, app, promised, carries, interrupted,
                         recovery>>
      BY <1>14, <2>2, AutosavingEffect DEF AutosaveChecks, documentVars, diskVars
    <3>2. /\ autosave'.step = "discard" /\ autosave'.id = autosave.id
          /\ autosave'.saves = autosave.saves /\ autosave'.outdated = autosave.outdated
          /\ autosave'.carries = autosave.carries
      BY <1>a, <3>1 DEF Autosaves
    <3>3. autosave.saves < save_count
      BY <1>0, <1>a, <2>2, <3>1 DEF AutosaveInv
    <3> QED
      BY <1>0, <3>1, <3>2, <3>3 DEF AutosaveInv, Overtaken, IsOpen, Owed
  <2> QED
    BY <2>1, <2>2
<1>15. CASE AutosaveDiscards
  <2>1. /\ autosave.step = "discard" /\ autosave' = [autosave EXCEPT !.step = "discard_source"]
        /\ autosave # NotAutosaving
        /\ UNCHANGED <<project, save_count, saving, app, promised, carries, interrupted>>
    BY <1>15, AutosavingEffect DEF AutosaveDiscards, documentVars, ghostVars
  <2>2. /\ autosave'.step = "discard_source" /\ autosave'.id = autosave.id
        /\ autosave'.saves = autosave.saves /\ autosave'.outdated = autosave.outdated
        /\ autosave'.carries = autosave.carries
    BY <1>a, <2>1 DEF Autosaves
  <2>3. recovery'[autosave.id] = NoCopy
    BY <1>15, <1>a, <2>1, RecoveryAfter
  <2> QED
    BY <1>0, <2>1, <2>2, <2>3 DEF AutosaveInv, Overtaken, IsOpen, Owed
<1>16. CASE CloseApp
  <2>1. /\ app' = "closing"
        /\ promised' = IF IsOpen THEN Settled(project.id) ELSE promised
        /\ UNCHANGED <<project, save_count, saving, autosave, interrupted, carries>>
    BY <1>16 DEF CloseApp, documentVars
  <2>2. autosave # NotAutosaving => recovery'[autosave.id] \in {NoCopy, recovery[autosave.id]}
    BY <1>16, <1>a, RecoveryAfter
  <2>3. IsOpen => project.id \in Ids
    BY DEF FilesInv, DocumentInv, HistoryTypeOK, IsOpen, Project
  <2>4. autosave # NotAutosaving => promised'[autosave.id] = promised[autosave.id]
                                    \/ ~Owes(promised'[autosave.id])
    BY <1>0, <1>a, <2>1, <2>3, SettledIs
  <2> QED
    BY <1>0, <2>1, <2>2, <2>4 DEF AutosaveInv, Overtaken, IsOpen, Owed, Owes
<1>17. CASE Exit \/ Crash
  <2>1. autosave' = NotAutosaving
    BY <1>17, EndEffect
  <2> QED
    BY <2>1 DEF AutosaveInv
<1> QED
  BY <1>1, <1>2, <1>3, <1>4, <1>5, <1>6, <1>7, <1>8, <1>9, <1>10, <1>11, <1>12, <1>13, <1>14,
     <1>15, <1>16, <1>17, NextIs DEF Aside, Gates

(***************************************************************************)
(* The theorems.                                                           *)
(***************************************************************************)

\* The invariant holds when the application first starts.
LEMMA FilesStart == Init => FilesInv
<1> SUFFICES ASSUME Init PROVE FilesInv
  OBVIOUS
<1>1. DocumentInv /\ IdInv
  BY InvInit DEF Init, HistoryInit, HistoryInv, DocumentInv, IdInv, IsOpen
<1>2. FilesType
  <2>1. /\ MaxEpoch \in Nat /\ MaxSaves \in Nat /\ MaxEdits \in Nat /\ MaxAutosaves \in Nat
        /\ MaxCrashes \in Nat /\ MaxFaults \in Nat
    BY ProjectFilesAssumption
  <2>2. files \in [Paths -> Saved \cup {NoFile}]
    BY ProjectFilesAssumption DEF Init, Saved
  <2>3. known \subseteq Ids
    BY DEF Init
  <2>4. carries \in BOOLEAN /\ overtaken \in BOOLEAN
    BY DEF Init
  <2>5. /\ path = NoPath /\ epoch = 0 /\ save_count = 0
        /\ saving = NotSaving /\ autosave = NotAutosaving /\ lease = NoLease
        /\ loading = NoLoad /\ app = "running" /\ interrupted = {} /\ dismissed = {}
        /\ edits = 0 /\ autosaves = 0 /\ crashes = 0 /\ faults = 0
        /\ recovery = [id \in Ids |-> NoCopy] /\ sidecar = [id \in Ids |-> NoPath]
        /\ promised = [id \in Ids |-> NoWork]
    BY DEF Init
  <2> QED
    BY <2>1, <2>2, <2>3, <2>4, <2>5 DEF FilesType, NotSaving, AnyPath
<1>3. PhaseInv /\ SavedInv
  BY DEF Init, HistoryInit, PhaseInv, SavedInv, IsOpen, NotSaving
<1>4. LeaseInv /\ AutosaveInv /\ PromiseInv /\ RecoveryNotOutdated
  BY DEF Init, LeaseInv, AutosaveInv, PromiseInv, AutosavedWorkSurvives, RecoveryNotOutdated, NotSaving
<1> QED
  BY <1>1, <1>2, <1>3, <1>4 DEF FilesInv

\* Every step keeps it.
LEMMA FilesStep == FilesInv /\ [Next]_vars => FilesInv'
  BY DocumentStays, FilesTypeStays, PhaseStays, SavedStays, LeaseStays, AutosaveStays,
     PromiseStays, RecoveryStays DEF FilesInv

\* It always holds.
LEMMA FilesCorrect == Spec => []FilesInv
  BY FilesStart, FilesStep, PTL DEF Spec

\* The document, its files and its recovery files are well typed, whatever the saves,
\* autosaves, crashes and write errors (ops/project.rs, ops/persistence.rs).
THEOREM FilesTypeCorrect == Spec => []TypeOK
<1>1. FilesInv => TypeOK
  BY DEF FilesInv, DocumentInv, FilesType, TypeOK, Autosaves, Leases, LoadsMade
<1> QED
  BY <1>1, FilesCorrect, PTL

\* A document that says it has no unsaved work is, between operations, what its file
\* holds or what loading makes of that: the window may close it without asking
\* (load_project_with_migrations, save_project_to_path_impl).
THEOREM CleanIsSaved == Spec => []CleanMeansSaved
<1>1. FilesInv => CleanMeansSaved
  BY DEF FilesInv, SavedInv, Clean, CleanMeansSaved, OpenIsSaved
<1> QED
  BY <1>1, FilesCorrect, PTL

\* However saves and autosaves overlap, those that end leave no recovery file older
\* than the last save: save_count and the check after the write are enough.
THEOREM NoOutdatedRecovery == Spec => []RecoveryNotOutdated
<1>1. FilesInv => RecoveryNotOutdated
  BY DEF FilesInv
<1> QED
  BY <1>1, FilesCorrect, PTL

\* Work an autosave reported as safe is in its recovery copy, as it was reported or gone
\* on with, through any number of crashes, restores and autosaves, until it is saved or
\* given up or its project is gone on with from its file (autosave_project_to_dir,
\* restore_recovery_file, save_project_to_path_impl).
THEOREM ReportedWorkSurvives == Spec => []AutosavedWorkSurvives
<1>1. FilesInv => AutosavedWorkSurvives
  BY DEF FilesInv, PromiseInv
<1> QED
  BY <1>1, FilesCorrect, PTL

\* An import changes the document it was prepared for or none: a lease whose document
\* was left has an epoch that is over, so that import_connected_library_file refuses it.
THEOREM ImportsReachTheirDocument == Spec => ImportHitsItsDocument
<1>1. FilesInv /\ [Next]_vars => [(CommitImport /\ project' # project) => lease.current]_vars
  <2> SUFFICES ASSUME FilesInv, CommitImport, project' # project PROVE lease.current
    OBVIOUS
  <2>1. lease # NoLease /\ LeaseHolds
    BY DEF CommitImport, documentVars
  <2>2. lease \in Leases /\ lease.epoch = epoch /\ epoch \in Nat
    BY <2>1 DEF FilesInv, FilesType, LeaseHolds
  <2>3. lease.current \in BOOLEAN
    BY <2>2 DEF Leases
  <2>4. ~lease.current => lease.epoch < epoch
    BY <2>1 DEF FilesInv, LeaseInv
  <2> QED
    BY <2>2, <2>3, <2>4
<1> QED
  BY <1>1, FilesCorrect, PTL DEF Spec, ImportHitsItsDocument


(***************************************************************************)
(* The timeline, with the files.                                           *)
(***************************************************************************)

\* A save, an autosave, a crash or another document is, for undo and redo, nothing or
\* a new timeline; every other step is one of the history's own.
LEMMA FilesRefineStep ==
  ASSUME FilesInv, [Next]_vars
  PROVE  [Timeline!Next]_(Timeline!line)
<1>1. ASSUME HistoryStep, gate # "save" PROVE [Timeline!Next]_(Timeline!line)
  <2>1. HistoryInv
    BY <1>1 DEF FilesInv, DocumentInv, HistoryInv
  <2> QED
    BY <1>1, <2>1, RefinesStep DEF HistoryNext
<1>2. ASSUME UNCHANGED <<CommittedUndo, Shown(CommittedProject), CommittedRedo>>
      PROVE  UNCHANGED Timeline!line
  BY <1>2 DEF Timeline!line
<1>3. ASSUME gate' = "free", undo_stack' = <<>>, redo_stack' = <<>>
      PROVE  Timeline!Next
  <2>1. CommittedUndo' = <<>> /\ CommittedRedo' = <<>>
    BY <1>3 DEF CommittedUndo, CommittedRedo, InEdit
  <2> QED
    BY <2>1, ShownEmpty DEF Timeline!Next, Timeline!Replace
<1>4. CASE Edit \/ CommitImport
  <2>1. gate # "save"
    BY <1>4, EditEffect
  <2>2. HistoryStep \/ UNCHANGED documentVars
    BY <1>4 DEF Edit, CommitImport, LeaseHolds, HistoryStep, DirectEdit
  <2>3. CASE UNCHANGED documentVars
    <3>1. UNCHANGED <<CommittedUndo, Shown(CommittedProject), CommittedRedo>>
      BY <2>3 DEF documentVars, historyVars, CommittedUndo, CommittedRedo, CommittedProject,
                  InEdit, HasEditSnapshot
    <3> QED
      BY <1>2, <3>1
  <2> QED
    BY <1>1, <2>1, <2>2, <2>3
<1>5. CASE Leaves
  <2>1. gate' = "free" /\ undo_stack' = <<>> /\ redo_stack' = <<>>
    BY <1>5, LeaveEffect
  <2> QED
    BY <1>3, <2>1
<1>6. CASE Aside \/ UNCHANGED vars
  <2>1. UNCHANGED <<project, undo_stack, redo_stack, cleared_redo, edit_start, before, gate>>
    BY <1>6, AsideEffect DEF documentVars, historyVars
  <2>2. UNCHANGED <<CommittedUndo, Shown(CommittedProject), CommittedRedo>>
    BY <2>1 DEF CommittedUndo, CommittedRedo, CommittedProject, InEdit, HasEditSnapshot
  <2> QED
    BY <1>2, <2>2
<1>7. CASE Gates \/ SaveCounts
  <2>1. /\ gate # "edit" /\ gate' # "edit" /\ UNCHANGED <<undo_stack, redo_stack>>
    BY <1>7, SavingEffect DEF Gates, BeginSave, SaveFails, SaveDiscardsSource, SaveCounts,
                              historyVars
  <2>2. Shown(project)' = Shown(project)
    <3>1. CASE Gates
      BY <3>1 DEF Gates, BeginSave, SaveFails, SaveDiscardsSource
    <3>2. CASE SaveCounts
      <4>1. project' = [project EXCEPT !.dirty = FALSE] /\ project \in Project
        BY <3>2, SavingEffect DEF SaveCounts
      <4>2. project' \in Project /\ project'.id = project.id /\ project'.content = project.content
        BY <4>1 DEF Project
      <4>3. project # NoProject /\ project' # NoProject
        BY <4>1, <4>2, Nones
      <4> QED
        BY <4>2, <4>3 DEF Shown
    <3> QED
      BY <1>7, <3>1, <3>2
  <2>3. UNCHANGED <<CommittedUndo, Shown(CommittedProject), CommittedRedo>>
    BY <2>1, <2>2 DEF CommittedUndo, CommittedRedo, CommittedProject, InEdit
  <2> QED
    BY <1>2, <2>3
<1>8. CASE Exit \/ Crash
  <2>1. gate' = "free" /\ undo_stack' = <<>> /\ redo_stack' = <<>>
    BY <1>8, EndEffect
  <2> QED
    BY <1>3, <2>1
<1> QED
  BY <1>4, <1>5, <1>6, <1>7, <1>8, NextIs

\* The whole application keeps the timeline of undo and redo: no save, autosave, import,
\* crash or restored recovery file lets undo or redo reach what the history alone would not.
THEOREM FilesKeepTimeline == Spec => TimelineKept
<1>1. Init => Timeline!Init
  <2> SUFFICES ASSUME Init PROVE Timeline!Init
    OBVIOUS
  <2>1. CommittedUndo = <<>> /\ CommittedRedo = <<>>
    BY CommittedFree DEF Init, HistoryInit
  <2> QED
    BY <2>1, ShownEmpty DEF Timeline!Init
<1> QED
  BY <1>1, FilesRefineStep, FilesCorrect, PTL DEF Spec, TimelineKept, Timeline!Spec

=============================================================================
