--------------------------- MODULE ProjectHistory ---------------------------
(***************************************************************************)
(* Undo and redo of the open document: ProjectHistory                      *)
(* (beambench-service/src/history.rs), ServiceContext::atomic_edit         *)
(* (context.rs) and the operations that undo, redo or replace the          *)
(* document (ops/project.rs).                                              *)
(*                                                                         *)
(* An atomic edit holds project_edit_gate from its first step to its       *)
(* commit or rollback, and may record several snapshots and fail between   *)
(* them.  A project is its identity, its dirty flag and a content drawn    *)
(* from a small set; snapshots are whole projects, dirty flag included.    *)
(***************************************************************************)
EXTENDS Integers, Sequences, Functions

CONSTANTS
  Ids,                \* project ids
  Contents,
  Storable,           \* the contents without a non-finite number
  Bytes,              \* approximate_snapshot_bytes of each content
  MAX_HISTORY_DEPTH,
  MAX_HISTORY_BYTES,
  MaxSnapshots        \* snapshots one edit records

ASSUME ProjectHistoryAssumption ==
  /\ Storable \subseteq Contents
  /\ Bytes \in [Contents -> Nat]
  /\ MAX_HISTORY_DEPTH \in Nat \ {0}
  /\ MAX_HISTORY_BYTES \in Nat
  /\ MaxSnapshots \in Nat

VARIABLES
  project,       \* the open project, or NoProject
  undo_stack, redo_stack,
  cleared_redo,  \* redo entries taken by the edit in progress
  edit_start,    \* undo depth when that edit began, or NoEdit
  before,        \* the project when it began
  gate           \* who holds project_edit_gate

historyVars == <<undo_stack, redo_stack, cleared_redo, edit_start, before>>
documentVars == <<project, historyVars, gate>>

Project == [id : Ids, content : Contents, dirty : BOOLEAN]
NoProject == [id |-> "none"]
NoEdit == -1

HistoryTypeOK ==
  /\ project \in Project \cup {NoProject}
  /\ undo_stack \in Seq(Project)
  /\ redo_stack \in Seq(Project)
  /\ cleared_redo \in Seq(Project)
  /\ edit_start \in Nat \cup {NoEdit}
  /\ before \in Project \cup {NoProject}
  /\ gate \in {"free", "edit", "save"}

HistoryInit ==
  /\ project = NoProject
  /\ undo_stack = <<>> /\ redo_stack = <<>> /\ cleared_redo = <<>>
  /\ edit_start = NoEdit
  /\ before = NoProject
  /\ gate = "free"

-----------------------------------------------------------------------------

IsOpen == project # NoProject
Front(s) == SubSeq(s, 1, Len(s) - 1)
Last(s) == s[Len(s)]

Retained(stack) == SumFunction([i \in DOMAIN stack |-> Bytes[stack[i].content]])

Fits(stack) ==
  /\ Len(stack) <= MAX_HISTORY_DEPTH
  /\ Len(stack) > 1 => Retained(stack) <= MAX_HISTORY_BYTES

Newest(stack, k) == SubSeq(stack, k, Len(stack))

\* The oldest entries go until the rest fits; one is kept whatever its size.
enforce_limits(stack) ==
  Newest(stack, CHOOSE k \in 1..(Len(stack) + 1) :
                  /\ Fits(Newest(stack, k))
                  /\ \A j \in 1..(k - 1) : ~Fits(Newest(stack, j)))

HasEditSnapshot == edit_start # NoEdit /\ Len(undo_stack) > edit_start

Changed(content) == [project EXCEPT !.content = content, !.dirty = TRUE]

-----------------------------------------------------------------------------
(* An atomic edit. *)

BeginEdit ==
  /\ gate = "free" /\ IsOpen
  /\ gate' = "edit"
  /\ before' = project
  /\ edit_start' = Len(undo_stack)
  /\ cleared_redo' = <<>>
  /\ UNCHANGED <<project, undo_stack, redo_stack>>

PushSnapshot ==
  /\ gate = "edit"
  /\ Len(undo_stack) - edit_start < MaxSnapshots
  /\ IF edit_start = Len(undo_stack)
     THEN cleared_redo' = redo_stack /\ redo_stack' = <<>>
     ELSE UNCHANGED <<cleared_redo, redo_stack>>
  /\ undo_stack' = Append(undo_stack, project)
  /\ UNCHANGED <<project, edit_start, before, gate>>

\* An edit records a snapshot before it first changes the project.
EditChanges ==
  /\ gate = "edit" /\ HasEditSnapshot
  /\ \E content \in Contents : project' = Changed(content)
  /\ UNCHANGED <<historyVars, gate>>

Acceptable == HasEditSnapshot => project.content \in Storable

\* Mutated: the limits, which push_snapshot leaves to the commit, are not enforced.
BugCommitUnlimited ==
  /\ gate = "edit" /\ Acceptable
  /\ undo_stack' = IF HasEditSnapshot
                   THEN Append(SubSeq(undo_stack, 1, edit_start), before)
                   ELSE undo_stack
  /\ cleared_redo' = <<>> /\ edit_start' = NoEdit /\ before' = NoProject
  /\ gate' = "free"
  /\ UNCHANGED <<project, redo_stack>>

CommitEdit ==
  /\ gate = "edit" /\ Acceptable
  /\ undo_stack' =
       enforce_limits(IF HasEditSnapshot
                      THEN Append(SubSeq(undo_stack, 1, edit_start), before)
                      ELSE undo_stack)
  /\ cleared_redo' = <<>>
  /\ edit_start' = NoEdit
  /\ before' = NoProject
  /\ gate' = "free"
  /\ UNCHANGED <<project, redo_stack>>

\* Mutated: the redo entries the edit took are not given back.
BugRollbackForgetsRedo ==
  /\ gate = "edit"
  /\ project' = before
  /\ undo_stack' = SubSeq(undo_stack, 1, edit_start)
  /\ cleared_redo' = <<>> /\ edit_start' = NoEdit /\ before' = NoProject
  /\ gate' = "free"
  /\ UNCHANGED redo_stack

\* An error, a panic, or a project that could not be stored.
RollbackEdit ==
  /\ gate = "edit"
  /\ project' = before
  /\ IF HasEditSnapshot
     THEN /\ undo_stack' = SubSeq(undo_stack, 1, edit_start)
          /\ redo_stack' = cleared_redo
          /\ cleared_redo' = <<>>
     ELSE UNCHANGED <<undo_stack, redo_stack, cleared_redo>>
  /\ edit_start' = NoEdit
  /\ before' = NoProject
  /\ gate' = "free"

-----------------------------------------------------------------------------
(* Operations that hold the gate for one step. *)

\* push_snapshot outside an edit, and the change it precedes.
RecordChange(content) ==
  /\ project' = Changed(content)
  /\ undo_stack' = enforce_limits(Append(undo_stack, project))
  /\ redo_stack' = <<>>
  /\ UNCHANGED <<cleared_redo, edit_start, before, gate>>

DirectEdit ==
  /\ gate = "free" /\ IsOpen
  /\ \E content \in Storable : RecordChange(content)

\* Mutated: a change that records nothing does not mark the project either.
BugAmendUnmarked ==
  /\ gate = "free" /\ IsOpen
  /\ \E content \in Storable : project' = [project EXCEPT !.content = content]
  /\ UNCHANGED <<historyVars, gate>>

\* A machine profile or an added asset changes the project and records nothing.
AmendProject ==
  /\ gate = "free" /\ IsOpen
  /\ \E content \in Storable : project' = Changed(content)
  /\ UNCHANGED <<historyVars, gate>>

UndoProject ==
  /\ gate = "free" /\ IsOpen
  /\ undo_stack # <<>>
  /\ project' = [Last(undo_stack) EXCEPT !.dirty = TRUE]
  /\ undo_stack' = Front(undo_stack)
  /\ redo_stack' = Append(redo_stack, project)
  /\ UNCHANGED <<cleared_redo, edit_start, before, gate>>

RedoProject ==
  /\ gate = "free" /\ IsOpen
  /\ redo_stack # <<>>
  /\ project' = [Last(redo_stack) EXCEPT !.dirty = TRUE]
  /\ redo_stack' = Front(redo_stack)
  /\ undo_stack' = Append(undo_stack, project)
  /\ UNCHANGED <<cleared_redo, edit_start, before, gate>>

\* clear_project_history, with every way to replace or close the document.
Install(p) ==
  /\ gate = "free"
  /\ project' = p
  /\ undo_stack' = <<>> /\ redo_stack' = <<>> /\ cleared_redo' = <<>>
  /\ edit_start' = NoEdit
  /\ UNCHANGED <<before, gate>>

ReplaceProject ==
  \/ Install(NoProject)
  \/ \E id \in Ids, content \in Storable, dirty \in BOOLEAN :
       Install([id |-> id, content |-> content, dirty |-> dirty])

HistoryStep ==
  \/ BeginEdit
  \/ PushSnapshot
  \/ EditChanges
  \/ CommitEdit
  \/ RollbackEdit
  \/ DirectEdit
  \/ AmendProject
  \/ UndoProject
  \/ RedoProject

HistoryNext == HistoryStep \/ ReplaceProject

HistorySpec == HistoryInit /\ [][HistoryNext]_documentVars

-----------------------------------------------------------------------------
(* Correctness. *)

\* What undo and redo would do if the edit in progress failed now.
InEdit == gate = "edit"
CommittedUndo == IF InEdit THEN SubSeq(undo_stack, 1, edit_start) ELSE undo_stack
CommittedRedo ==
  IF InEdit /\ HasEditSnapshot THEN cleared_redo ELSE redo_stack
CommittedProject == IF InEdit THEN before ELSE project

\* The dirty flag is not part of what undo returns to: undo always sets it.
Shown(p) == IF p = NoProject THEN p ELSE <<p.id, p.content>>
ShownAll(stack) == [i \in DOMAIN stack |-> Shown(stack[i])]

Timeline == INSTANCE DocumentTimeline WITH
  past <- ShownAll(CommittedUndo),
  present <- Shown(CommittedProject),
  future <- ShownAll(CommittedRedo)

\* The document and its history move as the timeline allows: an edit that fails
\* after any number of snapshots leaves undo and redo as they were, one that
\* succeeds is a single undo step, whatever it recorded on the way.
TimelineKept == Timeline!Spec

\* Undo and redo together never hold more than MAX_HISTORY_DEPTH documents
\* between edits, though redo refills the undo stack without a limit of its own.
DepthKept == gate # "edit" => Len(undo_stack) + Len(redo_stack) <= MAX_HISTORY_DEPTH

\* Nothing undo or redo can bring back holds a number a project file cannot
\* store, even when an edit passed through such a state and recorded it.
HistoryStorable ==
  gate # "edit" =>
    /\ IsOpen => project.content \in Storable
    /\ \A i \in DOMAIN undo_stack : undo_stack[i].content \in Storable
    /\ \A i \in DOMAIN redo_stack : redo_stack[i].content \in Storable
=============================================================================
