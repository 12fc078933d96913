---------------------------- MODULE ProjectFiles ----------------------------
(***************************************************************************)
(* The open document and its files: create, open, close, save and autosave *)
(* (beambench-service/src/ops/project.rs, ops/persistence.rs), the         *)
(* recovery files (beambench-project/src/persistence.rs), the document     *)
(* lease of an import prepared outside the edit lock (ops/imports.rs) and  *)
(* the end of the application (tauri-app/src-tauri/src/main.rs).           *)
(*                                                                         *)
(* A save keeps the edit gate and both document locks from the archive to  *)
(* the removal of the recovery file; an autosave copies the document under *)
(* the gate and writes outside it, so its steps fall between those of any  *)
(* other operation, as does the load of a file or a recovery copy, which   *)
(* waits for the gate only to install what it read.  An archive is written *)
(* to a temporary file and renamed and is one step.  The desktop runs one  *)
(* autosave at a time, and one load.                                       *)
(***************************************************************************)
EXTENDS ProjectHistory

CONSTANTS
  Paths,
  NoPath,
  Migrated,           \* what loading an archive makes of its content
  Retooled,           \* the contents whose tool layers a load changes
  FirstFiles,         \* project files there may be before the first start
  MaxEpoch, MaxSaves, MaxAutosaves, MaxEdits, MaxCrashes, MaxFaults

ASSUME ProjectFilesAssumption ==
  /\ NoPath \notin Paths
  /\ Migrated \in [Storable -> Storable]
  /\ Retooled \subseteq Storable
  /\ FirstFiles \subseteq [id : Ids, content : Storable]
  /\ {MaxEpoch, MaxSaves, MaxAutosaves, MaxEdits, MaxCrashes, MaxFaults} \subseteq Nat

VARIABLES
  path,         \* project_path
  epoch,        \* document_epoch
  save_count,   \* project_save_count
  saving,       \* the save in progress: its step and its path
  autosave,     \* the autosave in progress: its step and what it copied
  lease,        \* an import prepared for one document, or NoLease
  loading,      \* a file or recovery copy read and not installed yet, or NoLoad
  files,        \* the project files
  recovery,     \* the recovery file of each project id
  sidecar,      \* its source record
  app,          \* running, closing, or how it last ended
  \* What the operations have promised; no code reads these.
  promised,     \* the work the last successful autosave of each id reported
  carries,      \* whether the open document was made from that work
  overtaken,    \* whether its file was saved over between its load and its opening
  interrupted,  \* ids whose save or autosave a crash or an error cut short
  dismissed,    \* ids of documents the user saved or chose not to save, and left
  known,        \* ids given out so far
  edits, autosaves, crashes, faults

diskVars == <<files, recovery, sidecar>>
ghostVars == <<promised, carries, overtaken, interrupted, dismissed, known>>
countVars == <<edits, autosaves, crashes, faults>>
filesVars == <<path, epoch, save_count, saving, autosave, lease, loading, diskVars, app,
               ghostVars, countVars>>
vars == <<documentVars, filesVars>>

AnyPath == Paths \cup {NoPath}
Saved == [id : Ids, content : Storable]
NoFile == [id |-> "none"]
Copy == [content : Storable, source : AnyPath, outdated : BOOLEAN, carries : BOOLEAN]
NoCopy == [content |-> "none"]
NotSaving == [step |-> "idle", path |-> NoPath]
NotAutosaving == [step |-> "idle"]
NoLease == [epoch |-> 0]
NoLoad == [id |-> "none"]
\* Work is forgone when the user went on with its project without it.
Work == [content : Contents, forgone : BOOLEAN]
NoWork == [forgone |-> FALSE]

TypeOK ==
  /\ HistoryTypeOK
  /\ path \in AnyPath
  /\ epoch \in 0..MaxEpoch /\ save_count \in 0..MaxSaves
  /\ saving \in [step : {"idle", "write", "count", "discard", "source"}, path : AnyPath]
  /\ \/ autosave = NotAutosaving
     \/ autosave \in [step : {"write", "source", "check", "discard", "discard_source"},
                      id : Ids, content : Contents, saves : 0..MaxSaves,
                      source : AnyPath, outdated : BOOLEAN, carries : BOOLEAN,
                      current : BOOLEAN]
  /\ lease = NoLease \/ lease \in [id : Ids, epoch : 0..MaxEpoch, current : BOOLEAN]
  /\ loading = NoLoad
     \/ loading \in [id : Ids, content : Storable, dirty : BOOLEAN, path : AnyPath,
                     carries : BOOLEAN, overtaken : BOOLEAN]
  /\ files \in [Paths -> Saved \cup {NoFile}]
  /\ recovery \in [Ids -> Copy \cup {NoCopy}]
  /\ sidecar \in [Ids -> AnyPath]
  /\ app \in {"running", "closing", "closed", "crashed"}
  /\ promised \in [Ids -> Work \cup {NoWork}]
  /\ carries \in BOOLEAN /\ overtaken \in BOOLEAN
  /\ {interrupted, dismissed, known} \subseteq SUBSET Ids
  /\ edits \in 0..MaxEdits /\ autosaves \in 0..MaxAutosaves
  /\ crashes \in 0..MaxCrashes /\ faults \in 0..MaxFaults

Init ==
  /\ HistoryInit
  /\ path = NoPath /\ epoch = 0 /\ save_count = 0
  /\ saving = NotSaving /\ autosave = NotAutosaving /\ lease = NoLease /\ loading = NoLoad
  /\ files \in [Paths -> FirstFiles \cup {NoFile}]
  /\ recovery = [id \in Ids |-> NoCopy]
  /\ sidecar = [id \in Ids |-> NoPath]
  /\ app = "running"
  /\ promised = [id \in Ids |-> NoWork] /\ carries = FALSE /\ overtaken = FALSE
  /\ interrupted = {} /\ dismissed = {}
  /\ known = {id \in Ids : \E f \in Paths : files[f] # NoFile /\ files[f].id = id}
  /\ edits = 0 /\ autosaves = 0 /\ crashes = 0 /\ faults = 0

-----------------------------------------------------------------------------
(* Editing. *)

Edit ==
  /\ app = "running"
  /\ HistoryStep
  /\ IF gate = "free" THEN edits < MaxEdits /\ edits' = edits + 1 ELSE UNCHANGED edits
  /\ UNCHANGED <<path, epoch, save_count, saving, autosave, lease, loading, diskVars, app,
                 ghostVars, autosaves, crashes, faults>>

\* connected_library_document_epoch: a download starts for the open document.
TakeLease ==
  /\ app = "running" /\ gate = "free" /\ IsOpen
  /\ lease = NoLease
  /\ lease' = [id |-> project.id, epoch |-> epoch, current |-> TRUE]
  /\ UNCHANGED <<documentVars, path, epoch, save_count, saving, autosave, loading, diskVars,
                 app, ghostVars, countVars>>

LeaseHolds == IsOpen /\ project.id = lease.id /\ epoch = lease.epoch

\* import_connected_library_file; a lease that fails is [stale_document].
CommitImport ==
  /\ app = "running" /\ gate = "free"
  /\ lease # NoLease
  /\ edits < MaxEdits /\ edits' = edits + 1
  /\ lease' = NoLease
  /\ IF LeaseHolds
     THEN \E content \in Storable : RecordChange(content)
     ELSE UNCHANGED documentVars
  /\ UNCHANGED <<path, epoch, save_count, saving, autosave, loading, diskVars, app,
                 ghostVars, autosaves, crashes, faults>>

-----------------------------------------------------------------------------
(* Another document. *)

Autosaving(id) == autosave # NotAutosaving /\ autosave.id = id

\* What leaves the document behind leaves these behind it; no code reads it.
Outlived(l) == IF l = NoLease THEN l ELSE [l EXCEPT !.current = FALSE]
LeftBehind(a) == IF a = NotAutosaving THEN a ELSE [a EXCEPT !.current = FALSE]

CurrentId == IF IsOpen THEN {project.id} ELSE {}

\* The recovery copy of id holds the reported work, or later work made from it.
Holds(id) ==
  /\ promised[id] # NoWork /\ recovery[id] # NoCopy /\ ~recovery[id].outdated
  /\ recovery[id].content = promised[id].content \/ recovery[id].carries

Forgone(id) == IF promised[id] = NoWork THEN promised
               ELSE [promised EXCEPT ![id].forgone = TRUE]

\* Saving or closing decides about reported work only in a document that carries it.
Settled(id) == IF carries THEN [promised EXCEPT ![id] = NoWork] ELSE Forgone(id)

\* Mutated: another document keeps the epoch of the one it replaces.
BugReplaceSameEpoch(p, f, kept) ==
  /\ app = "running"
  /\ Install(p)
  /\ epoch = 0 /\ epoch' = epoch
  /\ path' = f
  /\ lease' = Outlived(lease) /\ autosave' = LeftBehind(autosave)
  /\ carries' = kept
  /\ UNCHANGED <<save_count, saving, diskVars, app, promised, interrupted, dismissed,
                 countVars>>

\* The user has saved the document that is left, or does not want its work.
Replace(p, f, kept) ==
  /\ app = "running"
  /\ Install(p)
  /\ epoch < MaxEpoch /\ epoch' = epoch + 1
  /\ path' = f
  /\ lease' = Outlived(lease) /\ autosave' = LeftBehind(autosave)
  /\ carries' = kept
  /\ promised' = IF IsOpen /\ carries /\ ~(kept /\ p.id = project.id)
                 THEN [promised EXCEPT ![project.id] = NoWork] ELSE promised
  /\ dismissed' = (dismissed \cup CurrentId) \ {p.id}
  /\ UNCHANGED <<save_count, saving, diskVars, app, interrupted, countVars>>

CreateProject ==
  \E id \in Ids, content \in Storable :
    /\ id \notin known /\ known' = known \cup {id}
    /\ Replace([id |-> id, content |-> content, dirty |-> FALSE], NoPath, FALSE)
    /\ overtaken' = FALSE
    /\ UNCHANGED loading

CloseProject ==
  /\ IsOpen /\ Replace(NoProject, NoPath, FALSE)
  /\ overtaken' = FALSE
  /\ UNCHANGED <<loading, known>>

Loads(p) ==
  /\ app = "running" /\ loading = NoLoad
  /\ loading' = p
  /\ UNCHANGED <<documentVars, path, epoch, save_count, saving, autosave, lease, sidecar,
                 files, app, ghostVars, countVars>>

\* load_project_with_migrations: of what it changes, only tool layers mark the project.
OpenLoads ==
  \E f \in Paths :
    /\ files[f] # NoFile
    /\ Loads([id |-> files[f].id, content |-> Migrated[files[f].content],
              dirty |-> files[f].content \in Retooled, path |-> f,
              carries |-> FALSE, overtaken |-> FALSE])
    /\ UNCHANGED recovery

\* The document goes back to the file it came from.
RestoredFrom(id) ==
  [id |-> id, content |-> Migrated[recovery[id].content], dirty |-> TRUE,
   path |-> IF sidecar[id] # NoPath /\ files[sidecar[id]] # NoFile
            THEN sidecar[id] ELSE NoPath,
   carries |-> Holds(id), overtaken |-> FALSE]

\* Mutated: the recovery file is removed once it has been read.
BugRestoreDiscards ==
  \E id \in Ids :
    /\ recovery[id] # NoCopy
    /\ Loads(RestoredFrom(id))
    /\ recovery' = [recovery EXCEPT ![id] = NoCopy]

RestoreLoads ==
  \E id \in Ids :
    /\ recovery[id] # NoCopy
    /\ Loads(RestoredFrom(id))
    /\ UNCHANGED recovery

\* open_project_from_path and restore_recovery_file, once they hold the gate.
InstallLoaded ==
  /\ loading # NoLoad
  /\ Replace([id |-> loading.id, content |-> loading.content, dirty |-> loading.dirty],
             loading.path, loading.carries)
  /\ overtaken' = loading.overtaken
  /\ loading' = NoLoad
  /\ UNCHANGED known

\* discard_recovery_file: the user does not want this work, open or not.
DiscardRecovery ==
  \E id \in Ids :
    /\ app = "running"
    /\ recovery[id] # NoCopy
    /\ recovery' = [recovery EXCEPT ![id] = NoCopy]
    /\ sidecar' = [sidecar EXCEPT ![id] = NoPath]
    /\ promised' = [promised EXCEPT ![id] = NoWork]
    /\ autosave' = IF Autosaving(id) THEN LeftBehind(autosave) ELSE autosave
    /\ interrupted' = interrupted \ {id}
    /\ UNCHANGED <<documentVars, path, epoch, save_count, saving, lease, loading, files, app,
                   carries, overtaken, dismissed, known, countVars>>

-----------------------------------------------------------------------------
(* Saving: save_project_to_path_impl. *)

BeginSave ==
  \E f \in Paths :
    /\ app = "running" /\ gate = "free" /\ IsOpen
    /\ save_count < MaxSaves
    /\ gate' = "save"
    /\ saving' = [step |-> "write", path |-> f]
    /\ UNCHANGED <<project, historyVars, path, epoch, save_count, autosave, lease, loading,
                   diskVars, app, ghostVars, countVars>>

\* Every copy of this project taken until now is older than its file.
SaveWrites ==
  /\ saving.step = "write" /\ project.content \in Storable
  /\ files' = [files EXCEPT ![saving.path] = [id |-> project.id, content |-> project.content]]
  /\ saving' = [saving EXCEPT !.step = "count"]
  /\ recovery' = IF recovery[project.id] = NoCopy THEN recovery
                 ELSE [recovery EXCEPT ![project.id].outdated = TRUE]
  /\ autosave' = IF Autosaving(project.id)
                 THEN [autosave EXCEPT !.outdated = TRUE] ELSE autosave
  /\ loading' = IF loading # NoLoad /\ loading.path = saving.path
                THEN [loading EXCEPT !.overtaken = TRUE] ELSE loading
  /\ promised' = Settled(project.id)
  /\ UNCHANGED <<documentVars, path, epoch, save_count, lease, sidecar, app, carries,
                 overtaken, interrupted, dismissed, known, countVars>>

SaveFails ==
  /\ saving.step = "write"
  /\ \/ project.content \notin Storable /\ UNCHANGED faults
     \/ faults < MaxFaults /\ faults' = faults + 1
  /\ saving' = NotSaving
  /\ gate' = "free"
  /\ UNCHANGED <<project, historyVars, path, epoch, save_count, autosave, lease, loading,
                 diskVars, app, ghostVars, edits, autosaves, crashes>>

SaveCounts ==
  /\ saving.step = "count"
  /\ path' = saving.path
  /\ project' = [project EXCEPT !.dirty = FALSE]
  /\ save_count' = save_count + 1
  /\ saving' = [saving EXCEPT !.step = "discard"]
  /\ overtaken' = FALSE
  /\ UNCHANGED <<historyVars, gate, epoch, autosave, lease, loading, diskVars, app, promised,
                 carries, interrupted, dismissed, known, countVars>>

SaveDiscards ==
  /\ saving.step = "discard"
  /\ recovery' = [recovery EXCEPT ![project.id] = NoCopy]
  /\ saving' = [saving EXCEPT !.step = "source"]
  /\ interrupted' = interrupted \ {project.id}
  /\ UNCHANGED <<documentVars, path, epoch, save_count, autosave, lease, loading, files,
                 sidecar, app, promised, carries, overtaken, dismissed, known, countVars>>

SaveDiscardsSource ==
  /\ saving.step = "source"
  /\ sidecar' = [sidecar EXCEPT ![project.id] = NoPath]
  /\ saving' = NotSaving
  /\ gate' = "free"
  /\ UNCHANGED <<project, historyVars, path, epoch, save_count, autosave, lease, loading,
                 files, recovery, app, ghostVars, countVars>>

-----------------------------------------------------------------------------
(* Autosaving: autosave_project_to_dir. *)

\* The window's dirty flag may trail the service's: a clean document is copied too.  A
\* document opened from its file is one the user went on with without reported work.
BeginAutosave ==
  /\ app = "running" /\ gate = "free" /\ IsOpen
  /\ autosave = NotAutosaving
  /\ autosaves < MaxAutosaves /\ autosaves' = autosaves + 1
  /\ autosave' = [step |-> "write", id |-> project.id, content |-> project.content,
                  saves |-> save_count, source |-> path, outdated |-> FALSE,
                  carries |-> carries, current |-> TRUE]
  /\ promised' = IF carries THEN promised ELSE Forgone(project.id)
  /\ UNCHANGED <<documentVars, path, epoch, save_count, saving, lease, loading, diskVars, app,
                 carries, overtaken, interrupted, dismissed, known, edits, crashes, faults>>

AutosaveWrites ==
  /\ autosave.step = "write" /\ autosave.content \in Storable
  /\ recovery' = [recovery EXCEPT ![autosave.id] =
                    [content |-> autosave.content, source |-> autosave.source,
                     outdated |-> autosave.outdated, carries |-> autosave.carries]]
  /\ autosave' = [autosave EXCEPT !.step = "source"]
  /\ UNCHANGED <<documentVars, path, epoch, save_count, saving, lease, loading, files,
                 sidecar, app, ghostVars, countVars>>

AutosaveWritesSource ==
  /\ autosave.step = "source"
  /\ sidecar' = [sidecar EXCEPT ![autosave.id] = autosave.source]
  /\ autosave' = [autosave EXCEPT !.step = "check"]
  /\ UNCHANGED <<documentVars, path, epoch, save_count, saving, lease, loading, files,
                 recovery, app, ghostVars, countVars>>

\* Either write may fail; the autosave ends there, before its check.
AutosaveFails ==
  /\ autosave.step \in {"write", "source"}
  /\ \/ autosave.content \notin Storable /\ UNCHANGED faults
     \/ faults < MaxFaults /\ faults' = faults + 1
  /\ interrupted' = interrupted \cup {autosave.id}
  /\ autosave' = NotAutosaving
  /\ UNCHANGED <<documentVars, path, epoch, save_count, saving, lease, loading, diskVars, app,
                 promised, carries, overtaken, dismissed, known, edits, autosaves, crashes>>

\* Mutated: a save that overtook the autosave is not noticed.
BugAutosaveUnchecked ==
  /\ autosave.step = "check"
  /\ autosave' = NotAutosaving
  /\ UNCHANGED <<documentVars, path, epoch, save_count, saving, lease, loading, diskVars, app,
                 ghostVars, countVars>>

\* Success is a promise to the document that is still open; what was read before is
\* older work.
Reports ==
  /\ promised' = [promised EXCEPT ![autosave.id] = [content |-> autosave.content,
                                                    forgone |-> FALSE]]
  /\ carries' = TRUE
  /\ loading' = IF loading # NoLoad /\ loading.id = autosave.id
                THEN [loading EXCEPT !.carries = FALSE] ELSE loading

AutosaveChecks ==
  /\ autosave.step = "check"
  /\ autosave' = IF save_count # autosave.saves THEN [autosave EXCEPT !.step = "discard"]
                 ELSE NotAutosaving
  /\ IF /\ save_count = autosave.saves /\ ~autosave.outdated
        /\ autosave.current /\ app = "running"
     THEN Reports
     ELSE UNCHANGED <<promised, carries, loading>>
  /\ UNCHANGED <<documentVars, path, epoch, save_count, saving, lease, diskVars, app,
                 overtaken, interrupted, dismissed, known, countVars>>

AutosaveDiscards ==
  /\ autosave.step = "discard"
  /\ recovery' = [recovery EXCEPT ![autosave.id] = NoCopy]
  /\ autosave' = [autosave EXCEPT !.step = "discard_source"]
  /\ UNCHANGED <<documentVars, path, epoch, save_count, saving, lease, loading, files,
                 sidecar, app, ghostVars, countVars>>

AutosaveDiscardsSource ==
  /\ autosave.step = "discard_source"
  /\ sidecar' = [sidecar EXCEPT ![autosave.id] = NoPath]
  /\ autosave' = NotAutosaving
  /\ UNCHANGED <<documentVars, path, epoch, save_count, saving, lease, loading, files,
                 recovery, app, ghostVars, countVars>>

-----------------------------------------------------------------------------
(* The application ends and starts again. *)

\* The accepted CloseRequested: discard_current_project_recovery.
CloseApp ==
  /\ app = "running" /\ gate = "free"
  /\ app' = "closing"
  /\ recovery' = [id \in Ids |-> IF id \in CurrentId THEN NoCopy ELSE recovery[id]]
  /\ sidecar' = [id \in Ids |-> IF id \in CurrentId THEN NoPath ELSE sidecar[id]]
  /\ promised' = IF IsOpen THEN Settled(project.id) ELSE promised
  /\ dismissed' = dismissed \cup CurrentId
  /\ UNCHANGED <<documentVars, path, epoch, save_count, saving, autosave, lease, loading,
                 files, carries, overtaken, interrupted, known, countVars>>

\* What the process held in memory is gone.
Ends(how) ==
  /\ app' = how
  /\ project' = NoProject
  /\ undo_stack' = <<>> /\ redo_stack' = <<>> /\ cleared_redo' = <<>>
  /\ edit_start' = NoEdit /\ before' = NoProject /\ gate' = "free"
  /\ path' = NoPath /\ epoch' = 0 /\ save_count' = 0
  /\ saving' = NotSaving /\ autosave' = NotAutosaving /\ lease' = NoLease /\ loading' = NoLoad
  /\ carries' = FALSE /\ overtaken' = FALSE
  /\ interrupted' = interrupted
       \cup (IF saving.step = "idle" THEN {} ELSE {project.id})
       \cup (IF autosave.step = "idle" THEN {} ELSE {autosave.id})
  /\ UNCHANGED <<files, promised, dismissed, known>>

Exit ==
  /\ app = "closing"
  /\ Ends("closed")
  /\ UNCHANGED <<recovery, sidecar, countVars>>

\* A source record cut short while it is written names no file.
Crash ==
  /\ app \in {"running", "closing"}
  /\ crashes < MaxCrashes /\ crashes' = crashes + 1
  /\ Ends("crashed")
  /\ \/ UNCHANGED sidecar
     \/ /\ autosave.step = "source"
        /\ sidecar' = [sidecar EXCEPT ![autosave.id] = NoPath]
  /\ UNCHANGED <<recovery, edits, autosaves, faults>>

Start ==
  /\ app \in {"closed", "crashed"}
  /\ app' = "running"
  /\ UNCHANGED <<documentVars, path, epoch, save_count, saving, autosave, lease, loading,
                 diskVars, ghostVars, countVars>>

-----------------------------------------------------------------------------

DocumentStep ==
  \/ Edit
  \/ TakeLease
  \/ CommitImport
  \/ CreateProject
  \/ CloseProject
  \/ OpenLoads
  \/ RestoreLoads
  \/ InstallLoaded
  \/ DiscardRecovery

SaveStep ==
  \/ BeginSave
  \/ SaveWrites
  \/ SaveFails
  \/ SaveCounts
  \/ SaveDiscards
  \/ SaveDiscardsSource

AutosaveStep ==
  \/ BeginAutosave
  \/ AutosaveWrites
  \/ AutosaveWritesSource
  \/ AutosaveFails
  \/ AutosaveChecks
  \/ AutosaveDiscards
  \/ AutosaveDiscardsSource

AppStep == CloseApp \/ Exit \/ Crash \/ Start

Next == DocumentStep \/ SaveStep \/ AutosaveStep \/ AppStep

Spec == Init /\ [][Next]_vars

-----------------------------------------------------------------------------
(* Correctness. *)

\* File f holds project p, as it was saved or with what loading it changed.
SavedIn(f, p) ==
  /\ files[f] # NoFile /\ files[f].id = p.id
  /\ p.content \in {files[f].content, Migrated[files[f].content]}

OpenIsSaved == (IsOpen /\ ~project.dirty /\ path # NoPath /\ gate = "free") =>
                 SavedIn(path, project)

\* A project that has a file and says it has no unsaved work is, between operations, what
\* that file holds or what opening it makes of that: the window closes it without asking.
\* Excepted is one whose file was saved over while it was being opened.
CleanMeansSaved == overtaken \/ OpenIsSaved

\* A recovery file older than the project's last save is left by no save and no
\* autosave that ended, however the two overlapped: only by one cut short.
RecoveryNotOutdated ==
  \A id \in Ids :
    (recovery[id] # NoCopy /\ recovery[id].outdated) =>
      \/ id \in interrupted
      \/ saving.step \in {"count", "discard"} /\ project.id = id
      \/ Autosaving(id)

\* Work an autosave reported as safe is in the recovery copy of its project, as it was
\* reported or gone on with, until it is saved or given up: through a crash, and through a
\* second crash after it was restored.  Only going on with the same project from its file
\* (the next autosave, save or close of it) ends that without the user's word.
AutosavedWorkSurvives ==
  \A id \in Ids : promised[id] # NoWork => promised[id].forgone \/ Holds(id)

\* The same with no exception: no copy of a crash is replaced by other work.
ReportedWorkStays == \A id \in Ids : promised[id] # NoWork => Holds(id)

\* An import lands in the document it was prepared for, never in another one
\* opened while it was downloaded, not even from the same project.
ImportHitsItsDocument ==
  [][(CommitImport /\ project' # project) => lease.current]_vars

\* After a close the user asked for, nothing is offered for recovery but the
\* work of earlier crashes.
CloseOffersNothing ==
  app = "closed" => \A id \in dismissed : recovery[id] = NoCopy

\* A recovery file is restored to the project file its work came from, not to
\* one an earlier copy of the same project came from.
RestoreGoesHome ==
  \A id \in Ids :
    (recovery[id] # NoCopy /\ sidecar[id] # NoPath /\ ~Autosaving(id)) =>
      sidecar[id] = recovery[id].source
=============================================================================
