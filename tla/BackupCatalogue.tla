-------------------------- MODULE BackupCatalogue --------------------------
(***************************************************************************)
(* The catalogue of saved images, BackupManager of backup_manager.py:      *)
(* images under backups/, the index of their records (notes, source and    *)
(* identity: provenance no image can give back), a pending record for each *)
(* image being added, and the plan of the one-time migration of legacy     *)
(* folder labels to real folders.                                          *)
(*                                                                         *)
(* The GUI runs one catalogue operation at a time (_task_busy), so the     *)
(* interleavings that matter are with crashes, failed writes and others    *)
(* who change the folder behind the program (Explorer, a sync client).     *)
(* A write of index, pending record or plan replaces the file in one       *)
(* rename.  Images are told apart by content only; a record is told apart  *)
(* by an id, 0 for one that refresh describes from a file it found.  One   *)
(* level of folders stands for all; every legacy record has the label of   *)
(* one folder; what the notes say is left out, that they are saved is not. *)
(***************************************************************************)
EXTENDS Integers, FiniteSets

CONSTANTS Contents,      \* contents of images
          Root,          \* backups/ itself, the folder "Unfiled"
          Folders,       \* folders below it
          LegacyFolder,  \* the folder every legacy record is labelled with
          Names,         \* file names within a folder
          NoImage,       \* nothing at a path
          Systems,       \* the file systems to run on: "nt", "posix"
          Installs,      \* numbers of legacy records to start with
          MaxImages,     \* bound: records made by legacy use and by add_data
          MaxFaults,     \* bound: failed writes, moves, removals and scans, crashes,
                         \* and changes made by others ...
          MaxOutside,    \* ... of which at most so many
          MaxFolders     \* bound: folders that exist at a time

ASSUME CatalogueAssumption ==
    /\ NoImage \notin Contents /\ Root \notin Folders /\ LegacyFolder \in Folders
    /\ IsFiniteSet(Folders) /\ IsFiniteSet(Names)
    /\ Systems \subseteq {"nt", "posix"} /\ Installs \subseteq 0 .. MaxImages
    /\ MaxImages \in Nat /\ MaxFaults \in Nat /\ MaxOutside \in Nat /\ MaxFolders \in Nat
    /\ MaxImages <= Cardinality(Names)

VARIABLES files,    \* the image at each path
          dirs,     \* folders that exist
          index,    \* index.json: its records ...
          legacy,   \* ... and whether it has the legacy form
          pending,  \* records in .pending/
          plan,     \* .folder-migration.json
          mem,      \* the BackupManager of the running program
          pc, op,   \* the operation under way
          system,   \* os.name
          owed,     \* history: ids of the records of published images
          stale,    \* history: files changed and not scanned since
          images, faults, outside   \* counters for the bounds

disk == <<files, dirs, index, legacy, pending, plan>>
history == <<owed, stale, images, outside, system>>
vars == <<disk, mem, pc, op, history, faults>>

Paths == [folder : Folders \cup {Root}, name : Names]
Entries == [id : 0 .. MaxImages, path : Paths, content : Contents]
NoPlan == [entries |-> {}, moves |-> {}, none |-> TRUE]

NoMemory == [entries |-> {}, missing |-> {}, records |-> {}, legacy |-> FALSE, dirty |-> FALSE]
NoOp == [kind |-> "none", from |-> Root, to |-> Root, folder |-> Root, todo |-> {}, drop |-> {},
         next |-> "idle", undo |-> FALSE]
Pcs == {"off", "refused", "migrate", "moving", "drop", "refresh", "idle", "publish",
        "clear", "save", "unlink", "undo"}

At(p, e) == [e EXCEPT !.path = p]
Present(p) == files[p] # NoImage
Occupied == {p \in Paths : Present(p)}

\* Mutant: the disk is not looked at.
FreeOfRecords(f) == {p \in Paths : p.folder = f /\ \A r \in mem.records : r.path # p}

\* _unique_name: a free path in folder f.  Which one it is, the wanted name or
\* one with a time stamp and a number, makes no difference here.
Free(f) == {p \in Paths : /\ p.folder = f
                          /\ ~Present(p)
                          /\ \A r \in mem.records : r.path # p}

\* os.makedirs of a folder an image goes to.
MakeFolder(f) ==
    /\ dirs' = dirs \cup ({f} \ {Root})
    /\ Cardinality(dirs') <= MaxFolders

Fault == faults < MaxFaults /\ faults' = faults + 1
NoFault == UNCHANGED faults

\* _move_file: on Windows one rename, elsewhere a link and then the removal of
\* the source, of which the second may fail or never happen (half).
Moved(from, to) == [files EXCEPT ![to] = files[from], ![from] = NoImage]
HalfMoved(from, to) == [files EXCEPT ![to] = files[from]]

Return == pc' = "idle" /\ op' = NoOp
Stop == pc' = "off" /\ op' = NoOp /\ mem' = NoMemory
Continue(o) == pc' = o.next /\ op' = IF o.next = "idle" THEN NoOp ELSE o
SaveThen(o) == pc' = "save" /\ op' = o
---------------------------------------------------------------------------
(* Starting: load the index, recover pending records, migrate, refresh.    *)

IndexedAt(p) == {e \in index : e.path = p}

\* _recover_pending: a pending record whose image is there must match it, and
\* must match the one record the index has of that path, if it has any.
Conflicts(r) ==
    /\ Present(r.path)
    /\ \/ files[r.path] # r.content
       \/ /\ IndexedAt(r.path) # {}
          /\ ~ \E e \in index : IndexedAt(r.path) = {e} /\ e.content = r.content

Recovered == {r \in pending : Present(r.path) /\ IndexedAt(r.path) = {}}
\* The pending records whose ids the index does not have.
Unindexed == {r \in pending : \A i \in index : i.id # r.id}
Ids(records) == {r.id : r \in records}
\* Whoever moves, replaces or deletes an image only .pending describes takes its
\* provenance: at its next start the program finds nothing or a stranger there.
Detached == Ids({r \in Unindexed : files'[r.path] # files[r.path]})

Start ==
    /\ pc = "off"
    /\ \A r \in pending : ~Conflicts(r)
    /\ mem' = [entries |-> index \cup Recovered, missing |-> {}, records |-> pending,
               legacy |-> legacy, dirty |-> FALSE]
    /\ LET o == [NoOp EXCEPT !.kind = "start", !.next = "migrate"]
       IN IF pending = {} THEN Continue(o) ELSE SaveThen(o)
    \* A pending record gives way to one of the same bytes at the same path.
    /\ owed' = owed \ Ids({r \in Unindexed : IndexedAt(r.path) # {}})
    /\ UNCHANGED <<disk, stale, images, outside, system, faults>>

RefuseToStart ==
    /\ pc = "off"
    /\ \E r \in pending : Conflicts(r)
    /\ pc' = "refused"
    /\ UNCHANGED <<disk, mem, op, history, faults>>

\* _migrate_folders: plan the move of every image to the folder of its label.
ToMove == {e \in mem.entries : e.path.folder = Root /\ Present(e.path)}
WritePlan ==
    /\ pc = "migrate" /\ mem.legacy /\ plan = NoPlan
    /\ \A e \in ToMove : files[e.path] = e.content
    /\ \E to \in [ToMove -> Free(LegacyFolder)] :
          /\ \A d, e \in ToMove : to[d] = to[e] => d = e
          /\ plan' = [entries |-> {IF e \in ToMove THEN At(to[e], e) ELSE e : e \in mem.entries},
                      moves |-> {[from |-> e.path, to |-> to[e], content |-> e.content] : e \in ToMove},
                      none |-> FALSE]
    /\ UNCHANGED <<files, dirs, index, legacy, pending, mem, pc, op, history, faults>>

Migrate ==
    /\ pc = "migrate" /\ (plan # NoPlan \/ ~mem.legacy)
    /\ pc' = IF plan = NoPlan THEN "refresh" ELSE "moving"
    /\ dirs' = IF plan = NoPlan THEN dirs ELSE dirs \cup {LegacyFolder}
    /\ UNCHANGED <<files, index, legacy, pending, plan, mem, op, history, faults>>

MoveBlocked(m) == IF Present(m.from) THEN files[m.from] # m.content \/ Present(m.to)
                                     ELSE files[m.to] # m.content

ReplayMove ==
    /\ pc = "moving"
    /\ \E m \in plan.moves :
          /\ Present(m.from) /\ ~MoveBlocked(m)
          /\ \/ files' = Moved(m.from, m.to) /\ NoFault /\ UNCHANGED <<mem, pc, op>>
             \/ files' = HalfMoved(m.from, m.to) /\ system = "posix" /\ Fault /\ Stop
    /\ UNCHANGED <<dirs, index, legacy, pending, plan, history>>

\* Mutant: the plan is dropped without saving the index first.
AdoptPlanUnsaved ==
    /\ pc = "moving"
    /\ \A m \in plan.moves : ~Present(m.from) /\ ~MoveBlocked(m)
    /\ mem' = [mem EXCEPT !.entries = plan.entries, !.legacy = FALSE]
    /\ pc' = "drop" /\ UNCHANGED op
    /\ UNCHANGED <<disk, history, faults>>

AdoptPlan ==
    /\ pc = "moving"
    /\ \A m \in plan.moves : ~Present(m.from) /\ ~MoveBlocked(m)
    /\ mem' = [mem EXCEPT !.entries = plan.entries, !.legacy = FALSE]
    /\ SaveThen([op EXCEPT !.next = "drop"])
    /\ UNCHANGED <<disk, history, faults>>

RefuseToMigrate ==
    /\ \/ pc = "migrate" /\ mem.legacy /\ plan = NoPlan /\ \E e \in ToMove : files[e.path] # e.content
       \/ pc = "moving" /\ \E m \in plan.moves : MoveBlocked(m)
    /\ pc' = "refused" /\ op' = NoOp /\ mem' = NoMemory
    /\ UNCHANGED <<disk, history, faults>>

DropPlan ==
    /\ pc = "drop"
    /\ \/ /\ plan' = NoPlan /\ pc' = "refresh" /\ NoFault /\ UNCHANGED <<mem, op>>
       \/ /\ Fault /\ Stop /\ UNCHANGED plan
    /\ UNCHANGED <<files, dirs, index, legacy, pending, history>>
---------------------------------------------------------------------------
(* _save and refresh.                                                      *)

\* Mutant: records whose image is missing are not saved.
SaveIndexShown ==
    /\ pc = "save"
    /\ index' = mem.entries
    /\ legacy' = mem.legacy
    /\ mem' = [mem EXCEPT !.dirty = FALSE]
    /\ IF mem.records = {} THEN Continue(op)
       ELSE pc' = "unlink" /\ op' = [op EXCEPT !.drop = mem.records]
    /\ UNCHANGED <<files, dirs, pending, plan, history, faults>>

SaveIndex ==
    /\ pc = "save"
    /\ index' = mem.entries \cup mem.missing
    /\ legacy' = mem.legacy
    /\ mem' = [mem EXCEPT !.dirty = FALSE]
    /\ IF mem.records = {} THEN Continue(op)
       ELSE pc' = "unlink" /\ op' = [op EXCEPT !.drop = mem.records]
    /\ UNCHANGED <<files, dirs, pending, plan, history, faults>>

SaveFails ==
    /\ pc = "save" /\ Fault
    /\ IF op.undo THEN pc' = "undo" /\ UNCHANGED <<op, mem>>
       ELSE IF op.kind = "start" THEN Stop
       ELSE Return /\ UNCHANGED mem
    /\ UNCHANGED <<disk, history>>

\* A pending record that cannot be removed is left for the next save.
Unlink ==
    /\ pc = "unlink"
    /\ \E r \in op.drop :
          /\ \/ /\ pending' = pending \ {r}
                /\ mem' = [mem EXCEPT !.records = @ \ {r}]
                /\ NoFault
             \/ Fault /\ UNCHANGED <<pending, mem>>
          /\ IF op.drop = {r} THEN Continue([op EXCEPT !.drop = {}])
             ELSE op' = [op EXCEPT !.drop = @ \ {r}] /\ UNCHANGED pc
    /\ UNCHANGED <<files, dirs, index, legacy, plan, history>>

Known == mem.entries \cup mem.missing
\* Mutant: a path alone identifies an image.
InPlaceByPath == {e \in Known : Present(e.path)}
InPlace == {e \in Known : files[e.path] = e.content}
\* One record for each path whose image it describes; of several the code takes
\* the last in its list, here any.
Kept(keep) == \A e \in InPlace : \E k \in keep : /\ k.path = e.path
                                                 /\ \A l \in keep : l.path = e.path => l = k
Unmatched == {p \in Occupied : \A e \in InPlace : e.path # p}
SameContent(c) == {p \in Unmatched : files[p] = c}

\* Mutant: an image is looked for in its own folder only.
CandidatesInFolder(keep, p) ==
    {e \in Known \ keep : e.content = files[p] /\ e.path.folder = p.folder}

\* The records a scan finds nowhere else follow an image that is unlike all
\* other unknown ones; every other unknown image is described afresh.
Candidates(keep, p) == {e \in Known \ keep : e.content = files[p]}
Follows(keep, e, p) == Candidates(keep, p) = {e} /\ SameContent(files[p]) = {p}
Pairs(keep) == {x \in (Known \ keep) \X Unmatched : Follows(keep, x[1], x[2])}
Described(keep) ==
    {[id |-> 0, path |-> p, content |-> files[p]] :
        p \in {q \in Unmatched : \A e \in Known : ~Follows(keep, e, q)}}
Scanned(keep) == keep \cup Described(keep) \cup {At(x[2], x[1]) : x \in Pairs(keep)}
NotFound(keep) == (Known \ keep) \ {x[1] : x \in Pairs(keep)}

\* A scan that fails leaves everything as it was.
Refresh ==
    /\ pc = "refresh"
    /\ LET o == [op EXCEPT !.next = IF op.kind = "clear" THEN "clear" ELSE "idle", !.undo = FALSE]
       IN \/ \E keep \in SUBSET InPlace :
                /\ Kept(keep)
                /\ LET entries == Scanned(keep)
                       missing == NotFound(keep)
                       changed == mem.dirty \/ entries \cup missing # Known
                   IN \* A new order alone is a change as well.
                      \E saved \in IF changed THEN {TRUE} ELSE {FALSE, entries # mem.entries} :
                         /\ mem' = [mem EXCEPT !.entries = entries, !.missing = missing,
                                               !.dirty = saved]
                         /\ IF saved THEN SaveThen(o) ELSE Continue(o)
                /\ stale' = FALSE
                /\ NoFault
          \/ /\ Fault
             /\ IF op.kind = "start" THEN Stop ELSE Return /\ UNCHANGED mem
             /\ UNCHANGED stale
    /\ UNCHANGED <<disk, owed, images, outside, system>>

RefreshTable ==
    /\ pc = "idle"
    /\ pc' = "refresh" /\ op' = [NoOp EXCEPT !.kind = "refresh"]
    /\ UNCHANGED <<disk, mem, history, faults>>
---------------------------------------------------------------------------
(* add_data: the pending record, the image, the index.                     *)

Add ==
    /\ pc = "idle" /\ images < MaxImages
    /\ \E c \in Contents, f \in Folders \cup {Root} : \E p \in Free(f) :
          LET e == [id |-> images + 1, path |-> p, content |-> c]
          IN /\ pending' = pending \cup {e}
             /\ mem' = [mem EXCEPT !.records = @ \cup {e}]
             /\ op' = [NoOp EXCEPT !.kind = "add", !.todo = {e}]
             /\ MakeFolder(f)
    /\ pc' = "publish" /\ images' = images + 1
    /\ UNCHANGED <<files, index, legacy, plan, owed, stale, outside, system, faults>>

Publish ==
    /\ pc = "publish"
    /\ \E e \in op.todo :
          /\ ~Present(e.path)
          /\ files' = [files EXCEPT ![e.path] = e.content]
          /\ \/ /\ mem' = [mem EXCEPT !.entries = @ \cup {e}]
                /\ SaveThen([NoOp EXCEPT !.kind = "add"])
                /\ owed' = owed \cup {e.id}
                /\ NoFault
             \* The image is linked in place, its temporary name stays.
             \/ system = "posix" /\ Fault /\ Return /\ UNCHANGED <<mem, owed>>
    /\ UNCHANGED <<dirs, index, legacy, pending, plan, stale, images, outside, system>>

\* Mutant: the record of a pending file just removed is kept in memory.
PublishFailsRecorded ==
    /\ pc = "publish"
    /\ \/ /\ \E e \in op.todo : Present(e.path) /\ pending' = pending \ {e}
          /\ NoFault
       \/ Fault /\ UNCHANGED pending
    /\ Return
    /\ UNCHANGED <<mem, files, dirs, index, legacy, plan, history>>

PublishFails ==
    /\ pc = "publish"
    /\ \/ /\ \E e \in op.todo :   \* FileExistsError: another's image
                /\ Present(e.path)
                /\ pending' = pending \ {e}
                /\ mem' = [mem EXCEPT !.records = @ \ {e}]
          /\ NoFault
       \/ Fault /\ UNCHANGED <<pending, mem>>
    /\ Return
    /\ UNCHANGED <<files, dirs, index, legacy, plan, history>>
---------------------------------------------------------------------------
(* The other operations on one image.  exact_entry finds exactly one       *)
(* record of the path, read_data finds its content there.                  *)

Exact(e) == e \in mem.entries /\ \A d \in mem.entries : d.path = e.path => d = e
Readable(e) == Exact(e) /\ files[e.path] = e.content

Remove ==
    /\ pc = "idle"
    /\ \E e \in mem.entries :
          /\ Readable(e)
          /\ files' = [files EXCEPT ![e.path] = NoImage]
          /\ mem' = [mem EXCEPT !.entries = @ \ {e}]
          /\ owed' = owed \ (Detached \cup {e.id})
    /\ SaveThen([NoOp EXCEPT !.kind = "remove"])
    /\ UNCHANGED <<dirs, index, legacy, pending, plan, stale, images, outside, system, faults>>

UpdateNotes ==
    /\ pc = "idle"
    /\ \E e \in mem.entries : Exact(e)
    /\ SaveThen([NoOp EXCEPT !.kind = "notes"])
    /\ UNCHANGED <<disk, mem, history, faults>>

\* Move the image of e, with what the operation does next on success.
MoveImage(e, to, o) ==
    \/ /\ files' = Moved(e.path, to)
       /\ mem' = [mem EXCEPT !.entries = (@ \ {e}) \cup {At(to, e)}]
       /\ owed' = owed \ Detached
       /\ SaveThen([o EXCEPT !.from = e, !.to = to, !.undo = TRUE])
       /\ NoFault
    \/ /\ system = "posix" /\ Fault
       /\ files' = HalfMoved(e.path, to)
       /\ Return
       /\ UNCHANGED <<mem, owed>>

Rename ==
    /\ pc = "idle"
    /\ \E e \in mem.entries, to \in Paths :
          /\ Readable(e)
          /\ to.folder = e.path.folder /\ to # e.path
          /\ \A d \in mem.entries \cup mem.records : d.path # to
          /\ ~Present(to)
          /\ MoveImage(e, to, [NoOp EXCEPT !.kind = "rename"])
    /\ UNCHANGED <<dirs, index, legacy, pending, plan, stale, images, outside, system>>

UpdateFolder ==
    /\ pc = "idle"
    /\ \E e \in mem.entries, f \in Folders \cup {Root} :
          /\ f # e.path.folder /\ Readable(e)
          /\ \E to \in Free(f) : MoveImage(e, to, [NoOp EXCEPT !.kind = "folder_of", !.next = "refresh"])
          /\ MakeFolder(f)
    /\ UNCHANGED <<index, legacy, pending, plan, stale, images, outside, system>>
---------------------------------------------------------------------------
(* Operations on folders.                                                  *)

CreateFolder ==
    /\ pc = "idle"
    /\ \E f \in Folders \ dirs : MakeFolder(f)
    /\ pc' = "refresh" /\ op' = [NoOp EXCEPT !.kind = "refresh"]
    /\ UNCHANGED <<files, index, legacy, pending, plan, mem, history, faults>>

Within(f) == {e \in mem.entries : e.path.folder = f}
InFolder(p, f) == [p EXCEPT !.folder = f]
\* os.rename of a folder: one step, with all the images in it.
FolderMoved(f, g) == [p \in Paths |-> IF p.folder = g THEN files[InFolder(p, f)]
                                      ELSE IF p.folder = f THEN NoImage ELSE files[p]]

RenameFolder ==
    /\ pc = "idle"
    /\ \E f \in dirs, g \in Folders \ dirs :
          /\ files' = FolderMoved(f, g)
          /\ dirs' = (dirs \ {f}) \cup {g}
          /\ mem' = [mem EXCEPT !.entries = (@ \ Within(f))
                        \cup {At(InFolder(e.path, g), e) : e \in Within(f)}]
          /\ owed' = owed \ Detached
          /\ SaveThen([NoOp EXCEPT !.kind = "rename_folder", !.from = f, !.to = g, !.todo = Within(f),
                                   !.next = "refresh", !.undo = TRUE])
    /\ UNCHANGED <<index, legacy, pending, plan, stale, images, outside, system, faults>>

\* clear_folder: move the images to backups/ one by one, then remove the folder.
ClearFolder ==
    /\ pc = "idle"
    /\ \E f \in dirs :
          /\ Cardinality(Within(f)) <= Cardinality(Free(Root))
          /\ op' = [NoOp EXCEPT !.kind = "clear", !.folder = f, !.todo = Within(f)]
    /\ pc' = "clear"
    /\ UNCHANGED <<disk, mem, history, faults>>

ClearOne ==
    /\ pc = "clear"
    /\ \E e \in op.todo :
          \/ /\ Readable(e)
             /\ \E to \in Free(Root) :
                   MoveImage(e, to, [op EXCEPT !.next = "refresh", !.todo = @ \ {e}])
          \/ ~Readable(e) /\ Return /\ UNCHANGED <<files, mem, owed, faults>>
    /\ UNCHANGED <<dirs, index, legacy, pending, plan, stale, images, outside, system>>

ClearDone ==
    /\ pc = "clear" /\ op.todo = {}
    /\ IF \E p \in Occupied : p.folder = op.folder
       THEN Return /\ UNCHANGED dirs
       ELSE /\ dirs' = dirs \ {op.folder}
            /\ pc' = "refresh" /\ op' = [NoOp EXCEPT !.kind = "refresh"]
    /\ UNCHANGED <<files, index, legacy, pending, plan, mem, history, faults>>
---------------------------------------------------------------------------
(* The index could not be saved: put the images back where they were.      *)

\* rename_exact restores its record first, then moves the image back.
UndoRename ==
    /\ pc = "undo" /\ op.kind = "rename"
    /\ mem' = [mem EXCEPT !.entries = (@ \ {At(op.to, op.from)}) \cup {op.from}]
    /\ \/ files' = Moved(op.to, op.from.path) /\ NoFault /\ UNCHANGED stale
       \/ Fault /\ UNCHANGED files /\ stale' = TRUE
       \/ system = "posix" /\ Fault /\ files' = HalfMoved(op.to, op.from.path) /\ UNCHANGED stale
    /\ owed' = owed \ Detached
    /\ Return
    /\ UNCHANGED <<dirs, index, legacy, pending, plan, images, outside, system>>

\* update_folder_exact moves the image back first.
UndoMove ==
    /\ pc = "undo" /\ op.kind \in {"folder_of", "clear"}
    /\ \/ /\ files' = Moved(op.to, op.from.path)
          /\ mem' = [mem EXCEPT !.entries = (@ \ {At(op.to, op.from)}) \cup {op.from}]
          /\ NoFault
       \/ Fault /\ UNCHANGED <<files, mem>>
       \/ system = "posix" /\ Fault /\ files' = HalfMoved(op.to, op.from.path) /\ UNCHANGED mem
    /\ owed' = owed \ Detached
    /\ Return
    /\ UNCHANGED <<dirs, index, legacy, pending, plan, stale, images, outside, system>>

UndoRenameFolder ==
    /\ pc = "undo" /\ op.kind = "rename_folder"
    /\ \/ /\ files' = FolderMoved(op.to, op.from)
          /\ dirs' = (dirs \ {op.to}) \cup {op.from}
          /\ mem' = [mem EXCEPT !.entries =
                        (@ \ {At(InFolder(e.path, op.to), e) : e \in op.todo}) \cup op.todo]
          /\ NoFault
       \/ Fault /\ UNCHANGED <<files, dirs, mem>>
    /\ owed' = owed \ Detached
    /\ Return
    /\ UNCHANGED <<index, legacy, pending, plan, stale, images, outside, system>>
---------------------------------------------------------------------------
(* The program ends, and others change the folder.                         *)

Leave ==
    /\ pc \in {"idle", "refused"}
    /\ Stop
    /\ UNCHANGED <<disk, history, faults>>

Crash ==
    /\ pc \notin {"off", "idle", "refused"} /\ Fault
    /\ Stop
    /\ UNCHANGED <<disk, history>>

\* Others create, replace, move or delete an image.  They leave the folder free
\* that a plan yet to be made needs: the code adds a suffix, here names are few.
OutsideChanges(p, q) == {[files EXCEPT ![p] = c] : c \in Contents \cup {NoImage}}
                          \cup (IF Present(q) \/ ~Present(p) THEN {} ELSE {Moved(p, q)})
Outside ==
    /\ pc \in {"off", "idle", "publish"} /\ outside < MaxOutside /\ Fault
    /\ \E p, q \in Paths :
          /\ files' \in OutsideChanges(p, q) \ {files}
          /\ legacy /\ plan = NoPlan =>
                \A r \in Paths : r.folder = LegacyFolder => files'[r] = NoImage
          /\ dirs' = dirs \cup {r.folder : r \in {s \in Paths : files'[s] # NoImage /\ s.folder # Root}}
          /\ Cardinality(dirs') <= MaxFolders
    /\ owed' = owed \ Detached
    /\ stale' = TRUE /\ outside' = outside + 1
    /\ UNCHANGED <<index, legacy, pending, plan, mem, pc, op, images, system>>
---------------------------------------------------------------------------
LegacyEntry(i, name, content) ==
    [id |-> i, path |-> [folder |-> Root, name |-> name], content |-> content]
RecordOf(records, p) == CHOOSE e \in records : e.path = p

\* Either an empty catalogue or a legacy one, whose images lie in backups/
\* and whose index may still have records of images that are gone.
Init ==
    /\ system \in Systems /\ images \in Installs
    /\ \E name \in [1 .. images -> Names], content \in [1 .. images -> Contents] :
          /\ \A i, j \in 1 .. images : name[i] = name[j] => i = j
          /\ index = {LegacyEntry(i, name[i], content[i]) : i \in 1 .. images}
    /\ \E there \in SUBSET index :
          files = [p \in Paths |-> IF \E e \in there : e.path = p
                                   THEN RecordOf(index, p).content ELSE NoImage]
    /\ legacy = (images > 0)
    /\ dirs = {} /\ pending = {} /\ plan = NoPlan
    /\ mem = NoMemory /\ pc = "off" /\ op = NoOp
    /\ owed = 1 .. images /\ stale = FALSE
    /\ outside = 0 /\ faults = 0

Operation ==
    \/ Add \/ Remove \/ UpdateNotes \/ Rename \/ UpdateFolder
    \/ CreateFolder \/ RenameFolder \/ ClearFolder \/ RefreshTable
Step ==
    \/ Start \/ RefuseToStart \/ WritePlan \/ Migrate \/ ReplayMove \/ AdoptPlan
    \/ RefuseToMigrate \/ DropPlan \/ SaveIndex \/ SaveFails \/ Unlink \/ Refresh
    \/ Publish \/ PublishFails \/ ClearOne \/ ClearDone
    \/ UndoRename \/ UndoMove \/ UndoRenameFolder
Next == Operation \/ Step \/ Leave \/ Crash \/ Outside
Spec == Init /\ [][Next]_vars
---------------------------------------------------------------------------
TypeOK ==
    /\ files \in [Paths -> Contents \cup {NoImage}]
    /\ dirs \subseteq Folders
    /\ index \subseteq Entries /\ legacy \in BOOLEAN
    /\ pending \subseteq Entries
    /\ plan.entries \subseteq Entries
    /\ mem.entries \cup mem.missing \cup mem.records \subseteq Entries
    /\ mem.records \subseteq pending
    /\ pc \in Pcs
    /\ system \in {"nt", "posix"} /\ owed \subseteq 0 .. MaxImages /\ stale \in BOOLEAN
    /\ images \in 0 .. MaxImages /\ faults \in 0 .. MaxFaults /\ outside \in 0 .. MaxOutside

\* The provenance of an image add_data has published, or a legacy index had,
\* survives on disk, in the index or in a pending record, through failed saves,
\* crashes, failing migrations and images others move or delete, until the user
\* removes the image.  (owed leaves out the records whose image was touched before
\* any index had them.)
ProvenanceKept == owed \subseteq Ids(index \cup pending)

\* The catalogue the program shows at rest agrees with the folder, unless others
\* changed it after the last scan or the way back of a rename failed: every
\* record finds its image, and no two records share one.
EntriesTruthful ==
    pc = "idle" /\ ~stale =>
        \A e \in mem.entries : files[e.path] = e.content /\ Exact(e)

\* A scan lists an image unlike all others, of which there is one record, with its
\* own provenance, wherever others, a failed way back or an interrupted migration
\* have left it.  (The index may come to hold two records of one image: its own and
\* one recovered from a pending record that could not be removed.  If the image is
\* at neither path, refresh decides for neither.)
ScanDone == pc = "refresh" /\ pc' # "off" /\ NoFault
OnlyRecord(e) == \A d \in Known : d.content = e.content => d = e
OnlyImage(e) == \E p \in Paths : {q \in Paths : files[q] = e.content} = {p}
FoundAgain ==
    [][ScanDone =>
          \A e \in Known :
             OnlyRecord(e) /\ OnlyImage(e)
             => \E d \in mem'.entries : d.id = e.id /\ files[d.path] = e.content]_vars

\* No step of the program destroys an image: whatever is renamed, moved, published
\* or migrated, no content becomes rarer, but for the one image the user removes.
Copies(c) == {p \in Paths : files[p] = c}
NeverOverwritten ==
    [][outside' = outside =>
          \A c \in Contents :
             \/ Cardinality(Copies(c)') >= Cardinality(Copies(c))
             \/ \E e \in mem.entries : /\ files' = [files EXCEPT ![e.path] = NoImage]
                                       /\ e.content = c
                                       /\ mem'.entries = mem.entries \ {e}]_vars

\* The migration plan is given up only when it is carried out: every image at
\* its destination and gone from its source, and the new index saved.
MigrationComplete ==
    [][plan # NoPlan /\ plan' # plan =>
          /\ plan' = NoPlan /\ ~legacy
          /\ \A m \in plan.moves :
                /\ files[m.to] = m.content /\ ~Present(m.from)
                /\ \E e \in index : e.path = m.to /\ e.content = m.content]_vars

\* BackupIndexError of add_data: "Resolve the storage error and restart to retry
\* catalogue recovery."  Restarting never ends in a catalogue refused for good.
StartsAgain == pc # "refused"
=============================================================================
