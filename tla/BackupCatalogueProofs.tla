----------------------- MODULE BackupCatalogueProofs -----------------------
(***************************************************************************)
(* Of the catalogue, for every number of images, failures and changes by   *)
(* others, and for every set of contents, folders and names: it stays well *)
(* formed, keeps the provenance of every image it published, shows what is *)
(* in the folder, finds an image others moved, carries its migration out,  *)
(* and destroys no image.                                                  *)
(***************************************************************************)
EXTENDS BackupCatalogue, FiniteSetTheorems, TLAPS

(* Types, including those of the memory and of the operation under way.    *)
Memories == [entries : SUBSET Entries, missing : SUBSET Entries, records : SUBSET Entries,
             legacy : BOOLEAN, dirty : BOOLEAN]
AnyFolder == Folders \cup {Root}
Kinds == {"none", "start", "refresh", "add", "remove", "notes", "rename", "folder_of",
          "rename_folder", "clear"}
Nexts == {"idle", "refresh", "clear", "migrate", "drop"}
Ops == [kind : Kinds, from : Entries \cup AnyFolder, to : Paths \cup AnyFolder,
        folder : AnyFolder, todo : SUBSET Entries, drop : SUBSET Entries, next : Nexts,
        undo : BOOLEAN]
MovesBack(kind) == kind \in {"rename", "folder_of", "clear"}
NextFits(o) == /\ o.next = "clear" => o.kind = "clear"
               /\ o.next \in {"migrate", "drop"} => o.kind = "start"
UndoTyped ==
    /\ pc = "undo" => op.undo
    /\ pc = "clear" => op.kind = "clear"
    /\ pc \in {"migrate", "moving"} => op.kind = "start"
    /\ NextFits(op)
    /\ op.undo => pc \in {"save", "unlink", "undo", "refresh"} /\ op.next \in {"idle", "refresh"}
    /\ op.undo /\ pc \in {"save", "undo"} =>
          /\ MovesBack(op.kind) => op.from \in Entries /\ op.to \in Paths
          /\ op.kind = "rename_folder" => op.from \in Folders /\ op.to \in Folders

TInv == /\ TypeOK
        /\ mem \in Memories
        /\ plan \in [entries : SUBSET Entries,
                     moves : SUBSET [from : Paths, to : Paths, content : Contents],
                     none : BOOLEAN]
        /\ op \in Ops
        /\ UndoTyped

(* What keeps the provenance: while the program runs its memory has the    *)
(* records of all published images, and an image that only .pending        *)
(* describes is where its record says.                                     *)
Running == pc \notin {"off", "refused"}
Migrating == \/ pc \in {"migrate", "moving", "drop"}
             \/ pc \in {"save", "unlink"} /\ op.next \in {"migrate", "drop"}

InMemory == Running => owed \subseteq Ids(Known)
Attached == \A r \in Unindexed : r.id \in owed => Present(r.path)
Indexed == pc \in {"unlink", "migrate", "moving", "drop"} => owed \subseteq Ids(index)
InPlan == plan # NoPlan => /\ owed \subseteq Ids(plan.entries)
                           /\ Running => Migrating
ByPlan == pc = "moving" => plan # NoPlan
NothingMissing == Running /\ Migrating => mem.missing = {}
Numbered == /\ owed \subseteq 0 .. images
            /\ \A r \in pending : r.id <= images
Publishing == pc = "publish" =>
                 \E e \in pending : /\ op.todo = {e} /\ e.id = images /\ e.id \notin owed
                                    /\ \A r \in pending : r.id = e.id => r = e

PInv == /\ ProvenanceKept /\ InMemory /\ Attached /\ Indexed /\ InPlan /\ ByPlan
        /\ NothingMissing /\ Numbered /\ Publishing
IInv == TInv /\ PInv

(* Small facts about the operators the actions are built from.             *)
LEMMA NothingTyped == NoMemory \in Memories /\ NoOp \in Ops /\ ~NoOp.undo /\ NoOp.next = "idle"
  BY DEF NoMemory, Memories, NoOp, Ops, Kinds, Nexts, AnyFolder

LEMMA MovedTyped ==
    ASSUME files \in [Paths -> Contents \cup {NoImage}], NEW p \in Paths, NEW q \in Paths
    PROVE  /\ Moved(p, q) \in [Paths -> Contents \cup {NoImage}]
           /\ HalfMoved(p, q) \in [Paths -> Contents \cup {NoImage}]
  BY DEF Moved, HalfMoved

LEMMA AtTyped ==
    ASSUME NEW e \in Entries, NEW p \in Paths
    PROVE  /\ At(p, e) \in Entries
           /\ At(p, e).id = e.id /\ At(p, e).path = p /\ At(p, e).content = e.content
  BY DEF At, Entries

LEMMA InFolderTyped ==
    ASSUME NEW p \in Paths, NEW f \in AnyFolder
    PROVE  InFolder(p, f) \in Paths
  BY DEF InFolder, Paths, AnyFolder

(* How an operation ends or goes on.                                       *)
LEMMA EndTyped ==
    ASSUME Return \/ Stop
    PROVE  /\ op' \in Ops /\ UndoTyped' /\ pc' \in Pcs
           /\ Stop => mem' \in Memories /\ mem'.records = {}
<1>1. op' = NoOp /\ pc' \in {"idle", "off"}
  BY DEF Return, Stop
<1>2. op' \in Ops /\ ~op'.undo /\ op'.next = "idle"
  BY <1>1, NothingTyped
<1>3. UndoTyped' /\ pc' \in Pcs
  BY <1>1, <1>2 DEF UndoTyped, NextFits, Pcs
<1>4. Stop => mem' \in Memories /\ mem'.records = {}
  BY NothingTyped DEF Stop, NoMemory
<1>5. QED
  BY <1>2, <1>3, <1>4

LEMMA ContinueTyped ==
    ASSUME NEW o \in Ops, Continue(o), o.undo => o.next \in {"idle", "refresh"},
           NextFits(o)
    PROVE  op' \in Ops /\ UndoTyped' /\ pc' \in Pcs
<1>1. o.next \in Nexts
  BY DEF Ops
<1>2. op' \in Ops /\ (op'.undo => op' = o /\ pc' = "refresh")
      /\ (op' = o \/ op'.next = "idle")
      /\ (pc' \in {"clear", "migrate"} => op' = o /\ o.next = pc')
  BY NothingTyped DEF Continue
<1>3. pc' \in Pcs /\ pc' \notin {"save", "undo", "moving"}
  BY <1>1 DEF Continue, Nexts, Pcs
<1>4. QED
  BY <1>2, <1>3 DEF UndoTyped, NextFits

LEMMA SaveThenTyped ==
    ASSUME NEW o \in Ops, SaveThen(o), NextFits(o),
           o.undo => /\ o.next \in {"idle", "refresh"}
                     /\ MovesBack(o.kind) => o.from \in Entries /\ o.to \in Paths
                     /\ o.kind = "rename_folder" => o.from \in Folders /\ o.to \in Folders
    PROVE  op' \in Ops /\ UndoTyped' /\ pc' \in Pcs
  BY DEF SaveThen, UndoTyped, NextFits, Pcs

LEMMA FaultTyped ==
    ASSUME faults \in 0 .. MaxFaults, Fault \/ NoFault
    PROVE  faults' \in 0 .. MaxFaults
  BY CatalogueAssumption DEF Fault, NoFault

(* Every step keeps the types.                                             *)
LEMMA StartsTyped ==
    ASSUME TInv, Start \/ RefuseToStart \/ WritePlan \/ Migrate \/ ReplayMove
    PROVE  TInv'
<1> USE DEF TInv, TypeOK, disk, history
<1>1. CASE Start
  <2> DEFINE o == [NoOp EXCEPT !.kind = "start", !.next = "migrate"]
  <2>1. o \in Ops /\ o.next = "migrate" /\ o.kind = "start" /\ ~o.undo
    BY NothingTyped DEF Ops, Kinds, Nexts
  <2>2. mem' \in Memories /\ mem'.records = pending
    BY <1>1 DEF Start, Memories, Recovered
  <2>3. op' \in Ops /\ UndoTyped' /\ pc' \in Pcs
    <3>1. Continue(o) \/ SaveThen(o)
      BY <1>1 DEF Start
    <3>2. QED
      BY <2>1, <3>1, ContinueTyped, SaveThenTyped DEF NextFits
  <2>4. QED
    BY <1>1, <2>2, <2>3 DEF Start, Memories
<1>2. CASE RefuseToStart
  BY <1>2 DEF RefuseToStart, UndoTyped, NextFits, Pcs
<1>3. CASE WritePlan
  <2>1. PICK to \in [ToMove -> Free(LegacyFolder)] :
           plan' = [entries |-> {IF e \in ToMove THEN At(to[e], e) ELSE e : e \in mem.entries},
                    moves |-> {[from |-> e.path, to |-> to[e], content |-> e.content] : e \in ToMove},
                    none |-> FALSE]
    BY <1>3 DEF WritePlan
  <2>2. \A e \in ToMove : e \in Entries /\ to[e] \in Paths
    BY <2>1 DEF ToMove, Free, Memories
  <2>3. \A e \in ToMove : /\ At(to[e], e) \in Entries
                          /\ e.path \in Paths /\ e.content \in Contents
    BY <2>2, AtTyped DEF Entries
  <2>4. plan'.entries \subseteq Entries
    BY <2>1, <2>3 DEF Memories
  <2>5. plan'.moves \subseteq [from : Paths, to : Paths, content : Contents]
    BY <2>1, <2>2, <2>3
  <2>6. plan' \in [entries : SUBSET Entries,
                   moves : SUBSET [from : Paths, to : Paths, content : Contents],
                   none : BOOLEAN]
    BY <2>1, <2>4, <2>5
  <2>7. QED
    BY <1>3, <2>4, <2>6 DEF WritePlan, UndoTyped, NextFits
<1>4. CASE Migrate
  BY <1>4, CatalogueAssumption DEF Migrate, UndoTyped, NextFits, Pcs
<1>5. CASE ReplayMove
  <2>1. files' \in [Paths -> Contents \cup {NoImage}]
    BY <1>5, MovedTyped DEF ReplayMove
  <2>2. /\ mem' \in Memories /\ mem'.records \subseteq pending
        /\ op' \in Ops /\ UndoTyped' /\ pc' \in Pcs
    <3>1. CASE Stop
      BY <3>1, EndTyped
    <3>2. CASE UNCHANGED <<mem, pc, op>>
      BY <3>2 DEF UndoTyped, NextFits
    <3>3. QED
      BY <1>5, <3>1, <3>2 DEF ReplayMove
  <2>3. faults' \in 0 .. MaxFaults
    BY <1>5, FaultTyped DEF ReplayMove
  <2>4. QED
    BY <1>5, <2>1, <2>2, <2>3 DEF ReplayMove, Memories
<1>6. QED
  BY <1>1, <1>2, <1>3, <1>4, <1>5

LEMMA SavesTyped ==
    ASSUME TInv, AdoptPlan \/ RefuseToMigrate \/ DropPlan \/ SaveIndex \/ SaveFails \/ Unlink
    PROVE  TInv'
<1> USE DEF TInv, TypeOK, disk, history
<1>1. CASE AdoptPlan
  <2> DEFINE o == [op EXCEPT !.next = "drop"]
  <2>1. o \in Ops /\ o.undo = op.undo /\ o.kind = op.kind /\ o.next = "drop"
    BY DEF Ops, Nexts
  <2>2. mem' \in Memories /\ mem'.records = mem.records
    BY <1>1 DEF AdoptPlan, Memories
  <2>3. ~op.undo /\ op.kind = "start"
    BY <1>1 DEF AdoptPlan, UndoTyped, NextFits
  <2>4. QED
    BY <1>1, <2>1, <2>2, <2>3, SaveThenTyped DEF AdoptPlan, NextFits, Memories
<1>2. CASE RefuseToMigrate
  BY <1>2, NothingTyped DEF RefuseToMigrate, UndoTyped, NextFits, Pcs, NoMemory
<1>3. CASE DropPlan
  <2>1. faults' \in 0 .. MaxFaults
    BY <1>3, FaultTyped DEF DropPlan
  <2>2. CASE Stop /\ UNCHANGED plan
    BY <1>3, <2>1, <2>2, EndTyped DEF DropPlan, Memories
  <2>3. CASE plan' = NoPlan /\ pc' = "refresh" /\ UNCHANGED <<mem, op>>
    BY <1>3, <2>1, <2>3 DEF DropPlan, UndoTyped, NextFits, Pcs, NoPlan
  <2>4. QED
    BY <1>3, <2>2, <2>3 DEF DropPlan
<1>4. CASE SaveIndex
  <2>1. mem' \in Memories /\ mem'.records = mem.records /\ index' \subseteq Entries
    BY <1>4 DEF SaveIndex, Memories
  <2>2. op' \in Ops /\ UndoTyped' /\ pc' \in Pcs
    <3>1. CASE pc' = "unlink" /\ op' = [op EXCEPT !.drop = mem.records]
      BY <3>1 DEF Ops, Memories, UndoTyped, NextFits, Pcs
    <3>2. CASE Continue(op)
      BY <3>2, ContinueTyped DEF UndoTyped, NextFits
    <3>3. QED
      BY <1>4, <3>1, <3>2 DEF SaveIndex
  <2>3. QED
    BY <1>4, <2>1, <2>2 DEF SaveIndex, Memories
<1>5. CASE SaveFails
  <2>1. faults' \in 0 .. MaxFaults
    BY <1>5, FaultTyped DEF SaveFails
  <2>2. CASE pc' = "undo" /\ op.undo /\ UNCHANGED <<op, mem>>
    BY <1>5, <2>1, <2>2 DEF SaveFails, UndoTyped, NextFits, Pcs
  <2>3. CASE Stop \/ (Return /\ UNCHANGED mem)
    BY <1>5, <2>1, <2>3, EndTyped DEF SaveFails, Memories
  <2>4. QED
    BY <1>5, <2>2, <2>3 DEF SaveFails
<1>6. CASE Unlink
  <2>1. PICK r \in op.drop :
           /\ \/ /\ pending' = pending \ {r}
                 /\ mem' = [mem EXCEPT !.records = @ \ {r}]
                 /\ NoFault
              \/ Fault /\ UNCHANGED <<pending, mem>>
           /\ IF op.drop = {r} THEN Continue([op EXCEPT !.drop = {}])
              ELSE op' = [op EXCEPT !.drop = @ \ {r}] /\ UNCHANGED pc
    BY <1>6 DEF Unlink
  <2>2. mem' \in Memories /\ mem'.records \subseteq pending' /\ pending' \subseteq Entries
    BY <2>1 DEF Memories
  <2>3. mem'.entries = mem.entries /\ mem'.missing = mem.missing
    BY <2>1 DEF Memories
  <2>4. op' \in Ops /\ UndoTyped' /\ pc' \in Pcs
    <3>1. [op EXCEPT !.drop = {}] \in Ops
      BY DEF Ops
    <3>2. CASE Continue([op EXCEPT !.drop = {}])
      BY <3>1, <3>2, ContinueTyped DEF UndoTyped, NextFits, Ops
    <3>3. CASE op' = [op EXCEPT !.drop = @ \ {r}] /\ UNCHANGED pc
      BY <1>6, <3>3 DEF Unlink, UndoTyped, NextFits, Ops
    <3>4. QED
      BY <2>1, <3>2, <3>3
  <2>5. faults' \in 0 .. MaxFaults
    BY <2>1, FaultTyped
  <2>6. QED
    BY <1>6, <2>2, <2>3, <2>4, <2>5 DEF Unlink, Memories
<1>7. QED
  BY <1>1, <1>2, <1>3, <1>4, <1>5, <1>6

(* What a scan lists and what it misses are records, and none gets lost.   *)
LEMMA ScanTyped ==
    ASSUME TInv, NEW keep \in SUBSET InPlace
    PROVE  /\ Scanned(keep) \subseteq Entries
           /\ NotFound(keep) \subseteq Entries
           /\ Ids(Known) \subseteq Ids(Scanned(keep) \cup NotFound(keep))
<1> USE DEF TInv, TypeOK
<1>1. Known \subseteq Entries /\ keep \subseteq Known
  BY DEF Known, InPlace, Memories
<1>2. Unmatched \subseteq Paths /\ \A p \in Unmatched : files[p] \in Contents
  BY DEF Unmatched, Occupied, Present
<1>3. Described(keep) \subseteq Entries
  BY <1>2, CatalogueAssumption DEF Described, Entries
<1>4. \A x \in Pairs(keep) : /\ x[1] \in Known /\ x[1] \in Entries
                             /\ At(x[2], x[1]) \in Entries /\ At(x[2], x[1]).id = x[1].id
  BY <1>1, <1>2, AtTyped DEF Pairs
<1>5. Scanned(keep) \subseteq Entries
  BY <1>1, <1>3, <1>4 DEF Scanned
<1>6. NotFound(keep) \subseteq Entries
  BY <1>1 DEF NotFound
<1>7. ASSUME NEW e \in Known
      PROVE  e.id \in Ids(Scanned(keep) \cup NotFound(keep))
  <2>1. CASE e \in keep \/ e \in NotFound(keep)
    BY <2>1 DEF Ids, Scanned
  <2>2. CASE e \notin keep /\ e \notin NotFound(keep)
    <3>1. PICK x \in Pairs(keep) : e = x[1]
      BY <2>2 DEF NotFound
    <3>2. At(x[2], x[1]) \in Scanned(keep) /\ At(x[2], x[1]).id = e.id
      BY <1>4, <3>1 DEF Scanned
    <3>3. QED
      BY <3>2 DEF Ids
  <2>3. QED
    BY <2>1, <2>2
<1>8. QED
  BY <1>5, <1>6, <1>7 DEF Ids

LEMMA ScansTyped ==
    ASSUME TInv, Refresh \/ RefreshTable \/ CreateFolder \/ ClearFolder \/ ClearDone
    PROVE  TInv'
<1> USE DEF TInv, TypeOK, disk, history
<1>1. CASE Refresh
  <2> DEFINE o == [op EXCEPT !.next = IF op.kind = "clear" THEN "clear" ELSE "idle", !.undo = FALSE]
  <2>1. o \in Ops /\ ~o.undo /\ NextFits(o)
    BY DEF Ops, Nexts, NextFits
  <2>2. faults' \in 0 .. MaxFaults
    BY <1>1, FaultTyped DEF Refresh
  <2>3. CASE Stop \/ (Return /\ UNCHANGED mem)
    BY <1>1, <2>2, <2>3, EndTyped DEF Refresh, Memories
  <2>4. CASE \E keep \in SUBSET InPlace :
                \E saved \in {TRUE, FALSE} :
                   /\ mem' = [mem EXCEPT !.entries = Scanned(keep), !.missing = NotFound(keep),
                                         !.dirty = saved]
                   /\ SaveThen(o) \/ Continue(o)
    <3>1. PICK keep \in SUBSET InPlace, saved \in {TRUE, FALSE} :
             mem' = [mem EXCEPT !.entries = Scanned(keep), !.missing = NotFound(keep), !.dirty = saved]
      BY <2>4
    <3>2. mem' \in Memories /\ mem'.records = mem.records
      BY <3>1, ScanTyped DEF Memories
    <3>3. op' \in Ops /\ UndoTyped' /\ pc' \in Pcs
      BY <2>1, <2>4, SaveThenTyped, ContinueTyped
    <3>4. QED
      BY <1>1, <2>2, <3>2, <3>3 DEF Refresh, Memories
  <2>5. QED
    BY <1>1, <2>3, <2>4 DEF Refresh
<1>2. CASE RefreshTable
  BY <1>2, NothingTyped DEF RefreshTable, UndoTyped, NextFits, Pcs, Ops, Kinds
<1>3. CASE CreateFolder
  BY <1>3, NothingTyped DEF CreateFolder, MakeFolder, UndoTyped, NextFits, Pcs, Ops, Kinds
<1>4. CASE ClearFolder
  <2>1. PICK f \in dirs : op' = [NoOp EXCEPT !.kind = "clear", !.folder = f, !.todo = Within(f)]
    BY <1>4 DEF ClearFolder
  <2>2. op' \in Ops /\ ~op'.undo /\ op'.kind = "clear" /\ op'.next = "idle"
    BY <2>1, NothingTyped DEF Within, Memories, Ops, Kinds, AnyFolder
  <2>3. QED
    BY <1>4, <2>2 DEF ClearFolder, UndoTyped, NextFits, Pcs
<1>5. CASE ClearDone
  <2>1. CASE Return /\ UNCHANGED dirs
    BY <1>5, <2>1, EndTyped DEF ClearDone
  <2>2. CASE pc' = "refresh" /\ op' = [NoOp EXCEPT !.kind = "refresh"]
    <3>1. op' \in Ops /\ ~op'.undo /\ op'.next = "idle"
      BY <2>2, NothingTyped DEF Ops, Kinds
    <3>2. QED
      BY <1>5, <2>2, <3>1 DEF ClearDone, UndoTyped, NextFits, Pcs, Return
  <2>3. QED
    BY <1>5, <2>1, <2>2 DEF ClearDone
<1>6. QED
  BY <1>1, <1>2, <1>3, <1>4, <1>5

LEMMA MoveTyped ==
    ASSUME TInv, NEW e \in mem.entries, NEW to \in Paths, NEW o \in Ops,
           MovesBack(o.kind), o.next \in {"idle", "refresh"}, MoveImage(e, to, o)
    PROVE  /\ files' \in [Paths -> Contents \cup {NoImage}]
           /\ mem' \in Memories /\ mem'.records = mem.records
           /\ owed' \subseteq owed
           /\ op' \in Ops /\ UndoTyped' /\ pc' \in Pcs
           /\ faults' \in 0 .. MaxFaults
<1> USE DEF TInv, TypeOK
<1>1. e \in Entries /\ e.path \in Paths
  BY DEF Memories, Entries
<1>2. CASE /\ files' = Moved(e.path, to)
           /\ mem' = [mem EXCEPT !.entries = (@ \ {e}) \cup {At(to, e)}]
           /\ owed' = owed \ Detached
           /\ SaveThen([o EXCEPT !.from = e, !.to = to, !.undo = TRUE])
           /\ NoFault
  <2> DEFINE m == [o EXCEPT !.from = e, !.to = to, !.undo = TRUE]
  <2>1. m \in Ops /\ m.undo /\ m.next = o.next /\ m.kind = o.kind /\ m.from = e /\ m.to = to
    BY <1>1 DEF Ops
  <2>2. o.kind # "rename_folder"
    BY DEF MovesBack
  <2>3. op' \in Ops /\ UndoTyped' /\ pc' \in Pcs
    <3>1. m.next \in {"idle", "refresh"} /\ m.from \in Entries /\ m.to \in Paths
      BY <1>1, <2>1
    <3>2. m.kind # "rename_folder" /\ SaveThen(m)
      BY <1>2, <2>1, <2>2
    <3>3. QED
      BY <2>1, <3>1, <3>2, SaveThenTyped DEF NextFits
  <2>4. mem' \in Memories /\ mem'.records = mem.records
    <3>1. At(to, e) \in Entries
      BY <1>1, AtTyped
    <3>2. QED
      BY <1>2, <3>1 DEF Memories
  <2>5. QED
    BY <1>1, <1>2, <2>3, <2>4, MovedTyped, FaultTyped
<1>3. CASE /\ system = "posix" /\ Fault
           /\ files' = HalfMoved(e.path, to)
           /\ Return
           /\ UNCHANGED <<mem, owed>>
  BY <1>1, <1>3, MovedTyped, FaultTyped, EndTyped
<1>4. QED
  BY <1>2, <1>3 DEF MoveImage

LEMMA MovesTyped ==
    ASSUME TInv, Rename \/ UpdateFolder \/ ClearOne
    PROVE  TInv'
<1> USE DEF TInv, TypeOK, disk, history
<1>1. CASE Rename
  <2>1. PICK e \in mem.entries, to \in Paths : MoveImage(e, to, [NoOp EXCEPT !.kind = "rename"])
    BY <1>1 DEF Rename
  <2>2. [NoOp EXCEPT !.kind = "rename"] \in Ops
    BY NothingTyped DEF Ops, Kinds
  <2>3. QED
    BY <1>1, <2>1, <2>2, MoveTyped DEF Rename, MovesBack, NoOp, Memories
<1>2. CASE UpdateFolder
  <2> DEFINE o == [NoOp EXCEPT !.kind = "folder_of", !.next = "refresh"]
  <2>1. PICK e \in mem.entries, f \in Folders \cup {Root} :
           (\E to \in Free(f) : MoveImage(e, to, o)) /\ MakeFolder(f)
    BY <1>2 DEF UpdateFolder
  <2>2. PICK to \in Free(f) : MoveImage(e, to, o)
    BY <2>1
  <2>3. o \in Ops /\ o.kind = "folder_of" /\ o.next = "refresh"
    BY NothingTyped DEF Ops, Kinds, Nexts
  <2>4. to \in Paths /\ dirs' \subseteq Folders
    BY <2>1 DEF Free, MakeFolder
  <2>5. QED
    BY <1>2, <2>2, <2>3, <2>4, MoveTyped DEF UpdateFolder, MovesBack, Memories
<1>3. CASE ClearOne
  <2>1. CASE Return /\ UNCHANGED <<files, mem, owed, faults>>
    BY <1>3, <2>1, EndTyped DEF ClearOne
  <2>2. CASE \E e \in op.todo : /\ Readable(e)
                               /\ \E to \in Free(Root) :
                                     MoveImage(e, to, [op EXCEPT !.next = "refresh", !.todo = @ \ {e}])
    <3>1. PICK e \in op.todo, to \in Free(Root) :
             Readable(e) /\ MoveImage(e, to, [op EXCEPT !.next = "refresh", !.todo = @ \ {e}])
      BY <2>2
    <3> DEFINE o == [op EXCEPT !.next = "refresh", !.todo = @ \ {e}]
    <3>2. o \in Ops /\ o.next = "refresh" /\ o.kind = op.kind
      BY DEF Ops, Nexts
    <3>3. op.kind = "clear"
      BY <1>3 DEF ClearOne, UndoTyped, NextFits
    <3>4. e \in mem.entries /\ to \in Paths
      BY <3>1 DEF Readable, Exact, Free
    <3>5. QED
      BY <1>3, <3>1, <3>2, <3>3, <3>4, MoveTyped DEF ClearOne, MovesBack, Memories
  <2>3. QED
    BY <1>3, <2>1, <2>2 DEF ClearOne
<1>4. QED
  BY <1>1, <1>2, <1>3

LEMMA ImagesTyped ==
    ASSUME TInv, Add \/ Publish \/ PublishFails \/ Remove \/ UpdateNotes \/ RenameFolder
    PROVE  TInv'
<1> USE DEF TInv, TypeOK, disk, history
<1>1. CASE Add
  <2>1. PICK c \in Contents, f \in Folders \cup {Root}, p \in Paths :
           p \in Free(f) /\
           LET e == [id |-> images + 1, path |-> p, content |-> c]
           IN /\ pending' = pending \cup {e}
              /\ mem' = [mem EXCEPT !.records = @ \cup {e}]
              /\ op' = [NoOp EXCEPT !.kind = "add", !.todo = {e}]
              /\ MakeFolder(f)
    BY <1>1 DEF Add, Free
  <2> DEFINE e == [id |-> images + 1, path |-> p, content |-> c]
  <2>2. images' \in 0 .. MaxImages /\ images + 1 \in 0 .. MaxImages
    <3>1. images' = images + 1 /\ images < MaxImages /\ images \in 0 .. MaxImages
      BY <1>1 DEF Add
    <3>2. QED
      BY <3>1, CatalogueAssumption
  <2>3. e \in Entries
    BY <2>2 DEF Entries, Free
  <2>4. mem' \in Memories /\ mem'.records \subseteq pending' /\ pending' \subseteq Entries
    BY <2>1, <2>3 DEF Memories
  <2>5. mem'.entries = mem.entries /\ mem'.missing = mem.missing
    BY <2>1 DEF Memories
  <2>6. op' \in Ops /\ ~op'.undo /\ op'.next = "idle"
    BY <2>1, <2>3, NothingTyped DEF Ops, Kinds
  <2>7. dirs' \subseteq Folders
    BY <2>1 DEF MakeFolder
  <2>8. QED
    BY <1>1, <2>2, <2>4, <2>5, <2>6, <2>7 DEF Add, UndoTyped, NextFits, Pcs, Memories
<1>2. CASE Publish
  <2>1. PICK e \in op.todo :
           /\ files' = [files EXCEPT ![e.path] = e.content]
           /\ \/ /\ mem' = [mem EXCEPT !.entries = @ \cup {e}]
                 /\ SaveThen([NoOp EXCEPT !.kind = "add"])
                 /\ owed' = owed \cup {e.id}
                 /\ NoFault
              \/ Fault /\ Return /\ UNCHANGED <<mem, owed>>
    BY <1>2 DEF Publish
  <2>2. e \in Entries /\ e.id \in 0 .. MaxImages /\ e.content \in Contents
    BY DEF Ops, Entries
  <2>3. files' \in [Paths -> Contents \cup {NoImage}] /\ owed' \subseteq 0 .. MaxImages
    BY <2>1, <2>2
  <2>4. mem' \in Memories /\ mem'.records = mem.records
    BY <2>1, <2>2 DEF Memories
  <2>5. [NoOp EXCEPT !.kind = "add"] \in Ops /\ ~[NoOp EXCEPT !.kind = "add"].undo
        /\ [NoOp EXCEPT !.kind = "add"].next = "idle"
    BY NothingTyped DEF Ops, Kinds
  <2>6. op' \in Ops /\ UndoTyped' /\ pc' \in Pcs
    BY <2>1, <2>5, SaveThenTyped, EndTyped DEF NextFits
  <2>7. QED
    BY <1>2, <2>1, <2>3, <2>4, <2>6, FaultTyped DEF Publish, Memories
<1>3. CASE PublishFails
  <2>1. op' \in Ops /\ UndoTyped' /\ pc' \in Pcs
    BY <1>3, EndTyped DEF PublishFails
  <2>2. mem' \in Memories /\ mem'.records \subseteq pending' /\ pending' \subseteq Entries
    BY <1>3 DEF PublishFails, Memories
  <2>3. QED
    BY <1>3, <2>1, <2>2, FaultTyped DEF PublishFails, Memories
<1>4. CASE Remove
  <2> DEFINE o == [NoOp EXCEPT !.kind = "remove"]
  <2>1. PICK e \in mem.entries : /\ files' = [files EXCEPT ![e.path] = NoImage]
                                 /\ mem' = [mem EXCEPT !.entries = @ \ {e}]
                                 /\ owed' = owed \ (Detached \cup {e.id})
    BY <1>4 DEF Remove
  <2>2. mem' \in Memories /\ mem'.records = mem.records
    BY <2>1 DEF Memories
  <2>3. o \in Ops /\ ~o.undo /\ o.next = "idle" /\ SaveThen(o)
    BY <1>4, NothingTyped DEF Remove, Ops, Kinds
  <2>4. op' \in Ops /\ UndoTyped' /\ pc' \in Pcs
    BY <2>3, SaveThenTyped DEF NextFits
  <2>5. QED
    BY <1>4, <2>1, <2>2, <2>4 DEF Remove, Memories
<1>5. CASE UpdateNotes
  <2> DEFINE o == [NoOp EXCEPT !.kind = "notes"]
  <2>1. o \in Ops /\ ~o.undo /\ o.next = "idle" /\ SaveThen(o)
    BY <1>5, NothingTyped DEF UpdateNotes, Ops, Kinds
  <2>2. op' \in Ops /\ UndoTyped' /\ pc' \in Pcs
    BY <2>1, SaveThenTyped DEF NextFits
  <2>3. QED
    BY <1>5, <2>2 DEF UpdateNotes
<1>6. CASE RenameFolder
  <2>1. PICK f \in dirs, g \in Folders \ dirs :
           /\ files' = FolderMoved(f, g)
           /\ dirs' = (dirs \ {f}) \cup {g}
           /\ mem' = [mem EXCEPT !.entries = (@ \ Within(f))
                         \cup {At(InFolder(e.path, g), e) : e \in Within(f)}]
           /\ owed' = owed \ Detached
           /\ SaveThen([NoOp EXCEPT !.kind = "rename_folder", !.from = f, !.to = g,
                                    !.todo = Within(f), !.next = "refresh", !.undo = TRUE])
    BY <1>6 DEF RenameFolder
  <2>2. files' \in [Paths -> Contents \cup {NoImage}]
    BY <2>1, InFolderTyped DEF FolderMoved, AnyFolder
  <2>3. \A e \in Within(f) : e \in Entries /\ At(InFolder(e.path, g), e) \in Entries
    BY InFolderTyped, AtTyped DEF Within, Memories, Entries, AnyFolder
  <2>4. mem' \in Memories /\ mem'.records = mem.records
    BY <2>1, <2>3 DEF Memories
  <2> DEFINE o == [NoOp EXCEPT !.kind = "rename_folder", !.from = f, !.to = g,
                               !.todo = Within(f), !.next = "refresh", !.undo = TRUE]
  <2>5. /\ o \in Ops /\ o.next = "refresh" /\ o.kind = "rename_folder"
        /\ o.from = f /\ o.to = g
    BY <2>3, NothingTyped DEF Ops, Kinds, Nexts, AnyFolder
  <2>6. op' \in Ops /\ UndoTyped' /\ pc' \in Pcs
    BY <2>1, <2>5, SaveThenTyped DEF MovesBack, NextFits
  <2>7. QED
    BY <1>6, <2>1, <2>2, <2>4, <2>6 DEF RenameFolder, Memories
<1>7. QED
  BY <1>1, <1>2, <1>3, <1>4, <1>5, <1>6

LEMMA UndosTyped ==
    ASSUME TInv, UndoRename \/ UndoMove \/ UndoRenameFolder
    PROVE  TInv'
<1> USE DEF TInv, TypeOK, disk, history
<1>1. op' \in Ops /\ UndoTyped' /\ pc' \in Pcs
  BY EndTyped DEF UndoRename, UndoMove, UndoRenameFolder
<1>2. CASE UndoRename \/ UndoMove
  <2>1. op.from \in Entries /\ op.from.path \in Paths /\ op.to \in Paths
    BY <1>2 DEF UndoRename, UndoMove, UndoTyped, NextFits, MovesBack, Entries
  <2>2. files' \in [Paths -> Contents \cup {NoImage}]
    BY <1>2, <2>1, MovedTyped DEF UndoRename, UndoMove
  <2>3. mem' \in Memories /\ mem'.records = mem.records
    BY <1>2, <2>1 DEF UndoRename, UndoMove, Memories
  <2>4. faults' \in 0 .. MaxFaults
    BY <1>2, FaultTyped DEF UndoRename, UndoMove
  <2>5. owed' \subseteq owed /\ stale' \in BOOLEAN
        /\ UNCHANGED <<dirs, index, legacy, pending, plan, images, outside, system>>
    BY <1>2 DEF UndoRename, UndoMove
  <2>6. QED
    BY <1>1, <2>2, <2>3, <2>4, <2>5 DEF Memories
<1>3. CASE UndoRenameFolder
  <2>1. op.from \in Folders /\ op.to \in Folders /\ op.todo \subseteq Entries
    BY <1>3 DEF UndoRenameFolder, UndoTyped, NextFits, Ops
  <2>2. files' \in [Paths -> Contents \cup {NoImage}] /\ dirs' \subseteq Folders
    BY <1>3, <2>1, InFolderTyped DEF UndoRenameFolder, FolderMoved, AnyFolder
  <2>3. mem' \in Memories /\ mem'.records = mem.records
    BY <1>3, <2>1 DEF UndoRenameFolder, Memories
  <2>4. faults' \in 0 .. MaxFaults
    BY <1>3, FaultTyped DEF UndoRenameFolder
  <2>5. QED
    BY <1>1, <1>3, <2>2, <2>3, <2>4 DEF UndoRenameFolder, Memories
<1>4. QED
  BY <1>2, <1>3

LEMMA EndsTyped ==
    ASSUME TInv, Leave \/ Crash \/ Outside
    PROVE  TInv'
<1> USE DEF TInv, TypeOK, disk, history
<1>1. CASE Leave
  BY <1>1, EndTyped DEF Leave, Memories
<1>2. CASE Crash
  BY <1>2, EndTyped, FaultTyped DEF Crash, Memories
<1>3. CASE Outside
  <2>1. PICK p \in Paths, q \in Paths : files' \in OutsideChanges(p, q)
    BY <1>3 DEF Outside
  <2>2. files' \in [Paths -> Contents \cup {NoImage}]
    BY <2>1, MovedTyped DEF OutsideChanges
  <2>3. dirs' \subseteq Folders
    BY <1>3 DEF Outside, Paths
  <2>4. outside' \in 0 .. MaxOutside
    <3>1. outside' = outside + 1 /\ outside < MaxOutside
      BY <1>3 DEF Outside
    <3>2. QED
      BY <3>1, CatalogueAssumption
  <2>5. faults' \in 0 .. MaxFaults
    BY <1>3, FaultTyped DEF Outside
  <2>6. stale' = TRUE /\ owed' \subseteq owed /\ UndoTyped'
        /\ UNCHANGED <<index, legacy, pending, plan, mem, pc, op, images, system>>
    BY <1>3 DEF Outside, UndoTyped, NextFits
  <2>7. QED
    BY <2>2, <2>3, <2>4, <2>5, <2>6
<1>4. QED
  BY <1>1, <1>2, <1>3

LEMMA StepTyped == TInv /\ [Next]_vars => TInv'
<1> SUFFICES ASSUME TInv, [Next]_vars PROVE TInv'
  OBVIOUS
<1>1. CASE Operation
  BY <1>1, ScansTyped, ImagesTyped, MovesTyped DEF Operation
<1>2. CASE Step
  BY <1>2, StartsTyped, SavesTyped, ScansTyped, ImagesTyped, MovesTyped, UndosTyped DEF Step
<1>3. CASE Leave \/ Crash \/ Outside
  BY <1>3, EndsTyped
<1>4. CASE UNCHANGED vars
  BY <1>4 DEF vars, disk, history, TInv, TypeOK, UndoTyped, NextFits
<1>5. QED
  BY <1>1, <1>2, <1>3, <1>4 DEF Next

LEMMA InitTyped == Init => TInv
<1> SUFFICES ASSUME Init PROVE TInv
  OBVIOUS
<1>1. images \in 0 .. MaxImages
  BY CatalogueAssumption DEF Init
<1>2. PICK name \in [1 .. images -> Names], content \in [1 .. images -> Contents] :
         index = {LegacyEntry(i, name[i], content[i]) : i \in 1 .. images}
  BY DEF Init
<1>3. index \subseteq Entries
  <2>1. ASSUME NEW i \in 1 .. images
        PROVE  LegacyEntry(i, name[i], content[i]) \in Entries
    <3>1. i \in 0 .. MaxImages
      BY <1>1, CatalogueAssumption
    <3>2. QED
      BY <3>1 DEF LegacyEntry, Entries, Paths
  <2>2. QED
    BY <1>2, <2>1
<1>4. files \in [Paths -> Contents \cup {NoImage}]
  <2>1. PICK there \in SUBSET index :
           files = [p \in Paths |-> IF \E e \in there : e.path = p
                                    THEN RecordOf(index, p).content ELSE NoImage]
    BY DEF Init
  <2>2. ASSUME NEW p \in Paths, \E e \in there : e.path = p
        PROVE  RecordOf(index, p).content \in Contents
    <3>1. RecordOf(index, p) \in Entries
      BY <1>3, <2>2 DEF RecordOf
    <3>2. QED
      BY <3>1 DEF Entries
  <2>3. QED
    BY <2>1, <2>2
<1>5. owed \subseteq 0 .. MaxImages
  BY <1>1, CatalogueAssumption DEF Init
<1>6. QED
  <2>1. /\ mem \in Memories /\ op \in Ops /\ UndoTyped /\ pc \in Pcs
        /\ mem.entries \cup mem.missing \cup mem.records = {}
    BY NothingTyped DEF Init, UndoTyped, NextFits, Pcs, NoMemory
  <2>2. /\ plan.entries = {}
        /\ plan \in [entries : SUBSET Entries,
                     moves : SUBSET [from : Paths, to : Paths, content : Contents],
                     none : BOOLEAN]
    BY DEF Init, NoPlan
  <2>3. /\ dirs = {} /\ pending = {} /\ legacy = (images > 0) /\ stale = FALSE
        /\ system \in Systems /\ faults = 0 /\ outside = 0
    BY DEF Init
  <2>4. /\ faults \in 0 .. MaxFaults /\ outside \in 0 .. MaxOutside
        /\ system \in {"nt", "posix"} /\ legacy \in BOOLEAN
    BY <1>1, <2>3, CatalogueAssumption
  <2>5. QED
    BY <1>1, <1>3, <1>4, <1>5, <2>1, <2>2, <2>3, <2>4 DEF TInv, TypeOK

(* The catalogue stays well formed.                                        *)
THEOREM CatalogueTyped == Spec => []TypeOK
<1>1. Spec => []TInv
  BY InitTyped, StepTyped, PTL DEF Spec
<1>2. TInv => TypeOK
  BY DEF TInv
<1>3. QED
  BY <1>1, <1>2, PTL

(* Most steps write neither the index nor a pending record nor the plan.   *)
(* Such a step keeps the provenance if it keeps the memory's records and   *)
(* gives up the images it takes from pending records.                      *)
LEMMA QuietStep ==
    ASSUME TInv, PInv,
           UNCHANGED <<index, pending, plan, images>>,
           owed' \subseteq owed \ Detached,
           pc' = "publish" => UNCHANGED <<pc, op>>,
           pc' = "moving" => plan # NoPlan,
           Running' => owed' \subseteq Ids(Known'),
           pc' \in {"unlink", "migrate", "moving", "drop"} => owed' \subseteq Ids(index),
           Running' /\ plan # NoPlan => Migrating',
           Running' /\ Migrating' => mem'.missing = {}
    PROVE  PInv'
<1> USE DEF PInv
<1>1. ProvenanceKept' /\ InMemory' /\ Indexed' /\ Numbered' /\ NothingMissing' /\ ByPlan'
  BY DEF ProvenanceKept, InMemory, Indexed, Numbered, NothingMissing, ByPlan, Ids
<1>2. Attached'
  <2>1. ASSUME NEW q \in Unindexed, q.id \in owed'
        PROVE  Present(q.path)'
    <3>1. files'[q.path] = files[q.path]
      BY <2>1 DEF Detached, Ids
    <3>2. Present(q.path)
      BY <2>1 DEF Attached
    <3>3. QED
      BY <3>1, <3>2 DEF Present
  <2>2. Unindexed' = Unindexed
    BY DEF Unindexed
  <2>3. QED
    BY <2>1, <2>2 DEF Attached
<1>3. InPlan'
  BY DEF InPlan
<1>4. Publishing'
  BY DEF Publishing
<1>5. QED
  BY <1>1, <1>2, <1>3, <1>4

LEMMA NothingDetached == UNCHANGED files => Detached = {}
  BY DEF Detached, Ids

(* An operation, after the start: no plan is left.                         *)
LEMMA OperationStep ==
    ASSUME TInv, PInv, Running, ~Migrating,
           UNCHANGED <<index, pending, plan, images>>,
           owed' \subseteq owed \ Detached,
           \/ pc' \in {"idle", "refresh", "clear", "undo", "off"}
           \/ pc' = "save" /\ op'.next \in {"idle", "refresh", "clear"},
           Running' => owed' \subseteq Ids(Known')
    PROVE  PInv'
<1>1. plan = NoPlan
  BY DEF PInv, InPlan
<1>2. ~Migrating'
  BY DEF Migrating
<1>3. QED
  BY <1>1, <1>2, QuietStep

LEMMA Stopped == Stop => ~Running' /\ pc' = "off"
  BY DEF Stop, Running

LEMMA SameKnown == UNCHANGED mem => Known' = Known
  BY DEF Known

LEMMA StartsKeep ==
    ASSUME TInv, PInv, Start \/ RefuseToStart \/ Migrate \/ ReplayMove \/ AdoptPlan \/ RefuseToMigrate
    PROVE  PInv'
<1> USE DEF disk, history
<1>1. CASE Start
  <2>1. UNCHANGED <<index, pending, plan, images, files>>
    BY <1>1 DEF Start
  <2>2. owed' = owed \ Ids({q \in Unindexed : IndexedAt(q.path) # {}})
    BY <1>1 DEF Start
  <2>3. Known' = index \cup Recovered /\ mem'.missing = {}
    BY <1>1 DEF Start, Known
  <2>4. owed' \subseteq Ids(Known')
    <3>1. ASSUME NEW i \in owed', i \notin Ids(index)
          PROVE  i \in Ids(Recovered)
      <4>1. PICK q \in pending : q.id = i
        BY <2>2, <3>1 DEF PInv, ProvenanceKept, Ids
      <4>2. q \in Unindexed
        BY <3>1, <4>1 DEF Unindexed, Ids
      <4>3. IndexedAt(q.path) = {}
        BY <2>2, <4>1, <4>2 DEF Ids
      <4>4. Present(q.path)
        BY <2>2, <4>1, <4>2 DEF PInv, Attached
      <4>5. QED
        BY <4>1, <4>3, <4>4 DEF Recovered, Ids
    <3>2. QED
      BY <2>3, <3>1 DEF Ids
  <2>5. /\ pc' \in {"save", "migrate"} /\ op'.next = "migrate"
        /\ pc' = "migrate" => pending = {}
    BY <1>1, NothingTyped DEF Start, Continue, SaveThen, Ops
  <2>6. pc' = "migrate" => owed' \subseteq Ids(index)
    BY <2>2, <2>5 DEF PInv, ProvenanceKept
  <2>7. Migrating' /\ pc' \notin {"publish", "moving", "unlink", "drop"}
    BY <2>5 DEF Migrating
  <2>8. owed' \subseteq owed \ Detached
    BY <2>1, <2>2, NothingDetached
  <2>9. QED
    BY <2>1, <2>3, <2>4, <2>6, <2>7, <2>8, QuietStep
<1>2. CASE RefuseToStart \/ RefuseToMigrate
  <2>1. UNCHANGED <<index, pending, plan, images, files, owed>> /\ pc' = "refused"
    BY <1>2 DEF RefuseToStart, RefuseToMigrate
  <2>2. ~Running'
    BY <2>1 DEF Running
  <2>3. QED
    BY <2>1, <2>2, QuietStep, NothingDetached
<1>3. CASE Migrate
  <2>1. /\ UNCHANGED <<index, pending, plan, images, files, owed, mem, op>>
        /\ pc = "migrate" /\ pc' = IF plan = NoPlan THEN "refresh" ELSE "moving"
    BY <1>3 DEF Migrate
  <2>2. Running /\ Migrating /\ (Migrating' <=> plan # NoPlan)
    BY <2>1 DEF Running, Migrating
  <2>3. owed' \subseteq Ids(Known') /\ owed' \subseteq Ids(index) /\ mem'.missing = {}
    BY <2>1, <2>2, SameKnown DEF PInv, InMemory, Indexed, NothingMissing
  <2>4. QED
    BY <2>1, <2>2, <2>3, QuietStep, NothingDetached
<1>4. CASE ReplayMove
  <2>1. /\ UNCHANGED <<index, pending, plan, images, owed>> /\ pc = "moving"
        /\ Stop \/ UNCHANGED <<mem, pc, op>>
    BY <1>4 DEF ReplayMove
  <2>2. Running /\ Migrating
    BY <2>1 DEF Running, Migrating
  <2>3. owed \subseteq Ids(index) /\ owed \subseteq Ids(Known) /\ mem.missing = {} /\ plan # NoPlan
    BY <2>1, <2>2 DEF PInv, Indexed, InMemory, NothingMissing, ByPlan
  <2>4. owed' \subseteq owed \ Detached
    BY <2>1, <2>3 DEF Detached, Unindexed, Ids
  <2>5. CASE Stop
    BY <2>1, <2>4, <2>5, Stopped, QuietStep
  <2>6. CASE UNCHANGED <<mem, pc, op>>
    BY <2>1, <2>2, <2>3, <2>4, <2>6, SameKnown, QuietStep DEF Migrating
  <2>7. QED
    BY <2>1, <2>5, <2>6
<1>5. CASE AdoptPlan
  <2>1. /\ UNCHANGED <<index, pending, plan, images, files, owed>> /\ pc = "moving"
        /\ pc' = "save" /\ op' = [op EXCEPT !.next = "drop"]
        /\ mem' = [mem EXCEPT !.entries = plan.entries, !.legacy = FALSE]
    BY <1>5 DEF AdoptPlan, SaveThen
  <2>2. Running /\ Migrating /\ Migrating'
    BY <2>1 DEF Running, Migrating, TInv, Ops
  <2>3. mem'.entries = plan.entries /\ mem'.missing = mem.missing
    BY <2>1 DEF TInv, Memories
  <2>4. owed' \subseteq Ids(Known') /\ mem'.missing = {}
    BY <2>1, <2>2, <2>3 DEF PInv, InPlan, ByPlan, NothingMissing, Known, Ids
  <2>5. QED
    BY <2>1, <2>2, <2>4, QuietStep, NothingDetached
<1>6. QED
  BY <1>1, <1>2, <1>3, <1>4, <1>5

LEMMA SavesKeep ==
    ASSUME TInv, PInv, WritePlan \/ DropPlan \/ SaveIndex \/ SaveFails \/ Unlink
    PROVE  PInv'
<1> USE DEF disk, history
<1>1. CASE WritePlan
  <2>1. /\ UNCHANGED <<files, index, pending, mem, pc, op, images, owed>> /\ pc = "migrate"
    BY <1>1 DEF WritePlan
  <2>2. PICK to \in [ToMove -> Free(LegacyFolder)] :
           plan' = [entries |-> {IF e \in ToMove THEN At(to[e], e) ELSE e : e \in mem.entries},
                    moves |-> {[from |-> e.path, to |-> to[e], content |-> e.content] : e \in ToMove},
                    none |-> FALSE]
    BY <1>1 DEF WritePlan
  <2>3. \A e \in ToMove : At(to[e], e).id = e.id
    BY <2>2, AtTyped DEF ToMove, Free, TInv, Memories
  <2>4. Ids(mem.entries) \subseteq Ids(plan'.entries)
    BY <2>2, <2>3 DEF Ids
  <2>5. owed \subseteq Ids(mem.entries)
    BY <2>1 DEF PInv, InMemory, NothingMissing, Running, Migrating, Known, Ids
  <2>6. InPlan'
    BY <2>1, <2>4, <2>5 DEF InPlan, Migrating
  <2>7. Attached' /\ InMemory'
    BY <2>1 DEF PInv, Attached, Unindexed, Present, InMemory, Running, Known
  <2>8. QED
    BY <2>1, <2>6, <2>7
       DEF PInv, ProvenanceKept, Indexed, ByPlan, NothingMissing, Running, Migrating,
           Numbered, Publishing
<1>2. CASE DropPlan
  <2>1. CASE Stop
    <3>1. ~Running' /\ UNCHANGED <<files, index, pending, plan, images, owed>>
      BY <1>2, <2>1, Stopped DEF DropPlan, NoPlan
    <3>2. QED
      BY <2>1, <3>1, Stopped, QuietStep, NothingDetached
  <2>2. CASE plan' = NoPlan /\ pc' = "refresh" /\ UNCHANGED <<mem, op>>
    <3>1. UNCHANGED <<files, index, pending, mem, op, images, owed>> /\ pc = "drop"
      BY <1>2, <2>2 DEF DropPlan
    <3>2. Attached' /\ InMemory'
      BY <3>1 DEF PInv, Attached, Unindexed, Present, InMemory, Running, Known
    <3>3. QED
      BY <2>2, <3>1, <3>2
         DEF PInv, ProvenanceKept, Indexed, InPlan, ByPlan, NothingMissing, Running, Migrating,
             Numbered, Publishing
  <2>3. QED
    BY <1>2, <2>1, <2>2 DEF DropPlan
<1>3. CASE SaveIndex
  <2>1. /\ index' = Known /\ pc = "save"
        /\ UNCHANGED <<files, pending, plan, images, owed>>
        /\ mem'.entries = mem.entries /\ mem'.missing = mem.missing
    BY <1>3 DEF SaveIndex, Known, TInv, Memories
  <2>2. owed' \subseteq Ids(index') /\ owed' \subseteq Ids(Known')
    BY <2>1 DEF PInv, InMemory, Running, Known
  <2>3. /\ pc' \in {"unlink"} \cup Nexts
        /\ pc' = "unlink" => op'.next = op.next
        /\ pc' # "unlink" => pc' = op.next
    BY <1>3 DEF SaveIndex, Continue, TInv, Ops
  <2>4. Migrating' <=> Migrating
    BY <2>1, <2>3 DEF Migrating, Nexts
  <2>5. Attached'
    BY <2>2 DEF Attached, Unindexed, Ids
  <2>6. pc' \notin {"publish", "moving"}
    BY <2>3 DEF Nexts
  <2>7. QED
    BY <2>1, <2>2, <2>4, <2>5, <2>6
       DEF PInv, ProvenanceKept, InMemory, Indexed, InPlan, ByPlan, NothingMissing, Running,
           Numbered, Publishing, Ids
<1>4. CASE SaveFails
  <2>1. UNCHANGED <<files, index, pending, plan, images, owed>> /\ pc = "save"
    BY <1>4 DEF SaveFails
  <2>2. CASE Stop
    BY <2>1, <2>2, Stopped, QuietStep, NothingDetached
  <2>3. CASE ~Stop
    <3>1. /\ UNCHANGED mem /\ pc' \in {"undo", "idle"} /\ owed' \subseteq owed
          /\ op.next \notin {"migrate", "drop"}
      BY <1>4, <2>1, <2>3 DEF SaveFails, Return, TInv, UndoTyped, NextFits
    <3>2. Running /\ ~Migrating
      BY <2>1, <3>1 DEF Running, Migrating
    <3>3. owed' \subseteq Ids(Known') /\ owed' \subseteq owed \ Detached
      BY <2>1, <3>1, <3>2, SameKnown, NothingDetached DEF PInv, InMemory
    <3>4. QED
      BY <2>1, <3>1, <3>2, <3>3, OperationStep
  <2>4. QED
    BY <2>2, <2>3
<1>5. CASE Unlink
  <2>1. PICK r \in op.drop :
           /\ \/ pending' = pending \ {r} /\ mem' = [mem EXCEPT !.records = @ \ {r}]
              \/ UNCHANGED <<pending, mem>>
           /\ IF op.drop = {r} THEN Continue([op EXCEPT !.drop = {}])
              ELSE op' = [op EXCEPT !.drop = @ \ {r}] /\ UNCHANGED pc
    BY <1>5 DEF Unlink
  <2>2. /\ UNCHANGED <<files, index, plan, images, owed>> /\ pc = "unlink"
        /\ pending' \subseteq pending /\ Known' = Known /\ mem'.missing = mem.missing
    BY <1>5, <2>1 DEF Unlink, Known, TInv, Memories
  <2>3. /\ pc' \in {"unlink"} \cup Nexts
        /\ pc' = "unlink" => op'.next = op.next
        /\ pc' # "unlink" => pc' = op.next
    BY <2>1, <2>2 DEF Continue, TInv, Ops, Nexts
  <2>4. Migrating' <=> Migrating
    BY <2>2, <2>3 DEF Migrating, Nexts
  <2>5. Running /\ owed \subseteq Ids(index) /\ owed \subseteq Ids(Known)
    BY <2>2 DEF PInv, Indexed, InMemory, Running
  <2>6. Attached'
    BY <2>2, <2>5 DEF Attached, Unindexed, Ids
  <2>7. pc' \notin {"publish", "moving"}
    BY <2>3 DEF Nexts
  <2>8. Numbered'
    BY <2>2 DEF PInv, Numbered
  <2>9. QED
    BY <2>2, <2>4, <2>5, <2>6, <2>7, <2>8
       DEF PInv, ProvenanceKept, InMemory, Indexed, InPlan, ByPlan, NothingMissing, Publishing, Ids
<1>6. QED
  BY <1>1, <1>2, <1>3, <1>4, <1>5

\* An image put where none was takes no image from a pending record.
LEMMA PutDetachesNothing ==
    ASSUME TInv, PInv, NEW to \in Paths, ~Present(to),
           NEW i \in Contents \cup {NoImage}, files' = [files EXCEPT ![to] = i]
    PROVE  owed \cap Detached = {}
<1>1. ASSUME NEW q \in Unindexed, q.id \in owed
      PROVE  files'[q.path] = files[q.path]
  <2>1. q.path \in Paths
    BY DEF Unindexed, TInv, TypeOK, Entries
  <2>2. q.path # to
    BY <1>1 DEF PInv, Attached
  <2>3. QED
    BY <2>1, <2>2 DEF TInv, TypeOK
<1>2. QED
  BY <1>1 DEF Detached, Ids

LEMMA AtRest == pc \in {"idle", "clear", "publish", "refresh", "undo"} => Running /\ ~Migrating
  BY DEF Running, Migrating

(* An operation that moves no image and keeps the records in memory.       *)
LEMMA StillStep ==
    ASSUME TInv, PInv, pc \in {"idle", "clear", "refresh"},
           UNCHANGED <<files, index, pending, plan, images, owed>>,
           \/ pc' \in {"idle", "refresh", "clear", "off"}
           \/ pc' = "save" /\ op'.next \in {"idle", "refresh", "clear"},
           Ids(Known) \subseteq Ids(Known') \/ ~Running'
    PROVE  PInv'
<1>1. Running /\ ~Migrating
  BY AtRest
<1>2. owed' \subseteq owed \ Detached
  BY NothingDetached
<1>3. Running' => owed' \subseteq Ids(Known')
  BY <1>1 DEF PInv, InMemory
<1>4. QED
  BY <1>1, <1>2, <1>3, OperationStep

LEMMA ScansKeep ==
    ASSUME TInv, PInv,
           Refresh \/ RefreshTable \/ CreateFolder \/ ClearFolder \/ ClearDone \/ UpdateNotes
    PROVE  PInv'
<1> USE DEF disk, history
<1>1. CASE Refresh
  <2> DEFINE o == [op EXCEPT !.next = IF op.kind = "clear" THEN "clear" ELSE "idle", !.undo = FALSE]
  <2>1. pc = "refresh" /\ UNCHANGED <<files, index, pending, plan, images, owed>>
    BY <1>1 DEF Refresh
  <2>2. CASE Stop \/ (Return /\ UNCHANGED mem)
    BY <2>1, <2>2, Stopped, SameKnown, StillStep DEF Return
  <2>3. CASE \E keep \in SUBSET InPlace :
                \E saved \in {TRUE, FALSE} :
                   /\ mem' = [mem EXCEPT !.entries = Scanned(keep), !.missing = NotFound(keep),
                                         !.dirty = saved]
                   /\ SaveThen(o) \/ Continue(o)
    <3>1. PICK keep \in SUBSET InPlace, saved \in {TRUE, FALSE} :
             mem' = [mem EXCEPT !.entries = Scanned(keep), !.missing = NotFound(keep), !.dirty = saved]
      BY <2>3
    <3>2. Known' = Scanned(keep) \cup NotFound(keep)
      BY <3>1 DEF Known, TInv, Memories
    <3>3. o.next \in {"idle", "clear"}
      BY DEF TInv, Ops
    <3>4. pc' \in {"idle", "clear"} \/ (pc' = "save" /\ op'.next \in {"idle", "clear"})
      BY <2>3, <3>3 DEF SaveThen, Continue
    <3>5. QED
      BY <2>1, <3>2, <3>4, ScanTyped, StillStep
  <2>4. QED
    BY <1>1, <2>2, <2>3 DEF Refresh
<1>2. CASE RefreshTable \/ CreateFolder \/ ClearFolder \/ ClearDone \/ UpdateNotes
  <2>1. /\ pc \in {"idle", "clear"} /\ UNCHANGED <<files, index, pending, plan, images, owed, mem>>
        /\ \/ pc' \in {"idle", "refresh", "clear"}
           \/ pc' = "save" /\ op' = [NoOp EXCEPT !.kind = "notes"]
    BY <1>2 DEF RefreshTable, CreateFolder, ClearFolder, ClearDone, UpdateNotes, Return, SaveThen
  <2>2. QED
    BY <2>1, SameKnown, StillStep, NothingTyped DEF Ops
<1>3. QED
  BY <1>1, <1>2

(* A move of an image takes its record along.                              *)
LEMMA MoveKeeps ==
    ASSUME TInv, PInv, pc \in {"idle", "clear"},
           NEW e \in mem.entries, NEW to \in Paths, ~Present(to), NEW o \in Ops,
           o.next \in {"idle", "refresh"}, MoveImage(e, to, o),
           UNCHANGED <<index, pending, plan, images>>
    PROVE  PInv'
<1>1. Running /\ ~Migrating /\ owed \subseteq Ids(Known)
  BY AtRest DEF PInv, InMemory
<1>2. CASE /\ mem' = [mem EXCEPT !.entries = (@ \ {e}) \cup {At(to, e)}]
           /\ owed' = owed \ Detached
           /\ SaveThen([o EXCEPT !.from = e, !.to = to, !.undo = TRUE])
  <2>1. pc' = "save" /\ op'.next \in {"idle", "refresh"}
    BY <1>2 DEF SaveThen, Ops
  <2>2. At(to, e).id = e.id
    BY AtTyped DEF TInv, Memories
  <2>3. Known \ {e} \subseteq Known' /\ At(to, e) \in Known'
    BY <1>2 DEF Known, TInv, Memories
  <2>4. Ids(Known) \subseteq Ids(Known')
    BY <2>2, <2>3 DEF Ids
  <2>5. QED
    BY <1>1, <1>2, <2>1, <2>4, OperationStep
<1>3. CASE /\ files' = HalfMoved(e.path, to)
           /\ Return /\ UNCHANGED <<mem, owed>>
  <2>1. files[e.path] \in Contents \cup {NoImage}
    BY DEF TInv, TypeOK, Memories, Entries
  <2>2. owed' \subseteq owed \ Detached
    BY <1>3, <2>1, PutDetachesNothing DEF HalfMoved
  <2>3. QED
    BY <1>1, <1>3, <2>2, SameKnown, OperationStep DEF Return
<1>4. QED
  BY <1>2, <1>3 DEF MoveImage

LEMMA MovesKeep ==
    ASSUME TInv, PInv, Rename \/ UpdateFolder \/ ClearOne
    PROVE  PInv'
<1>1. CASE Rename
  <2>1. PICK e \in mem.entries, to \in Paths :
           ~Present(to) /\ MoveImage(e, to, [NoOp EXCEPT !.kind = "rename"])
    BY <1>1 DEF Rename
  <2>2. [NoOp EXCEPT !.kind = "rename"] \in Ops /\ [NoOp EXCEPT !.kind = "rename"].next = "idle"
    BY NothingTyped DEF Ops, Kinds
  <2>3. QED
    BY <1>1, <2>1, <2>2, MoveKeeps DEF Rename
<1>2. CASE UpdateFolder
  <2> DEFINE o == [NoOp EXCEPT !.kind = "folder_of", !.next = "refresh"]
  <2>1. PICK e \in mem.entries, f \in Folders \cup {Root} : \E to \in Free(f) : MoveImage(e, to, o)
    BY <1>2 DEF UpdateFolder
  <2>2. PICK to \in Free(f) : MoveImage(e, to, o)
    BY <2>1
  <2>3. o \in Ops /\ o.next = "refresh"
    BY NothingTyped DEF Ops, Kinds, Nexts
  <2>4. to \in Paths /\ ~Present(to)
    BY <2>2 DEF Free
  <2>5. pc = "idle" /\ UNCHANGED <<index, pending, plan, images>>
    BY <1>2 DEF UpdateFolder
  <2>6. QED
    BY <2>2, <2>3, <2>4, <2>5, MoveKeeps
<1>3. CASE ClearOne
  <2>1. pc = "clear" /\ UNCHANGED <<index, pending, plan, images>>
    BY <1>3 DEF ClearOne
  <2>2. CASE Return /\ UNCHANGED <<files, mem, owed>>
    BY <2>1, <2>2, SameKnown, StillStep DEF Return
  <2>3. CASE \E e \in op.todo : /\ Readable(e)
                               /\ \E to \in Free(Root) :
                                     MoveImage(e, to, [op EXCEPT !.next = "refresh", !.todo = @ \ {e}])
    <3>1. PICK e \in op.todo, to \in Free(Root) :
             Readable(e) /\ MoveImage(e, to, [op EXCEPT !.next = "refresh", !.todo = @ \ {e}])
      BY <2>3
    <3> DEFINE o == [op EXCEPT !.next = "refresh", !.todo = @ \ {e}]
    <3>2. o \in Ops /\ o.next = "refresh"
      BY DEF TInv, Ops, Nexts
    <3>3. e \in mem.entries /\ to \in Paths /\ ~Present(to)
      BY <3>1 DEF Readable, Exact, Free
    <3>4. QED
      BY <2>1, <3>1, <3>2, <3>3, MoveKeeps
  <2>4. QED
    BY <1>3, <2>2, <2>3 DEF ClearOne
<1>4. QED
  BY <1>1, <1>2, <1>3

(* Operations that take an image or a folder away, and the way back.       *)
LEMMA TakesKeep ==
    ASSUME TInv, PInv, Remove \/ RenameFolder
    PROVE  PInv'
<1>1. Running /\ ~Migrating /\ owed \subseteq Ids(Known)
  BY AtRest DEF PInv, InMemory, Remove, RenameFolder
<1>2. UNCHANGED <<index, pending, plan, images>> /\ pc' = "save"
  BY DEF Remove, RenameFolder, SaveThen
<1>3. CASE Remove
  <2>1. PICK e \in mem.entries : /\ mem' = [mem EXCEPT !.entries = @ \ {e}]
                                 /\ owed' = owed \ (Detached \cup {e.id})
    BY <1>3 DEF Remove
  <2>2. Known \ {e} \subseteq Known'
    BY <2>1 DEF Known, TInv, Memories
  <2>3. owed' \subseteq Ids(Known')
    BY <1>1, <2>1, <2>2 DEF Ids
  <2>4. op'.next = "idle"
    BY <1>3, NothingTyped DEF Remove, SaveThen, Ops
  <2>5. QED
    BY <1>1, <1>2, <2>1, <2>3, <2>4, OperationStep
<1>4. CASE RenameFolder
  <2>1. PICK f \in dirs, g \in Folders \ dirs :
           /\ mem' = [mem EXCEPT !.entries = (@ \ Within(f))
                         \cup {At(InFolder(e.path, g), e) : e \in Within(f)}]
           /\ owed' = owed \ Detached
           /\ op' = [NoOp EXCEPT !.kind = "rename_folder", !.from = f, !.to = g,
                                 !.todo = Within(f), !.next = "refresh", !.undo = TRUE]
    BY <1>4 DEF RenameFolder, SaveThen
  <2>2. \A e \in Within(f) : At(InFolder(e.path, g), e).id = e.id
    BY <2>1, InFolderTyped, AtTyped DEF Within, TInv, Memories, Entries, AnyFolder
  <2>3. Ids(Known) \subseteq Ids(Known')
    <3>1. mem'.missing = mem.missing
          /\ mem'.entries = (mem.entries \ Within(f)) \cup {At(InFolder(e.path, g), e) : e \in Within(f)}
      BY <2>1 DEF TInv, Memories
    <3>2. QED
      BY <2>2, <3>1 DEF Known, Ids
  <2>4. op'.next = "refresh"
    BY <2>1, NothingTyped DEF Ops
  <2>5. QED
    BY <1>1, <1>2, <2>1, <2>3, <2>4, OperationStep
<1>5. QED
  BY <1>3, <1>4

LEMMA UndosKeep ==
    ASSUME TInv, PInv, UndoRename \/ UndoMove \/ UndoRenameFolder
    PROVE  PInv'
<1>1. /\ UNCHANGED <<index, pending, plan, images>> /\ pc = "undo" /\ pc' = "idle"
      /\ owed' = owed \ Detached
  BY DEF UndoRename, UndoMove, UndoRenameFolder, Return
<1>2. Running /\ ~Migrating /\ owed \subseteq Ids(Known)
  BY <1>1, AtRest DEF PInv, InMemory
<1>3. Ids(Known) \subseteq Ids(Known')
  <2>1. CASE UNCHANGED mem
    BY <2>1, SameKnown
  <2>2. CASE /\ UndoRename \/ UndoMove
             /\ mem' = [mem EXCEPT !.entries = (@ \ {At(op.to, op.from)}) \cup {op.from}]
    <3>1. op.from \in Entries /\ op.to \in Paths
      BY <2>2 DEF UndoRename, UndoMove, TInv, UndoTyped, MovesBack
    <3>2. At(op.to, op.from).id = op.from.id
      BY <3>1, AtTyped
    <3>3. Known \ {At(op.to, op.from)} \subseteq Known' /\ op.from \in Known'
      BY <2>2 DEF Known, TInv, Memories
    <3>4. QED
      BY <3>2, <3>3 DEF Ids
  <2>3. CASE /\ UndoRenameFolder
             /\ mem' = [mem EXCEPT !.entries =
                           (@ \ {At(InFolder(e.path, op.to), e) : e \in op.todo}) \cup op.todo]
    <3>1. op.to \in Folders /\ op.todo \subseteq Entries
      BY <2>3 DEF UndoRenameFolder, TInv, UndoTyped, Ops
    <3>2. \A e \in op.todo : At(InFolder(e.path, op.to), e).id = e.id
      BY <3>1, InFolderTyped, AtTyped DEF Entries, AnyFolder
    <3>3. /\ Known \ {At(InFolder(e.path, op.to), e) : e \in op.todo} \subseteq Known'
          /\ op.todo \subseteq Known'
      BY <2>3 DEF Known, TInv, Memories
    <3>4. QED
      BY <3>2, <3>3 DEF Ids
  <2>4. QED
    BY <2>1, <2>2, <2>3 DEF UndoRename, UndoMove, UndoRenameFolder
<1>4. QED
  BY <1>1, <1>2, <1>3, OperationStep

(* add_data: the record is pending before the image is there.              *)
LEMMA AddKeeps ==
    ASSUME TInv, PInv, Add
    PROVE  PInv'
<1>1. PICK e \in Entries :
         /\ e.id = images + 1
         /\ pending' = pending \cup {e}
         /\ mem' = [mem EXCEPT !.records = @ \cup {e}]
         /\ op' = [NoOp EXCEPT !.kind = "add", !.todo = {e}]
  <2>1. PICK c \in Contents, p \in Paths :
           LET e == [id |-> images + 1, path |-> p, content |-> c]
           IN /\ pending' = pending \cup {e}
              /\ mem' = [mem EXCEPT !.records = @ \cup {e}]
              /\ op' = [NoOp EXCEPT !.kind = "add", !.todo = {e}]
    BY DEF Add, Free
  <2>2. images + 1 \in 0 .. MaxImages
    BY CatalogueAssumption DEF Add, TInv, TypeOK
  <2>3. QED
    BY <2>1, <2>2 DEF Entries
<1>2. /\ UNCHANGED <<files, index, plan, owed>> /\ pc = "idle" /\ pc' = "publish"
      /\ images' = images + 1 /\ images \in Nat
  BY CatalogueAssumption DEF Add, TInv, TypeOK
<1>3. Running /\ ~Migrating /\ ~Migrating' /\ plan = NoPlan /\ Known' = Known
  BY <1>1, <1>2, AtRest DEF Migrating, PInv, InPlan, Known, TInv, Memories
<1>4. e.id \notin owed /\ \A r \in pending : r.id # e.id /\ r.id \in Nat
  BY <1>1, <1>2, CatalogueAssumption DEF PInv, Numbered, TInv, TypeOK, Entries
<1>5. Attached'
  BY <1>1, <1>2, <1>4 DEF PInv, Attached, Unindexed, Present
<1>6. Publishing'
  <2>1. op'.todo = {e}
    BY <1>1, NothingTyped DEF Ops
  <2>2. QED
    BY <1>1, <1>2, <1>4, <2>1 DEF Publishing
<1>7. Numbered'
  BY <1>1, <1>2, <1>4 DEF PInv, Numbered
<1>8. QED
  BY <1>1, <1>2, <1>3, <1>5, <1>6, <1>7
     DEF PInv, ProvenanceKept, InMemory, Indexed, InPlan, ByPlan, NothingMissing, Running, Ids

LEMMA PublishKeeps ==
    ASSUME TInv, PInv, Publish \/ PublishFails
    PROVE  PInv'
<1>1. /\ UNCHANGED <<index, plan, images>> /\ pc = "publish"
      /\ Running /\ ~Migrating /\ plan = NoPlan /\ owed \subseteq Ids(Known)
  BY AtRest DEF Publish, PublishFails, PInv, InPlan, InMemory, history
<1>2. PICK e \in pending : /\ op.todo = {e} /\ e.id = images /\ e.id \notin owed
                           /\ \A r \in pending : r.id = e.id => r = e
  BY <1>1 DEF PInv, Publishing
<1>3. e \in Entries /\ e.path \in Paths /\ e.content \in Contents /\ images \in Nat
  BY CatalogueAssumption DEF TInv, TypeOK, Entries
<1>4. CASE Publish
  <2>1. /\ ~Present(e.path) /\ files' = [files EXCEPT ![e.path] = e.content]
        /\ UNCHANGED pending
    BY <1>2, <1>4 DEF Publish
  <2>2. CASE Return /\ UNCHANGED <<mem, owed>>
    <3>1. owed' \subseteq owed \ Detached
      BY <1>3, <2>1, <2>2, PutDetachesNothing
    <3>2. QED
      BY <1>1, <2>1, <2>2, <3>1, SameKnown, OperationStep DEF Return
  <2>3. CASE /\ mem' = [mem EXCEPT !.entries = @ \cup {e}]
             /\ SaveThen([NoOp EXCEPT !.kind = "add"])
             /\ owed' = owed \cup {e.id}
    <3>1. pc' = "save" /\ op'.next = "idle"
      BY <2>3, NothingTyped DEF SaveThen, Ops
    <3>2. Known' = Known \cup {e}
      BY <2>3 DEF Known, TInv, Memories
    <3>3. Attached'
      <4>1. ASSUME NEW q \in Unindexed, q.id \in owed'
            PROVE  files'[q.path] # NoImage
        <5>1. q \in pending /\ q.path \in Paths
          BY DEF Unindexed, TInv, TypeOK, Entries
        <5>2. CASE q = e
          BY <1>3, <2>1, <5>2, CatalogueAssumption DEF TInv, TypeOK
        <5>3. CASE q # e
          <6>1. q.id \in owed
            BY <1>2, <2>3, <4>1, <5>1, <5>3
          <6>2. files[q.path] # NoImage
            BY <6>1 DEF PInv, Attached, Present
          <6>3. QED
            BY <2>1, <5>1, <6>2 DEF TInv, TypeOK, Present
        <5>4. QED
          BY <5>2, <5>3
      <4>2. Unindexed' = Unindexed
        BY <1>1, <2>1 DEF Unindexed
      <4>3. QED
        BY <4>1, <4>2 DEF Attached, Present
    <3>4. Numbered'
      BY <1>1, <1>2, <1>3, <2>1, <2>3 DEF PInv, Numbered
    <3>5. QED
      BY <1>1, <2>1, <2>3, <3>1, <3>2, <3>3, <3>4
         DEF PInv, ProvenanceKept, InMemory, Indexed, InPlan, ByPlan, NothingMissing, Running,
             Migrating, Publishing, Ids
  <2>4. QED
    BY <1>2, <1>4, <2>2, <2>3 DEF Publish
<1>5. CASE PublishFails
  <2>1. UNCHANGED <<files, owed>> /\ pc' = "idle" /\ Known' = Known
    BY <1>5 DEF PublishFails, Return, history, Known, TInv, Memories
  <2>2. pending' \in {pending, pending \ {e}}
    BY <1>2, <1>5 DEF PublishFails
  <2>3. Attached' /\ Numbered' /\ ProvenanceKept'
    BY <1>1, <1>2, <2>1, <2>2
       DEF PInv, Attached, Unindexed, Present, Numbered, ProvenanceKept, Ids
  <2>4. QED
    BY <1>1, <2>1, <2>3
       DEF PInv, InMemory, Indexed, InPlan, ByPlan, NothingMissing, Running, Migrating, Publishing
<1>6. QED
  BY <1>4, <1>5

LEMMA EndsKeep ==
    ASSUME TInv, PInv, Leave \/ Crash \/ Outside
    PROVE  PInv'
<1>1. CASE Leave \/ Crash
  <2>1. UNCHANGED <<files, index, pending, plan, images, owed>> /\ Stop
    BY <1>1 DEF Leave, Crash, disk, history
  <2>2. QED
    BY <2>1, Stopped, QuietStep, NothingDetached
<1>2. CASE Outside
  <2>1. /\ UNCHANGED <<index, pending, plan, mem, pc, op, images>>
        /\ owed' = owed \ Detached /\ pc \in {"off", "idle", "publish"}
    BY <1>2 DEF Outside
  <2>2. ~Migrating /\ ~Migrating' /\ (Running' <=> Running)
    BY <2>1 DEF Migrating, Running
  <2>3. Running => plan = NoPlan /\ owed' \subseteq Ids(Known')
    BY <2>1, <2>2, SameKnown DEF PInv, InPlan, InMemory
  <2>4. QED
    BY <2>1, <2>2, <2>3, QuietStep
<1>3. QED
  BY <1>1, <1>2

LEMMA StepKeeps == IInv /\ [Next]_vars => PInv'
<1> SUFFICES ASSUME TInv, PInv, [Next]_vars PROVE PInv'
  BY DEF IInv
<1>1. CASE Operation
  BY <1>1, AddKeeps, TakesKeep, ScansKeep, MovesKeep DEF Operation
<1>2. CASE Step
  BY <1>2, StartsKeep, SavesKeep, ScansKeep, PublishKeeps, MovesKeep, UndosKeep DEF Step
<1>3. CASE Leave \/ Crash \/ Outside
  BY <1>3, EndsKeep
<1>4. CASE UNCHANGED vars
  BY <1>4 DEF vars, disk, history, PInv, ProvenanceKept, InMemory, Attached, Indexed, InPlan,
              ByPlan, NothingMissing, Numbered, Publishing, Running, Migrating, Known, Unindexed,
              Present
<1>5. QED
  BY <1>1, <1>2, <1>3, <1>4 DEF Next

LEMMA InitKeeps == Init => PInv
<1> SUFFICES ASSUME Init PROVE PInv
  OBVIOUS
<1>1. pc = "off" /\ pending = {} /\ plan = NoPlan /\ owed = 1 .. images
  BY DEF Init
<1>2. images \in Nat
  BY CatalogueAssumption DEF Init
<1>3. owed \subseteq Ids(index)
  <2>1. PICK name \in [1 .. images -> Names], content \in [1 .. images -> Contents] :
           index = {LegacyEntry(i, name[i], content[i]) : i \in 1 .. images}
    BY DEF Init
  <2>2. \A i \in 1 .. images : LegacyEntry(i, name[i], content[i]).id = i
    BY DEF LegacyEntry
  <2>3. QED
    BY <1>1, <2>1, <2>2 DEF Ids
<1>4. QED
  BY <1>1, <1>2, <1>3
     DEF PInv, ProvenanceKept, InMemory, Attached, Indexed, InPlan, ByPlan, NothingMissing,
         Numbered, Publishing, Running, Unindexed, Ids

(* The provenance of every published image stays on disk.                  *)
THEOREM CatalogueKeepsProvenance == Spec => []ProvenanceKept
<1>1. Init => IInv
  BY InitTyped, InitKeeps DEF IInv
<1>2. IInv /\ [Next]_vars => IInv'
  BY StepTyped, StepKeeps DEF IInv
<1>3. IInv => ProvenanceKept
  BY DEF IInv, PInv
<1>4. QED
  BY <1>1, <1>2, <1>3, PTL DEF Spec
---------------------------------------------------------------------------
(* What keeps the catalogue truthful.  Between the first scan and the end  *)
(* of the program, the records in memory describe one image each, unless   *)
(* others changed the folder since the last scan; every image lies in a    *)
(* folder that exists; and the way back of an operation whose index is not *)
(* saved yet is free.                                                      *)
OneToOne ==
    /\ \A e \in mem.entries : files[e.path] = e.content
    /\ \A d, e \in mem.entries : d.path = e.path => d = e
Booting == op.kind = "start" /\ \/ pc \in {"migrate", "moving", "drop", "refresh"}
                                \/ pc \in {"save", "unlink"} /\ op.next \in {"migrate", "drop"}
Shown == Running /\ ~Booting /\ ~stale => OneToOne

InFolders == \A p \in Paths : Present(p) => p.folder \in dirs \cup {Root}
Destined ==
    /\ \A m \in plan.moves : m.to.folder = LegacyFolder
    /\ pc = "moving" => LegacyFolder \in dirs
    /\ pc = "publish" => \A e \in op.todo : e.path.folder \in dirs \cup {Root}
    /\ pc = "drop" => op.kind = "start"

WayBack ==
    pc \in {"save", "undo"} /\ op.undo =>
        /\ MovesBack(op.kind) =>
              /\ At(op.to, op.from) \in mem.entries /\ op.to # op.from.path
              /\ ~Present(op.from.path) /\ op.from.path.folder \in dirs \cup {Root}
        /\ op.kind = "rename_folder" =>
              /\ op.to \in dirs /\ op.from \notin dirs
              /\ \A e \in op.todo : e.path.folder = op.from
              /\ ~stale => Within(op.to) = {At(InFolder(e.path, op.to), e) : e \in op.todo}
VInv == Shown /\ InFolders /\ Destined /\ WayBack


(* A step that leaves the images where they are keeps all this, if it does *)
(* not change what is shown.                                               *)
LEMMA StillTrue ==
    ASSUME VInv, UNCHANGED <<files, stale>>, dirs \subseteq dirs',
           Running' /\ ~Booting' => Running /\ ~Booting /\ mem'.entries = mem.entries,
           \A m \in plan'.moves : m.to.folder = LegacyFolder,
           pc' = "moving" => LegacyFolder \in dirs',
           pc' = "publish" => pc = "publish" /\ op' = op,
           pc' = "drop" => op'.kind = "start",
           pc' \in {"save", "undo"} /\ op'.undo =>
               /\ pc \in {"save", "undo"} /\ op' = op /\ dirs' = dirs
               /\ mem'.entries = mem.entries
    PROVE  VInv'
<1>1. Shown'
  BY DEF VInv, Shown, OneToOne
<1>2. InFolders'
  BY DEF VInv, InFolders, Present
<1>3. Destined'
  BY DEF VInv, Destined
<1>4. WayBack'
  BY DEF VInv, WayBack, Within, Present
<1> QED
  BY <1>1, <1>2, <1>3, <1>4 DEF VInv

(* The program ends: what is shown no longer matters.                      *)
LEMMA EndedTrue ==
    ASSUME VInv, InFolders', plan'.moves \subseteq plan.moves, pc' \in {"off", "refused"}
    PROVE  VInv'
  BY DEF VInv, Shown, Running, Destined, WayBack

LEMMA StartsTrue ==
    ASSUME TInv, VInv,
           \/ Start \/ RefuseToStart \/ WritePlan \/ Migrate \/ ReplayMove
           \/ AdoptPlan \/ RefuseToMigrate \/ DropPlan
    PROVE  VInv'
<1>0. /\ \A m \in plan.moves : m.to.folder = LegacyFolder
      /\ InFolders
  BY DEF VInv, Destined
<1>1. CASE Start
  <2>1. /\ UNCHANGED <<files, dirs, plan, stale>>
        /\ op' = [NoOp EXCEPT !.kind = "start", !.next = "migrate"]
        /\ pc' \in {"migrate", "save"}
    BY <1>1 DEF Start, disk, Continue, SaveThen, NoOp
  <2>2. op'.kind = "start" /\ op'.next = "migrate" /\ ~op'.undo
    BY <2>1 DEF NoOp
  <2>3. Booting'
    BY <2>1, <2>2 DEF Booting
  <2> QED
    BY <1>0, <2>1, <2>2, <2>3, StillTrue
<1>2. CASE RefuseToStart
  BY <1>0, <1>2, EndedTrue DEF RefuseToStart, disk, InFolders, Present
<1>3. CASE WritePlan
  <2>1. PICK to \in [ToMove -> Free(LegacyFolder)] :
          plan' = [entries |-> {IF e \in ToMove THEN At(to[e], e) ELSE e : e \in mem.entries},
                   moves |-> {[from |-> e.path, to |-> to[e], content |-> e.content] : e \in ToMove},
                   none |-> FALSE]
    BY <1>3 DEF WritePlan
  <2>2. \A m \in plan'.moves : m.to.folder = LegacyFolder
    BY <2>1 DEF Free
  <2>3. UNCHANGED <<files, dirs, mem, pc, op, stale>> /\ pc = "migrate"
    BY <1>3 DEF WritePlan, history
  <2> QED
    BY <2>2, <2>3, StillTrue DEF Running, Booting
<1>4. CASE Migrate
  <2>1. /\ UNCHANGED <<files, mem, op, stale, plan>> /\ dirs \subseteq dirs'
        /\ pc = "migrate" /\ pc' \in {"refresh", "moving"}
        /\ pc' = "moving" => LegacyFolder \in dirs'
    BY <1>4 DEF Migrate, history
  <2>2. op.kind = "start"
    BY <2>1 DEF TInv, UndoTyped
  <2> QED
    BY <1>0, <2>1, <2>2, StillTrue DEF Running, Booting
<1>5. CASE ReplayMove
  <2>1. PICK m \in plan.moves :
            \/ files' = Moved(m.from, m.to) /\ UNCHANGED <<mem, pc, op>>
            \/ files' = HalfMoved(m.from, m.to) /\ Stop
    BY <1>5 DEF ReplayMove
  <2>2. UNCHANGED <<dirs, plan, stale>> /\ pc = "moving" /\ LegacyFolder \in dirs
    BY <1>5 DEF ReplayMove, history, VInv, Destined
  <2>3. m.to.folder = LegacyFolder /\ m.from \in Paths /\ m.to \in Paths
    BY <1>0 DEF TInv
  <2>4. InFolders'
    BY <1>0, <2>1, <2>2, <2>3 DEF InFolders, Present, Moved, HalfMoved, TInv, TypeOK
  <2>5. op.kind = "start"
    BY <2>2 DEF TInv, UndoTyped
  <2>6. CASE Stop
    BY <2>2, <2>4, <2>6, EndedTrue DEF Stop
  <2>7. CASE UNCHANGED <<mem, pc, op>>
    BY <2>2, <2>4, <2>5, <2>7 DEF VInv, Shown, Booting, Destined, WayBack
  <2> QED
    BY <2>1, <2>6, <2>7
<1>6. CASE AdoptPlan
  <2>1. /\ UNCHANGED <<files, dirs, plan, stale>> /\ pc = "moving" /\ pc' = "save"
        /\ op' = [op EXCEPT !.next = "drop"]
    BY <1>6 DEF AdoptPlan, disk, history, SaveThen
  <2>2. op.kind = "start" /\ op'.kind = "start" /\ op'.next = "drop" /\ op'.undo = op.undo
    BY <2>1 DEF TInv, UndoTyped, Ops
  <2>3. ~op.undo
    BY <2>1 DEF TInv, UndoTyped
  <2> QED
    BY <1>0, <2>1, <2>2, <2>3, StillTrue DEF Booting
<1>7. CASE RefuseToMigrate
  BY <1>0, <1>7, EndedTrue DEF RefuseToMigrate, disk, InFolders, Present
<1>8. CASE DropPlan
  <2>1. /\ UNCHANGED <<files, dirs, stale>> /\ plan'.moves \subseteq plan.moves /\ pc = "drop"
        /\ op.kind = "start"
    BY <1>8 DEF DropPlan, history, NoPlan, VInv, Destined
  <2>2. CASE Stop
    BY <1>0, <2>1, <2>2, EndedTrue DEF Stop, InFolders, Present
  <2>3. CASE pc' = "refresh" /\ UNCHANGED <<mem, op>>
    BY <1>0, <2>1, <2>3, StillTrue DEF Running, Booting
  <2> QED
    BY <1>8, <2>2, <2>3 DEF DropPlan
<1> QED
  BY <1>1, <1>2, <1>3, <1>4, <1>5, <1>6, <1>7, <1>8

LEMMA GoesOn ==
    ASSUME TInv, VInv, UNCHANGED <<files, dirs, stale, plan>>, mem'.entries = mem.entries,
           pc \in {"save", "unlink"},
           NEW o \in Ops, o.kind = op.kind, o.next = op.next,
           Continue(o) \/ (pc' = "unlink" /\ op' = o)
    PROVE  VInv'
<1>1. /\ \A m \in plan.moves : m.to.folder = LegacyFolder
      /\ op.next \in {"idle", "refresh", "clear", "migrate", "drop"}
      /\ op.next \in {"migrate", "drop"} => op.kind = "start"
  BY DEF VInv, Destined, TInv, UndoTyped, NextFits, Ops, Nexts
<1>2. pc' \in {"idle", "refresh", "clear", "migrate", "drop", "unlink"}
  BY <1>1 DEF Continue
<1>3. Booting => Booting' /\ op'.kind = "start"
  BY <1>1 DEF Booting, Continue
<1>4. pc' = "drop" => op'.kind = "start"
  BY <1>1 DEF Continue
<1>5. Running
  BY DEF Running
<1> QED
  BY <1>1, <1>2, <1>3, <1>4, <1>5, StillTrue

LEMMA SavesTrue ==
    ASSUME TInv, VInv, SaveIndex \/ SaveFails \/ Unlink
    PROVE  VInv'
<1>0. op \in Ops /\ mem \in Memories /\ InFolders /\ \A m \in plan.moves : m.to.folder = LegacyFolder
  BY DEF TInv, VInv, Destined
<1>1. CASE SaveIndex
  <2>1. /\ UNCHANGED <<files, dirs, stale, plan>> /\ pc = "save" /\ mem'.entries = mem.entries
    BY <1>0, <1>1 DEF SaveIndex, history, Memories
  <2>2. CASE Continue(op)
    BY <1>0, <2>1, <2>2, GoesOn
  <2>3. CASE pc' = "unlink" /\ op' = [op EXCEPT !.drop = mem.records]
    <3>1. [op EXCEPT !.drop = mem.records] \in Ops
      BY <1>0 DEF Ops, Memories
    <3>2. /\ [op EXCEPT !.drop = mem.records].kind = op.kind
          /\ [op EXCEPT !.drop = mem.records].next = op.next
      BY <1>0 DEF Ops
    <3> QED
      BY <2>1, <2>3, <3>1, <3>2, GoesOn
  <2> QED
    BY <1>1, <2>2, <2>3 DEF SaveIndex
<1>2. CASE SaveFails
  <2>1. UNCHANGED <<files, dirs, stale, plan>> /\ pc = "save"
    BY <1>2 DEF SaveFails, disk, history
  <2>2. CASE pc' = "undo" /\ UNCHANGED <<op, mem>> /\ op.undo
    <3>1. ~Booting
      BY <2>1, <2>2 DEF TInv, UndoTyped, Booting
    <3> QED
      BY <1>0, <2>1, <2>2, <3>1, StillTrue DEF Running
  <2>3. CASE Stop
    BY <1>0, <2>1, <2>3, EndedTrue DEF Stop, InFolders, Present
  <2>4. CASE Return /\ UNCHANGED mem /\ op.kind # "start"
    BY <1>0, <2>1, <2>4, StillTrue DEF Return, Running, Booting
  <2> QED
    BY <1>2, <2>2, <2>3, <2>4 DEF SaveFails
<1>3. CASE Unlink
  <2>1. PICK r \in op.drop :
          IF op.drop = {r} THEN Continue([op EXCEPT !.drop = {}])
          ELSE op' = [op EXCEPT !.drop = @ \ {r}] /\ UNCHANGED pc
    BY <1>3 DEF Unlink
  <2>2. UNCHANGED <<files, dirs, stale, plan>> /\ pc = "unlink" /\ mem'.entries = mem.entries
    BY <1>0, <1>3 DEF Unlink, history, Memories
  <2>3. ASSUME NEW left \in SUBSET op.drop
        PROVE  /\ [op EXCEPT !.drop = left] \in Ops
               /\ [op EXCEPT !.drop = left].kind = op.kind /\ [op EXCEPT !.drop = left].next = op.next
    <3>1. left \in SUBSET Entries
      BY <1>0 DEF Ops
    <3>2. [op EXCEPT !.drop = left] \in Ops
      BY <1>0, <3>1 DEF Ops
    <3> QED
      BY <1>0, <3>2 DEF Ops
  <2>4. CASE Continue([op EXCEPT !.drop = {}])
    BY <2>2, <2>3, <2>4, GoesOn
  <2>5. CASE op' = [op EXCEPT !.drop = op.drop \ {r}] /\ UNCHANGED pc
    BY <2>2, <2>3, <2>5, GoesOn
  <2> QED
    BY <2>1, <2>4, <2>5
<1> QED
  BY <1>1, <1>2, <1>3

(* A scan shows one image for each record it lists.                        *)
LEMMA ScanOneToOne ==
    ASSUME TInv, NEW keep \in SUBSET InPlace, Kept(keep)
    PROVE  /\ \A e \in Scanned(keep) : files[e.path] = e.content
           /\ \A d, e \in Scanned(keep) : d.path = e.path => d = e
<1>1. /\ Known \subseteq Entries
      /\ \A e \in InPlace : e \in Entries /\ files[e.path] = e.content
  BY DEF TInv, Memories, Known, InPlace
<1>2. \A e \in keep : files[e.path] = e.content
  BY <1>1
<1>3. \A d, e \in keep : d.path = e.path => d = e
  BY DEF Kept
<1>4. \A e \in keep : e.path \notin Unmatched
  BY DEF Unmatched
<1>5. ASSUME NEW e \in Described(keep)
      PROVE  /\ e.path \in Unmatched /\ e = [id |-> 0, path |-> e.path, content |-> files[e.path]]
             /\ \A d \in Known : ~Follows(keep, d, e.path)
  BY DEF Described
<1>6. ASSUME NEW x \in Pairs(keep)
      PROVE  /\ x[1] \in Known /\ x[2] \in Unmatched /\ x[2] \in Paths /\ Follows(keep, x[1], x[2])
             /\ files[x[2]] = x[1].content /\ Candidates(keep, x[2]) = {x[1]}
             /\ x = <<x[1], x[2]>>
  <2>1. x[1] \in Known \ keep /\ x[2] \in Unmatched /\ Follows(keep, x[1], x[2]) /\ x = <<x[1], x[2]>>
    BY DEF Pairs
  <2>2. x[1] \in Candidates(keep, x[2]) /\ Candidates(keep, x[2]) = {x[1]}
    BY <2>1 DEF Follows
  <2>3. x[2] \in Paths
    BY <2>1 DEF Unmatched, Occupied
  <2> QED
    BY <2>1, <2>2, <2>3 DEF Candidates
<1>7. ASSUME NEW x \in Pairs(keep)
      PROVE  At(x[2], x[1]).path = x[2] /\ At(x[2], x[1]).content = x[1].content
  BY <1>1, <1>6, AtTyped
<1>8. ASSUME NEW e \in Scanned(keep)
      PROVE  e \in keep \/ e \in Described(keep) \/ \E x \in Pairs(keep) : e = At(x[2], x[1])
  BY DEF Scanned
<1>9. ASSUME NEW e \in Scanned(keep)
      PROVE  files[e.path] = e.content
  <2>1. CASE e \in Described(keep)
    <3>1. e.content = files[e.path]
      BY <1>5, <2>1
    <3> QED
      BY <3>1
  <2> QED
    BY <1>2, <1>6, <1>7, <1>8, <2>1
<1>10. ASSUME NEW d \in Scanned(keep), NEW e \in Scanned(keep), d.path = e.path
       PROVE  d = e
  <2>1. CASE d \in keep \/ e \in keep
    BY <1>3, <1>4, <1>5, <1>6, <1>7, <1>8, <1>10, <2>1
  <2>2. CASE d \in Described(keep) /\ e \in Described(keep)
    <3>1. d = [id |-> 0, path |-> d.path, content |-> files[d.path]]
      BY <1>5, <2>2
    <3>2. e = [id |-> 0, path |-> e.path, content |-> files[e.path]]
      BY <1>5, <2>2
    <3> QED
      BY <1>10, <3>1, <3>2
  <2>3. CASE \E x \in Pairs(keep) : d = At(x[2], x[1])
    <3>1. PICK x \in Pairs(keep) : d = At(x[2], x[1])
      BY <2>3
    <3>2. d.path = x[2] /\ Follows(keep, x[1], x[2]) /\ x[1] \in Known
      BY <1>6, <1>7, <3>1
    <3>3. e \notin Described(keep)
      BY <1>5, <1>10, <3>2
    <3>4. CASE \E y \in Pairs(keep) : e = At(y[2], y[1])
      <4>1. PICK y \in Pairs(keep) : e = At(y[2], y[1])
        BY <3>4
      <4>2. y[2] = x[2]
        BY <1>7, <1>10, <3>2, <4>1
      <4>3. {y[1]} = {x[1]}
        BY <1>6, <4>2
      <4> QED
        BY <3>1, <4>1, <4>2, <4>3
    <3> QED
      BY <1>8, <2>1, <3>3, <3>4
  <2>4. CASE \E y \in Pairs(keep) : e = At(y[2], y[1])
    <3>1. PICK y \in Pairs(keep) : e = At(y[2], y[1])
      BY <2>4
    <3>2. e.path = y[2] /\ Follows(keep, y[1], y[2]) /\ y[1] \in Known
      BY <1>6, <1>7, <3>1
    <3>3. d \notin Described(keep)
      BY <1>5, <1>10, <3>2
    <3> QED
      BY <1>8, <2>1, <2>3, <3>3
  <2> QED
    BY <1>8, <2>1, <2>2, <2>3, <2>4
<1> QED
  BY <1>9, <1>10

LEMMA ScansTrue ==
    ASSUME TInv, VInv, Refresh \/ RefreshTable
    PROVE  VInv'
<1>0. /\ op \in Ops /\ mem \in Memories /\ InFolders
      /\ \A m \in plan.moves : m.to.folder = LegacyFolder
  BY DEF TInv, VInv, Destined
<1>1. CASE RefreshTable
  <2>1. /\ UNCHANGED <<files, dirs, stale, plan, mem>> /\ pc = "idle" /\ pc' = "refresh"
        /\ op' = [NoOp EXCEPT !.kind = "refresh"]
    BY <1>1 DEF RefreshTable, disk, history
  <2>2. op'.kind = "refresh" /\ ~op'.undo
    BY <2>1 DEF NoOp
  <2> QED
    BY <1>0, <2>1, <2>2, StillTrue DEF Running, Booting
<1>2. CASE Refresh
  <2>1. UNCHANGED <<files, dirs, plan>> /\ pc = "refresh"
    BY <1>2 DEF Refresh, disk
  <2>2. CASE UNCHANGED stale /\ (IF op.kind = "start" THEN Stop ELSE Return /\ UNCHANGED mem)
    <3>1. CASE Stop
      BY <1>0, <2>1, <3>1, EndedTrue DEF Stop, InFolders, Present
    <3>2. CASE Return /\ UNCHANGED mem /\ op.kind # "start"
      BY <1>0, <2>1, <2>2, <3>2, StillTrue DEF Return, Running, Booting
    <3> QED
      BY <2>2, <3>1, <3>2
  <2> DEFINE o == [op EXCEPT !.next = IF op.kind = "clear" THEN "clear" ELSE "idle", !.undo = FALSE]
  <2>3. CASE \E keep \in SUBSET InPlace :
                /\ Kept(keep) /\ mem'.entries = Scanned(keep)
                /\ SaveThen(o) \/ Continue(o)
    <3>1. PICK keep \in SUBSET InPlace :
                /\ Kept(keep) /\ mem'.entries = Scanned(keep)
                /\ SaveThen(o) \/ Continue(o)
      BY <2>3
    <3>2. OneToOne'
      BY <2>1, <3>1, ScanOneToOne DEF OneToOne
    <3>3. o.next \in {"clear", "idle"} /\ ~o.undo
      BY <1>0 DEF Ops
    <3>4. pc' \in {"save", "clear", "idle"} /\ ~op'.undo
      <4>1. CASE SaveThen(o)
        BY <3>3, <4>1 DEF SaveThen
      <4>2. CASE Continue(o)
        <5>1. pc' = o.next /\ op' \in {o, NoOp}
          BY <4>2 DEF Continue
        <5> QED
          BY <3>3, <5>1, NothingTyped
      <4> QED
        BY <3>1, <4>1, <4>2
    <3> QED
      BY <1>0, <2>1, <3>2, <3>4 DEF VInv, Shown, InFolders, Present, Destined, WayBack
  <2> QED
    BY <1>0, <1>2, <2>2, <2>3 DEF Refresh, Memories
<1> QED
  BY <1>1, <1>2

(* Operations on images start, and end, where what is shown is true.       *)
LEMMA ShownAtRest ==
    ASSUME VInv, pc \in {"idle", "clear", "publish", "undo"}, ~stale
    PROVE  OneToOne
  BY DEF VInv, Shown, Running, Booting

LEMMA LandsTrue ==
    ASSUME VInv, ~stale' => OneToOne', InFolders', UNCHANGED plan,
           pc' \notin {"moving", "publish", "drop"},
           pc' \in {"save", "undo"} => ~op'.undo
    PROVE  VInv'
  BY DEF VInv, Shown, Destined, WayBack

LEMMA Unlisted ==
    ASSUME TInv, OneToOne, NEW p \in Paths, ~Present(p), NEW e \in mem.entries
    PROVE  e.path # p
<1>1. e.content \in Contents /\ files[e.path] = e.content
  BY DEF TInv, Memories, Entries, OneToOne
<1> QED
  BY <1>1, CatalogueAssumption DEF Present

LEMMA ImagesTrue ==
    ASSUME TInv, VInv, Add \/ Publish \/ PublishFails \/ Remove \/ UpdateNotes
    PROVE  VInv'
<1>0. /\ mem \in Memories /\ files \in [Paths -> Contents \cup {NoImage}] /\ op \in Ops
      /\ InFolders /\ \A m \in plan.moves : m.to.folder = LegacyFolder
  BY DEF TInv, TypeOK, VInv, Destined
<1>1. CASE Add
  <2>1. /\ UNCHANGED <<files, stale, plan>> /\ pc = "idle" /\ pc' = "publish"
        /\ mem'.entries = mem.entries
    BY <1>0, <1>1 DEF Add, Memories
  <2>2. PICK c \in Contents, f \in Folders \cup {Root}, p \in Paths :
           /\ p \in Free(f)
           /\ op' = [NoOp EXCEPT !.kind = "add",
                                 !.todo = {[id |-> images + 1, path |-> p, content |-> c]}]
           /\ MakeFolder(f)
    BY <1>1 DEF Add, Free
  <2>3. op'.kind = "add" /\ op'.todo = {[id |-> images + 1, path |-> p, content |-> c]}
    BY <2>2 DEF NoOp
  <2>4. dirs \subseteq dirs' /\ p.folder \in dirs' \cup {Root}
    BY <2>2 DEF MakeFolder, Free
  <2>5. ~stale' => OneToOne'
    BY <2>1, ShownAtRest DEF OneToOne
  <2>6. Destined'
    BY <1>0, <2>1, <2>3, <2>4 DEF Destined
  <2> QED
    BY <1>0, <2>1, <2>4, <2>5, <2>6 DEF VInv, Shown, InFolders, Present, WayBack
<1>2. CASE Publish
  <2>1. PICK e \in op.todo :
           /\ ~Present(e.path) /\ files' = [files EXCEPT ![e.path] = e.content]
           /\ \/ /\ mem' = [mem EXCEPT !.entries = @ \cup {e}]
                 /\ SaveThen([NoOp EXCEPT !.kind = "add"])
              \/ Return /\ UNCHANGED mem
    BY <1>2 DEF Publish
  <2>2. UNCHANGED <<dirs, stale, plan>> /\ pc = "publish" /\ e.path.folder \in dirs \cup {Root}
    BY <1>2 DEF Publish, VInv, Destined
  <2>3. e \in Entries /\ e.path \in Paths
    BY <1>0 DEF Ops, Entries
  <2>4. mem'.entries \in {mem.entries, mem.entries \cup {e}}
    BY <1>0, <2>1 DEF Memories
  <2>5. ASSUME ~stale' PROVE OneToOne'
    <3>1. OneToOne /\ \A d \in mem.entries : d.path # e.path /\ d.path \in Paths
      BY <1>0, <2>1, <2>2, <2>3, <2>5, ShownAtRest, Unlisted DEF Memories, Entries
    <3> QED
      BY <1>0, <2>1, <2>3, <2>4, <3>1 DEF OneToOne
  <2>6. InFolders'
    BY <1>0, <2>1, <2>2, <2>3 DEF InFolders, Present
  <2>7. pc' \in {"save", "idle"} /\ ~op'.undo
    BY <2>1 DEF SaveThen, Return, NoOp
  <2> QED
    BY <2>2, <2>5, <2>6, <2>7, LandsTrue
<1>3. CASE PublishFails
  <2>1. UNCHANGED <<files, dirs, stale, plan>> /\ pc = "publish" /\ pc' = "idle"
    BY <1>3 DEF PublishFails, Return, history
  <2>2. mem'.entries = mem.entries
    BY <1>0, <1>3 DEF PublishFails, Memories
  <2> QED
    BY <1>0, <2>1, <2>2, StillTrue DEF Running, Booting
<1>4. CASE Remove
  <2>1. PICK e \in mem.entries :
           /\ Readable(e) /\ files' = [files EXCEPT ![e.path] = NoImage]
           /\ mem' = [mem EXCEPT !.entries = @ \ {e}]
    BY <1>4 DEF Remove
  <2>2. UNCHANGED <<dirs, stale, plan>> /\ pc = "idle" /\ pc' = "save" /\ ~op'.undo
    BY <1>4 DEF Remove, SaveThen, NoOp
  <2>3. e.path \in Paths /\ mem'.entries = mem.entries \ {e}
    BY <1>0, <2>1 DEF Memories, Entries
  <2>4. ASSUME ~stale' PROVE OneToOne'
    <3>1. OneToOne /\ \A d \in mem.entries : d.path \in Paths
      BY <1>0, <2>2, <2>4, ShownAtRest DEF Memories, Entries
    <3> QED
      BY <1>0, <2>1, <2>3, <3>1 DEF OneToOne
  <2>5. InFolders'
    BY <1>0, <2>1, <2>2, <2>3 DEF InFolders, Present
  <2> QED
    BY <2>2, <2>4, <2>5, LandsTrue
<1>5. CASE UpdateNotes
  <2>1. /\ UNCHANGED <<files, dirs, stale, plan, mem>> /\ pc = "idle" /\ pc' = "save"
        /\ ~op'.undo
    BY <1>5 DEF UpdateNotes, SaveThen, NoOp, disk, history
  <2> QED
    BY <1>0, <2>1, StillTrue DEF Running, Booting
<1> QED
  BY <1>1, <1>2, <1>3, <1>4, <1>5

LEMMA MoveTrue ==
    ASSUME TInv, VInv, pc \in {"idle", "clear"}, UNCHANGED <<stale, plan>>, dirs \subseteq dirs',
           NEW e \in mem.entries, NEW to \in Paths, NEW o \in Ops,
           Readable(e), ~Present(to), to.folder \in dirs' \cup {Root}, MovesBack(o.kind),
           MoveImage(e, to, o)
    PROVE  VInv'
<1>0. /\ mem \in Memories /\ files \in [Paths -> Contents \cup {NoImage}] /\ InFolders
      /\ \A m \in plan.moves : m.to.folder = LegacyFolder
  BY DEF TInv, TypeOK, VInv, Destined
<1>1. /\ e \in Entries /\ e.path \in Paths /\ e.content \in Contents
      /\ files[e.path] = e.content /\ Present(e.path) /\ e.path # to
  BY <1>0, CatalogueAssumption DEF Memories, Entries, Readable, Present
<1>2. ASSUME ~stale'
      PROVE  OneToOne /\ \A d \in mem.entries : d.path \in Paths /\ d.path # to
  BY <1>0, <1>2, ShownAtRest, Unlisted DEF Memories, Entries
<1>3. CASE /\ files' = HalfMoved(e.path, to)
           /\ Return /\ UNCHANGED mem
  <2>1. ~stale' => OneToOne'
    BY <1>0, <1>2, <1>3 DEF OneToOne, HalfMoved
  <2>2. InFolders'
    BY <1>0, <1>1, <1>3 DEF InFolders, Present, HalfMoved
  <2> QED
    BY <1>3, <2>1, <2>2, LandsTrue DEF Return
<1> DEFINE m == [o EXCEPT !.from = e, !.to = to, !.undo = TRUE]
<1>4. CASE /\ files' = Moved(e.path, to)
           /\ mem' = [mem EXCEPT !.entries = (@ \ {e}) \cup {At(to, e)}]
           /\ SaveThen(m)
  <2>1. /\ mem'.entries = (mem.entries \ {e}) \cup {At(to, e)}
        /\ At(to, e).path = to /\ At(to, e).content = e.content
    BY <1>0, <1>1, <1>4, AtTyped DEF Memories
  <2>2. op' = m /\ pc' = "save" /\ m.from = e /\ m.to = to /\ m.undo /\ m.kind = o.kind
    BY <1>4 DEF SaveThen, Ops
  <2>3. ASSUME ~stale' PROVE OneToOne'
    <3>1. /\ \A d \in mem.entries \ {e} : d.path # e.path /\ d.path # to /\ d.path \in Paths
          /\ OneToOne
      BY <1>2, <2>3 DEF OneToOne
    <3>2. files'[to] = e.content
      BY <1>0, <1>1, <1>4 DEF Moved
    <3>3. \A d \in mem.entries \ {e} : files'[d.path] = files[d.path]
      BY <1>0, <1>4, <3>1 DEF Moved
    <3> QED
      BY <2>1, <3>1, <3>2, <3>3 DEF OneToOne
  <2>4. InFolders' /\ ~Present(e.path)'
    BY <1>0, <1>1, <1>4 DEF InFolders, Present, Moved
  <2>5. e.path.folder \in dirs' \cup {Root}
    BY <1>0, <1>1 DEF InFolders
  <2>6. WayBack'
    <3>1. /\ op'.from = e /\ op'.to = to /\ At(to, e) \in mem'.entries
          /\ op'.kind # "rename_folder"
      BY <2>1, <2>2 DEF MovesBack
    <3>2. ~(files'[e.path] # NoImage)
      BY <2>4 DEF Present
    <3> QED
      BY <1>1, <2>5, <3>1, <3>2 DEF WayBack, Present
  <2> QED
    BY <1>0, <2>2, <2>3, <2>4, <2>6 DEF VInv, Shown, Destined
<1> QED
  BY <1>3, <1>4 DEF MoveImage

LEMMA MovesTrue ==
    ASSUME TInv, VInv, Rename \/ UpdateFolder \/ ClearOne
    PROVE  VInv'
<1>0. /\ mem \in Memories /\ op \in Ops /\ InFolders
      /\ \A m \in plan.moves : m.to.folder = LegacyFolder
  BY DEF TInv, VInv, Destined
<1>1. CASE Rename
  <2>1. PICK e \in mem.entries, to \in Paths :
           /\ Readable(e) /\ to.folder = e.path.folder /\ ~Present(to)
           /\ MoveImage(e, to, [NoOp EXCEPT !.kind = "rename"])
    BY <1>1 DEF Rename
  <2>2. pc = "idle" /\ UNCHANGED <<dirs, stale, plan>>
    BY <1>1 DEF Rename
  <2>3. [NoOp EXCEPT !.kind = "rename"] \in Ops /\ MovesBack([NoOp EXCEPT !.kind = "rename"].kind)
    BY NothingTyped DEF Ops, Kinds, MovesBack
  <2>4. to.folder \in dirs' \cup {Root}
    <3>1. e.path \in Paths /\ Present(e.path)
      BY <1>0, <2>1, CatalogueAssumption DEF Memories, Entries, Readable, Present
    <3> QED
      BY <1>0, <2>1, <2>2, <3>1 DEF InFolders
  <2> QED
    BY <2>1, <2>2, <2>3, <2>4, MoveTrue
<1>2. CASE UpdateFolder
  <2> DEFINE o == [NoOp EXCEPT !.kind = "folder_of", !.next = "refresh"]
  <2>1. PICK e \in mem.entries, f \in Folders \cup {Root}, to \in Paths :
           Readable(e) /\ to \in Free(f) /\ MoveImage(e, to, o) /\ MakeFolder(f)
    BY <1>2 DEF UpdateFolder, Free
  <2>2. pc = "idle" /\ UNCHANGED <<stale, plan>>
    BY <1>2 DEF UpdateFolder
  <2>3. o \in Ops /\ MovesBack(o.kind)
    BY NothingTyped DEF Ops, Kinds, Nexts, MovesBack
  <2>4. to.folder \in dirs' \cup {Root} /\ ~Present(to) /\ dirs \subseteq dirs'
    BY <2>1 DEF Free, MakeFolder
  <2> QED
    BY <2>1, <2>2, <2>3, <2>4, MoveTrue
<1>3. CASE ClearOne
  <2>1. pc = "clear" /\ op.kind = "clear" /\ UNCHANGED <<dirs, stale, plan>>
    BY <1>3 DEF ClearOne, TInv, UndoTyped
  <2>2. CASE Return /\ UNCHANGED <<files, mem>>
    BY <1>0, <2>1, <2>2, StillTrue DEF Return, Running, Booting
  <2>3. ASSUME NEW e \in op.todo, Readable(e), NEW to \in Free(Root),
               MoveImage(e, to, [op EXCEPT !.next = "refresh", !.todo = @ \ {e}])
        PROVE  VInv'
    <3> DEFINE o == [op EXCEPT !.next = "refresh", !.todo = @ \ {e}]
    <3>1. o \in Ops /\ o.kind = "clear"
      BY <1>0, <2>1 DEF Ops, Nexts
    <3>2. e \in mem.entries /\ to \in Paths /\ to.folder = Root /\ ~Present(to)
      BY <2>3 DEF Readable, Exact, Free
    <3> QED
      BY <2>1, <2>3, <3>1, <3>2, MoveTrue DEF MovesBack
  <2> QED
    BY <1>3, <2>2, <2>3 DEF ClearOne
<1> QED
  BY <1>1, <1>2, <1>3

LEMMA ThereAndBack ==
    ASSUME NEW p \in Paths, NEW f \in AnyFolder
    PROVE  /\ InFolder(p, f) \in Paths /\ InFolder(p, f).folder = f
           /\ InFolder(InFolder(p, f), p.folder) = p
<1>1. p = [folder |-> p.folder, name |-> p.name] /\ p.name \in Names
  BY DEF Paths
<1>2. InFolder(p, f) = [folder |-> f, name |-> p.name]
  BY <1>1 DEF InFolder
<1>3. ASSUME NEW q, q = [folder |-> f, name |-> p.name]
      PROVE  InFolder(q, p.folder) = [folder |-> p.folder, name |-> p.name]
  BY <1>3 DEF InFolder
<1> QED
  BY <1>1, <1>2, <1>3 DEF Paths, AnyFolder

(* The images of folder f move to g, which did not exist, in one step.     *)
LEMMA FolderMoves ==
    ASSUME TInv, InFolders, NEW f \in Folders, NEW g \in Folders \ dirs, f \in dirs,
           files' = FolderMoved(f, g), dirs' = (dirs \ {f}) \cup {g}
    PROVE  /\ InFolders'
           /\ \A p \in Paths : p.folder = f =>
                 /\ InFolder(p, g) \in Paths /\ InFolder(p, g).folder = g
                 /\ files'[InFolder(p, g)] = files[p]
           /\ \A p \in Paths : Present(p) => p.folder # g
           /\ \A p \in Paths : p.folder \notin {f, g} => files'[p] = files[p]
<1>0. f # Root /\ g # Root /\ f # g
  BY CatalogueAssumption
<1>1. ASSUME NEW p \in Paths, p.folder = f
      PROVE  /\ InFolder(p, g) \in Paths /\ InFolder(p, g).folder = g
             /\ InFolder(InFolder(p, g), f) = p
  BY <1>1, ThereAndBack DEF AnyFolder
<1>2. \A p \in Paths : Present(p) => p.folder # g
  BY <1>0 DEF InFolders
<1>3. \A p \in Paths : p.folder = f => files'[InFolder(p, g)] = files[p]
  BY <1>1 DEF FolderMoved
<1>4. \A p \in Paths : p.folder \notin {f, g} => files'[p] = files[p]
  BY DEF FolderMoved
<1>5. \A p \in Paths : p.folder = f => files'[p] = NoImage
  BY <1>0 DEF FolderMoved
<1>6. InFolders'
  BY <1>4, <1>5 DEF InFolders, Present
<1> QED
  BY <1>1, <1>2, <1>3, <1>4, <1>6

LEMMA FoldersTrue ==
    ASSUME TInv, VInv, CreateFolder \/ RenameFolder \/ ClearFolder \/ ClearDone
    PROVE  VInv'
<1>0. /\ mem \in Memories /\ op \in Ops /\ InFolders
      /\ \A m \in plan.moves : m.to.folder = LegacyFolder
  BY DEF TInv, VInv, Destined
<1>1. CASE CreateFolder
  <2>1. /\ UNCHANGED <<files, stale, plan, mem>> /\ dirs \subseteq dirs' /\ pc = "idle"
        /\ pc' = "refresh"
    BY <1>1 DEF CreateFolder, MakeFolder, history
  <2> QED
    BY <1>0, <2>1, StillTrue DEF Running, Booting
<1>2. CASE RenameFolder
  <2>1. PICK f \in dirs, g \in Folders \ dirs :
          /\ files' = FolderMoved(f, g) /\ dirs' = (dirs \ {f}) \cup {g}
          /\ mem' = [mem EXCEPT !.entries = (@ \ Within(f))
                        \cup {At(InFolder(e.path, g), e) : e \in Within(f)}]
          /\ SaveThen([NoOp EXCEPT !.kind = "rename_folder", !.from = f, !.to = g, !.todo = Within(f),
                                   !.next = "refresh", !.undo = TRUE])
    BY <1>2 DEF RenameFolder
  <2>2. pc = "idle" /\ UNCHANGED <<stale, plan>> /\ f \in Folders
    BY <1>2 DEF RenameFolder, TInv, TypeOK
  <2> DEFINE Gone == {At(InFolder(e.path, g), e) : e \in Within(f)}
  <2>3. mem'.entries = (mem.entries \ Within(f)) \cup Gone
    BY <1>0, <2>1 DEF Memories
  <2>4. /\ pc' = "save" /\ op'.kind = "rename_folder" /\ op'.from = f /\ op'.to = g
        /\ op'.todo = Within(f)
    BY <2>1 DEF SaveThen, NoOp
  <2>5. /\ InFolders'
        /\ \A p \in Paths : p.folder = f =>
              /\ InFolder(p, g) \in Paths /\ InFolder(p, g).folder = g
              /\ files'[InFolder(p, g)] = files[p]
        /\ \A p \in Paths : Present(p) => p.folder # g
        /\ \A p \in Paths : p.folder \notin {f, g} => files'[p] = files[p]
    BY <1>0, <2>1, <2>2, FolderMoves
  <2>6. \A e \in mem.entries : e \in Entries /\ e.path \in Paths
    BY <1>0 DEF Memories, Entries
  <2>7. ASSUME NEW e \in Within(f)
        PROVE  /\ e \in mem.entries /\ e \in Entries /\ e.path \in Paths /\ e.path.folder = f
               /\ At(InFolder(e.path, g), e).path = InFolder(e.path, g)
               /\ At(InFolder(e.path, g), e).content = e.content
    BY <2>5, <2>6, AtTyped DEF Within
  <2>8. ASSUME ~stale'
        PROVE  OneToOne /\ \A e \in mem.entries : e.path.folder # g
    <3>1. OneToOne
      BY <2>2, <2>8, ShownAtRest
    <3>2. \A e \in mem.entries : Present(e.path)
      BY <2>6, <3>1, CatalogueAssumption DEF OneToOne, Present, Entries
    <3> QED
      BY <2>5, <2>6, <3>1, <3>2
  <2>9. ASSUME ~stale' PROVE OneToOne'
    <3>1. ASSUME NEW e \in mem.entries \ Within(f)
          PROVE  e.path.folder \notin {f, g} /\ files'[e.path] = e.content
      BY <2>5, <2>6, <2>8, <2>9 DEF OneToOne, Within
    <3>2. ASSUME NEW d \in Gone
          PROVE  d.path.folder = g /\ files'[d.path] = d.content
      BY <2>5, <2>7, <2>8, <2>9 DEF OneToOne
    <3>3. ASSUME NEW c \in Gone, NEW d \in Gone, c.path = d.path
          PROVE  c = d
      <4>1. PICK i \in Within(f), j \in Within(f) :
               c = At(InFolder(i.path, g), i) /\ d = At(InFolder(j.path, g), j)
        OBVIOUS
      <4>2. InFolder(i.path, g) = InFolder(j.path, g)
        BY <2>7, <3>3, <4>1
      <4>3. i.path = j.path
        <5>1. i.path.name = j.path.name /\ i.path.folder = j.path.folder
          BY <2>7, <4>2 DEF InFolder, Paths
        <5> QED
          BY <2>7, <5>1 DEF Paths
      <4> QED
        BY <2>7, <2>8, <2>9, <4>1, <4>3 DEF OneToOne
    <3> QED
      BY <2>3, <2>8, <2>9, <3>1, <3>2, <3>3 DEF OneToOne
  <2>10. ~stale' => {e \in mem'.entries : e.path.folder = g} = Gone
    BY <2>3, <2>5, <2>7, <2>8
  <2>11. f \notin dirs' /\ g \in dirs' /\ \A e \in Within(f) : e.path.folder = f
    BY <2>1 DEF Within
  <2>12. WayBack'
    BY <2>4, <2>10, <2>11 DEF WayBack, MovesBack, Within
  <2> QED
    BY <1>0, <2>2, <2>4, <2>5, <2>9, <2>12 DEF VInv, Shown, Destined
<1>3. CASE ClearFolder
  <2>1. UNCHANGED <<files, dirs, stale, plan, mem>> /\ pc = "idle" /\ pc' = "clear"
    BY <1>3 DEF ClearFolder, disk, history
  <2> QED
    BY <1>0, <2>1, StillTrue DEF Running, Booting
<1>4. CASE ClearDone
  <2>1. UNCHANGED <<files, stale, plan, mem>> /\ pc = "clear" /\ pc' \in {"idle", "refresh"}
    BY <1>4 DEF ClearDone, Return, history
  <2>2. InFolders'
    BY <1>0, <1>4 DEF ClearDone, InFolders, Present, Occupied
  <2> QED
    BY <2>1, <2>2, LandsTrue, ShownAtRest DEF OneToOne
<1> QED
  BY <1>1, <1>2, <1>3, <1>4

(* The way back of a move that could not be recorded.                      *)
LEMMA UndosTrue ==
    ASSUME TInv, VInv, UndoRename \/ UndoMove \/ UndoRenameFolder
    PROVE  VInv'
<1>0. /\ mem \in Memories /\ files \in [Paths -> Contents \cup {NoImage}] /\ InFolders
      /\ pc = "undo" /\ op.undo /\ UNCHANGED plan /\ pc' = "idle"
  BY DEF TInv, TypeOK, UndoTyped, VInv, UndoRename, UndoMove, UndoRenameFolder, Return
<1>1. \A e \in mem.entries : e \in Entries /\ e.path \in Paths /\ e.content \in Contents
  BY <1>0 DEF Memories, Entries
<1>2. CASE UndoRename \/ UndoMove
  <2> DEFINE from == op.from
             to == op.to
             back == (mem.entries \ {At(to, from)}) \cup {from}
  <2>1. /\ from \in Entries /\ to \in Paths /\ from.path \in Paths
        /\ At(to, from).path = to /\ At(to, from).content = from.content
        /\ At(to, from) \in mem.entries /\ to # from.path
        /\ ~Present(from.path) /\ from.path.folder \in dirs \cup {Root}
    <3>1. MovesBack(op.kind)
      BY <1>2 DEF UndoRename, UndoMove, MovesBack
    <3>2. from \in Entries /\ to \in Paths
      BY <1>0, <3>1 DEF TInv, UndoTyped
    <3>3. from.path \in Paths
      BY <3>2 DEF Entries
    <3> QED
      BY <1>0, <3>1, <3>2, <3>3, AtTyped DEF VInv, WayBack
  <2>2. UNCHANGED dirs
    BY <1>2 DEF UndoRename, UndoMove
  <2>3. \/ stale' /\ UNCHANGED files
        \/ UNCHANGED stale /\ files' = Moved(to, from.path) /\ mem'.entries = back
        \/ UNCHANGED stale /\ files' = HalfMoved(to, from.path) /\ mem'.entries \in {back, mem.entries}
        \/ UNCHANGED <<stale, files>> /\ mem'.entries = mem.entries
    BY <1>0, <1>2 DEF UndoRename, UndoMove, Memories
  <2>4. InFolders'
    BY <1>0, <2>1, <2>2, <2>3 DEF InFolders, Present, Moved, HalfMoved
  <2>5. ASSUME ~stale' PROVE OneToOne'
    <3>1. /\ OneToOne /\ files[to] = from.content
          /\ \A d \in mem.entries : d.path # from.path
      BY <1>0, <2>1, <2>3, <2>5, ShownAtRest, Unlisted DEF OneToOne
    <3>2. \A d \in mem.entries \ {At(to, from)} : d.path \notin {to, from.path}
      BY <2>1, <3>1 DEF OneToOne
    <3>3. CASE files' = files /\ mem'.entries = mem.entries
      BY <3>1, <3>3 DEF OneToOne
    <3>4. CASE files' = HalfMoved(to, from.path) /\ mem'.entries \in {back, mem.entries}
      <4>1. /\ files'[from.path] = from.content
            /\ \A d \in mem.entries : files'[d.path] = files[d.path]
        BY <1>0, <1>1, <2>1, <3>1, <3>4 DEF HalfMoved
      <4> QED
        BY <3>1, <3>2, <3>4, <4>1 DEF OneToOne
    <3>5. CASE files' = Moved(to, from.path) /\ mem'.entries = back
      <4>1. /\ files'[from.path] = from.content
            /\ \A d \in mem.entries \ {At(to, from)} : files'[d.path] = files[d.path]
        BY <1>0, <1>1, <2>1, <3>1, <3>2, <3>5 DEF Moved
      <4> QED
        BY <3>1, <3>2, <3>5, <4>1 DEF OneToOne
    <3> QED
      BY <2>3, <2>5, <3>3, <3>4, <3>5
  <2> QED
    BY <1>0, <2>4, <2>5, LandsTrue
<1>3. CASE UndoRenameFolder
  <2> DEFINE g == op.from
             f == op.to
             Gone == {At(InFolder(e.path, f), e) : e \in op.todo}
  <2>1. /\ f \in Folders /\ g \in Folders \ dirs /\ f \in dirs
        /\ \A e \in op.todo : e.path.folder = g
        /\ ~stale => Within(f) = Gone
    BY <1>0, <1>3 DEF UndoRenameFolder, TInv, UndoTyped, VInv, WayBack
  <2>2. CASE UNCHANGED <<files, dirs, mem, stale>>
    BY <1>0, <2>2, LandsTrue, ShownAtRest DEF OneToOne, InFolders, Present
  <2>3. CASE /\ files' = FolderMoved(f, g) /\ dirs' = (dirs \ {f}) \cup {g} /\ UNCHANGED stale
             /\ mem' = [mem EXCEPT !.entries = (@ \ Gone) \cup op.todo]
    <3>1. /\ InFolders'
          /\ \A p \in Paths : p.folder = f =>
                InFolder(p, g) \in Paths /\ files'[InFolder(p, g)] = files[p]
          /\ \A p \in Paths : Present(p) => p.folder # g
          /\ \A p \in Paths : p.folder \notin {f, g} => files'[p] = files[p]
      BY <1>0, <2>1, <2>3, FolderMoves
    <3>2. mem'.entries = (mem.entries \ Gone) \cup op.todo
      BY <1>0, <2>3 DEF Memories
    <3>3. ASSUME NEW e \in op.todo
          PROVE  /\ e \in Entries /\ e.path \in Paths
                 /\ InFolder(e.path, f) \in Paths /\ InFolder(e.path, f).folder = f
                 /\ InFolder(InFolder(e.path, f), g) = e.path
                 /\ At(InFolder(e.path, f), e) \in Gone
                 /\ At(InFolder(e.path, f), e).path = InFolder(e.path, f)
                 /\ At(InFolder(e.path, f), e).content = e.content
                 /\ At(InFolder(e.path, f), e).id = e.id
      <4>1. e \in Entries
        BY DEF TInv, Ops
      <4>2. e.path \in Paths /\ e.path.folder = g
        BY <2>1, <4>1 DEF Entries
      <4>3. InFolder(e.path, f) \in Paths /\ InFolder(e.path, f).folder = f
        BY <2>1, <4>2 DEF InFolder, Paths
      <4>4. InFolder(InFolder(e.path, f), g) = e.path
        BY <2>1, <4>2, ThereAndBack DEF AnyFolder
      <4> QED
        BY <4>1, <4>2, <4>3, <4>4, AtTyped
    <3>4. ASSUME ~stale' PROVE OneToOne'
      <4>1. OneToOne /\ Within(f) = Gone
        BY <1>0, <2>1, <2>3, <3>4, ShownAtRest
      <4>2. \A e \in mem.entries : Present(e.path)
        BY <1>1, <4>1, CatalogueAssumption DEF OneToOne, Present
      <4>3. ASSUME NEW e \in mem.entries \ Gone
            PROVE  e.path.folder \notin {f, g} /\ files'[e.path] = e.content
        BY <1>1, <3>1, <4>1, <4>2 DEF OneToOne, Within
      <4>4. ASSUME NEW e \in op.todo
            PROVE  e.path.folder = g /\ files'[e.path] = e.content
        <5>1. At(InFolder(e.path, f), e) \in mem.entries
          BY <3>3, <4>1 DEF Within
        <5>2. files[InFolder(e.path, f)] = e.content
          BY <3>3, <4>1, <5>1 DEF OneToOne
        <5> QED
          BY <2>1, <3>1, <3>3, <5>2
      <4>5. ASSUME NEW d \in op.todo, NEW e \in op.todo, d.path = e.path
            PROVE  d = e
        <5>1. At(InFolder(d.path, f), d) = At(InFolder(e.path, f), e)
          BY <3>3, <4>1, <4>5 DEF OneToOne, Within
        <5>2. d.id = e.id /\ d.content = e.content
          BY <3>3, <5>1
        <5> QED
          BY <3>3, <4>5, <5>2 DEF Entries
      <4>6. \A e \in mem'.entries : files'[e.path] = e.content
        BY <3>2, <4>3, <4>4
      <4>7. \A d, e \in mem'.entries : d.path = e.path => d = e
        <5>1. \A d, e \in mem.entries \ Gone : d.path = e.path => d = e
          BY <4>1 DEF OneToOne
        <5>2. \A d \in mem.entries \ Gone, e \in op.todo : d.path # e.path
          BY <4>3, <4>4
        <5> QED
          BY <3>2, <4>5, <5>1, <5>2
      <4> QED
        BY <4>6, <4>7 DEF OneToOne
    <3> QED
      BY <1>0, <3>1, <3>4, LandsTrue
  <2> QED
    BY <1>3, <2>2, <2>3 DEF UndoRenameFolder
<1> QED
  BY <1>2, <1>3

LEMMA EndsTrue ==
    ASSUME TInv, VInv, Leave \/ Crash \/ Outside
    PROVE  VInv'
<1>0. InFolders /\ files \in [Paths -> Contents \cup {NoImage}]
  BY DEF VInv, TInv, TypeOK
<1>1. CASE Leave \/ Crash
  BY <1>0, <1>1, EndedTrue DEF Leave, Crash, Stop, disk, history, InFolders, Present
<1>2. CASE Outside
  <2>1. /\ UNCHANGED <<plan, mem, pc, op>> /\ stale' /\ pc \in {"off", "idle", "publish"}
        /\ dirs \subseteq dirs'
        /\ \A p \in Paths : files'[p] # NoImage /\ p.folder # Root => p.folder \in dirs'
    BY <1>2 DEF Outside
  <2>2. InFolders'
    BY <2>1 DEF InFolders, Present
  <2> QED
    BY <2>1, <2>2 DEF VInv, Shown, Destined, WayBack
<1> QED
  BY <1>1, <1>2

LEMMA StepTrue == TInv /\ VInv /\ [Next]_vars => VInv'
<1> SUFFICES ASSUME TInv, VInv, [Next]_vars PROVE VInv'
  OBVIOUS
<1>1. CASE Operation
  BY <1>1, ScansTrue, ImagesTrue, MovesTrue, FoldersTrue DEF Operation
<1>2. CASE Step
  BY <1>2, StartsTrue, SavesTrue, ScansTrue, ImagesTrue, MovesTrue, FoldersTrue, UndosTrue DEF Step
<1>3. CASE Leave \/ Crash \/ Outside
  BY <1>3, EndsTrue
<1>4. CASE UNCHANGED vars
  BY <1>4 DEF vars, disk, history, VInv, Shown, Running, Booting, OneToOne, InFolders, Present,
              Destined, WayBack, Within
<1> QED
  BY <1>1, <1>2, <1>3, <1>4 DEF Next

LEMMA InitTrue == Init => VInv
<1> SUFFICES ASSUME Init PROVE VInv
  OBVIOUS
<1>1. pc = "off" /\ plan.moves = {}
  BY DEF Init, NoPlan
<1>2. InFolders
  <2>1. PICK name \in [1 .. images -> Names], content \in [1 .. images -> Contents] :
          index = {LegacyEntry(i, name[i], content[i]) : i \in 1 .. images}
    BY DEF Init
  <2>2. PICK there \in SUBSET index :
          files = [p \in Paths |-> IF \E e \in there : e.path = p
                                   THEN RecordOf(index, p).content ELSE NoImage]
    BY DEF Init
  <2>3. \A e \in index : e.path.folder = Root
    BY <2>1 DEF LegacyEntry
  <2> QED
    BY <2>2, <2>3 DEF InFolders, Present
<1> QED
  BY <1>1, <1>2 DEF VInv, Shown, Running, Destined, WayBack

(* The catalogue shown at rest agrees with the folder, unless others have  *)
(* changed it since the last scan or the way back of a rename failed:      *)
(* every record finds its image, and no two records share one.             *)
THEOREM CatalogueIsTruthful == Spec => []EntriesTruthful
<1>1. Init => TInv /\ VInv
  BY InitTyped, InitTrue
<1>2. TInv /\ VInv /\ [Next]_vars => (TInv /\ VInv)'
  BY StepTyped, StepTrue
<1>3. VInv => EntriesTruthful
  BY ShownAtRest DEF EntriesTruthful, OneToOne, Exact
<1> QED
  BY <1>1, <1>2, <1>3, PTL DEF Spec

(* A scan lists an image unlike all others, of which there is one record,  *)
(* with its own provenance, wherever it has gone.                          *)
LEMMA ScanFinds ==
    ASSUME TInv, NEW keep \in SUBSET InPlace, Kept(keep),
           NEW e \in Known, OnlyRecord(e), OnlyImage(e)
    PROVE  \E d \in Scanned(keep) : d.id = e.id /\ files[d.path] = e.content
<1>1. Known \subseteq Entries
  BY DEF TInv, Memories, Known
<1>2. e \in Entries /\ e.content \in Contents
  BY <1>1 DEF Entries
<1>3. PICK p \in Paths : {q \in Paths : files[q] = e.content} = {p}
  BY DEF OnlyImage
<1>4. files[p] = e.content /\ \A q \in Paths : files[q] = e.content => q = p
  BY <1>3
<1>5. p \in Occupied
  BY <1>2, <1>4, CatalogueAssumption DEF Occupied, Present
<1>6. CASE p \notin Unmatched
  <2>1. PICK i \in InPlace : i.path = p
    BY <1>5, <1>6 DEF Unmatched
  <2>2. PICK k \in keep : k.path = p
    BY <2>1 DEF Kept
  <2>3. k \in Known /\ files[p] = k.content
    BY <2>2 DEF InPlace
  <2>4. k = e
    BY <1>4, <2>3 DEF OnlyRecord
  <2> QED
    BY <1>4, <2>2, <2>4 DEF Scanned
<1>7. CASE p \in Unmatched
  <2>1. e \notin keep
    <3>1. ASSUME e \in keep PROVE FALSE
      <4>1. e \in InPlace /\ files[e.path] = e.content
        BY <3>1 DEF InPlace
      <4>2. e.path = p
        BY <1>2, <1>4, <4>1 DEF Entries
      <4> QED
        BY <1>7, <4>1, <4>2 DEF Unmatched
    <3> QED
      BY <3>1
  <2>2. Candidates(keep, p) = {e}
    BY <1>4, <2>1 DEF Candidates, OnlyRecord
  <2>3. SameContent(files[p]) = {p}
    BY <1>4, <1>7 DEF SameContent, Unmatched, Occupied
  <2>4. <<e, p>> \in Pairs(keep)
    BY <1>7, <2>1, <2>2, <2>3 DEF Pairs, Follows
  <2>5. At(p, e) \in Scanned(keep)
    BY <2>4 DEF Scanned
  <2>6. At(p, e).id = e.id /\ At(p, e).path = p
    BY <1>2, AtTyped
  <2> QED
    BY <1>4, <2>5, <2>6
<1> QED
  BY <1>6, <1>7

THEOREM ScansFindImages == Spec => FoundAgain
<1> DEFINE Finds == ScanDone =>
                      \A e \in Known :
                         OnlyRecord(e) /\ OnlyImage(e)
                         => \E d \in mem'.entries : d.id = e.id /\ files[d.path] = e.content
<1>1. TInv /\ [Next]_vars => [Finds]_vars
  <2> SUFFICES ASSUME TInv, Next, pc = "refresh", pc' # "off", NoFault
               PROVE  Finds
    BY DEF ScanDone
  <2>1. Refresh
    BY DEF Next, Operation, Step, Start, RefuseToStart, WritePlan, Migrate, ReplayMove, AdoptPlan,
           RefuseToMigrate, DropPlan, SaveIndex, SaveFails, Unlink, Publish, PublishFails, ClearOne,
           ClearDone, UndoRename, UndoMove, UndoRenameFolder, Add, Remove, UpdateNotes, Rename,
           UpdateFolder, CreateFolder, RenameFolder, ClearFolder, RefreshTable, Leave, Crash, Stop,
           Outside
  <2>2. ~Fault
    BY DEF TInv, TypeOK, Fault, NoFault
  <2>3. PICK keep \in SUBSET InPlace : Kept(keep) /\ mem'.entries = Scanned(keep)
    BY <2>1, <2>2 DEF Refresh, TInv, Memories
  <2> QED
    BY <2>3, ScanFinds
<1>2. Spec => []TInv
  BY InitTyped, StepTyped, PTL DEF Spec
<1> QED
  BY <1>1, <1>2, PTL DEF Spec, FoundAgain

(* A plan under way is carried out before it is given up: its images are   *)
(* moved when the new records are adopted, and these are saved before the  *)
(* plan is removed.                                                        *)
PlanWhole == \A m \in plan.moves : \E e \in plan.entries : e.path = m.to /\ e.content = m.content
Adopted ==
    pc = "drop" \/ (pc \in {"save", "unlink"} /\ op.next = "drop") =>
        /\ \A m \in plan.moves : files[m.to] = m.content /\ ~Present(m.from)
        /\ mem.entries = plan.entries /\ ~mem.legacy
Saved == pc = "drop" \/ (pc = "unlink" /\ op.next = "drop") =>
            plan.entries \subseteq index /\ ~legacy
MInv == PlanWhole /\ Adopted /\ Saved

LEMMA StepMigrates == TInv /\ MInv /\ [Next]_vars => MInv'
<1> SUFFICES ASSUME TInv, MInv, [Next]_vars PROVE MInv'
  OBVIOUS
<1>0. /\ mem \in Memories /\ op \in Ops /\ op.next \in Nexts /\ NextFits(op)
      /\ plan.moves \in SUBSET [from : Paths, to : Paths, content : Contents]
  BY DEF TInv, Ops, UndoTyped
<1>1. ASSUME UNCHANGED plan, pc' # "drop", pc' \in {"save", "unlink"} => op'.next # "drop"
      PROVE  MInv'
  BY <1>1 DEF MInv, PlanWhole, Adopted, Saved
<1>2. CASE WritePlan
  <2>1. PICK to \in [ToMove -> Free(LegacyFolder)] :
          plan' = [entries |-> {IF e \in ToMove THEN At(to[e], e) ELSE e : e \in mem.entries},
                   moves |-> {[from |-> e.path, to |-> to[e], content |-> e.content] : e \in ToMove},
                   none |-> FALSE]
    BY <1>2 DEF WritePlan
  <2>2. ASSUME NEW e \in ToMove
        PROVE  /\ At(to[e], e) \in plan'.entries
               /\ At(to[e], e).path = to[e] /\ At(to[e], e).content = e.content
    <3>1. e \in mem.entries /\ e \in Entries /\ to[e] \in Paths
      BY <1>0 DEF ToMove, Memories, Free
    <3> QED
      BY <2>1, <2>2, <3>1, AtTyped
  <2>3. PlanWhole'
    BY <2>1, <2>2 DEF PlanWhole
  <2> QED
    BY <1>2, <2>3 DEF WritePlan, MInv, Adopted, Saved
<1>3. CASE AdoptPlan
  <2>1. UNCHANGED <<plan, files>> /\ mem'.entries = plan.entries /\ ~mem'.legacy /\ pc' = "save"
    BY <1>0, <1>3 DEF AdoptPlan, SaveThen, disk, Memories
  <2>2. \A m \in plan.moves : files[m.to] = m.content /\ ~Present(m.from)
    BY <1>3 DEF AdoptPlan, MoveBlocked
  <2> QED
    BY <2>1, <2>2 DEF MInv, PlanWhole, Adopted, Saved, Present
<1>4. CASE SaveIndex
  <2>1. /\ UNCHANGED <<plan, files>> /\ pc = "save" /\ mem'.entries = mem.entries
        /\ mem'.legacy = mem.legacy /\ legacy' = mem.legacy /\ mem.entries \subseteq index'
    BY <1>0, <1>4 DEF SaveIndex, Memories
  <2>2. CASE op.next = "drop"
    BY <2>1, <2>2 DEF MInv, PlanWhole, Adopted, Saved, Present
  <2>3. CASE op.next # "drop"
    <3>1. pc' # "drop" /\ (pc' = "unlink" => op'.next # "drop") /\ pc' # "save"
      BY <1>0, <1>4, <2>3 DEF SaveIndex, Continue, Nexts, Ops
    <3> QED
      BY <1>1, <2>1, <3>1
  <2> QED
    BY <2>2, <2>3
<1>5. CASE Unlink
  <2>1. /\ UNCHANGED <<plan, files, index, legacy>> /\ pc = "unlink"
        /\ mem'.entries = mem.entries /\ mem'.legacy = mem.legacy
    BY <1>0, <1>5 DEF Unlink, history, Memories
  <2>2. CASE op.next = "drop"
    BY <2>1, <2>2 DEF MInv, PlanWhole, Adopted, Saved, Present
  <2>3. CASE op.next # "drop"
    <3>1. PICK r \in op.drop :
            IF op.drop = {r} THEN Continue([op EXCEPT !.drop = {}])
            ELSE op' = [op EXCEPT !.drop = @ \ {r}] /\ UNCHANGED pc
      BY <1>5 DEF Unlink
    <3>2. pc' # "drop" /\ (pc' = "unlink" => op'.next # "drop") /\ pc' # "save"
      BY <1>0, <2>1, <2>3, <3>1 DEF Continue, Nexts, Ops
    <3> QED
      BY <1>1, <2>1, <3>2
  <2> QED
    BY <2>2, <2>3
<1>6. CASE DropPlan
  BY <1>6 DEF DropPlan, NoPlan, MInv, PlanWhole, Adopted, Saved, Stop
<1>7. CASE Start \/ RefuseToStart \/ Migrate \/ ReplayMove \/ RefuseToMigrate \/ SaveFails
  BY <1>1, <1>7 DEF Start, RefuseToStart, Migrate, ReplayMove, RefuseToMigrate, SaveFails,
                    disk, history, SaveThen, Continue, Return, Stop, NoOp
<1>8. CASE Refresh
  <2> DEFINE o == [op EXCEPT !.next = IF op.kind = "clear" THEN "clear" ELSE "idle", !.undo = FALSE]
  <2>1. o.next \in {"clear", "idle"}
    BY <1>0 DEF Ops
  <2>2. UNCHANGED plan /\ (SaveThen(o) \/ Continue(o) \/ Stop \/ Return)
    BY <1>8 DEF Refresh, disk
  <2> QED
    BY <1>1, <2>1, <2>2 DEF SaveThen, Continue, Stop, Return
<1>9. CASE Add \/ Publish \/ PublishFails \/ Remove \/ UpdateNotes
  BY <1>1, <1>9 DEF Add, Publish, PublishFails, Remove, UpdateNotes, disk, history, SaveThen, Return,
                    NoOp
<1>10. ASSUME NEW e, NEW to, NEW o, MoveImage(e, to, o), o.next \in {"idle", "refresh"}, UNCHANGED plan,
              o = [NoOp EXCEPT !.kind = "rename"]
              \/ o = [NoOp EXCEPT !.kind = "folder_of", !.next = "refresh"] \/ o \in Ops
       PROVE  MInv'
  <2>1. [o EXCEPT !.from = e, !.to = to, !.undo = TRUE].next = o.next
    BY <1>10 DEF NoOp, Ops
  <2>2. (pc' = "save" /\ op'.next = o.next) \/ pc' = "idle"
    BY <1>10, <2>1 DEF MoveImage, SaveThen, Return
  <2> QED
    BY <1>1, <1>10, <2>2
<1>11. CASE Rename
  BY <1>10, <1>11 DEF Rename, NoOp
<1>12. CASE UpdateFolder
  BY <1>10, <1>12 DEF UpdateFolder, NoOp
<1>13. CASE ClearOne
  <2>1. CASE Return
    BY <1>1, <1>13, <2>1 DEF ClearOne, Return
  <2>2. ASSUME NEW e \in op.todo, NEW to,
               MoveImage(e, to, [op EXCEPT !.next = "refresh", !.todo = @ \ {e}])
        PROVE  MInv'
    <3>1. /\ [op EXCEPT !.next = "refresh", !.todo = @ \ {e}] \in Ops
          /\ [op EXCEPT !.next = "refresh", !.todo = @ \ {e}].next = "refresh"
      BY <1>0 DEF Ops, Nexts
    <3> QED
      BY <1>10, <1>13, <2>2, <3>1 DEF ClearOne
  <2> QED
    BY <1>13, <2>1, <2>2 DEF ClearOne
<1>14. CASE CreateFolder \/ RenameFolder \/ ClearFolder \/ ClearDone \/ RefreshTable
  BY <1>1, <1>14 DEF CreateFolder, RenameFolder, ClearFolder, ClearDone, RefreshTable, disk, history,
                     SaveThen, Return, NoOp
<1>15. CASE UndoRename \/ UndoMove \/ UndoRenameFolder \/ Leave \/ Crash
  BY <1>1, <1>15 DEF UndoRename, UndoMove, UndoRenameFolder, Leave, Crash, Stop, Return, disk
<1>16. CASE Outside
  BY <1>1, <1>16 DEF Outside
<1>17. CASE UNCHANGED vars
  BY <1>17 DEF vars, disk, MInv, PlanWhole, Adopted, Saved, Present
<1> QED
  BY <1>2, <1>3, <1>4, <1>5, <1>6, <1>7, <1>8, <1>9, <1>11, <1>12, <1>13, <1>14, <1>15, <1>16, <1>17
     DEF Next, Operation, Step

THEOREM MigrationIsComplete == Spec => MigrationComplete
<1> DEFINE Given == plan # NoPlan /\ plan' # plan =>
                      /\ plan' = NoPlan /\ ~legacy
                      /\ \A m \in plan.moves :
                            /\ files[m.to] = m.content /\ ~Present(m.from)
                            /\ \E e \in index : e.path = m.to /\ e.content = m.content
<1>1. Init => TInv /\ MInv
  <2>1. Init => MInv
    BY DEF Init, NoPlan, MInv, PlanWhole, Adopted, Saved
  <2> QED
    BY <2>1, InitTyped
<1>2. TInv /\ MInv /\ [Next]_vars => (TInv /\ MInv)'
  BY StepTyped, StepMigrates
<1>3. TInv /\ MInv /\ [Next]_vars => [Given]_vars
  <2> SUFFICES ASSUME TInv, MInv, Next, plan # NoPlan, plan' # plan PROVE Given
    OBVIOUS
  <2>1. DropPlan
    BY DEF Next, Operation, Step, Start, RefuseToStart, WritePlan, Migrate, ReplayMove, AdoptPlan,
           RefuseToMigrate, SaveIndex, SaveFails, Unlink, Refresh, Publish, PublishFails, ClearOne,
           ClearDone, UndoRename, UndoMove, UndoRenameFolder, Add, Remove, UpdateNotes, Rename,
           UpdateFolder, CreateFolder, RenameFolder, ClearFolder, RefreshTable, Leave, Crash, Outside,
           disk, history
  <2>2. pc = "drop" /\ plan' = NoPlan
    BY <2>1 DEF DropPlan
  <2> QED
    BY <2>2 DEF MInv, PlanWhole, Adopted, Saved
<1> QED
  BY <1>1, <1>2, <1>3, PTL DEF Spec, MigrationComplete

(* No step of the program destroys an image.  Where the image of a path    *)
(* goes is an injection from the copies of a content to those it has after *)
(* the step.                                                               *)
LEMMA PathsFinite == IsFiniteSet(Paths)
<1> DEFINE Parts == (Folders \cup {Root}) \X Names
           path == [x \in Parts |-> [folder |-> x[1], name |-> x[2]]]
<1>1. IsFiniteSet(Parts)
  <2>1. IsFiniteSet(Folders \cup {Root})
    BY CatalogueAssumption, FS_AddElement
  <2> QED
    BY <2>1, CatalogueAssumption, FS_Product
<1>2. path \in Surjection(Parts, Paths)
  <2>1. path \in [Parts -> Paths]
    BY DEF Paths
  <2>2. ASSUME NEW p \in Paths PROVE \E x \in Parts : path[x] = p
    <3>1. <<p.folder, p.name>> \in Parts
      BY DEF Paths
    <3>2. path[<<p.folder, p.name>>] = p
      BY <3>1 DEF Paths
    <3> QED
      BY <3>1, <3>2
  <2> QED
    BY <2>1, <2>2 DEF Surjection
<1> QED
  BY <1>1, <1>2, FS_Surjection

LEMMA NoFewer ==
    ASSUME NEW S \in SUBSET Paths, NEW T \in SUBSET Paths, NEW to \in [S -> T],
           \A p, q \in S : to[p] = to[q] => p = q
    PROVE  Cardinality(T) >= Cardinality(S)
<1>1. IsFiniteSet(S) /\ IsFiniteSet(T)
  BY PathsFinite, FS_Subset
<1>2. to \in Injection(S, T)
  BY DEF Injection, IsInjective
<1>3. Cardinality(S) <= Cardinality(T) /\ Cardinality(S) \in Nat /\ Cardinality(T) \in Nat
  BY <1>1, <1>2, FS_Injection, FS_CardinalityType
<1> QED
  BY <1>3

NoneLost == \A c \in Contents : Cardinality(Copies(c)') >= Cardinality(Copies(c))

LEMMA LeftAlone ==
    ASSUME \A p \in Paths : Present(p) => files'[p] = files[p]
    PROVE  NoneLost
<1> SUFFICES ASSUME NEW c \in Contents PROVE Cardinality(Copies(c)') >= Cardinality(Copies(c))
  BY DEF NoneLost
<1> DEFINE S == Copies(c)
           T == Copies(c)'
           to == [p \in S |-> p]
<1>1. S \in SUBSET Paths /\ T \in SUBSET Paths
  BY DEF Copies
<1>2. to \in [S -> T]
  BY CatalogueAssumption DEF Copies, Present
<1>3. Cardinality(T) >= Cardinality(S)
  <2> HIDE DEF S, T
  <2> QED
    BY <1>1, <1>2, NoFewer
<1> QED
  BY <1>3

LEMMA MovedOnly ==
    ASSUME files \in [Paths -> Contents \cup {NoImage}], NEW from \in Paths, NEW dest \in Paths,
           from # dest, ~Present(dest), files' = Moved(from, dest)
    PROVE  NoneLost
<1> SUFFICES ASSUME NEW c \in Contents PROVE Cardinality(Copies(c)') >= Cardinality(Copies(c))
  BY DEF NoneLost
<1> DEFINE S == Copies(c)
           T == Copies(c)'
           to == [p \in S |-> IF p = from THEN dest ELSE p]
<1>1. S \in SUBSET Paths /\ T \in SUBSET Paths
  BY DEF Copies
<1>2. dest \notin S
  BY CatalogueAssumption DEF Copies, Present
<1>3. to \in [S -> T]
  BY <1>2 DEF Copies, Moved
<1>4. \A p, q \in S : to[p] = to[q] => p = q
  BY <1>2
<1>5. Cardinality(T) >= Cardinality(S)
  <2> HIDE DEF S, T
  <2> QED
    BY <1>1, <1>3, <1>4, NoFewer
<1> QED
  BY <1>5

LEMMA FolderMovedOnly ==
    ASSUME TInv, InFolders, NEW f \in Folders, NEW g \in Folders \ dirs, f \in dirs,
           files' = FolderMoved(f, g), dirs' = (dirs \ {f}) \cup {g}
    PROVE  NoneLost
<1> SUFFICES ASSUME NEW c \in Contents PROVE Cardinality(Copies(c)') >= Cardinality(Copies(c))
  BY DEF NoneLost
<1> DEFINE S == Copies(c)
           T == Copies(c)'
           to == [p \in S |-> IF p.folder = f THEN InFolder(p, g) ELSE p]
<1>1. S \in SUBSET Paths /\ T \in SUBSET Paths
  BY DEF Copies
<1>2. \A p \in S : p \in Paths /\ files[p] = c /\ Present(p) /\ p.folder # g
  BY FolderMoves, CatalogueAssumption DEF Copies, Present
<1>3. to \in [S -> T]
  BY <1>2, FolderMoves DEF Copies
<1>4. \A p \in S : p.folder = f =>
         InFolder(p, g).folder = g /\ InFolder(InFolder(p, g), f) = p
  BY <1>2, ThereAndBack DEF AnyFolder
<1>5. \A p, q \in S : to[p] = to[q] => p = q
  BY <1>2, <1>4
<1>6. Cardinality(T) >= Cardinality(S)
  <2> HIDE DEF S, T
  <2> QED
    BY <1>1, <1>3, <1>5, NoFewer
<1> QED
  BY <1>6

LEMMA MoveLosesNone ==
    ASSUME TInv, NEW e \in mem.entries, NEW to \in Paths, NEW o, Readable(e), ~Present(to),
           MoveImage(e, to, o)
    PROVE  NoneLost
<1>1. e.path \in Paths /\ files[e.path] # NoImage /\ e.path # to
  BY CatalogueAssumption DEF TInv, Memories, Entries, Readable, Present
<1>2. CASE files' = Moved(e.path, to)
  BY <1>1, <1>2, MovedOnly DEF TInv, TypeOK
<1>3. CASE files' = HalfMoved(e.path, to)
  BY <1>1, <1>3, LeftAlone DEF HalfMoved, Present, TInv, TypeOK
<1> QED
  BY <1>2, <1>3 DEF MoveImage

LEMMA StepLosesNone ==
    ASSUME TInv, VInv, Next, outside' = outside
    PROVE  \/ NoneLost
           \/ \E e \in mem.entries : /\ files' = [files EXCEPT ![e.path] = NoImage]
                                     /\ files[e.path] = e.content
                                     /\ mem'.entries = mem.entries \ {e}
<1>0. /\ mem \in Memories /\ op \in Ops /\ InFolders
      /\ files \in [Paths -> Contents \cup {NoImage}]
      /\ plan.moves \in SUBSET [from : Paths, to : Paths, content : Contents]
  BY DEF TInv, TypeOK, VInv
<1>1. ASSUME UNCHANGED files PROVE NoneLost
  BY <1>1, LeftAlone
<1>2. CASE ReplayMove
  <2>1. PICK m \in plan.moves :
            /\ Present(m.from) /\ ~MoveBlocked(m)
            /\ files' \in {Moved(m.from, m.to), HalfMoved(m.from, m.to)}
    BY <1>2 DEF ReplayMove
  <2>2. m.from \in Paths /\ m.to \in Paths /\ ~Present(m.to) /\ m.from # m.to
    BY <1>0, <2>1 DEF MoveBlocked
  <2>3. CASE files' = HalfMoved(m.from, m.to)
    BY <1>0, <2>2, <2>3, LeftAlone DEF HalfMoved, Present
  <2> QED
    BY <1>0, <2>1, <2>2, <2>3, MovedOnly
<1>3. CASE Publish
  <2>1. PICK e \in op.todo : ~Present(e.path) /\ files' = [files EXCEPT ![e.path] = e.content]
    BY <1>3 DEF Publish
  <2> QED
    BY <1>0, <2>1, LeftAlone DEF Present
<1>4. CASE Remove
  BY <1>0, <1>4 DEF Remove, Readable, Memories
<1>5. CASE Rename
  BY <1>5, MoveLosesNone DEF Rename
<1>6. CASE UpdateFolder
  BY <1>6, MoveLosesNone DEF UpdateFolder, Free
<1>7. CASE ClearOne
  <2>1. CASE UNCHANGED files
    BY <1>1, <2>1
  <2>2. ASSUME NEW e \in op.todo, Readable(e), NEW to \in Free(Root), NEW o, MoveImage(e, to, o)
        PROVE  NoneLost
    BY <2>2, MoveLosesNone DEF Readable, Exact, Free
  <2> QED
    BY <1>7, <2>1, <2>2 DEF ClearOne
<1>8. CASE RenameFolder
  <2>1. PICK f \in dirs, g \in Folders \ dirs :
          files' = FolderMoved(f, g) /\ dirs' = (dirs \ {f}) \cup {g}
    BY <1>8 DEF RenameFolder
  <2>2. f \in Folders
    BY DEF TInv, TypeOK
  <2> QED
    BY <1>0, <2>1, <2>2, FolderMovedOnly
<1>9. CASE UndoRename \/ UndoMove
  <2>1. pc = "undo" /\ op.undo /\ MovesBack(op.kind)
    BY <1>9 DEF UndoRename, UndoMove, MovesBack, TInv, UndoTyped
  <2>2. op.from \in Entries /\ op.to \in Paths
    BY <2>1 DEF TInv, UndoTyped
  <2>3. op.from.path \in Paths /\ op.to # op.from.path /\ ~Present(op.from.path)
    BY <2>1, <2>2 DEF VInv, WayBack, Entries
  <2>4. files' \in {files, Moved(op.to, op.from.path), HalfMoved(op.to, op.from.path)}
    BY <1>9 DEF UndoRename, UndoMove
  <2>5. CASE files' = HalfMoved(op.to, op.from.path)
    BY <1>0, <2>2, <2>3, <2>5, LeftAlone DEF HalfMoved, Present
  <2> QED
    BY <1>0, <1>1, <2>2, <2>3, <2>4, <2>5, MovedOnly
<1>10. CASE UndoRenameFolder
  <2>1. op.undo /\ op.kind = "rename_folder" /\ pc = "undo"
    BY <1>10 DEF UndoRenameFolder, TInv, UndoTyped
  <2>2. op.to \in Folders /\ op.from \in Folders \ dirs /\ op.to \in dirs
    BY <2>1 DEF TInv, UndoTyped, VInv, WayBack
  <2> QED
    BY <1>0, <1>1, <1>10, <2>2, FolderMovedOnly DEF UndoRenameFolder
<1>11. CASE Outside
  BY <1>11 DEF Outside, TInv, TypeOK
<1>12. CASE \/ Start \/ RefuseToStart \/ WritePlan \/ Migrate \/ AdoptPlan \/ RefuseToMigrate
            \/ DropPlan \/ SaveIndex \/ SaveFails \/ Unlink \/ Refresh \/ PublishFails
            \/ ClearDone \/ Add \/ UpdateNotes \/ CreateFolder \/ ClearFolder \/ RefreshTable
            \/ Leave \/ Crash
  BY <1>1, <1>12 DEF Start, RefuseToStart, WritePlan, Migrate, AdoptPlan, RefuseToMigrate, DropPlan,
     SaveIndex, SaveFails, Unlink, Refresh, PublishFails, ClearDone, Add, UpdateNotes, CreateFolder,
     ClearFolder, RefreshTable, Leave, Crash, disk
<1> QED
  BY <1>2, <1>3, <1>4, <1>5, <1>6, <1>7, <1>8, <1>9, <1>10, <1>11, <1>12 DEF Next, Operation, Step

(* No step of the program destroys an image but the one the user removes.  *)
THEOREM ImagesAreKept == Spec => NeverOverwritten
<1> DEFINE Keeps == outside' = outside =>
                      \A c \in Contents :
                         \/ Cardinality(Copies(c)') >= Cardinality(Copies(c))
                         \/ \E e \in mem.entries : /\ files' = [files EXCEPT ![e.path] = NoImage]
                                                   /\ e.content = c
                                                   /\ mem'.entries = mem.entries \ {e}
<1>1. TInv /\ VInv /\ [Next]_vars => [Keeps]_vars
  <2> SUFFICES ASSUME TInv, VInv, Next, outside' = outside, NEW c \in Contents
               PROVE  \/ Cardinality(Copies(c)') >= Cardinality(Copies(c))
                      \/ \E e \in mem.entries : /\ files' = [files EXCEPT ![e.path] = NoImage]
                                                /\ e.content = c
                                                /\ mem'.entries = mem.entries \ {e}
    OBVIOUS
  <2>1. CASE NoneLost
    BY <2>1 DEF NoneLost
  <2>2. ASSUME NEW e \in mem.entries, files' = [files EXCEPT ![e.path] = NoImage],
               files[e.path] = e.content, mem'.entries = mem.entries \ {e}, e.content # c
        PROVE  Cardinality(Copies(c)') >= Cardinality(Copies(c))
    <3> DEFINE S == Copies(c)
               T == Copies(c)'
               to == [p \in S |-> p]
    <3>1. S \in SUBSET Paths /\ T \in SUBSET Paths
      BY DEF Copies
    <3>2. to \in [S -> T]
      BY <2>2 DEF Copies, TInv, TypeOK
    <3>3. Cardinality(T) >= Cardinality(S)
      <4> HIDE DEF S, T
      <4> QED
        BY <3>1, <3>2, NoFewer
    <3> QED
      BY <3>3
  <2> QED
    BY <2>1, <2>2, StepLosesNone
<1>2. Spec => [](TInv /\ VInv)
  <2>1. Init => TInv /\ VInv
    BY InitTyped, InitTrue
  <2>2. TInv /\ VInv /\ [Next]_vars => (TInv /\ VInv)'
    BY StepTyped, StepTrue
  <2> QED
    BY <2>1, <2>2, PTL DEF Spec
<1> QED
  BY <1>1, <1>2, PTL DEF Spec, NeverOverwritten
=============================================================================
