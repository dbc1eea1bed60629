----------------------------- MODULE PatchEngine -----------------------------
(***************************************************************************)
(* The patch engine (engines/patcher/patch_ms41.py) and the service over   *)
(* it (patch_service.py) for the MS41.3 catalogue: composing patches onto  *)
(* a full image, removing one, and what an image says is installed.        *)
(*                                                                         *)
(* An image is a function from cells to values.  A cell is a maximal set   *)
(* of bytes that the descriptors touch together; "-" is its stock value,   *)
(* which every descriptor that touches the cell names as expect.  Of the   *)
(* forty superseded revisions the catalogue keeps one predecessor of each  *)
(* patch, two of the AMD driver.                                           *)
(***************************************************************************)
EXTENDS Naturals, SequencesExt, FiniteSetsExt

CONSTANT NoImage    \* a composition that was refused (PatchError)

\* The edits of every descriptor, by cell.
Edits ==
    [ softbsl_loader     |-> [loader |-> "L12", marker |-> "B"],
      softbsl_loader_v11 |-> [loader |-> "L11", crc |-> "L11", marker |-> "B"],
      cal_guard          |-> [guard |-> "G6", hooks |-> "G6", crc |-> "G6"],
      cal_guard_v5       |-> [guard |-> "G5", hook |-> "G5", body |-> "G5"],
      amd_flash          |-> [driver |-> "A5", tail |-> "A5"],
      amd_flash_v4       |-> [driver |-> "A4"],
      amd_flash_v3       |-> [driver |-> "A4", startup |-> "-"],
      top_ds2_guard      |-> [top |-> "T"],
      door_magic         |-> [door |-> "D"],
      door_0x43          |-> [entry |-> "D43", cave |-> "D43"],
      alphan_failsafe    |-> [alphan |-> "F3", cave |-> "F3"],
      alphan_failsafe_v2 |-> [alphan |-> "F2", cave |-> "F2"],
      ignition_cut_v18   |-> [ignition |-> "I18"],
      ignition_cut_v17   |-> [ignition |-> "I17"],
      launch_control_v18 |-> [launch |-> "C18"],
      launch_control_v17 |-> [launch |-> "C17"] ]
Patches == DOMAIN Edits

\* CalGuard's startup wait, a component outside the catalogue.
Wait == [startup |-> "W"]

BootCells == {"loader", "crc", "marker", "guard", "hooks", "hook", "driver", "tail", "top", "startup"}
Code == BootCells \cup {"body", "door", "entry", "cave", "alphan", "ignition", "launch"}
\* The setting of a patch that has one; its bytes stay when the patch goes.
Setting == [ignition_cut_v18 |-> "cut_range", ignition_cut_v17 |-> "cut_range",
            launch_control_v18 |-> "launch_range", launch_control_v17 |-> "launch_range"]
Configurable == DOMAIN Setting
Settings == {"cut_range", "launch_range"}
Cells == Code \cup Settings

Deprecated == {"softbsl_loader_v11", "cal_guard_v5", "amd_flash_v4", "amd_flash_v3",
               "alphan_failsafe_v2", "ignition_cut_v17", "launch_control_v17"}
Requires(p) ==
    CASE p \in {"cal_guard", "door_magic"} -> {"softbsl_loader"}
      [] p = "cal_guard_v5"                -> {"softbsl_loader_v11"}
      [] p = "top_ds2_guard"               -> {"amd_flash"}
      [] p = "launch_control_v18"          -> {"ignition_cut_v18"}
      [] p = "launch_control_v17"          -> {"ignition_cut_v17"}
      [] OTHER                             -> {}
Supersedes(p) ==
    CASE p = "softbsl_loader"     -> <<"softbsl_loader_v11">>
      [] p = "cal_guard"          -> <<"cal_guard_v5">>
      [] p = "amd_flash"          -> <<"amd_flash_v4", "amd_flash_v3">>
      [] p = "amd_flash_v4"       -> <<"amd_flash_v3">>
      [] p = "alphan_failsafe"    -> <<"alphan_failsafe_v2">>
      [] p = "ignition_cut_v18"   -> <<"ignition_cut_v17">>
      [] p = "launch_control_v18" -> <<"launch_control_v17">>
      [] OTHER                    -> <<>>
\* The successors that restore an exact predecessor to stock before they are
\* applied; the others name its bytes in upgrade_expect.
RevertSuperseded ==
    <<"softbsl_loader", "cal_guard", "amd_flash", "ignition_cut_v18", "launch_control_v18">>
UpgradeExpect(p) == CASE p = "alphan_failsafe" -> {"F2"} [] p = "amd_flash" -> {"A4"} [] OTHER -> {}

\* The bank marker is metadata: a loader accepts either.
BankMarker(p, c) == c = "marker" /\ p \in {"softbsl_loader", "softbsl_loader_v11"}
Holds(image, p, c) ==
    \/ image[c] = Edits[p][c]
    \/ BankMarker(p, c) /\ image[c] \in {"B", "T"}

is_applied(image, p) == \A c \in DOMAIN Edits[p] : Holds(image, p, c)
is_absent(image, p) == \A c \in DOMAIN Edits[p] : image[c] = "-"
revert(image, p) == [c \in Cells |-> IF c \in DOMAIN Edits[p] THEN "-" ELSE image[c]]
\* Patches without a cell in common commute: the order is of no consequence.
RevertExact(image, ps) ==
    FoldSet(LAMBDA p, i : IF is_applied(i, p) THEN revert(i, p) ELSE i, image, ps)
Over(image, edits) == [c \in Cells |-> IF c \in DOMAIN edits THEN edits[c] ELSE image[c]]

installed_calguard(image) == \E p \in {"cal_guard", "cal_guard_v5"} : is_applied(image, p)
needs_boot_write(p) == DOMAIN Edits[p] \cap BootCells # {}

\* An intact V5 guard in the boot sector with its loader, whose program half is
\* gone (another program was written), counts as whole.
restore_missing_calguard_v5_body(image) ==
    IF is_applied(image, "softbsl_loader_v11") /\ image["guard"] = "G5" /\ image["hook"] = "G5"
       /\ image["body"] = "-"
    THEN [image EXCEPT !["body"] = "G5"] ELSE image
---------------------------------------------------------------------------
(* build: what is selected besides what was asked for.                     *)

KnownDriver(image) == image["driver"] \in {"-", "A4", "A5"}
AmdDriver(image) == image["driver"] \in {"A4", "A5"}
StartupOwners == {"softbsl_loader", "cal_guard", "amd_flash"}

\* Mutant: the ignition engine is updated alone.
NoSuccessor(base, sel) == {}
\* An update of the ignition engine takes an installed launch control along.
LaunchSuccessor(base, sel) ==
    IF "ignition_cut_v18" \in sel /\ is_applied(base, "launch_control_v17")
    THEN {"launch_control_v18"} ELSE {}

\* The guard in place is kept across a change of the loader or of the driver,
\* and the driver of an AMD image across a change of either.
with_startup_wait(base, sel) ==
    LET normal == restore_missing_calguard_v5_body(base)
        keep ==
            /\ sel \cap {"softbsl_loader", "amd_flash"} # {}
            /\ \/ is_applied(normal, "cal_guard")
               \/ ("softbsl_loader" \in sel /\ is_applied(normal, "cal_guard_v5"))
        guarded == sel \cup (IF keep THEN {"cal_guard"} ELSE {})
    IN guarded \cup
       (IF guarded \cap StartupOwners # {} /\ AmdDriver(base) /\ ~is_applied(base, "amd_flash")
        THEN {"amd_flash"} ELSE {})
Resolved(base, sel) == with_startup_wait(base, sel \cup LaunchSuccessor(base, sel))

\* The startup wait goes with the guard: chosen with it, reverted without it.
WaitChosen(base, ids) ==
    /\ ids \cap StartupOwners # {}
    /\ \/ "cal_guard" \in ids
       \/ installed_calguard(base) /\ base["startup"] = "W"
Unwaited(base, ids) ==
    IF ids \cap StartupOwners # {} /\ ~WaitChosen(base, ids) /\ base["startup"] = "W"
    THEN [base EXCEPT !["startup"] = "-"] ELSE base
WaitAdmissible(base, ids) ==
    ids \cap StartupOwners # {} => KnownDriver(base) /\ base["startup"] \in {"-", "W"}

\* One successor restores one exact predecessor, its exact dependents first.
RevertPredecessor(image, old, ids) ==
    IF image = NoImage \/ old \in ids \/ ~is_applied(image, old) THEN image
    ELSE LET dependents == {d \in Patches \ ids : old \in Requires(d)}
             bare == RevertExact(image, dependents)
         IN IF \A d \in dependents : is_absent(bare, d) THEN revert(bare, old) ELSE NoImage
WithoutPredecessors(image, ids) ==
    FoldLeft(LAMBDA i, p :
                 IF p \in ids
                 THEN FoldLeft(LAMBDA j, old : RevertPredecessor(j, old, ids), i, Supersedes(p))
                 ELSE i,
             image, RevertSuperseded)

RequirementMet(image, ids, r) ==
    \/ r \in ids
    \/ is_applied(image, r)
    \/ r = "amd_flash" /\ \E old \in ToSet(Supersedes(r)) : is_applied(image, old)
Collide(p, q) == DOMAIN Edits[p] \cap DOMAIN Edits[q] # {}

\* Every byte is stock, the patch's own, or of a revision it may replace.
Applicable(image, p) ==
    \A c \in DOMAIN Edits[p] : Holds(image, p, c) \/ image[c] \in {"-"} \cup UpgradeExpect(p)
\* Defaults go into an erased tune, and only for a patch that is new to it.
Initialised(base, image, p) ==
    IF p \in Configurable /\ ~is_applied(base, p) /\ image[Setting[p]] = "ff"
    THEN [image EXCEPT ![Setting[p]] = "initial"] ELSE image
Applied(base, image, p) ==
    LET bank == image["marker"]
        written == Over(image, Edits[p])
        kept == IF p = "softbsl_loader" /\ bank \in {"B", "T"}
                THEN [written EXCEPT !["marker"] = bank] ELSE written
    IN Initialised(base, kept, p)

\* The bank an image is marked for; a new loader keeps it through the migration.
MarkerOf(base, ids, marker) ==
    IF marker = "" /\ "softbsl_loader" \in ids /\ base["marker"] \in {"B", "T"}
    THEN base["marker"] ELSE marker

\* The base brought to the state the patches expect, or refused on the way.
Prepared(base, ids) ==
    IF ids \cap {"softbsl_loader", "cal_guard"} # {}
    THEN WithoutPredecessors(restore_missing_calguard_v5_body(Unwaited(base, ids)), ids)
    ELSE WithoutPredecessors(Unwaited(base, ids), ids)
Patched(base, ids, clean) ==
    FoldSet(LAMBDA p, i : Applied(base, i, p),
            IF WaitChosen(base, ids) THEN Over(clean, Wait) ELSE clean, ids)
Marked(image, bank) == IF bank = "" THEN image ELSE [image EXCEPT !["marker"] = bank]
Admissible(base, ids, clean) ==
    /\ WaitAdmissible(base, ids)
    /\ clean # NoImage
    /\ \A p \in ids : \A r \in Requires(p) : RequirementMet(clean, ids, r)
    /\ \A p, q \in ids : p # q => ~Collide(p, q)
    /\ \A p \in ids : Applicable(clean, p)
TopBankOnly(image) ==
    IF is_applied(image, "top_ds2_guard") /\ image["marker"] # "T" THEN NoImage ELSE image

BuildFrom(base, ids, marker, clean) ==
    IF Admissible(base, ids, clean)
    THEN TopBankOnly(Marked(Patched(base, ids, clean), MarkerOf(base, ids, marker)))
    ELSE NoImage
BuildOf(base, ids, marker) == BuildFrom(base, ids, marker, Prepared(base, ids))
build(base, sel, marker) ==
    IF (sel # {} \/ marker # "") /\ sel \cap Deprecated = {}
    THEN BuildOf(base, Resolved(base, sel), marker) ELSE NoImage
---------------------------------------------------------------------------
(* patch_service: what is installed, what needs it, and the two changes.   *)

InstalledIn(image) == {p \in Patches : is_applied(image, p)}
Shadowed(ids) == ids \cap UNION {ToSet(Supersedes(p)) : p \in ids}
Effective(ids) == ids \ Shadowed(ids)

\* A revision of the lineage of a patch (the kept lineages are two deep).
_installed_revision_satisfies(required, p) ==
    p = required \/ p \in ToSet(Supersedes(required))
_dependent_ids(ids, p) ==
    {q \in Effective(ids) \ {p} :
        \E r \in Requires(q) : _installed_revision_satisfies(r, p)}

\* The requirements of an installed patch that are not met.
MissingIn(ids, p) ==
    {r \in Requires(p) :
        ~\E q \in Effective(ids) :
            \/ r = q
            \/ r = "amd_flash" /\ _installed_revision_satisfies(r, q)}

\* Whatever earlier builds coupled the startup wait to.
WaitOwners == <<"cal_guard", "cal_guard_v5", "softbsl_loader", "amd_flash", "amd_flash_v4", "amd_flash_v3">>
\* The wait goes with the last guard; a marker lost with its loader comes back on
\* an image whose TOP guard needs it.
Settled(base, p, bare) ==
    IF p \in ToSet(WaitOwners) /\ base["startup"] = "W" /\ ~installed_calguard(bare)
    THEN [bare EXCEPT !["startup"] = "-"] ELSE bare
Remarked(base, image) ==
    IF base["marker"] = "T" /\ image["marker"] # "T" /\ is_applied(image, "top_ds2_guard")
    THEN BuildOf(image, {}, "T") ELSE image
\* Mutant: the startup wait is left where it is.
RevertAlone(base, p) ==
    IF _dependent_ids(InstalledIn(base), p) = {} /\ is_applied(base, p) THEN revert(base, p) ELSE NoImage
revert_patch(base, p) ==
    IF /\ _dependent_ids(InstalledIn(base), p) = {}
       /\ is_applied(base, p)
       /\ p \in ToSet(WaitOwners) => KnownDriver(base) /\ base["startup"] \in {"-", "W"}
    THEN Remarked(base, Settled(base, p, revert(base, p))) ELSE NoImage

Supported(ids) == \A p \in Effective(ids) : MissingIn(ids, p) = {}
SupportedImage(image) ==
    IF image # NoImage /\ Supported(InstalledIn(image)) THEN image ELSE NoImage
build_image(base, sel) == SupportedImage(build(base, sel, ""))

\* One setting of one installed patch (apply_parameter_changes).
editable(ids, p) == p \in Configurable \ Deprecated /\ (p \in ids => MissingIn(ids, p) = {})
apply_parameter_changes(image, p, value) ==
    IF is_applied(image, p) /\ editable(InstalledIn(image), p) /\ image[Setting[p]] # value
    THEN [image EXCEPT ![Setting[p]] = value] ELSE NoImage

collisions(sel) == {p \in Patches \ sel : \E q \in sel : Collide(p, q)}

\* The boot bytes an installed patch stands for, the startup wait with its first
\* owner; the anchors a driver revision expected are no requirement of its
\* successors.
_boot_patch_definitions(image) ==
    LET popped == UNION {ToSet(Supersedes(d)) :
                            d \in {e \in {"amd_flash", "amd_flash_v4"} : is_applied(image, e)}}
        owners == SelectSeq(WaitOwners, LAMBDA p : p \notin popped /\ is_applied(image, p))
        owner == IF image["startup"] = "W" /\ owners # <<>> THEN {Head(owners)} ELSE {}
    IN [p \in Patches \ popped |->
           DOMAIN Edits[p] \cup (IF p \in owner THEN {"startup"} ELSE {})]
boot_write_patches_in(image) ==
    LET boot == _boot_patch_definitions(image)
    IN {p \in DOMAIN boot : boot[p] \cap BootCells # {} /\ is_applied(image, p)}

\* Of the image's boot patches, those whose bytes the evidence lacks.
missing_boot_patches(image, evidence) ==
    LET boot == _boot_patch_definitions(image)
    IN {p \in boot_write_patches_in(image) :
            \E c \in boot[p] \cap BootCells : image[c] # evidence[c]}
===============================================================================
