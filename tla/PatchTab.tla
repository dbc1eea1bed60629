------------------------------- MODULE PatchTab -------------------------------
(***************************************************************************)
(* The Patches tab and the full write it hands its image to (gui.py): a     *)
(* base is loaded or read from the engine computer, patches are ticked,    *)
(* removed and configured, the result is built, archived and offered for   *)
(* writing.  Neither stock DS2 nor a soft-BSL write that was not armed     *)
(* reaches the boot region, so the writer decides whether the write must   *)
(* be armed and refuses an image whose boot patches would arrive halfway.  *)
(* The same images are also composed from the command line.                *)
(*                                                                         *)
(* What a write does to the flash while it runs is SoftBslWrite's,         *)
(* NativeFastWrite's and LegacyWrite's subject; here it completes.         *)
(***************************************************************************)
EXTENDS InstallImages

CONSTANTS Library,      \* the images on disk
          Ecus,         \* what the engine computers at hand hold
          Values,       \* the values a setting can be given
          Selections,   \* the selections tried from the command line
          MaxOps        \* edits, builds and writes in one history

\* What a cell can hold: the images at hand and whatever is written over them.
Contents ==
    {"-", "W", "G5", "B", "T", "initial"} \cup Values \cup {sel.marker : sel \in Selections}
        \cup UNION {{Edits[p][c] : c \in DOMAIN Edits[p]} : p \in Patches}
        \cup UNION {{image[c] : c \in Cells} : image \in Library \cup Ecus}

ASSUME PatchTabAssumption ==
    /\ Library \cup Ecus \subseteq [Cells -> Contents] /\ NoImage \notin [Cells -> Contents]
    /\ \A sel \in Selections : sel.patches \subseteq Patches /\ sel.marker \in {"", "B", "T"}

VARIABLES
    base,       \* _patch_base
    installed,  \* _patch_installed_ids: the patches it wholly holds
    origin,     \* _patch_change_base: the base before the pending removals
    ticked,     \* the checked boxes of patches that are not installed
    removed,    \* _patch_removed_ids
    drafts,     \* _patch_parameter_changes: patch -> its pending value
    link,       \* how the engine computer is reached, "closed" when it is not
    half,       \* _ecu_softbsl_marker
    evidence,   \* _last_full_read
    ecu,        \* the flash of the engine computer
    job,        \* the full write asked for
    ops

tab == <<base, installed, origin, ticked, removed, drafts>>
wire == <<link, half, evidence>>
vars == <<tab, wire, ecu, job, ops>>

NoJob == [at |-> "none"]
NoDrafts == [p \in {} |-> "ff"]
Drop(d, ps) == [p \in DOMAIN d \ ps |-> d[p]]

Init ==
    /\ base = NoImage /\ installed = {} /\ origin = NoImage /\ ticked = {} /\ removed = {} /\ drafts = NoDrafts
    /\ link = "closed" /\ half = "" /\ evidence = NoImage
    /\ ecu \in Ecus
    /\ job = NoJob /\ ops = 0

Idle == job.at = "none"
Counted == ops < MaxOps /\ ops' = ops + 1
Free == ops' = ops
\* What only prepares a counted step is left out once there is none to come.
Preparing == ops < MaxOps /\ Free
---------------------------------------------------------------------------
(* The list of patches.                                                     *)

PATCH_TAB_HIDDEN_IDS == {"door_0x43", "top_ds2_guard"}
Shown == Patches \ (Deprecated \cup PATCH_TAB_HIDDEN_IDS)
legacy(ids, p) == (ToSet(Supersedes(p)) \cap ids) \ Shadowed(ids)
Removable ==
    {p \in installed \ PATCH_TAB_HIDDEN_IDS :
        (p \in Deprecated => p \notin Shadowed(installed)) /\ _dependent_ids(installed, p) = {}}

\* Ticking adds what is required (of the kept catalogue: one level deep) unless
\* a predecessor or another selected patch is in the way.
WithRequirements(ids, sel) ==
    sel \cup {r \in UNION {Requires(p) : p \in sel} :
                r \in Shown \ ids /\ legacy(ids, r) = {} /\ r \notin collisions(sel)}
Unmet == UNION {Requires(p) : p \in ticked} \ (ticked \cup installed)
\* Mutant: pending settings of patches no longer ticked stay.
KeptAnyway(d, ids) == d
Kept(d, ids) == Drop(d, DOMAIN d \ ids)

\* _set_patch_base with and without reset_changes.
Fresh(image) ==
    /\ base' = image /\ installed' = InstalledIn(image) /\ origin' = image
    /\ ticked' = {} /\ removed' = {} /\ drafts' = NoDrafts

_on_patch_selection_changed(sel) ==
    /\ ticked' = WithRequirements(installed, sel)
    /\ drafts' = Kept(drafts, ticked' \cup installed)
    /\ Counted
    /\ UNCHANGED <<base, installed, origin, removed, wire, ecu, job>>
Tick(p) ==
    /\ Idle /\ base # NoImage
    /\ p \in Shown \ (installed \cup ticked)
    /\ legacy(installed, p) = {} /\ p \notin collisions(ticked)
    /\ _on_patch_selection_changed(ticked \cup {p})
Untick(p) ==
    /\ Idle /\ p \in ticked
    /\ _on_patch_selection_changed(ticked \ {p})

_on_patch_remove(p) ==
    /\ Counted
    /\ Idle /\ base # NoImage /\ p \in Removable
    /\ LET image == revert_patch(base, p)
       IN /\ image # NoImage
          /\ base' = image /\ installed' = InstalledIn(image)
          /\ ticked' = WithRequirements(installed', ticked \ installed')
          /\ drafts' = Kept(Drop(drafts, {p}), ticked' \cup installed')
    /\ removed' = removed \cup {p}
    /\ UNCHANGED <<origin, wire, ecu, job>>

_build_patch_image(ds) ==
    LET composed == IF ticked = {} THEN base ELSE build_image(base, ticked)
    IN FoldSet(LAMBDA p, i : IF i = NoImage THEN i ELSE apply_parameter_changes(i, p, ds[p]),
               composed, DOMAIN ds)

_on_patch_configure(p, v) ==
    /\ Counted
    /\ Idle /\ base # NoImage
    /\ p \in Configurable \cap Shown /\ p \in ticked \cup installed /\ editable(installed, p)
    /\ LET source == _build_patch_image(Drop(drafts, {p}))
       IN /\ source # NoImage /\ is_applied(source, p) /\ editable(InstalledIn(source), p)
          /\ v # (IF p \in DOMAIN drafts THEN drafts[p] ELSE source[Setting[p]])
          /\ ticked' = WithRequirements(installed, ticked)
          /\ drafts' = Kept(IF v = source[Setting[p]] THEN Drop(drafts, {p})
                            ELSE [q \in DOMAIN drafts \cup {p} |-> IF q = p THEN v ELSE drafts[q]],
                            ticked' \cup installed)
    /\ UNCHANGED <<base, installed, origin, removed, wire, ecu, job>>

\* The image is archived; with a computer connected its write is offered.
_on_patches_build ==
    /\ Counted
    /\ Idle /\ base # NoImage
    /\ Unmet = {}
    /\ ticked # {} \/ removed # {} \/ DOMAIN drafts # {}
    /\ LET out == _build_patch_image(drafts)
       IN /\ out # NoImage
          /\ Fresh(out)
          /\ job' = IF link = "closed" THEN NoJob
                    ELSE [at |-> "asked", image |-> out, from |-> origin,
                          require |-> \E c \in BootCells : out[c] # origin[c]]
    /\ UNCHANGED <<wire, ecu>>

_load_patch_base_path(image) ==
    /\ Idle /\ base # image
    /\ Fresh(image) /\ Preparing
    /\ UNCHANGED <<wire, ecu, job>>
_on_patches_read_ecu ==
    /\ Idle /\ link # "closed"
    /\ Fresh(ecu) /\ evidence' = ecu /\ Preparing
    /\ UNCHANGED <<link, half, ecu, job>>

\* patch_ms41.py apply: the file the tab shows, any selection, either marker.
\* (It needs no computer and no tab: to bound the product it is used with none
\* connected and nothing pending.)
Untouched == link = "closed" /\ base # NoImage /\ base = origin /\ ticked = {} /\ drafts = NoDrafts
cmd_apply(sel, marker) ==
    /\ Counted
    /\ Untouched
    /\ LET out == build(base, sel, marker)
       IN /\ out \notin {NoImage, base}
          /\ Fresh(out)
    /\ UNCHANGED <<wire, ecu, job>>
\* The installer's target and the golden TOP image, composed from a file on disk.
compose_target(amd_target, guard, alphan, bank) ==
    /\ Counted
    /\ Untouched /\ base \in Library
    /\ LET out == compose_persistent_image(base, amd_target, guard, alphan, bank)
       IN /\ out \notin {NoImage, base}
          /\ Fresh(out)
    /\ UNCHANGED <<wire, ecu, job>>
---------------------------------------------------------------------------
(* The connection.                                                          *)

\* The routes by what was found: stock DS2, soft-BSL through its normal entry,
\* soft-BSL by its recovery entry.
Routes ==
    {"ds2"} \cup
    (IF is_applied(ecu, "softbsl_loader") \/ is_applied(ecu, "softbsl_loader_v11")
     THEN {"direct"} \cup (IF is_applied(ecu, "door_magic") THEN {"fast"} ELSE {}) ELSE {})
Connect(route) ==
    /\ Idle /\ link = "closed" /\ route \in Routes
    /\ link' = route
    /\ half' = IF ecu["marker"] \in {"B", "T"} THEN ecu["marker"] ELSE ""
    /\ Preparing /\ UNCHANGED <<tab, evidence, ecu, job>>
\* Mutant: the full read outlives its connection.
ClosedKeepingRead == link' = "closed" /\ half' = "" /\ UNCHANGED evidence
Closed == link' = "closed" /\ half' = "" /\ evidence' = NoImage
_disconnect ==
    /\ Idle /\ link # "closed" /\ Closed
    /\ Free /\ UNCHANGED <<tab, ecu, job>>
Swap(other) ==
    /\ Idle /\ link = "closed" /\ ecu # other
    /\ ecu' = other
    /\ Free /\ UNCHANGED <<tab, wire, job>>
---------------------------------------------------------------------------
(* The full write.                                                          *)

\* A file of the tab is written as it is.
_on_backup_flash ==
    /\ Counted
    /\ Idle /\ link # "closed" /\ base # NoImage /\ base = origin
    /\ job' = [at |-> "asked", image |-> base, from |-> NoImage, require |-> FALSE]
    /\ UNCHANGED <<tab, wire, ecu>>

TopFull == half = "T"
\* Mutant: the tab's request is forgotten.
RequiredByRead == ~TopFull /\ evidence # NoImage /\ missing_boot_patches(job.image, evidence) # {}
\* A full read of this connection that lacks the image's boot patches arms too.
Required ==
    \/ job.require
    \/ /\ ~TopFull /\ evidence # NoImage
       /\ missing_boot_patches(job.image, evidence) # {}
will_write_boot(box) ==
    /\ link = "fast" \/ (link = "direct" /\ TopFull)
    /\ Required \/ box
Refused(box) ==
    \/ TopFull /\ job.require /\ ~box
    \/ Required /\ (link = "ds2" \/ (link = "direct" /\ ~TopFull))
    \/ TopFull /\ will_write_boot(box) /\ job.image["marker"] # "T"
    \/ link = "ds2" /\ (TopFull \/ job.image["marker"] = "T")
    \/ ~KnownDriver(ecu)
    \/ will_write_boot(box) /\ ~KnownDriver(job.image)
    \/ will_write_boot(box) /\ AmdDriver(job.image) # AmdDriver(ecu)

\* box is the Write Boot box.  (A TOP image for a computer in its BOTTOM bank
\* asks for the bank switch, which SoftBslWrite models.)
_ds2_write_full(box) ==
    /\ job.at = "asked"
    /\ job.image["marker"] = "T" => TopFull
    /\ IF Refused(box) THEN job' = NoJob /\ UNCHANGED evidence
       ELSE LET boot == will_write_boot(box)
                gated == ~TopFull /\ ~boot /\ boot_write_patches_in(job.image) # {}
                blocked == /\ gated /\ evidence # NoImage
                           /\ missing_boot_patches(job.image, evidence) # {}
            IN IF blocked THEN job' = NoJob /\ UNCHANGED evidence
               ELSE /\ job' = [at |-> IF gated /\ evidence = NoImage THEN "gate" ELSE "write",
                               image |-> job.image, from |-> job.from, boot |-> boot]
                    /\ evidence' = NoImage
    /\ Free /\ UNCHANGED <<tab, link, half, ecu>>
Declined ==
    /\ job.at = "asked"
    /\ job' = NoJob
    /\ Free /\ UNCHANGED <<tab, wire, ecu>>

\* The live read of the boot patches before the erase, which may fail.
BootGate ==
    /\ job.at = "gate"
    /\ LET missing == missing_boot_patches(job.image, ecu)
       IN \/ job' = IF missing = {} THEN [job EXCEPT !.at = "write"]
                    ELSE IF link = "fast"
                    THEN [at |-> "asked", image |-> job.image, from |-> job.from, require |-> TRUE]
                    ELSE NoJob
          \/ job' = NoJob
    /\ Free /\ UNCHANGED <<tab, wire, ecu>>

Written == [c \in Cells |-> IF c \in BootCells /\ ~job.boot THEN ecu[c] ELSE job.image[c]]
Write ==
    /\ job.at = "write"
    /\ ecu' = Written
    /\ job' = NoJob /\ Closed
    /\ Free /\ UNCHANGED tab

Edit ==
    \/ \E p \in Patches : Tick(p) \/ Untick(p) \/ _on_patch_remove(p)
    \/ \E p \in Configurable, v \in Values : _on_patch_configure(p, v)
Compose ==
    \/ _on_patches_build
    \/ \E s \in Selections : cmd_apply(s.patches, s.marker)
    \/ \E amd, guard \in BOOLEAN, bank \in {"", "T"} : compose_target(amd, guard, guard, bank)
Open == _on_patches_read_ecu \/ \E image \in Library : _load_patch_base_path(image)
Connection ==
    \/ _disconnect
    \/ \E r \in {"ds2", "fast", "direct"} : Connect(r)
    \/ \E other \in Ecus : Swap(other)
FullWrite ==
    \/ _on_backup_flash \/ Declined \/ BootGate \/ Write
    \/ \E box \in BOOLEAN : _ds2_write_full(box)
Next == Edit \/ Compose \/ Open \/ Connection \/ FullWrite
Spec == Init /\ [][Next]_vars
---------------------------------------------------------------------------
(* Properties.                                                              *)

Image(i) == DOMAIN i = Cells
TypeOK ==
    /\ base = NoImage \/ Image(base)
    /\ ticked \subseteq Shown /\ removed \subseteq Patches /\ DOMAIN drafts \subseteq Configurable
    /\ link \in {"closed", "ds2", "fast", "direct"} /\ half \in {"", "B", "T"}
    /\ Image(ecu) /\ job.at \in {"none", "asked", "gate", "write"}
    /\ link = "closed" => evidence = NoImage /\ half = "" /\ job = NoJob

\* The counted steps that change the base: compositions replace it, removals keep
\* its origin.
Change == ops' # ops /\ base' # base
Removal == Change /\ removed' # {}
Composition == Change /\ removed' = {}

\* A patch that is wholly in the image accounts for the cell, or the guard for its
\* wait; the marker is its own.
Accounted(ids, c) ==
    \/ c = "marker"
    \/ \E p \in ids : c \in DOMAIN Edits[p]
    \/ c = "startup" /\ {"cal_guard", "cal_guard_v5"} \cap ids # {}

\* A build, a removal or a command-line composition leaves nothing of a revision
\* it replaced or removed, and nothing half applied: a code cell no installed
\* patch accounts for is stock, unless it was unaccounted for before and kept.
NothingLeftBehind ==
    [][Change => \A c \in Code :
           \/ base'[c] = "-" \/ Accounted(installed', c)
           \/ base'[c] = base[c] /\ ~Accounted(installed, c)]_vars

\* None of the tab's changes leaves a patch in the image without a patch it
\* requires (removal refuses dependents, a build checks them all), unless the
\* image already was like that.
RequirementsHeld ==
    [][Change =>
           \A p \in Effective(installed') :
               MissingIn(installed', p) = {} \/ MissingIn(installed, p) # {}]_vars

\* The revisions of one feature: its current patch and what that supersedes.
Feature(p) == {p} \cup ToSet(Supersedes(p))
Has(ids, p) == Feature(p) \cap ids # {}
\* Only the installer's target drops the temporary door, and decides anew on the
\* TOP guard of a base that is not marked TOP or has not its driver.
Redecided(p) ==
    /\ \E amd, guard \in BOOLEAN, bank \in {"", "T"} : compose_target(amd, guard, guard, bank)
    /\ \/ p = "door_0x43"
       \/ p = "top_ds2_guard" /\ (base["marker"] # "T" \/ MissingIn(installed, p) # {})
\* Otherwise composing never loses a feature of the base, whatever it upgrades on
\* the way (the guard with the loader, the driver with either, launch control with
\* the ignition cut), nor the setting of one: a setting changes to a pending
\* value, or from erased when its feature is new.
NothingLost ==
    [][Composition =>
           /\ \A p \in Patches \ Deprecated :
                  Has(installed, p) => Has(installed', p) \/ Redecided(p)
           /\ \A p \in Configurable : base'[Setting[p]] # base[Setting[p]] =>
                  \/ p \in DOMAIN drafts /\ base'[Setting[p]] = drafts[p]
                  \/ \E q \in DOMAIN drafts \ {p} : Setting[q] = Setting[p]
                  \/ base[Setting[p]] = "ff" /\ base'[Setting[p]] = "initial"]_vars

\* What a change of the tab keeps is kept whole.
KeptWhole == RequirementsHeld /\ NothingLost

\* A pending setting never makes the build fail: what the box and the removals
\* leave pending still applies to whatever composes without it.
DraftsApply ==
    DOMAIN drafts # {} /\ Unmet = {} /\ _build_patch_image(NoDrafts) # NoImage
        => _build_patch_image(drafts) # NoImage

Concerned(plan) ==
    DOMAIN Edits["door_0x43"] \cup {"startup"} \cup
    UNION {DOMAIN Edits[p] : p \in Overlapping("door_0x43") \cup (plan.patches \ BootPatches(plan))}
Composed(images) == images.bootstrap # NoImage /\ images.target # NoImage
Matching(images) ==
    /\ BootPatches(images.plan) \subseteq InstalledIn(images.bootstrap)
    /\ images.plan.patches \subseteq InstalledIn(images.target)
    /\ ~is_applied(images.target, "door_0x43")
    /\ \A c \in Cells \ Concerned(images.plan) : images.bootstrap[c] = images.target[c]
    /\ \A p \in Patches \ (Deprecated \cup {"door_0x43", "top_ds2_guard"}) :
           Has(installed, p) => Has(InstalledIn(images.target), p)
Agree(images) == images.plan.base # NoImage => Composed(images) /\ Matching(images)
\* The installation's two images agree wherever the temporary door, what it
\* displaces and the patches only the target has are not concerned, each is whole,
\* and what the bootstrap displaces is in the target again.
InstallImagesAgree ==
    ops = 0 /\ base # NoImage /\ link = "closed" =>
        \A amd, guard, alphan \in BOOLEAN :
            Agree(_install_resolve_images(base, amd, guard, alphan))

\* A BOTTOM computer never ends with a boot patch of its new program half there:
\* armed, gated by a full read or gated live, every boot byte the image's patches
\* stand for is in the computer when the write is over.
WholeInEcu ==
    [][ecu' # ecu /\ job.at = "write" /\ half # "T" =>
           missing_boot_patches(job.image, ecu') = {}]_vars

\* Patches added to and removed from what the computer itself holds arrive as
\* built, in every cell: the tab arms the write exactly when the boot region
\* changes, and the writer refuses rather than drop the arming.
FlashedIsBuilt ==
    [][job.at = "write" /\ job.from # NoImage /\ job.from = ecu /\ job' = NoJob
           => \A c \in Cells : ecu'[c] = job.image[c]]_vars

\* What a completed write leaves is what was to arrive.
Arrives == WholeInEcu /\ FlashedIsBuilt
===============================================================================
