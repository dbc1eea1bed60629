----------------------------- MODULE InstallImages -----------------------------
(***************************************************************************)
(* The two images of a soft-BSL installation (engines/softbsl/              *)
(* softbsl_host.py): the persistent target, which is also the golden TOP   *)
(* image the desktop application composes, and the temporary bootstrap     *)
(* whose one-shot door may borrow the cave of a persistent patch.  What     *)
(* the installation does with them is SoftBslInstall's subject.            *)
(***************************************************************************)
EXTENDS PatchEngine

\* Of a patch's bytes within some cells: whether they are all its own, all stock,
\* a mix with a revision it may replace, or anything else.  Bytes the patch only
\* expects say nothing.
_patch_state(image, p, cells) ==
    LET told == {c \in DOMAIN Edits[p] \cap cells : Edits[p][c] # "-" \/ image[c] # "-"}
        is(c, vs) == image[c] \in vs
        own == {c \in told : is(c, {Edits[p][c]})}
        old == {c \in told : is(c, UpgradeExpect(p))}
        stock == {c \in told : is(c, {"-"})}
    IN IF told # {} /\ own = told THEN "applied"
       ELSE IF old # {} /\ own \cup old \cup stock = told THEN "legacy"
       ELSE IF told # {} /\ stock = told THEN "absent" ELSE "partial"
\* The startup wait of earlier builds, as a state of its two anchors.
wait_partial(image) == image["startup"] \notin {"-", "W"}

\* A retired revision's hook in stock code is active although it is not whole.
deprecated_aif_partial(image, p) ==
    /\ ~is_applied(image, p)
    /\ image[IF p = "cal_guard_v5" THEN "hook" ELSE "loader"] # "-"

\* What is composed: the base freed of what will be applied again, and the patches.
Plan(base, patches, driver) == [base |-> base, patches |-> patches, driver |-> driver]
NoPlan == [base |-> NoImage, patches |-> {}, driver |-> {}]
\* The base with an unfinished guard restored, without the startup wait, and then
\* without the patches that are retired or reapplied only for the TOP bank.
Unwaiting(normal) ==
    IF normal["startup"] = "W" THEN [normal EXCEPT !["startup"] = "-"] ELSE normal
Cleaned(unwaited) == RevertExact(unwaited, {"top_ds2_guard", "cal_guard_v5", "softbsl_loader_v11"})
CleanAdmissible(clean) ==
    /\ ~deprecated_aif_partial(clean, "cal_guard_v5")
    /\ _patch_state(clean, "softbsl_loader", BootCells \ {"marker"}) # "partial"
    /\ clean["marker"] \in {"-", "B", "T"}
    /\ _patch_state(clean, "cal_guard", BootCells) # "partial"
    /\ _patch_state(clean, "amd_flash", BootCells) # "partial"
    /\ is_applied(clean, "softbsl_loader") \/ ~deprecated_aif_partial(clean, "softbsl_loader_v11")
BaseAdmissible(base, amd_target) ==
    /\ IF amd_target THEN KnownDriver(base) ELSE base["driver"] = "-"
    /\ ~wait_partial(base)
    /\ _patch_state(base, "top_ds2_guard", Cells) # "partial"
PlanOf(clean, patches, driver) == Plan(RevertExact(clean, {"door_0x43"} \cup patches), patches, driver)
PlanFor(clean, guard, alphan, top, driver) ==
    PlanOf(clean,
           {"softbsl_loader", "door_magic"} \cup driver
               \cup (IF guard THEN {"cal_guard"} ELSE {})
               \cup (IF alphan THEN {"alphan_failsafe"} ELSE {})
               \cup (IF top THEN {"top_ds2_guard"} ELSE {}),
           driver)
PlanFrom(base, amd_target, guard, alphan, marker, clean) ==
    IF ~CleanAdmissible(clean) THEN NoPlan
    ELSE PlanFor(clean, guard, alphan, amd_target /\ marker = "T",
                 IF amd_target /\ (base["driver"] = "-" \/ _patch_state(clean, "amd_flash", BootCells) = "legacy")
                 THEN {"amd_flash"} ELSE {})
\* An unchecked install option does not remove an installed guard.
_persistent_patch_plan(base, amd_target, guard, alphan, marker) ==
    IF ~BaseAdmissible(base, amd_target) THEN NoPlan
    ELSE PlanFrom(base, amd_target,
                  guard \/ installed_calguard(restore_missing_calguard_v5_body(base)), alphan, marker,
                  Cleaned(Unwaiting(restore_missing_calguard_v5_body(base))))

\* What the base already has is not applied again, unless the startup wait does
\* not fit; a loader's marker is set back first, so that either matches.
KeepWait(base, ids) == "cal_guard" \in ids \/ (installed_calguard(base) /\ base["startup"] = "W")
Missing(base, ids) ==
    IF ids \cap StartupOwners # {} /\ base["startup"] # (IF KeepWait(base, ids) THEN "W" ELSE "-")
    THEN ids ELSE {p \in ids : ~is_applied(base, p)}
ComposeOf(base, ids, missing, marker) ==
    IF missing = {} /\ marker = "" THEN base
    ELSE build(IF marker # "" /\ "softbsl_loader" \in ids /\ base["marker"] \in {"B", "T"}
               THEN [base EXCEPT !["marker"] = "B"] ELSE base,
               missing, marker)
ComposeWith(base, ids, marker) == ComposeOf(base, ids, Missing(base, ids), marker)
_compose_image(base, patches, marker) ==
    ComposeWith(base, with_startup_wait(base, patches), marker)

MarkerIn(base) == IF base["marker"] \in {"B", "T"} THEN base["marker"] ELSE ""
ComposePlan(plan, marker) ==
    IF plan.base = NoImage THEN NoImage ELSE _compose_image(plan.base, plan.patches, marker)
compose_persistent_image(base, amd_target, guard, alphan, wanted) ==
    LET marker == IF wanted = "" THEN MarkerIn(base) ELSE wanted
    IN ComposePlan(_persistent_patch_plan(base, amd_target, guard, alphan, marker), marker)

Overlapping(p) == {q \in Patches \ {p} : Collide(p, q)}
\* Mutant: the cave is taken to be free.
OntoTheCave(base) == base
\* The bootstrap stands on the target's base, freed of the exact patches that
\* occupy the cells of its one-shot door.
_temporary_bootstrap_base(base) == RevertExact(base, Overlapping("door_0x43"))
BootPatches(plan) ==
    {"softbsl_loader", "door_0x43"} \cup plan.driver \cup ({"top_ds2_guard"} \cap plan.patches)
Images(plan, marker) ==
    [bootstrap |-> IF plan.base = NoImage THEN NoImage
                   ELSE _compose_image(_temporary_bootstrap_base(plan.base), BootPatches(plan), marker),
     target |-> ComposePlan(plan, marker),
     plan |-> plan]
_install_resolve_images(base, amd_target, guard, alphan) ==
    Images(_persistent_patch_plan(base, amd_target, guard, alphan, MarkerIn(base)), MarkerIn(base))
===============================================================================
