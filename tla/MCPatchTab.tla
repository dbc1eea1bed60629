----------------------------- MODULE MCPatchTab -----------------------------
(***************************************************************************)
(* The Patches tab over a library of images in the field: stock, each      *)
(* generation of the protected bank, an upgraded AMD conversion, a TOP     *)
(* image, and images other tools left behind.                              *)
(***************************************************************************)
EXTENDS PatchTab

Stock == [c \in Cells |-> IF c \in Settings THEN "ff" ELSE "-"]
With(image, ps) == FoldSet(LAMBDA p, i : Over(i, Edits[p]), image, ps)

\* The earlier protected bank, and the same after a stock program was written.
Legacy == With(Stock, {"softbsl_loader_v11", "door_magic", "cal_guard_v5"})
Bodiless == [Legacy EXCEPT !["body"] = "-"]
\* An AMD conversion with both engines one revision behind, and settings.
Behind == [With(Stock, {"amd_flash_v4", "ignition_cut_v17", "launch_control_v17",
                        "alphan_failsafe_v2"})
           EXCEPT !["cut_range"] = "own", !["launch_range"] = "own"]
\* The current protected bank, for either driver, and a TOP image.
Current == Over(With(Stock, {"softbsl_loader", "door_magic", "cal_guard"}), Wait)
CurrentAmd == With(Current, {"amd_flash", "ignition_cut_v18"})
Top == [With(Stock, {"softbsl_loader", "door_magic", "amd_flash", "top_ds2_guard"})
        EXCEPT !["marker"] = "T"]
\* A startup wait whose guard is gone, and a launch control that is no revision.
Residue == Over(With(Stock, {"softbsl_loader", "amd_flash_v4"}), Wait)
Foreign == [With(Stock, {"ignition_cut_v17"}) EXCEPT !["launch"] = "odd", !["cut_range"] = "own"]

MCLibrary == {Stock, Legacy, Bodiless, Behind, CurrentAmd, Top, Residue, Foreign}
MCEcus == {Stock, Legacy, Behind, CurrentAmd, Top}
Sel(ps, bank) == [patches |-> ps, marker |-> bank]
MCSelections ==
    {Sel(ps, "") : ps \in
        {{"softbsl_loader"}, {"cal_guard"}, {"softbsl_loader", "cal_guard"}, {"amd_flash"},
         {"softbsl_loader", "amd_flash"}, {"ignition_cut_v18"}, {"launch_control_v18"},
         {"ignition_cut_v18", "launch_control_v18"}, {"alphan_failsafe"},
         {"alphan_failsafe", "door_0x43"}}}
    \cup {Sel({}, "B"), Sel({}, "T"), Sel({"softbsl_loader"}, "T"),
          Sel({"amd_flash", "top_ds2_guard"}, "T")}
===============================================================================
