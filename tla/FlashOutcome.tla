----------------------------- MODULE FlashOutcome -----------------------------
(***************************************************************************)
(* What a flash writer owes its user, whatever happens on the wire.  The   *)
(* flash, as seen from one write, is as the write found it ("kept"),       *)
(* incomplete ("torn") or what was asked for ("target").  A write that is  *)
(* reported as not started has left the flash alone, one reported complete *)
(* has reached the target, and one that failed in between stays held: only *)
(* its own retry, a release by the user or the end of the program ends it. *)
(***************************************************************************)
VARIABLES content, verdict

Contents == {"kept", "torn", "target"}

Init == content = "kept" /\ verdict = "none"

Begin ==
    /\ verdict \in {"none", "not_started", "complete", "abandoned"}
    /\ verdict' = "running"
    /\ content' = "kept"

Change ==
    /\ verdict = "running"
    /\ content' \in {"torn", "target"}
    /\ UNCHANGED verdict

ReportNotStarted ==
    /\ verdict = "running" /\ content = "kept"
    /\ verdict' = "not_started"
    /\ UNCHANGED content

ReportComplete ==
    /\ verdict = "running" /\ content = "target"
    /\ verdict' = "complete"
    /\ UNCHANGED content

Hold ==
    /\ verdict = "running"
    /\ verdict' = "held"
    /\ UNCHANGED content

Resume ==
    /\ verdict = "held"
    /\ verdict' = "running"
    /\ UNCHANGED content

Abandon ==
    /\ verdict \in {"running", "held"}
    /\ verdict' = "abandoned"
    /\ UNCHANGED content

Next == Begin \/ Change \/ ReportNotStarted \/ ReportComplete \/ Hold \/ Resume \/ Abandon
Spec == Init /\ [][Next]_<<content, verdict>>
===============================================================================
