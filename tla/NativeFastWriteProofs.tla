-------------------------- MODULE NativeFastWriteProofs --------------------------
(***************************************************************************)
(* The native-fast writer for every number of packets, tries, seeds,       *)
(* operations and failures.                                                *)
(***************************************************************************)
EXTENDS NativeFastWrite, TLAPS

---------------------------------------------------------------------------
(* The inductive invariant.                                                *)

Running == Entry \cup Flashing \cup Finishing \cup Lowering \cup Handling
Probing == {"probe_high", "probe_low"}

(* What has been reported fits where the operation is; only a conventional *)
(* writer goes on after "not started", and only through its authorization. *)
OutcomeInv ==
    /\ pc = "idle" => outcome # "running"
    /\ pc \in {"refused", "slow"} => outcome = "not_started"
    /\ pc = "held" => outcome = "running" /\ ~s.slow
    /\ pc \in Running => IF s.slow THEN outcome = "not_started" /\ pc \in Authorization
                                   ELSE outcome = "running"

(* The destructive boundary is recorded before anything is erased, and the *)
(* way back without it is the handling of a failure.                       *)
BoundaryInv ==
    /\ ~s.destructive_started => \A a \in Arrays : erases[a] = 0
    /\ \A a \in Arrays \ Affected : erases[a] = 0
    /\ pc \in Entry \cup {"refused", "slow"} => ~s.destructive_started
    /\ pc \in {"program", "readback", "post_poll", "held"} \cup Finishing =>
          s.destructive_started
    /\ s.handling <=> pc \in Probing \cup Lowering /\ ~s.destructive_started
    /\ pc \in Probing => s.handling
    /\ s.recovery_replay_attempted => s.destructive_started
    /\ s.safe_legacy_fallback => pc = "refused"

(* The phase of the flash and what has been erased and written so far.     *)
Phases == IF Partial THEN {"partial"}
          ELSE IF s.kind = "full" THEN {"program", "tune"} ELSE {"program"}
Done(a) == HoldsNew(ecu, a) /\ erases[a] > 0
PhaseInv ==
    /\ pc = "liveness" => s.state = HighState
    /\ pc \in {"poll", "tune_poll", "post_poll"} => ~Partial
    /\ pc = "poll" => s.state = "program"
    /\ pc \in {"tune_poll", "post_poll"} => s.state = "tune"
    /\ pc \in Flashing => s.state \in Phases
    /\ "tune" \in {s.state, s.failure_state} => s.kind = "full" /\ Done("program")
    /\ pc \in Flashing /\ s.state = "program" => s.failure_state # "tune"
    /\ pc \in {"post_poll"} \cup Finishing \/ (pc \in Lowering /\ ~s.handling) =>
          \A a \in Affected : Done(a)

(* The array being written: what is behind the packet at hand is written,  *)
(* what lies before it is erased.                                          *)
CellsInv ==
    /\ pc \in {"program", "readback"} =>
          /\ erases[Array] > 0
          /\ \A p \in 1 .. Packets : /\ p < s.pkt => ecu.cells[Array][p] = "new"
                                     /\ p > s.pkt => ecu.cells[Array][p] = "blank"
    /\ pc = "program" => ecu.cells[Array][s.pkt] = IF s.suffix THEN "prefix" ELSE "blank"
    /\ pc = "readback" /\ s.suffix => ecu.cells[Array][s.pkt] # "blank"

(* No challenge is sent to a computer that waits for a key, and a computer *)
(* left waiting for one blocks the way back.                               *)
AuthInv ==
    /\ pc \in {"prepare", "challenge"} => ecu.auth = 0 /\ s.seeds < MaxSeeds
    /\ pc = "confirm_existing" => ecu.auth # 1
    /\ pc = "reentry" => s.seen[1] # 1
    /\ pc \in {"identify", "read", "reentry", "confirm_existing"} => s.seeds = 0
    /\ pc = "reread" => s.authorization_state_requires_cycle
    /\ pc \in {"identify"} \cup Authorization => ~s.write_authorized
    /\ ~s.destructive_started /\ ecu.auth = 1 /\ s.seeds > 0 => pc = "key" \/ Blocked
    /\ s.handling => ~Blocked
    /\ s.safe_legacy_fallback => ~Blocked /\ ecu.rate = "low"

(* A latch that is still busy although the user was not told to cycle the  *)
(* ignition is known to the registry, or becomes known when the session    *)
(* gives the port back.                                                    *)
Unannounced == ecu.latch = "busy" /\ lapses = {}
WillRegister == registry \/ (s.fast_write_armed /\ s.state # "armed" /\ s.link = "low")
LatchInv ==
    /\ pc \in {"identify", "read", "reentry"} /\ ~s.slow /\ Unannounced => registry /\ s.reentry
    /\ pc \in Entry \ {"identify", "read", "reentry"} /\ ~s.slow => ~Unannounced
    /\ s.slow /\ pc \in Authorization \cup {"slow"} =>
          ~s.reentry /\ pc # "reentry" /\ (Unannounced => registry)
    /\ pc \in Flashing /\ ~s.destructive_started => ~Unannounced
    /\ pc \in {"handler", "down"} \cup Probing /\ ~s.destructive_started /\ Unannounced =>
          registry
    /\ pc \in {"bare", "low_identity"} /\ s.handling /\ Unannounced => WillRegister
    /\ s.safe_legacy_fallback /\ Unannounced => registry
    /\ pc = "held" /\ s.cycled => ecu.latch # "busy"
    /\ pc \in Entry \ {"identify"} => s.identified
    /\ pc \in Flashing \cup Probing \cup Lowering /\ ~s.destructive_started => s.identified
    /\ pc = "up" => s.fast_write_armed
    /\ pc \in Running /\ ~s.slow /\ ~s.destructive_started /\ s.identified /\ ecu.rate = "high"
          => s.fast_write_armed
    /\ pc \in {"down", "bare"} /\ s.handling => s.fast_write_armed /\ s.state # "armed"
    /\ pc \in {"bare", "low_identity"} \cup (Entry \ {"liveness"}) => s.link = "low"

(* After an A2 or a final write no erase is ahead.                         *)
EraseInv ==
    /\ pc \in Entry \cup Flashing \cup (Finishing \ {"verify"}) => ~s.a2 /\ ~s.flash_completed
    /\ pc = "held" /\ s.a2 => s.recovery_replay_attempted

IInv ==
    /\ TypeOK
    /\ OutcomeInv
    /\ pc = "idle" /\ Unannounced => registry
    /\ pc # "idle" =>
          BoundaryInv /\ PhaseInv /\ CellsInv /\ AuthInv /\ LatchInv /\ EraseInv

\* One field of a computer, or of a session, may be set to any value of its type.
LEMMA DmeSet ==
    \A r \in Dmes :
        /\ \A v \in {"low", "high"} : [r EXCEPT !.rate = v] \in Dmes
        /\ \A v \in 0 .. 2 : [r EXCEPT !.auth = v] \in Dmes
        /\ \A v \in 0 .. 2 : [r EXCEPT !.wrong = v] \in Dmes
        /\ \A v \in BOOLEAN : [r EXCEPT !.armed = v] \in Dmes
        /\ \A v \in {"clear", "busy", "ready"} : [r EXCEPT !.latch = v] \in Dmes
<1>1. \A r \in Dmes : \A v \in {"low", "high"} : [r EXCEPT !.rate = v] \in Dmes
  BY DEF Dmes
<1>2. \A r \in Dmes : \A v \in 0 .. 2 : [r EXCEPT !.auth = v] \in Dmes
  BY DEF Dmes
<1>3. \A r \in Dmes : \A v \in 0 .. 2 : [r EXCEPT !.wrong = v] \in Dmes
  BY DEF Dmes
<1>4. \A r \in Dmes : \A v \in BOOLEAN : [r EXCEPT !.armed = v] \in Dmes
  BY DEF Dmes
<1>5. \A r \in Dmes : \A v \in {"clear", "busy", "ready"} : [r EXCEPT !.latch = v] \in Dmes
  BY DEF Dmes
<1> QED
  BY <1>1, <1>2, <1>3, <1>4, <1>5

LEMMA SessionSet ==
    \A r \in Sessions :
        /\ \A v \in HostStates : [r EXCEPT !.state = v] \in Sessions
        /\ \A v \in Errors : [r EXCEPT !.error = v] \in Sessions
        /\ \A v \in BOOLEAN : [r EXCEPT !.identified = v] \in Sessions
        /\ \A v \in (0 .. 2) \X (0 .. 2) : [r EXCEPT !.seen = v] \in Sessions
        /\ \A v \in 0 .. MaxSeeds : [r EXCEPT !.seeds = v] \in Sessions
        /\ \A v \in {"low", "high", "unknown"} : [r EXCEPT !.link = v] \in Sessions
        /\ \A v \in BOOLEAN : [r EXCEPT !.slow = v] \in Sessions
        /\ \A v \in BOOLEAN : [r EXCEPT !.reentry = v] \in Sessions
        /\ \A v \in BOOLEAN : [r EXCEPT !.write_authorized = v] \in Sessions
        /\ \A v \in BOOLEAN : [r EXCEPT !.authorization_may_be_active = v] \in Sessions
        /\ \A v \in BOOLEAN : [r EXCEPT !.authorization_state_requires_cycle = v] \in Sessions
        /\ \A v \in BOOLEAN : [r EXCEPT !.fast_write_armed = v] \in Sessions
        /\ \A v \in BOOLEAN : [r EXCEPT !.destructive_started = v] \in Sessions
        /\ \A v \in BOOLEAN : [r EXCEPT !.flash_completed = v] \in Sessions
        /\ \A v \in HostStates : [r EXCEPT !.failure_state = v] \in Sessions
        /\ \A v \in BOOLEAN : [r EXCEPT !.recovery_replay_attempted = v] \in Sessions
        /\ \A v \in BOOLEAN : [r EXCEPT !.safe_legacy_fallback = v] \in Sessions
        /\ \A v \in BOOLEAN : [r EXCEPT !.recovering = v] \in Sessions
        /\ \A v \in BOOLEAN : [r EXCEPT !.replaying = v] \in Sessions
        /\ \A v \in 1 .. Packets : [r EXCEPT !.pkt = v] \in Sessions
        /\ \A v \in 1 .. MaxTries : [r EXCEPT !.tries = v] \in Sessions
        /\ \A v \in BOOLEAN : [r EXCEPT !.suffix = v] \in Sessions
        /\ \A v \in BOOLEAN : [r EXCEPT !.a2 = v] \in Sessions
        /\ \A v \in BOOLEAN : [r EXCEPT !.cycled = v] \in Sessions
        /\ \A v \in BOOLEAN : [r EXCEPT !.handling = v] \in Sessions
<1>1. \A r \in Sessions : \A v \in HostStates : [r EXCEPT !.state = v] \in Sessions
  BY DEF Sessions
<1>2. \A r \in Sessions : \A v \in Errors : [r EXCEPT !.error = v] \in Sessions
  BY DEF Sessions
<1>3. \A r \in Sessions : \A v \in BOOLEAN : [r EXCEPT !.identified = v] \in Sessions
  BY DEF Sessions
<1>4. \A r \in Sessions : \A v \in (0 .. 2) \X (0 .. 2) : [r EXCEPT !.seen = v] \in Sessions
  BY DEF Sessions
<1>5. \A r \in Sessions : \A v \in 0 .. MaxSeeds : [r EXCEPT !.seeds = v] \in Sessions
  BY DEF Sessions
<1>6. \A r \in Sessions : \A v \in {"low", "high", "unknown"} : [r EXCEPT !.link = v] \in Sessions
  BY DEF Sessions
<1>7. \A r \in Sessions : \A v \in BOOLEAN : [r EXCEPT !.slow = v] \in Sessions
  BY DEF Sessions
<1>8. \A r \in Sessions : \A v \in BOOLEAN : [r EXCEPT !.reentry = v] \in Sessions
  BY DEF Sessions
<1>9. \A r \in Sessions : \A v \in BOOLEAN : [r EXCEPT !.write_authorized = v] \in Sessions
  BY DEF Sessions
<1>10. \A r \in Sessions : \A v \in BOOLEAN : [r EXCEPT !.authorization_may_be_active = v] \in Sessions
  BY DEF Sessions
<1>11. \A r \in Sessions : \A v \in BOOLEAN : [r EXCEPT !.authorization_state_requires_cycle = v] \in Sessions
  BY DEF Sessions
<1>12. \A r \in Sessions : \A v \in BOOLEAN : [r EXCEPT !.fast_write_armed = v] \in Sessions
  BY DEF Sessions
<1>13. \A r \in Sessions : \A v \in BOOLEAN : [r EXCEPT !.destructive_started = v] \in Sessions
  BY DEF Sessions
<1>14. \A r \in Sessions : \A v \in BOOLEAN : [r EXCEPT !.flash_completed = v] \in Sessions
  BY DEF Sessions
<1>15. \A r \in Sessions : \A v \in HostStates : [r EXCEPT !.failure_state = v] \in Sessions
  BY DEF Sessions
<1>16. \A r \in Sessions : \A v \in BOOLEAN : [r EXCEPT !.recovery_replay_attempted = v] \in Sessions
  BY DEF Sessions
<1>17. \A r \in Sessions : \A v \in BOOLEAN : [r EXCEPT !.safe_legacy_fallback = v] \in Sessions
  BY DEF Sessions
<1>18. \A r \in Sessions : \A v \in BOOLEAN : [r EXCEPT !.recovering = v] \in Sessions
  BY DEF Sessions
<1>19. \A r \in Sessions : \A v \in BOOLEAN : [r EXCEPT !.replaying = v] \in Sessions
  BY DEF Sessions
<1>20. \A r \in Sessions : \A v \in 1 .. Packets : [r EXCEPT !.pkt = v] \in Sessions
  BY DEF Sessions
<1>21. \A r \in Sessions : \A v \in 1 .. MaxTries : [r EXCEPT !.tries = v] \in Sessions
  BY DEF Sessions
<1>22. \A r \in Sessions : \A v \in BOOLEAN : [r EXCEPT !.suffix = v] \in Sessions
  BY DEF Sessions
<1>23. \A r \in Sessions : \A v \in BOOLEAN : [r EXCEPT !.a2 = v] \in Sessions
  BY DEF Sessions
<1>24. \A r \in Sessions : \A v \in BOOLEAN : [r EXCEPT !.cycled = v] \in Sessions
  BY DEF Sessions
<1>25. \A r \in Sessions : \A v \in BOOLEAN : [r EXCEPT !.handling = v] \in Sessions
  BY DEF Sessions
<1> QED
  BY <1>1, <1>2, <1>3, <1>4, <1>5, <1>6, <1>7, <1>8, <1>9, <1>10, <1>11, <1>12, <1>13,
     <1>14, <1>15, <1>16, <1>17, <1>18, <1>19, <1>20, <1>21, <1>22, <1>23, <1>24, <1>25

LEMMA DmeTyped ==
    \A e \in Dmes :
        /\ PowerUp(e) \in Dmes
        /\ Challenged(e) \in Dmes
        /\ Keyed(e) \in Dmes
        /\ Armed(e) \in Dmes
        /\ SelectedHigh(e) \in Dmes
        /\ SelectedLow(e) \in Dmes
        /\ Disarmed(e) \in Dmes
        /\ SeededAgain(e) \in Dmes
        /\ \A a \in Arrays : Erased(e, a) \in Dmes
        /\ \A a \in Arrays, p \in 1 .. Packets, cell \in Cells :
              Programmed(e, a, p, cell) \in Dmes
        /\ Retargeted(e) \in Dmes
<1> TAKE e \in Dmes
<1>0. /\ 0 \in 0 .. 2 /\ 1 \in 0 .. 2 /\ 2 \in 0 .. 2
      /\ "low" \in {"low", "high"} /\ "high" \in {"low", "high"}
      /\ "clear" \in {"clear", "busy", "ready"} /\ "busy" \in {"clear", "busy", "ready"}
  OBVIOUS
<1>1. Challenged(e) \in Dmes
  BY DEF Dmes, Challenged
<1>2. PowerUp(e) \in Dmes
  BY <1>0, DmeSet, Zenon DEF PowerUp
<1>3. Keyed(e) \in Dmes /\ Armed(e) \in Dmes
  BY <1>0, DmeSet DEF Keyed, Armed
<1>4. SeededAgain(e) \in Dmes /\ Disarmed(e) \in Dmes
  BY <1>0, DmeSet DEF SeededAgain, Disarmed
<1>5. SelectedHigh(e) \in Dmes /\ SelectedLow(e) \in Dmes
  BY <1>0, DmeSet, Zenon DEF SelectedHigh, SelectedLow
<1>6. \A a \in Arrays : Erased(e, a) \in Dmes
  BY DEF Dmes, Erased, Cells
<1>7. \A a \in Arrays, p \in 1 .. Packets, cell \in Cells : Programmed(e, a, p, cell) \in Dmes
  BY DEF Dmes, Programmed, Cells
<1>8. Retargeted(e) \in Dmes
  <2> DEFINE new == [b \in Arrays |-> [q \in 1 .. Packets |->
                        IF e.cells[b][q] = "new" THEN "old" ELSE e.cells[b][q]]]
  <2>1. \A b \in Arrays, q \in 1 .. Packets : e.cells[b][q] \in Cells
    BY DEF Dmes
  <2>2. new \in [Arrays -> [1 .. Packets -> Cells]]
    BY <2>1 DEF Cells
  <2> HIDE DEF new
  <2>3. [e EXCEPT !.cells = new] \in Dmes
    BY <2>2 DEF Dmes
  <2> QED
    BY <2>3 DEF Retargeted, new
<1> QED  BY <1>1, <1>2, <1>3, <1>4, <1>5, <1>6, <1>7, <1>8

\* What each request leaves in the computer, field by field.
LEMMA ChallengedFields ==
    \A e \in Dmes :
        /\ Challenged(e).rate = e.rate /\ Challenged(e).armed = e.armed
        /\ Challenged(e).latch = e.latch /\ Challenged(e).cells = e.cells
        /\ e.auth = 0 => Challenged(e).auth = 1 /\ Challenged(e).wrong = e.wrong
        /\ e.auth # 0 => Challenged(e).auth = e.auth
        /\ e.auth = 2 => Challenged(e).wrong = e.wrong
  BY DEF Dmes, Challenged

LEMMA KeyedFields ==
    \A e \in Dmes :
        /\ Keyed(e).rate = e.rate /\ Keyed(e).armed = e.armed /\ Keyed(e).wrong = e.wrong
        /\ Keyed(e).latch = e.latch /\ Keyed(e).cells = e.cells
        /\ Keyed(e).auth = IF e.auth = 1 THEN 2 ELSE e.auth
  BY DEF Dmes, Keyed

LEMMA ArmedFields ==
    \A e \in Dmes :
        /\ Armed(e).rate = e.rate /\ Armed(e).auth = e.auth /\ Armed(e).wrong = e.wrong
        /\ Armed(e).latch = e.latch /\ Armed(e).cells = e.cells
  BY DEF Dmes, Armed

LEMMA SelectedFields ==
    \A e \in Dmes :
        /\ SelectedHigh(e).auth = e.auth /\ SelectedHigh(e).wrong = e.wrong
        /\ SelectedHigh(e).cells = e.cells
        /\ e.armed => SelectedHigh(e).rate = "high" /\ SelectedHigh(e).latch = "clear"
        /\ ~e.armed => SelectedHigh(e) = e
        /\ SelectedLow(e).auth = e.auth /\ SelectedLow(e).wrong = e.wrong
        /\ SelectedLow(e).cells = e.cells /\ SelectedLow(e).rate = "low"
        /\ SelectedLow(e).latch = "busy"
  BY DEF Dmes, SelectedHigh, SelectedLow

LEMMA DisarmedFields ==
    \A e \in Dmes :
        /\ Disarmed(e).rate = e.rate /\ Disarmed(e).auth = e.auth /\ Disarmed(e).wrong = e.wrong
        /\ Disarmed(e).latch = e.latch /\ Disarmed(e).cells = e.cells
        /\ SeededAgain(e).rate = e.rate /\ SeededAgain(e).auth = 1
        /\ SeededAgain(e).wrong = e.wrong /\ SeededAgain(e).latch = e.latch
        /\ SeededAgain(e).cells = e.cells
  BY DEF Dmes, Disarmed, SeededAgain

LEMMA PowerUpFields ==
    \A e \in Dmes :
        /\ PowerUp(e).rate = "low" /\ PowerUp(e).auth = 0 /\ PowerUp(e).wrong = 0
        /\ PowerUp(e).latch = "clear" /\ PowerUp(e).cells = e.cells
  BY DEF Dmes, PowerUp

LEMMA FlashFields ==
    ASSUME NEW e \in Dmes, NEW a \in Arrays
    PROVE  /\ Erased(e, a).rate = e.rate /\ Erased(e, a).auth = e.auth
           /\ Erased(e, a).wrong = e.wrong /\ Erased(e, a).latch = e.latch
           /\ \A p \in 1 .. Packets : Erased(e, a).cells[a][p] = "blank"
           /\ \A b \in Arrays \ {a} : Erased(e, a).cells[b] = e.cells[b]
           /\ \A p \in 1 .. Packets, cell \in Cells :
                 /\ Programmed(e, a, p, cell).rate = e.rate
                 /\ Programmed(e, a, p, cell).auth = e.auth
                 /\ Programmed(e, a, p, cell).wrong = e.wrong
                 /\ Programmed(e, a, p, cell).latch = e.latch
                 /\ Programmed(e, a, p, cell).cells[a][p] = cell
                 /\ \A q \in (1 .. Packets) \ {p} :
                       Programmed(e, a, p, cell).cells[a][q] = e.cells[a][q]
                 /\ \A b \in Arrays \ {a} : Programmed(e, a, p, cell).cells[b] = e.cells[b]
<1>1. /\ Erased(e, a).rate = e.rate /\ Erased(e, a).auth = e.auth
      /\ Erased(e, a).wrong = e.wrong /\ Erased(e, a).latch = e.latch
  BY DEF Dmes, Erased
<1>2. /\ \A p \in 1 .. Packets : Erased(e, a).cells[a][p] = "blank"
      /\ \A b \in Arrays \ {a} : Erased(e, a).cells[b] = e.cells[b]
  BY DEF Dmes, Erased
<1>3. ASSUME NEW p \in 1 .. Packets, NEW cell \in Cells
      PROVE  /\ Programmed(e, a, p, cell).rate = e.rate
             /\ Programmed(e, a, p, cell).auth = e.auth
             /\ Programmed(e, a, p, cell).wrong = e.wrong
             /\ Programmed(e, a, p, cell).latch = e.latch
  BY DEF Dmes, Programmed
<1>4. ASSUME NEW p \in 1 .. Packets, NEW cell \in Cells
      PROVE  /\ Programmed(e, a, p, cell).cells[a][p] = cell
             /\ \A q \in (1 .. Packets) \ {p} :
                   Programmed(e, a, p, cell).cells[a][q] = e.cells[a][q]
             /\ \A b \in Arrays \ {a} : Programmed(e, a, p, cell).cells[b] = e.cells[b]
  BY <1>3 DEF Dmes, Programmed
<1> QED  BY <1>1, <1>2, <1>3, <1>4

LEMMA RetargetedFields ==
    \A e \in Dmes :
        /\ Retargeted(e).rate = e.rate /\ Retargeted(e).auth = e.auth
        /\ Retargeted(e).wrong = e.wrong /\ Retargeted(e).latch = e.latch
  BY DEF Dmes, Retargeted

\* What the typing of a step needs of its parts.
LEMMA Values ==
    /\ {"none", "plain", "unknown", "mismatch", "not_ready", "no_seed"} = Errors
    /\ {"low", "authorized", "armed", "partial", "program", "tune", "finalize", "lowering",
        "complete", "cycle", "unknown", "ready", "failed"} = HostStates
  BY DEF Errors, HostStates

LEMMA RaiseTyped ==
    ASSUME NEW sess \in Sessions, NEW error \in Errors, Raise(sess, error)
    PROVE  s' \in Sessions /\ pc' \in {"idle", "handler"}
  BY SessionSet DEF Raise

LEMMA RepliesTyped ==
    ASSUME TypeOK, NEW after \in Dmes, Answered(after) \/ Lost(after) \/ Refused
    PROVE  ecu' \in Dmes /\ faults' \in 0 .. MaxFaults
  BY NativeFastAssumption DEF TypeOK, Answered, Lost, Refused, Fault, NoFault

LEMMA QuietTyped ==
    ASSUME TypeOK, Quiet,
           s' \in Sessions, pc' \in Pcs, ecu' \in Dmes, faults' \in 0 .. MaxFaults
    PROVE  TypeOK'
  BY DEF TypeOK, Quiet, gui

LEMMA Labels ==
    Pcs = {"identify", "read", "reentry", "confirm_existing", "prepare", "challenge", "reread",
           "key", "arm", "up", "liveness", "poll", "erase", "program", "readback", "tune_poll",
           "post_poll", "fin_seed", "fin_key", "fin_probe", "fin_poll", "verify", "down", "bare",
           "low_identity", "handler", "probe_high", "probe_low", "idle", "refused", "held", "slow"}
  BY DEF Pcs, Entry, Authorization, Flashing, Finishing, Lowering, Handling, Resting

Fields == {"kind", "verify", "slow", "link", "state", "error", "identified", "seen",
           "seeds", "reentry", "write_authorized", "authorization_may_be_active",
           "authorization_state_requires_cycle", "fast_write_armed",
           "destructive_started", "flash_completed", "failure_state",
           "recovery_replay_attempted", "safe_legacy_fallback", "recovering",
           "replaying", "pkt", "tries", "suffix", "a2", "cycled", "handling"}

LEMMA SessionDomain == \A r \in Sessions : DOMAIN r = Fields
  BY DEF Sessions, Fields

LEMMA SessionHas ==
    \A r \in Sessions :
        /\ "kind" \in DOMAIN r /\ "verify" \in DOMAIN r /\ "slow" \in DOMAIN r
        /\ "link" \in DOMAIN r /\ "state" \in DOMAIN r /\ "error" \in DOMAIN r
        /\ "identified" \in DOMAIN r /\ "seen" \in DOMAIN r /\ "seeds" \in DOMAIN r
        /\ "reentry" \in DOMAIN r /\ "write_authorized" \in DOMAIN r
        /\ "authorization_may_be_active" \in DOMAIN r
        /\ "authorization_state_requires_cycle" \in DOMAIN r
        /\ "fast_write_armed" \in DOMAIN r /\ "destructive_started" \in DOMAIN r
        /\ "flash_completed" \in DOMAIN r /\ "failure_state" \in DOMAIN r
        /\ "recovery_replay_attempted" \in DOMAIN r /\ "safe_legacy_fallback" \in DOMAIN r
        /\ "recovering" \in DOMAIN r /\ "replaying" \in DOMAIN r /\ "pkt" \in DOMAIN r
        /\ "tries" \in DOMAIN r /\ "suffix" \in DOMAIN r /\ "a2" \in DOMAIN r
        /\ "cycled" \in DOMAIN r /\ "handling" \in DOMAIN r
  BY SessionDomain DEF Fields

---------------------------------------------------------------------------
(* A request that fails: what every one of them leaves alone.              *)

Fails ==
    /\ pc' = IF s.slow THEN "idle" ELSE "handler"
    /\ UNCHANGED <<registry, lapses, outcome, erases>>
    /\ ecu'.cells = ecu.cells
    /\ s'.kind = s.kind /\ s'.slow = s.slow /\ s'.handling = s.handling
    /\ s'.failure_state = s.failure_state
    /\ s'.state # s.state => s'.state \in {"partial", "program"}
    /\ s'.destructive_started = s.destructive_started
    /\ s'.recovery_replay_attempted = s.recovery_replay_attempted
    /\ s'.safe_legacy_fallback = s.safe_legacy_fallback

\* A failure that leaves no key awaited unnoticed, no busy latch unregistered and
\* no armed computer unknown keeps the invariant.
LEMMA FailsKeeps ==
    ASSUME IInv, TypeOK', Fails, ~s.handling,
           pc \in Entry \cup Flashing \cup Finishing \cup Lowering,
           ~s.destructive_started /\ ecu'.auth = 1 /\ s'.seeds > 0 => Blocked',
           ~s.destructive_started /\ Unannounced' => registry,
           ~s.slow /\ ~s.destructive_started /\ s'.identified /\ ecu'.rate = "high"
              => s'.fast_write_armed
    PROVE  IInv'
<1>1. pc' = IF s.slow THEN "idle" ELSE "handler"
  BY DEF Fails
<1>2. OutcomeInv'
  BY DEF IInv, OutcomeInv, Fails, Running, Entry, Authorization, Handling, Flashing, Finishing,
         Lowering
<1>3. CASE s.slow
  <2>1. pc' = "idle" /\ ~s.destructive_started
    BY <1>1, <1>3 DEF IInv, OutcomeInv, BoundaryInv, Running, Entry, Authorization, Flashing,
           Finishing, Lowering
  <2> QED
    BY <1>2, <2>1 DEF IInv, Fails
<1>4. CASE ~s.slow
  <2>1. pc' = "handler" /\ pc # "idle"
    BY <1>1, <1>4 DEF Entry, Authorization, Flashing, Finishing, Lowering
  <2>2. /\ s'.kind = s.kind /\ s'.slow = s.slow /\ ~s'.handling
        /\ s'.failure_state = s.failure_state
        /\ s'.state # s.state => s'.state \in {"partial", "program"}
        /\ s'.destructive_started = s.destructive_started
        /\ s'.recovery_replay_attempted = s.recovery_replay_attempted
        /\ s'.safe_legacy_fallback = s.safe_legacy_fallback
        /\ erases' = erases /\ registry' = registry /\ ecu'.cells = ecu.cells
    BY DEF Fails
  <2>3. BoundaryInv'
    BY <2>1, <2>2 DEF IInv, BoundaryInv, Affected, Partial, Entry, Authorization, Flashing,
           Finishing, Lowering, Probing
  <2>4. PhaseInv'
    BY <2>1, <2>2 DEF IInv, PhaseInv, Done, HoldsNew, Flashing, Finishing, Lowering
  <2>5. CellsInv' /\ EraseInv'
    BY <2>1 DEF CellsInv, EraseInv, Entry, Authorization, Flashing, Finishing
  <2>6. AuthInv'
    <3>1. ~s'.safe_legacy_fallback
      BY <2>1, <2>2 DEF IInv, BoundaryInv, Entry, Authorization, Flashing, Finishing, Lowering
    <3> QED
      BY <2>1, <2>2, <3>1 DEF AuthInv, Authorization
  <2>7. LatchInv'
    <3>1. ~s'.safe_legacy_fallback
      BY <2>1, <2>2 DEF IInv, BoundaryInv, Entry, Authorization, Flashing, Finishing, Lowering
    <3> QED
      BY <1>4, <2>1, <2>2, <3>1
         DEF LatchInv, Entry, Authorization, Flashing, Finishing, Probing, Lowering
  <2> QED
    BY <1>2, <2>1, <2>3, <2>4, <2>5, <2>6, <2>7 DEF IInv
<1> QED  BY <1>3, <1>4

\* A request of the entry that is granted: what it leaves alone.
Proceeds ==
    /\ pc' \in (Entry \ {"identify", "liveness"}) \cup {"slow"}
    /\ pc' = "slow" => s.slow
    /\ UNCHANGED <<lapses, outcome, erases>>
    /\ ecu'.cells = ecu.cells
    /\ s'.kind = s.kind /\ s'.slow = s.slow /\ s'.handling = s.handling
    /\ s'.failure_state = s.failure_state
    /\ s'.state # "tune"
    /\ s'.destructive_started = s.destructive_started
    /\ s'.recovery_replay_attempted = s.recovery_replay_attempted
    /\ s'.safe_legacy_fallback = s.safe_legacy_fallback
    /\ s'.a2 = s.a2 /\ s'.flash_completed = s.flash_completed

LEMMA ProceedsKeeps ==
    ASSUME IInv, TypeOK', Proceeds, pc \in Entry, s.slow => pc' \in Authorization \cup {"slow"},
           AuthInv', LatchInv'
    PROVE  IInv'
<1>1. /\ pc' \in (Entry \ {"identify", "liveness"}) \cup {"slow"}
      /\ pc' = "slow" => s.slow
      /\ pc # "idle" /\ pc' # "idle"
  BY DEF Proceeds, Entry, Authorization
<1>2. /\ s'.kind = s.kind /\ s'.slow = s.slow /\ s'.handling = s.handling
      /\ s'.failure_state = s.failure_state
      /\ s'.state # "tune"
      /\ s'.destructive_started = s.destructive_started
      /\ s'.recovery_replay_attempted = s.recovery_replay_attempted
      /\ s'.safe_legacy_fallback = s.safe_legacy_fallback
      /\ s'.a2 = s.a2 /\ s'.flash_completed = s.flash_completed
      /\ erases' = erases /\ outcome' = outcome /\ ecu'.cells = ecu.cells
  BY DEF Proceeds
<1>3. OutcomeInv'
  BY <1>1, <1>2 DEF IInv, OutcomeInv, Running, Entry, Authorization, Flashing, Finishing,
         Lowering, Handling
<1>4. BoundaryInv'
  BY <1>1, <1>2 DEF IInv, BoundaryInv, Affected, Partial, Entry, Authorization, Finishing,
         Lowering, Probing
<1>5. PhaseInv'
  BY <1>1, <1>2 DEF IInv, PhaseInv, Done, HoldsNew, Entry, Authorization, Flashing, Finishing,
         Lowering
<1>6. CellsInv' /\ EraseInv'
  BY <1>1, <1>2 DEF IInv, CellsInv, EraseInv, Entry, Authorization, Flashing, Finishing
<1> QED  BY <1>1, <1>3, <1>4, <1>5, <1>6 DEF IInv

\* Before the computer is armed no key is left awaited and no latch forgotten.
LEMMA EntryFacts ==
    ASSUME IInv, pc \in Entry
    PROVE  /\ TypeOK /\ s \in Sessions /\ ecu \in Dmes
           /\ ~s.handling /\ ~s.destructive_started /\ ~s.safe_legacy_fallback
           /\ Unannounced => registry
           /\ s.state # "tune" /\ s.failure_state # "tune"
           /\ s.slow => pc \in Authorization
           /\ pc # "liveness" => s.link = "low"
           /\ ~s.slow /\ s.identified /\ ecu.rate = "high" => s.fast_write_armed
<1>1. pc # "idle"
  BY DEF Entry, Authorization
<1>2. BoundaryInv /\ PhaseInv /\ LatchInv /\ OutcomeInv /\ TypeOK
  BY <1>1 DEF IInv
<1>3. ~s.handling /\ ~s.destructive_started /\ ~s.safe_legacy_fallback
  BY <1>2 DEF BoundaryInv, Entry, Authorization, Probing, Lowering
<1>4. erases["program"] = 0
  BY <1>2, <1>3 DEF BoundaryInv, Arrays
<1>5. s.state # "tune" /\ s.failure_state # "tune"
  BY <1>2, <1>4 DEF PhaseInv, Done
<1>6. s.slow => pc \in Authorization
  BY <1>2 DEF OutcomeInv, Running
<1>7. Unannounced => registry
  BY <1>2, <1>6 DEF LatchInv, Entry
<1>8. /\ pc # "liveness" => s.link = "low"
      /\ ~s.slow /\ s.identified /\ ecu.rate = "high" => s.fast_write_armed
  BY <1>2, <1>3 DEF LatchInv, Running
<1> QED  BY <1>2, <1>3, <1>5, <1>6, <1>7, <1>8 DEF TypeOK

---------------------------------------------------------------------------
(* The destructive part and what follows it.                               *)

LEMMA FlashFacts ==
    ASSUME IInv, pc \in Flashing \cup Finishing \/ (pc \in Lowering /\ ~s.handling)
    PROVE  /\ TypeOK /\ s \in Sessions /\ ecu \in Dmes
           /\ ~s.slow /\ ~s.handling /\ ~s.safe_legacy_fallback
           /\ outcome = "running" /\ (~s.destructive_started => s.identified)
           /\ pc \notin {"poll", "erase", "tune_poll"} => s.destructive_started
           /\ ~s.destructive_started =>
                 /\ ~Unannounced
                 /\ ecu.rate = "high" => s.fast_write_armed
                 /\ ecu.auth = 1 /\ s.seeds > 0 => Blocked
<1>1. pc # "idle"
  BY DEF Flashing, Finishing, Lowering
<1>2. BoundaryInv /\ PhaseInv /\ LatchInv /\ OutcomeInv /\ AuthInv /\ TypeOK
  BY <1>1 DEF IInv
<1>3. ~s.slow /\ outcome = "running"
  BY <1>2 DEF OutcomeInv, Running, Authorization, Flashing, Finishing, Lowering
<1>4. /\ ~s.handling /\ ~s.safe_legacy_fallback
      /\ pc \notin {"poll", "erase", "tune_poll"} => s.destructive_started
  BY <1>2 DEF BoundaryInv, Flashing, Finishing, Lowering, Probing
<1>5. ~s.destructive_started => s.identified
  BY <1>2, <1>4 DEF LatchInv, Finishing
<1>6. ASSUME ~s.destructive_started
      PROVE  /\ ~Unannounced
             /\ ecu.rate = "high" => s.fast_write_armed
             /\ ecu.auth = 1 /\ s.seeds > 0 => Blocked
  BY <1>2, <1>3, <1>4, <1>5, <1>6 DEF LatchInv, AuthInv, Running, Flashing
<1> QED  BY <1>2, <1>3, <1>4, <1>5, <1>6 DEF TypeOK

LEMMA SucceedKeeps ==
    ASSUME TypeOK', NEW sess, Succeed(sess)
    PROVE  IInv'
  BY DEF IInv, Succeed, OutcomeInv, Unannounced, Running, Entry, Authorization, Flashing,
         Finishing, Lowering, Handling

LEMMA ConcludeTyped ==
    ASSUME TypeOK, NEW sess \in Sessions, NEW recovered \in BOOLEAN, Conclude(sess, recovered)
    PROVE  /\ s' \in Sessions
           /\ pc' \in {"held", "refused"}
           /\ registry' \in BOOLEAN
           /\ outcome' \in {"none", "running", "not_started", "complete", "abandoned"}
           /\ UNCHANGED <<cyclePending, lapses, operations, erases>>
<1>1. PICK state \in HostStates :
         s' = [sess EXCEPT !.state = state, !.handling = FALSE, !.cycled = FALSE]
  BY Values DEF Conclude
<1>2. s' \in Sessions
  BY <1>1, SessionSet
<1>3. Pending(sess) \in BOOLEAN
  <2>1. sess.fast_write_armed \in BOOLEAN /\ registry \in BOOLEAN
    BY DEF Sessions, TypeOK
  <2> QED
    BY <2>1 DEF Pending
<1> QED  BY <1>2, <1>3 DEF Conclude, TypeOK

BlockedBy(sess) == \/ sess.authorization_state_requires_cycle
                   \/ sess.authorization_may_be_active /\ ~sess.write_authorized

\* A session that is given back, or that is kept for a retry.
LEMMA ConcludeKeeps ==
    ASSUME IInv, TypeOK', pc # "idle",
           NEW sess \in Sessions, NEW recovered \in BOOLEAN, Conclude(sess, recovered),
           outcome = "running", ~s.slow,
           ecu'.cells = ecu.cells,
           sess.kind = s.kind, sess.slow = s.slow,
           sess.destructive_started = s.destructive_started,
           sess.recovery_replay_attempted => s.destructive_started,
           sess.failure_state = "tune" => s.kind = "full" /\ Done("program"),
           s.destructive_started =>
               /\ ~sess.safe_legacy_fallback
               /\ sess.a2 => sess.recovery_replay_attempted,
           ~s.destructive_started /\ ecu'.auth = 1 /\ sess.seeds > 0 => BlockedBy(sess),
           sess.safe_legacy_fallback =>
               /\ ~BlockedBy(sess)
               /\ ecu'.rate = "low"
               /\ Unannounced' => Pending(sess)
    PROVE  IInv'
<1>1. PICK state \in {"unknown", "ready", "cycle", "failed"} :
         s' = [sess EXCEPT !.state = state, !.handling = FALSE, !.cycled = FALSE]
  BY DEF Conclude
<1>2. /\ s'.kind = s.kind /\ s'.slow = s.slow /\ ~s'.handling /\ ~s'.cycled
      /\ s'.state \in {"unknown", "ready", "cycle", "failed"}
      /\ s'.failure_state = sess.failure_state
      /\ s'.destructive_started = s.destructive_started
      /\ s'.recovery_replay_attempted = sess.recovery_replay_attempted
      /\ s'.safe_legacy_fallback = sess.safe_legacy_fallback
      /\ s'.a2 = sess.a2 /\ s'.seeds = sess.seeds
      /\ Blocked' = BlockedBy(sess)
  BY <1>1, SessionHas DEF Blocked, BlockedBy
<1>3. /\ erases' = erases
      /\ IF s.destructive_started THEN pc' = "held" /\ outcome' = outcome
         ELSE pc' = "refused" /\ outcome' = "not_started" /\ registry' = Pending(sess)
  BY DEF Conclude
<1>4. OutcomeInv'
  BY <1>2, <1>3
     DEF OutcomeInv, Running, Entry, Authorization, Flashing, Finishing, Lowering, Handling
<1>5. BoundaryInv'
  BY <1>2, <1>3 DEF IInv, BoundaryInv, Affected, Partial, Entry, Authorization, Finishing,
         Probing, Lowering
<1>6. PhaseInv'
  BY <1>2, <1>3 DEF IInv, PhaseInv, Done, HoldsNew, Flashing, Finishing, Lowering
<1>7. CellsInv' /\ EraseInv'
  BY <1>2, <1>3 DEF CellsInv, EraseInv, Entry, Authorization, Flashing, Finishing
<1>8. AuthInv'
  BY <1>2, <1>3 DEF AuthInv, Authorization
<1>9. LatchInv'
  BY <1>2, <1>3 DEF LatchInv, Entry, Authorization, Flashing, Probing, Lowering, Running,
         Finishing, Handling
<1> QED  BY <1>3, <1>4, <1>5, <1>6, <1>7, <1>8, <1>9 DEF IInv

LEMMA SucceedTyped ==
    ASSUME TypeOK, NEW sess \in Sessions, Succeed(sess),
           ecu' \in Dmes, faults' \in 0 .. MaxFaults
    PROVE  TypeOK'
<1>1. Pending(sess) \in BOOLEAN
  <2>1. sess.fast_write_armed \in BOOLEAN /\ registry \in BOOLEAN
    BY DEF Sessions, TypeOK
  <2> QED
    BY <2>1 DEF Pending
<1> QED  BY <1>1, Labels DEF Succeed, TypeOK

\* The last step of a write: reported at once, or the way down comes first.
LEMMA FinishedKeeps ==
    ASSUME IInv, NEW sess \in Sessions, pc \in {"fin_poll", "verify"},
           sess \in {s, [s EXCEPT !.flash_completed = TRUE]},
           Finished(sess), ecu' = ecu, faults' \in 0 .. MaxFaults
    PROVE  IInv'
<1>1. /\ TypeOK /\ s \in Sessions /\ ecu \in Dmes
      /\ ~s.slow /\ ~s.handling /\ ~s.safe_legacy_fallback
      /\ outcome = "running"
      /\ pc \notin {"poll", "erase", "tune_poll"} => s.destructive_started
  BY FlashFacts DEF Finishing
<1>2. /\ sess.kind = s.kind /\ sess.slow = s.slow /\ sess.handling = s.handling
      /\ sess.safe_legacy_fallback = s.safe_legacy_fallback
      /\ sess.destructive_started = s.destructive_started
      /\ sess.recovery_replay_attempted = s.recovery_replay_attempted
      /\ sess.state = s.state /\ sess.failure_state = s.failure_state
      /\ sess.a2 = s.a2 /\ sess.identified = s.identified
  BY <1>1, SessionHas
<1>3. CASE ~Partial
  <2>1. [sess EXCEPT !.state = "cycle"] \in Sessions /\ Succeed([sess EXCEPT !.state = "cycle"])
    BY <1>3, SessionSet, Values DEF Finished
  <2> QED
    BY <1>1, <2>1, SucceedTyped, SucceedKeeps
<1>4. CASE Partial
  <2>1. s' = sess /\ pc' = "down" /\ Quiet
    BY <1>4 DEF Finished
  <2>2. TypeOK'
    BY <1>1, <2>1, Labels, QuietTyped
  <2>3. BoundaryInv /\ PhaseInv /\ LatchInv
    BY <1>1 DEF IInv
  <2>4. OutcomeInv'
    BY <1>1, <1>2, <2>1, <2>3 DEF OutcomeInv, Running, Entry, Authorization, Flashing,
         Finishing, Lowering, Handling, Quiet, gui
  <2>5. BoundaryInv'
    BY <1>1, <1>2, <2>1, <2>3 DEF BoundaryInv, Affected, Partial, Entry, Authorization,
         Finishing, Probing, Lowering, Quiet, gui
  <2>6. PhaseInv'
    BY <1>1, <1>2, <2>1, <2>3 DEF PhaseInv, HighState, Partial, Flashing, Phases, Done,
         Finishing, Lowering, Affected, Quiet, gui
  <2>7. CellsInv'
    BY <1>1, <1>2, <2>1, <2>3 DEF CellsInv, Array, Quiet, gui
  <2>8. AuthInv'
    BY <1>1, <1>2, <2>1, <2>3 DEF AuthInv, Authorization, Blocked, Quiet, gui
  <2>9. LatchInv'
    BY <1>1, <1>2, <2>1, <2>3 DEF LatchInv, Unannounced, Entry, Authorization, Flashing,
         Probing, WillRegister, Finishing, Lowering, Running, Handling, Quiet, gui
  <2>10. EraseInv'
    BY <1>1, <1>2, <2>1, <2>3 DEF EraseInv, Entry, Authorization, Flashing, Finishing, Quiet,
         gui
  <2> QED
    BY <2>1, <2>2, <2>4, <2>5, <2>6, <2>7, <2>8, <2>9, <2>10 DEF IInv
<1> QED  BY <1>3, <1>4

LEMMA IdentifyKeeps == ASSUME IInv, Identify PROVE IInv'
<1>1. /\ TypeOK /\ s \in Sessions /\ ecu \in Dmes /\ pc = "identify"
      /\ ~s.handling /\ ~s.destructive_started /\ ~s.safe_legacy_fallback
      /\ Unannounced => registry
      /\ s.state # "tune" /\ s.failure_state # "tune"
      /\ s.slow => pc \in Authorization
      /\ pc # "liveness" => s.link = "low"
      /\ ~s.slow /\ s.identified /\ ecu.rate = "high" => s.fast_write_armed
  BY EntryFacts DEF Identify, Entry, Authorization
<1>2. AuthInv /\ LatchInv
  BY <1>1 DEF IInv
<1>3. TypeOK'
  <2>1. s' \in Sessions
    BY <1>1, Values, SessionSet, RaiseTyped DEF Identify
  <2>2. pc' \in Pcs
    BY <1>1, Labels DEF Identify, Raise
  <2>3. ecu' \in Dmes /\ faults' \in 0 .. MaxFaults
    BY <1>1, RepliesTyped DEF Identify
  <2> QED
    BY <1>1, <2>1, <2>2, <2>3, QuietTyped DEF Identify
<1>4. CASE Lost(ecu)
           /\ \E known \in BOOLEAN : Raise([s EXCEPT !.identified = known /\ Reached], "plain")
  <2>1. Fails
    BY <1>1, <1>4, SessionHas DEF Identify, Quiet, gui, Raise, Fails, Lost
  <2>2. ~s.destructive_started /\ ecu'.auth = 1 /\ s'.seeds > 0 => Blocked'
    BY <1>1, <1>2, <1>4, SessionHas DEF AuthInv, Raise, Blocked, Authorization, Lost
  <2>3. ~s.destructive_started /\ Unannounced' => registry
    BY <1>1, <1>2, <1>4, SessionHas DEF Identify, Quiet, gui, LatchInv, Unannounced, Lost
  <2>4. ~s.slow /\ ~s.destructive_started /\ s'.identified /\ ecu'.rate = "high"
           => s'.fast_write_armed
    BY <1>1, <1>2, <1>4, SessionHas
       DEF LatchInv, Raise, Entry, Authorization, Lost, Reached, Hears
  <2>5. pc \in Entry \cup Flashing \cup Finishing \cup Lowering
    BY <1>1 DEF Entry, Authorization
  <2> QED
    BY <1>1, <1>3, <2>1, <2>2, <2>3, <2>4, <2>5, FailsKeeps
<1>5. CASE Answered(ecu) /\ s' = [s EXCEPT !.identified = TRUE] /\ pc' = "read"
  <2>1. Proceeds
    BY <1>1, <1>5, SessionHas
       DEF Identify, Quiet, gui, Answered, Proceeds, Entry, Authorization, Reached, Hears
  <2>2. pc \in Entry /\ (s.slow => pc' \in Authorization \cup {"slow"})
    BY <1>1, <1>2, <1>5 DEF LatchInv, Entry, Authorization, Reached, Hears
  <2>3. AuthInv'
    BY <1>1, <1>2, <1>5, <2>1, SessionHas
       DEF AuthInv, Answered, Authorization, Proceeds, Blocked, Reached, Hears
  <2>4. LatchInv'
    BY <1>1, <1>2, <1>5, <2>1, SessionHas
       DEF Identify, Quiet, gui, LatchInv, Answered, Unannounced, Proceeds, Entry,
           Authorization, Flashing, Lowering, Probing, Running, Finishing, Handling,
           Reached, Hears
  <2> QED
    BY <1>1, <1>3, <2>1, <2>2, <2>3, <2>4, ProceedsKeeps
<1> QED
  BY <1>1, <1>4, <1>5 DEF Identify

LEMMA PrepareKeeps == ASSUME IInv, Prepare PROVE IInv'
<1>1. /\ TypeOK /\ s \in Sessions /\ ecu \in Dmes /\ pc = "prepare"
      /\ ~s.handling /\ ~s.destructive_started /\ ~s.safe_legacy_fallback
      /\ Unannounced => registry
      /\ s.state # "tune" /\ s.failure_state # "tune"
      /\ s.slow => pc \in Authorization
      /\ pc # "liveness" => s.link = "low"
      /\ ~s.slow /\ s.identified /\ ecu.rate = "high" => s.fast_write_armed
  BY EntryFacts DEF Prepare, Entry, Authorization
<1>2. AuthInv /\ LatchInv
  BY <1>1 DEF IInv
<1>3. TypeOK'
  <2>1. s' \in Sessions
    BY <1>1, Values, SessionSet, RaiseTyped DEF Prepare, Goto
  <2>2. pc' \in Pcs
    BY <1>1, Labels DEF Prepare, Raise, Goto
  <2>3. ecu' \in Dmes /\ faults' \in 0 .. MaxFaults
    BY <1>1, RepliesTyped DEF Prepare
  <2> QED
    BY <1>1, <2>1, <2>2, <2>3, QuietTyped DEF Prepare
<1>4. CASE Lost(ecu) /\ Raise(s, "plain")
  <2>1. Fails
    BY <1>1, <1>4, SessionHas DEF Prepare, Quiet, gui, Raise, Fails, Lost
  <2>2. ~s.destructive_started /\ ecu'.auth = 1 /\ s'.seeds > 0 => Blocked'
    BY <1>1, <1>2, <1>4, SessionHas DEF AuthInv, Raise, Blocked, Authorization, Lost
  <2>3. ~s.destructive_started /\ Unannounced' => registry
    BY <1>1, <1>2, <1>4, SessionHas DEF Prepare, Quiet, gui, LatchInv, Unannounced, Lost
  <2>4. ~s.slow /\ ~s.destructive_started /\ s'.identified /\ ecu'.rate = "high"
           => s'.fast_write_armed
    BY <1>1, <1>2, <1>4, SessionHas DEF LatchInv, Raise, Entry, Authorization, Lost
  <2>5. pc \in Entry \cup Flashing \cup Finishing \cup Lowering
    BY <1>1 DEF Entry, Authorization
  <2> QED
    BY <1>1, <1>3, <2>1, <2>2, <2>3, <2>4, <2>5, FailsKeeps
<1>5. CASE Answered(ecu) /\ pc' = "challenge" /\ UNCHANGED s
  <2>1. Proceeds
    BY <1>1, <1>5, SessionHas DEF Prepare, Quiet, gui, Answered, Proceeds, Entry, Authorization
  <2>2. pc \in Entry /\ (s.slow => pc' \in Authorization \cup {"slow"})
    BY <1>1, <1>2, <1>5 DEF LatchInv, Entry, Authorization
  <2>3. AuthInv'
    BY <1>1, <1>2, <1>5, <2>1, SessionHas
       DEF AuthInv, Answered, Authorization, Proceeds, Blocked
  <2>4. LatchInv'
    BY <1>1, <1>2, <1>5, <2>1, SessionHas
       DEF Prepare, Quiet, gui, LatchInv, Answered, Unannounced, Proceeds, Entry,
           Authorization, Flashing, Lowering, Probing, Running, Finishing, Handling
  <2> QED
    BY <1>1, <1>3, <2>1, <2>2, <2>3, <2>4, ProceedsKeeps
<1> QED
  BY <1>1, <1>4, <1>5 DEF Prepare, Raise, Goto

LEMMA ReadAuthorizationKeeps == ASSUME IInv, ReadAuthorization PROVE IInv'
<1>1. /\ TypeOK /\ s \in Sessions /\ ecu \in Dmes /\ pc = "read"
      /\ ~s.handling /\ ~s.destructive_started /\ ~s.safe_legacy_fallback
      /\ Unannounced => registry
      /\ s.state # "tune" /\ s.failure_state # "tune"
      /\ s.slow => pc \in Authorization
      /\ pc # "liveness" => s.link = "low"
      /\ ~s.slow /\ s.identified /\ ecu.rate = "high" => s.fast_write_armed
  BY EntryFacts DEF ReadAuthorization, Entry, Authorization
<1>2. AuthInv /\ LatchInv
  BY <1>1 DEF IInv
<1>3. TypeOK'
  <2>1. s' \in Sessions
    <3>0. <<ecu.auth, ecu.wrong>> \in (0 .. 2) \X (0 .. 2) /\ (ecu.wrong < 2) \in BOOLEAN
      BY <1>1 DEF Dmes
    <3>1. [s EXCEPT !.authorization_state_requires_cycle = TRUE,
                        !.authorization_may_be_active = ecu.wrong < 2] \in Sessions
      BY <1>1, Values, SessionSet, <3>0
    <3>2. [s EXCEPT !.seen = <<ecu.auth, ecu.wrong>>] \in Sessions
      BY <1>1, Values, SessionSet, <3>0
    <3> QED
      BY <1>1, <3>1, <3>2, Values, RaiseTyped DEF ReadAuthorization
  <2>2. pc' \in Pcs
    BY <1>1, Labels DEF ReadAuthorization, Raise
  <2>3. ecu' \in Dmes /\ faults' \in 0 .. MaxFaults
    BY <1>1, RepliesTyped DEF ReadAuthorization
  <2> QED
    BY <1>1, <2>1, <2>2, <2>3, QuietTyped DEF ReadAuthorization
<1>4. CASE /\ Answered(ecu) /\ (ecu.wrong >= 2 \/ ecu.auth = 1)
           /\ Raise([s EXCEPT !.authorization_state_requires_cycle = TRUE,
                              !.authorization_may_be_active = ecu.wrong < 2], "plain")
  <2>1. Fails
    BY <1>1, <1>4, SessionHas DEF ReadAuthorization, Quiet, gui, Raise, Fails, Lost, Answered
  <2>2. ~s.destructive_started /\ ecu'.auth = 1 /\ s'.seeds > 0 => Blocked'
    BY <1>1, <1>2, <1>4, SessionHas DEF AuthInv, Raise, Blocked, Authorization, Lost, Answered
  <2>3. ~s.destructive_started /\ Unannounced' => registry
    BY <1>1, <1>2, <1>4, SessionHas
       DEF ReadAuthorization, Quiet, gui, LatchInv, Unannounced, Lost, Answered
  <2>4. ~s.slow /\ ~s.destructive_started /\ s'.identified /\ ecu'.rate = "high"
           => s'.fast_write_armed
    BY <1>1, <1>2, <1>4, SessionHas DEF LatchInv, Raise, Entry, Authorization, Lost, Answered
  <2>5. pc \in Entry \cup Flashing \cup Finishing \cup Lowering
    BY <1>1 DEF Entry, Authorization
  <2> QED
    BY <1>1, <1>3, <2>1, <2>2, <2>3, <2>4, <2>5, FailsKeeps
<1>5. CASE Lost(ecu) /\ Raise(s, "plain")
  <2>1. Fails
    BY <1>1, <1>5, SessionHas DEF ReadAuthorization, Quiet, gui, Raise, Fails, Lost, Answered
  <2>2. ~s.destructive_started /\ ecu'.auth = 1 /\ s'.seeds > 0 => Blocked'
    BY <1>1, <1>2, <1>5, SessionHas DEF AuthInv, Raise, Blocked, Authorization, Lost, Answered
  <2>3. ~s.destructive_started /\ Unannounced' => registry
    BY <1>1, <1>2, <1>5, SessionHas
       DEF ReadAuthorization, Quiet, gui, LatchInv, Unannounced, Lost, Answered
  <2>4. ~s.slow /\ ~s.destructive_started /\ s'.identified /\ ecu'.rate = "high"
           => s'.fast_write_armed
    BY <1>1, <1>2, <1>5, SessionHas DEF LatchInv, Raise, Entry, Authorization, Lost, Answered
  <2>5. pc \in Entry \cup Flashing \cup Finishing \cup Lowering
    BY <1>1 DEF Entry, Authorization
  <2> QED
    BY <1>1, <1>3, <2>1, <2>2, <2>3, <2>4, <2>5, FailsKeeps
<1>6. CASE /\ Answered(ecu) /\ ~(ecu.wrong >= 2 \/ ecu.auth = 1)
           /\ s' = [s EXCEPT !.seen = <<ecu.auth, ecu.wrong>>]
           /\ pc' = IF s.reentry THEN "reentry"
                    ELSE IF ecu.auth = 2 THEN "confirm_existing" ELSE "prepare"
  <2>1. Proceeds
    BY <1>1, <1>6, SessionHas, NativeFastAssumption
       DEF ReadAuthorization, Quiet, gui, Answered, Proceeds, Entry, Authorization, Dmes
  <2>2. pc \in Entry /\ (s.slow => pc' \in Authorization \cup {"slow"})
    BY <1>1, <1>2, <1>6 DEF LatchInv, Entry, Authorization, Dmes
  <2>3. AuthInv'
    BY <1>1, <1>2, <1>6, <2>1, SessionHas, NativeFastAssumption
       DEF AuthInv, Answered, Authorization, Proceeds, Blocked, Dmes
  <2>4. LatchInv'
    BY <1>1, <1>2, <1>6, <2>1, SessionHas, NativeFastAssumption
       DEF ReadAuthorization, Quiet, gui, LatchInv, Answered, Unannounced, Proceeds, Entry,
           Authorization, Flashing, Lowering, Probing, Running, Finishing, Handling, Dmes
  <2> QED
    BY <1>1, <1>3, <2>1, <2>2, <2>3, <2>4, ProceedsKeeps
<1> QED
  BY <1>1, <1>4, <1>5, <1>6 DEF ReadAuthorization

LEMMA AwaitReentryKeeps == ASSUME IInv, AwaitReentry PROVE IInv'
<1>1. /\ TypeOK /\ s \in Sessions /\ ecu \in Dmes /\ pc = "reentry"
      /\ ~s.handling /\ ~s.destructive_started /\ ~s.safe_legacy_fallback
      /\ Unannounced => registry
      /\ s.state # "tune" /\ s.failure_state # "tune"
      /\ s.slow => pc \in Authorization
      /\ pc # "liveness" => s.link = "low"
      /\ ~s.slow /\ s.identified /\ ecu.rate = "high" => s.fast_write_armed
  BY EntryFacts DEF AwaitReentry, Entry, Authorization
<1>2. AuthInv /\ LatchInv
  BY <1>1 DEF IInv
<1>3. TypeOK'
  <2>1. s' \in Sessions
    <3>0. (ecu.auth \in {1, 2}) \in BOOLEAN /\ (ecu.auth = 1) \in BOOLEAN
      BY <1>1 DEF Dmes
    <3>1. [s EXCEPT !.authorization_may_be_active = ecu.auth \in {1, 2},
                        !.authorization_state_requires_cycle = ecu.auth = 1] \in Sessions
      BY <1>1, Values, SessionSet, <3>0
    <3>2. [s EXCEPT !.reentry = FALSE] \in Sessions
      BY <1>1, Values, SessionSet, <3>0
    <3> QED
      BY <1>1, <3>1, <3>2, Values, RaiseTyped DEF AwaitReentry
  <2>2. pc' \in Pcs
    BY <1>1, Labels DEF AwaitReentry, Raise
  <2>3. ecu' \in Dmes /\ faults' \in 0 .. MaxFaults
    BY <1>1, RepliesTyped DEF AwaitReentry
  <2> QED
    BY <1>1, <2>1, <2>2, <2>3 DEF AwaitReentry, TypeOK
<1>4. CASE /\ Answered(ecu) /\ <<ecu.auth, ecu.wrong>> # s.seen
           /\ Raise([s EXCEPT !.authorization_may_be_active = ecu.auth \in {1, 2},
                              !.authorization_state_requires_cycle = ecu.auth = 1], "plain")
           /\ UNCHANGED <<registry, cyclePending, lapses, outcome, operations, erases>>
  <2>1. Fails
    BY <1>1, <1>4, SessionHas DEF Raise, Fails, Lost, Answered
  <2>2. ~s.destructive_started /\ ecu'.auth = 1 /\ s'.seeds > 0 => Blocked'
    BY <1>1, <1>2, <1>4, SessionHas DEF AuthInv, Raise, Blocked, Authorization, Lost, Answered
  <2>3. ~s.destructive_started /\ Unannounced' => registry
    BY <1>1, <1>2, <1>4, SessionHas DEF LatchInv, Unannounced, Lost, Answered
  <2>4. ~s.slow /\ ~s.destructive_started /\ s'.identified /\ ecu'.rate = "high"
           => s'.fast_write_armed
    BY <1>1, <1>2, <1>4, SessionHas DEF LatchInv, Raise, Entry, Authorization, Lost, Answered
  <2>5. pc \in Entry \cup Flashing \cup Finishing \cup Lowering
    BY <1>1 DEF Entry, Authorization
  <2> QED
    BY <1>1, <1>3, <2>1, <2>2, <2>3, <2>4, <2>5, FailsKeeps
<1>5. CASE /\ Answered(ecu) /\ <<ecu.auth, ecu.wrong>> = s.seen
           /\ Raise(s, "not_ready")
            /\ UNCHANGED <<registry, cyclePending, lapses, outcome, operations, erases>>
  <2>1. Fails
    BY <1>1, <1>5, SessionHas DEF Raise, Fails, Lost, Answered
  <2>2. ~s.destructive_started /\ ecu'.auth = 1 /\ s'.seeds > 0 => Blocked'
    BY <1>1, <1>2, <1>5, SessionHas DEF AuthInv, Raise, Blocked, Authorization, Lost, Answered
  <2>3. ~s.destructive_started /\ Unannounced' => registry
    BY <1>1, <1>2, <1>5, SessionHas DEF LatchInv, Unannounced, Lost, Answered
  <2>4. ~s.slow /\ ~s.destructive_started /\ s'.identified /\ ecu'.rate = "high"
           => s'.fast_write_armed
    BY <1>1, <1>2, <1>5, SessionHas DEF LatchInv, Raise, Entry, Authorization, Lost, Answered
  <2>5. pc \in Entry \cup Flashing \cup Finishing \cup Lowering
    BY <1>1 DEF Entry, Authorization
  <2> QED
    BY <1>1, <1>3, <2>1, <2>2, <2>3, <2>4, <2>5, FailsKeeps
<1>6. CASE /\ Lost(ecu) /\ Raise(s, "plain")
           /\ UNCHANGED <<registry, cyclePending, lapses, outcome, operations, erases>>
  <2>1. Fails
    BY <1>1, <1>6, SessionHas DEF Raise, Fails, Lost, Answered
  <2>2. ~s.destructive_started /\ ecu'.auth = 1 /\ s'.seeds > 0 => Blocked'
    BY <1>1, <1>2, <1>6, SessionHas DEF AuthInv, Raise, Blocked, Authorization, Lost, Answered
  <2>3. ~s.destructive_started /\ Unannounced' => registry
    BY <1>1, <1>2, <1>6, SessionHas DEF LatchInv, Unannounced, Lost, Answered
  <2>4. ~s.slow /\ ~s.destructive_started /\ s'.identified /\ ecu'.rate = "high"
           => s'.fast_write_armed
    BY <1>1, <1>2, <1>6, SessionHas DEF LatchInv, Raise, Entry, Authorization, Lost, Answered
  <2>5. pc \in Entry \cup Flashing \cup Finishing \cup Lowering
    BY <1>1 DEF Entry, Authorization
  <2> QED
    BY <1>1, <1>3, <2>1, <2>2, <2>3, <2>4, <2>5, FailsKeeps
<1>7. CASE /\ Answered(ecu) /\ <<ecu.auth, ecu.wrong>> = s.seen /\ ecu.latch = "ready"
           /\ s' = [s EXCEPT !.reentry = FALSE]
           /\ pc' = IF ecu.auth = 2 THEN "confirm_existing" ELSE "prepare"
           /\ registry' = FALSE /\ UNCHANGED <<cyclePending, lapses, outcome, operations, erases>>
  <2>1. Proceeds
    BY <1>1, <1>7, SessionHas, NativeFastAssumption
       DEF Answered, Proceeds, Entry, Authorization, Dmes
  <2>2. pc \in Entry /\ (s.slow => pc' \in Authorization \cup {"slow"})
    BY <1>1, <1>2, <1>7 DEF LatchInv, Entry, Authorization, Dmes
  <2>3. AuthInv'
    BY <1>1, <1>2, <1>7, <2>1, SessionHas, NativeFastAssumption
       DEF AuthInv, Answered, Authorization, Proceeds, Blocked, Dmes
  <2>4. LatchInv'
    BY <1>1, <1>2, <1>7, <2>1, SessionHas, NativeFastAssumption
       DEF LatchInv, Answered, Unannounced, Proceeds, Entry, Authorization, Flashing,
           Lowering, Probing, Running, Finishing, Handling, Dmes
  <2> QED
    BY <1>1, <1>3, <2>1, <2>2, <2>3, <2>4, ProceedsKeeps
<1> QED
  BY <1>1, <1>4, <1>5, <1>6, <1>7 DEF AwaitReentry

LEMMA ConfirmExistingKeeps == ASSUME IInv, ConfirmExisting PROVE IInv'
<1>1. /\ TypeOK /\ s \in Sessions /\ ecu \in Dmes /\ pc = "confirm_existing"
      /\ ~s.handling /\ ~s.destructive_started /\ ~s.safe_legacy_fallback
      /\ Unannounced => registry
      /\ s.state # "tune" /\ s.failure_state # "tune"
      /\ s.slow => pc \in Authorization
      /\ pc # "liveness" => s.link = "low"
      /\ ~s.slow /\ s.identified /\ ecu.rate = "high" => s.fast_write_armed
  BY EntryFacts DEF ConfirmExisting, Entry, Authorization
<1>2. AuthInv /\ LatchInv
  BY <1>1 DEF IInv
<1>3. TypeOK'
  <2>1. s' \in Sessions
    <3>1. ASSUME NEW sess \in Sessions, Authorize(sess) PROVE s' \in Sessions
      BY <3>1, Values, SessionSet DEF Authorize
    <3>2. [s EXCEPT !.authorization_may_be_active = TRUE,
                      !.authorization_state_requires_cycle = TRUE] \in Sessions
      BY <1>1, SessionSet
    <3> QED
      BY <1>1, <3>1, <3>2, Values, RaiseTyped DEF ConfirmExisting
  <2>2. pc' \in Pcs
    BY <1>1, Labels DEF ConfirmExisting, Authorize, Raise
  <2>3. ecu' \in Dmes /\ faults' \in 0 .. MaxFaults
    BY <1>1, RepliesTyped, DmeTyped DEF ConfirmExisting, Unanswered
  <2> QED
    BY <1>1, <2>1, <2>2, <2>3, QuietTyped DEF ConfirmExisting
<1>4. CASE /\ Unanswered(Challenged(ecu), ecu.auth = 2)
           /\ Raise([s EXCEPT !.authorization_may_be_active = TRUE,
                              !.authorization_state_requires_cycle = TRUE], "plain")
  <2>1. Fails
    BY <1>1, <1>4, SessionHas, ChallengedFields
       DEF ConfirmExisting, Quiet, gui, Raise, Fails, Unanswered, Lost, Answered
  <2>2. ~s.destructive_started /\ ecu'.auth = 1 /\ s'.seeds > 0 => Blocked'
    BY <1>1, <1>2, <1>4, SessionHas, ChallengedFields
       DEF AuthInv, Raise, Blocked, Authorization, Unanswered, Lost, Answered
  <2>3. ~s.destructive_started /\ Unannounced' => registry
    BY <1>1, <1>2, <1>4, SessionHas, ChallengedFields
       DEF ConfirmExisting, Quiet, gui, LatchInv, Unannounced, Unanswered, Lost, Answered
  <2>4. ~s.slow /\ ~s.destructive_started /\ s'.identified /\ ecu'.rate = "high"
           => s'.fast_write_armed
    BY <1>1, <1>2, <1>4, SessionHas, ChallengedFields
       DEF LatchInv, Raise, Entry, Authorization, Unanswered, Lost, Answered
  <2>5. pc \in Entry \cup Flashing \cup Finishing \cup Lowering
    BY <1>1 DEF Entry, Authorization
  <2> QED
    BY <1>1, <1>3, <2>1, <2>2, <2>3, <2>4, <2>5, FailsKeeps
<1>5. CASE /\ ecu.auth = 2 /\ Answered(ecu)
           /\ Authorize([s EXCEPT !.authorization_may_be_active = TRUE,
                              !.authorization_state_requires_cycle = TRUE])
  <2>1. Proceeds
    BY <1>1, <1>5, SessionHas
       DEF ConfirmExisting, Quiet, gui, Answered, Proceeds, Entry, Authorization, Authorize
  <2>2. pc \in Entry /\ (s.slow => pc' \in Authorization \cup {"slow"})
    BY <1>1, <1>2, <1>5 DEF LatchInv, Entry, Authorization, Authorize
  <2>3. AuthInv'
    BY <1>1, <1>2, <1>5, <2>1, SessionHas
       DEF AuthInv, Answered, Authorization, Proceeds, Blocked, Authorize
  <2>4. LatchInv'
    BY <1>1, <1>2, <1>5, <2>1, SessionHas
       DEF ConfirmExisting, Quiet, gui, LatchInv, Answered, Unannounced, Proceeds, Entry,
           Authorization, Flashing, Lowering, Probing, Running, Finishing, Handling,
           Authorize
  <2> QED
    BY <1>1, <1>3, <2>1, <2>2, <2>3, <2>4, ProceedsKeeps
<1> QED
  BY <1>1, <1>4, <1>5 DEF ConfirmExisting, Authorize, Raise

LEMMA SendKeyKeeps == ASSUME IInv, SendKey PROVE IInv'
<1>1. /\ TypeOK /\ s \in Sessions /\ ecu \in Dmes /\ pc = "key"
      /\ ~s.handling /\ ~s.destructive_started /\ ~s.safe_legacy_fallback
      /\ Unannounced => registry
      /\ s.state # "tune" /\ s.failure_state # "tune"
      /\ s.slow => pc \in Authorization
      /\ pc # "liveness" => s.link = "low"
      /\ ~s.slow /\ s.identified /\ ecu.rate = "high" => s.fast_write_armed
  BY EntryFacts DEF SendKey, Entry, Authorization
<1>2. AuthInv /\ LatchInv
  BY <1>1 DEF IInv
<1>3. TypeOK'
  <2>1. s' \in Sessions
    <3>1. ASSUME NEW sess \in Sessions, Authorize(sess) PROVE s' \in Sessions
      BY <3>1, Values, SessionSet DEF Authorize
    <3>2. [s EXCEPT !.authorization_may_be_active = TRUE] \in Sessions
      BY <1>1, SessionSet
    <3> QED
      BY <1>1, <3>1, <3>2, Values, RaiseTyped DEF SendKey
  <2>2. pc' \in Pcs
    BY <1>1, Labels DEF SendKey, Authorize, Raise
  <2>3. ecu' \in Dmes /\ faults' \in 0 .. MaxFaults
    BY <1>1, RepliesTyped, DmeTyped DEF SendKey, Unanswered
  <2> QED
    BY <1>1, <2>1, <2>2, <2>3, QuietTyped DEF SendKey
<1>4. CASE /\ Unanswered(Keyed(ecu), ecu.auth = 1)
           /\ Raise([s EXCEPT !.authorization_may_be_active = TRUE], "plain")
  <2>1. Fails
    BY <1>1, <1>4, SessionHas, KeyedFields
       DEF SendKey, Quiet, gui, Raise, Fails, Unanswered, Lost, Answered
  <2>2. ~s.destructive_started /\ ecu'.auth = 1 /\ s'.seeds > 0 => Blocked'
    BY <1>1, <1>2, <1>4, SessionHas, KeyedFields
       DEF AuthInv, Raise, Blocked, Authorization, Unanswered, Lost, Answered
  <2>3. ~s.destructive_started /\ Unannounced' => registry
    BY <1>1, <1>2, <1>4, SessionHas, KeyedFields
       DEF SendKey, Quiet, gui, LatchInv, Unannounced, Unanswered, Lost, Answered
  <2>4. ~s.slow /\ ~s.destructive_started /\ s'.identified /\ ecu'.rate = "high"
           => s'.fast_write_armed
    BY <1>1, <1>2, <1>4, SessionHas, KeyedFields
       DEF LatchInv, Raise, Entry, Authorization, Unanswered, Lost, Answered
  <2>5. pc \in Entry \cup Flashing \cup Finishing \cup Lowering
    BY <1>1 DEF Entry, Authorization
  <2> QED
    BY <1>1, <1>3, <2>1, <2>2, <2>3, <2>4, <2>5, FailsKeeps
<1>5. CASE /\ ecu.auth = 1 /\ Answered(Keyed(ecu))
           /\ Authorize([s EXCEPT !.authorization_may_be_active = TRUE])
  <2>1. Proceeds
    BY <1>1, <1>5, SessionHas, KeyedFields
       DEF SendKey, Quiet, gui, Answered, Proceeds, Entry, Authorization, Authorize
  <2>2. pc \in Entry /\ (s.slow => pc' \in Authorization \cup {"slow"})
    BY <1>1, <1>2, <1>5 DEF LatchInv, Entry, Authorization, Authorize
  <2>3. AuthInv'
    BY <1>1, <1>2, <1>5, <2>1, SessionHas, KeyedFields
       DEF AuthInv, Answered, Authorization, Proceeds, Blocked, Authorize
  <2>4. LatchInv'
    BY <1>1, <1>2, <1>5, <2>1, SessionHas, KeyedFields
       DEF SendKey, Quiet, gui, LatchInv, Answered, Unannounced, Proceeds, Entry,
           Authorization, Flashing, Lowering, Probing, Running, Finishing, Handling,
           Authorize
  <2> QED
    BY <1>1, <1>3, <2>1, <2>2, <2>3, <2>4, ProceedsKeeps
<1> QED
  BY <1>1, <1>4, <1>5 DEF SendKey, Authorize, Raise

LEMMA ArmKeeps == ASSUME IInv, Arm PROVE IInv'
<1>1. /\ TypeOK /\ s \in Sessions /\ ecu \in Dmes /\ pc = "arm"
      /\ ~s.handling /\ ~s.destructive_started /\ ~s.safe_legacy_fallback
      /\ Unannounced => registry
      /\ s.state # "tune" /\ s.failure_state # "tune"
      /\ s.slow => pc \in Authorization
      /\ pc # "liveness" => s.link = "low"
      /\ ~s.slow /\ s.identified /\ ecu.rate = "high" => s.fast_write_armed
  BY EntryFacts DEF Arm, Entry, Authorization
<1>2. AuthInv /\ LatchInv
  BY <1>1 DEF IInv
<1>3. TypeOK'
  <2>1. s' \in Sessions
    <3>1. [s EXCEPT !.fast_write_armed = TRUE, !.state = "armed"] \in Sessions
      BY <1>1, Values, SessionSet
    <3> QED
      BY <1>1, <3>1, Values, RaiseTyped DEF Arm
  <2>2. pc' \in Pcs
    BY <1>1, Labels DEF Arm, Raise
  <2>3. ecu' \in Dmes /\ faults' \in 0 .. MaxFaults
    BY <1>1, RepliesTyped, DmeTyped DEF Arm, Unanswered
  <2> QED
    BY <1>1, <2>1, <2>2, <2>3, QuietTyped DEF Arm
<1>4. CASE Unanswered(Armed(ecu), ecu.auth = 2) /\ Raise(s, "plain")
  <2>1. Fails
    BY <1>1, <1>4, SessionHas, ArmedFields
       DEF Arm, Quiet, gui, Raise, Fails, Unanswered, Lost, Answered
  <2>2. ~s.destructive_started /\ ecu'.auth = 1 /\ s'.seeds > 0 => Blocked'
    BY <1>1, <1>2, <1>4, SessionHas, ArmedFields
       DEF AuthInv, Raise, Blocked, Authorization, Unanswered, Lost, Answered
  <2>3. ~s.destructive_started /\ Unannounced' => registry
    BY <1>1, <1>2, <1>4, SessionHas, ArmedFields
       DEF Arm, Quiet, gui, LatchInv, Unannounced, Unanswered, Lost, Answered
  <2>4. ~s.slow /\ ~s.destructive_started /\ s'.identified /\ ecu'.rate = "high"
           => s'.fast_write_armed
    BY <1>1, <1>2, <1>4, SessionHas, ArmedFields
       DEF LatchInv, Raise, Entry, Authorization, Unanswered, Lost, Answered
  <2>5. pc \in Entry \cup Flashing \cup Finishing \cup Lowering
    BY <1>1 DEF Entry, Authorization
  <2> QED
    BY <1>1, <1>3, <2>1, <2>2, <2>3, <2>4, <2>5, FailsKeeps
<1>5. CASE /\ ecu.auth = 2 /\ Answered(Armed(ecu))
           /\ s' = [s EXCEPT !.fast_write_armed = TRUE, !.state = "armed"]
           /\ pc' = "up"
  <2>1. Proceeds
    BY <1>1, <1>5, SessionHas, ArmedFields
       DEF Arm, Quiet, gui, Answered, Proceeds, Entry, Authorization
  <2>2. pc \in Entry /\ (s.slow => pc' \in Authorization \cup {"slow"})
    BY <1>1, <1>2, <1>5 DEF LatchInv, Entry, Authorization
  <2>3. AuthInv'
    BY <1>1, <1>2, <1>5, <2>1, SessionHas, ArmedFields
       DEF AuthInv, Answered, Authorization, Proceeds, Blocked
  <2>4. LatchInv'
    BY <1>1, <1>2, <1>5, <2>1, SessionHas, ArmedFields
       DEF Arm, Quiet, gui, LatchInv, Answered, Unannounced, Proceeds, Entry,
           Authorization, Flashing, Lowering, Probing, Running, Finishing, Handling
  <2> QED
    BY <1>1, <1>3, <2>1, <2>2, <2>3, <2>4, ProceedsKeeps
<1> QED
  BY <1>1, <1>4, <1>5 DEF Arm

LEMMA RereadAfterA1Keeps == ASSUME IInv, RereadAfterA1 PROVE IInv'
<1>1. /\ TypeOK /\ s \in Sessions /\ ecu \in Dmes /\ pc = "reread"
      /\ ~s.handling /\ ~s.destructive_started /\ ~s.safe_legacy_fallback
      /\ Unannounced => registry
      /\ s.state # "tune" /\ s.failure_state # "tune"
      /\ s.slow => pc \in Authorization
      /\ pc # "liveness" => s.link = "low"
      /\ ~s.slow /\ s.identified /\ ecu.rate = "high" => s.fast_write_armed
  BY EntryFacts DEF RereadAfterA1, Entry, Authorization
<1>2. AuthInv /\ LatchInv
  BY <1>1 DEF IInv
<1>3. TypeOK'
  <2>1. s' \in Sessions
    <3>0. (ecu.auth # 0) \in BOOLEAN
      BY <1>1 DEF Dmes
    <3>1. [s EXCEPT !.authorization_may_be_active = ecu.auth # 0] \in Sessions
      BY <1>1, Values, SessionSet, <3>0
    <3>2. [s EXCEPT !.authorization_may_be_active = FALSE,
                        !.authorization_state_requires_cycle = FALSE] \in Sessions
      BY <1>1, Values, SessionSet, <3>0
    <3> QED
      BY <1>1, <3>1, <3>2, Values, RaiseTyped DEF RereadAfterA1
  <2>2. pc' \in Pcs
    BY <1>1, Labels DEF RereadAfterA1, Raise
  <2>3. ecu' \in Dmes /\ faults' \in 0 .. MaxFaults
    BY <1>1, RepliesTyped DEF RereadAfterA1
  <2> QED
    BY <1>1, <2>1, <2>2, <2>3, QuietTyped DEF RereadAfterA1
<1>4. CASE /\ Answered(ecu) /\ ~UnchangedByA1
           /\ Raise([s EXCEPT !.authorization_may_be_active = ecu.auth # 0], "plain")
  <2>1. Fails
    BY <1>1, <1>4, SessionHas
       DEF RereadAfterA1, Quiet, gui, Raise, Fails, Lost, Answered, UnchangedByA1
  <2>2. ~s.destructive_started /\ ecu'.auth = 1 /\ s'.seeds > 0 => Blocked'
    BY <1>1, <1>2, <1>4, SessionHas
       DEF AuthInv, Raise, Blocked, Authorization, Lost, Answered, UnchangedByA1
  <2>3. ~s.destructive_started /\ Unannounced' => registry
    BY <1>1, <1>2, <1>4, SessionHas
       DEF RereadAfterA1, Quiet, gui, LatchInv, Unannounced, Lost, Answered, UnchangedByA1
  <2>4. ~s.slow /\ ~s.destructive_started /\ s'.identified /\ ecu'.rate = "high"
           => s'.fast_write_armed
    BY <1>1, <1>2, <1>4, SessionHas
       DEF LatchInv, Raise, Entry, Authorization, Lost, Answered, UnchangedByA1
  <2>5. pc \in Entry \cup Flashing \cup Finishing \cup Lowering
    BY <1>1 DEF Entry, Authorization
  <2> QED
    BY <1>1, <1>3, <2>1, <2>2, <2>3, <2>4, <2>5, FailsKeeps
<1>5. CASE /\ Answered(ecu) /\ UnchangedByA1
           /\ Raise([s EXCEPT !.authorization_may_be_active = FALSE,
                              !.authorization_state_requires_cycle = FALSE], "no_seed")
  <2>1. Fails
    BY <1>1, <1>5, SessionHas
       DEF RereadAfterA1, Quiet, gui, Raise, Fails, Lost, Answered, UnchangedByA1
  <2>2. ~s.destructive_started /\ ecu'.auth = 1 /\ s'.seeds > 0 => Blocked'
    BY <1>1, <1>2, <1>5, SessionHas
       DEF AuthInv, Raise, Blocked, Authorization, Lost, Answered, UnchangedByA1
  <2>3. ~s.destructive_started /\ Unannounced' => registry
    BY <1>1, <1>2, <1>5, SessionHas
       DEF RereadAfterA1, Quiet, gui, LatchInv, Unannounced, Lost, Answered, UnchangedByA1
  <2>4. ~s.slow /\ ~s.destructive_started /\ s'.identified /\ ecu'.rate = "high"
           => s'.fast_write_armed
    BY <1>1, <1>2, <1>5, SessionHas
       DEF LatchInv, Raise, Entry, Authorization, Lost, Answered, UnchangedByA1
  <2>5. pc \in Entry \cup Flashing \cup Finishing \cup Lowering
    BY <1>1 DEF Entry, Authorization
  <2> QED
    BY <1>1, <1>3, <2>1, <2>2, <2>3, <2>4, <2>5, FailsKeeps
<1>6. CASE Lost(ecu) /\ Raise(s, "plain")
  <2>1. Fails
    BY <1>1, <1>6, SessionHas
       DEF RereadAfterA1, Quiet, gui, Raise, Fails, Lost, Answered, UnchangedByA1
  <2>2. ~s.destructive_started /\ ecu'.auth = 1 /\ s'.seeds > 0 => Blocked'
    BY <1>1, <1>2, <1>6, SessionHas
       DEF AuthInv, Raise, Blocked, Authorization, Lost, Answered, UnchangedByA1
  <2>3. ~s.destructive_started /\ Unannounced' => registry
    BY <1>1, <1>2, <1>6, SessionHas
       DEF RereadAfterA1, Quiet, gui, LatchInv, Unannounced, Lost, Answered, UnchangedByA1
  <2>4. ~s.slow /\ ~s.destructive_started /\ s'.identified /\ ecu'.rate = "high"
           => s'.fast_write_armed
    BY <1>1, <1>2, <1>6, SessionHas
       DEF LatchInv, Raise, Entry, Authorization, Lost, Answered, UnchangedByA1
  <2>5. pc \in Entry \cup Flashing \cup Finishing \cup Lowering
    BY <1>1 DEF Entry, Authorization
  <2> QED
    BY <1>1, <1>3, <2>1, <2>2, <2>3, <2>4, <2>5, FailsKeeps
<1>7. CASE /\ Answered(ecu) /\ UnchangedByA1 /\ SeedAllowed
           /\ s' = [s EXCEPT !.authorization_may_be_active = FALSE,
                             !.authorization_state_requires_cycle = FALSE]
           /\ pc' = "prepare"
  <2>1. Proceeds
    BY <1>1, <1>7, SessionHas
       DEF RereadAfterA1, Quiet, gui, Answered, Proceeds, Entry, Authorization,
           UnchangedByA1, SeedAllowed
  <2>2. pc \in Entry /\ (s.slow => pc' \in Authorization \cup {"slow"})
    BY <1>1, <1>2, <1>7 DEF LatchInv, Entry, Authorization, UnchangedByA1, SeedAllowed
  <2>3. AuthInv'
    BY <1>1, <1>2, <1>7, <2>1, SessionHas
       DEF AuthInv, Answered, Authorization, Proceeds, Blocked, UnchangedByA1, SeedAllowed
  <2>4. LatchInv'
    BY <1>1, <1>2, <1>7, <2>1, SessionHas
       DEF RereadAfterA1, Quiet, gui, LatchInv, Answered, Unannounced, Proceeds, Entry,
           Authorization, Flashing, Lowering, Probing, Running, Finishing, Handling,
           UnchangedByA1, SeedAllowed
  <2> QED
    BY <1>1, <1>3, <2>1, <2>2, <2>3, <2>4, ProceedsKeeps
<1> QED
  BY <1>1, <1>4, <1>5, <1>6, <1>7 DEF RereadAfterA1

LEMMA ChallengeKeeps == ASSUME IInv, Challenge PROVE IInv'
<1>1. /\ TypeOK /\ s \in Sessions /\ ecu \in Dmes /\ pc = "challenge"
      /\ ~s.handling /\ ~s.destructive_started /\ ~s.safe_legacy_fallback
      /\ Unannounced => registry
      /\ s.state # "tune" /\ s.failure_state # "tune"
      /\ s.slow => pc \in Authorization
      /\ pc # "liveness" => s.link = "low"
      /\ ~s.slow /\ s.identified /\ ecu.rate = "high" => s.fast_write_armed
  BY EntryFacts DEF Challenge, Entry, Authorization
<1>2. AuthInv /\ LatchInv
  BY <1>1 DEF IInv
<1>3. TypeOK'
  <2>1. s' \in Sessions
    <3>1. s.seeds + 1 \in 0 .. MaxSeeds
      BY <1>1, <1>2, NativeFastAssumption DEF AuthInv, Sessions
    <3>2. [s EXCEPT !.seeds = @ + 1] \in Sessions
      BY <1>1, <3>1, SessionSet
    <3>3. [[s EXCEPT !.seeds = @ + 1] EXCEPT !.authorization_may_be_active = TRUE,
                                               !.authorization_state_requires_cycle = TRUE] \in Sessions
      BY <3>2, SessionSet
    <3> QED
      BY <1>1, <3>2, <3>3, Values, RaiseTyped DEF Challenge
  <2>2. pc' \in Pcs
    BY <1>1, Labels DEF Challenge, Raise
  <2>3. ecu' \in Dmes /\ faults' \in 0 .. MaxFaults
    BY <1>1, RepliesTyped, DmeTyped, NativeFastAssumption
       DEF Challenge, Unanswered, Fault, TypeOK
  <2> QED
    BY <1>1, <2>1, <2>2, <2>3, QuietTyped DEF Challenge
<1>4. CASE /\ Unanswered(Challenged(ecu), ecu.auth = 0)
           /\ Raise([[s EXCEPT !.seeds = @ + 1] EXCEPT !.authorization_may_be_active = TRUE,
                              !.authorization_state_requires_cycle = TRUE], "plain")
  <2>1. Fails
    BY <1>1, <1>4, SessionHas, ChallengedFields
       DEF Challenge, Quiet, gui, Raise, Fails, Unanswered, Lost, Answered
  <2>2. ~s.destructive_started /\ ecu'.auth = 1 /\ s'.seeds > 0 => Blocked'
    BY <1>1, <1>2, <1>4, SessionHas, ChallengedFields
       DEF AuthInv, Raise, Blocked, Authorization, Unanswered, Lost, Answered
  <2>3. ~s.destructive_started /\ Unannounced' => registry
    BY <1>1, <1>2, <1>4, SessionHas, ChallengedFields
       DEF Challenge, Quiet, gui, LatchInv, Unannounced, Unanswered, Lost, Answered
  <2>4. ~s.slow /\ ~s.destructive_started /\ s'.identified /\ ecu'.rate = "high"
           => s'.fast_write_armed
    BY <1>1, <1>2, <1>4, SessionHas, ChallengedFields
       DEF LatchInv, Raise, Entry, Authorization, Unanswered, Lost, Answered
  <2>5. pc \in Entry \cup Flashing \cup Finishing \cup Lowering
    BY <1>1 DEF Entry, Authorization
  <2> QED
    BY <1>1, <1>3, <2>1, <2>2, <2>3, <2>4, <2>5, FailsKeeps
<1>5. CASE /\ ecu.auth = 0 /\ Answered(Challenged(ecu))
           /\ s' = [s EXCEPT !.seeds = @ + 1]
           /\ pc' = "key"
  <2>1. Proceeds
    BY <1>1, <1>5, SessionHas, ChallengedFields
       DEF Challenge, Quiet, gui, Answered, Proceeds, Entry, Authorization
  <2>2. pc \in Entry /\ (s.slow => pc' \in Authorization \cup {"slow"})
    BY <1>1, <1>2, <1>5 DEF LatchInv, Entry, Authorization
  <2>3. AuthInv'
    BY <1>1, <1>2, <1>5, <2>1, SessionHas, ChallengedFields
       DEF AuthInv, Answered, Authorization, Proceeds, Blocked
  <2>4. LatchInv'
    BY <1>1, <1>2, <1>5, <2>1, SessionHas, ChallengedFields
       DEF Challenge, Quiet, gui, LatchInv, Answered, Unannounced, Proceeds, Entry,
           Authorization, Flashing, Lowering, Probing, Running, Finishing, Handling
  <2> QED
    BY <1>1, <1>3, <2>1, <2>2, <2>3, <2>4, ProceedsKeeps
<1>6. CASE /\ Fault /\ ecu' \in {ecu, Challenged(ecu)}
           /\ s' = [[s EXCEPT !.seeds = @ + 1] EXCEPT !.authorization_may_be_active = TRUE,
                              !.authorization_state_requires_cycle = TRUE]
           /\ pc' = "reread"
  <2>1. Proceeds
    BY <1>1, <1>6, SessionHas, ChallengedFields
       DEF Challenge, Quiet, gui, Answered, Proceeds, Entry, Authorization
  <2>2. pc \in Entry /\ (s.slow => pc' \in Authorization \cup {"slow"})
    BY <1>1, <1>2, <1>6 DEF LatchInv, Entry, Authorization
  <2>3. AuthInv'
    BY <1>1, <1>2, <1>6, <2>1, SessionHas, ChallengedFields
       DEF AuthInv, Answered, Authorization, Proceeds, Blocked
  <2>4. LatchInv'
    BY <1>1, <1>2, <1>6, <2>1, SessionHas, ChallengedFields
       DEF Challenge, Quiet, gui, LatchInv, Answered, Unannounced, Proceeds, Entry,
           Authorization, Flashing, Lowering, Probing, Running, Finishing, Handling
  <2> QED
    BY <1>1, <1>3, <2>1, <2>2, <2>3, <2>4, ProceedsKeeps
<1> QED
  BY <1>1, <1>4, <1>5, <1>6 DEF Challenge

LEMMA SwitchUpKeeps == ASSUME IInv, SwitchUp PROVE IInv'
<1>1. /\ TypeOK /\ s \in Sessions /\ ecu \in Dmes /\ pc = "up"
      /\ ~s.handling /\ ~s.destructive_started /\ ~s.safe_legacy_fallback
      /\ Unannounced => registry
      /\ s.state # "tune" /\ s.failure_state # "tune"
      /\ s.slow => pc \in Authorization
      /\ pc # "liveness" => s.link = "low"
      /\ ~s.slow /\ s.identified /\ ecu.rate = "high" => s.fast_write_armed
  BY EntryFacts DEF SwitchUp, Entry, Authorization
<1>2. AuthInv /\ LatchInv
  BY <1>1 DEF IInv
<1>3. TypeOK'
  <2>1. s' \in Sessions
    <3>0. HighState \in HostStates
      BY DEF HighState, HostStates
    <3>1. [s EXCEPT !.link = "high", !.state = HighState] \in Sessions
      BY <1>1, Values, SessionSet, <3>0
    <3>2. [s EXCEPT !.link = "unknown", !.state = HighState] \in Sessions
      BY <1>1, Values, SessionSet, <3>0
    <3> QED
      BY <1>1, <3>1, <3>2, Values, RaiseTyped DEF SwitchUp
  <2>2. pc' \in Pcs
    BY <1>1, Labels DEF SwitchUp, Raise
  <2>3. ecu' \in Dmes /\ faults' \in 0 .. MaxFaults
    BY <1>1, RepliesTyped, DmeTyped, NativeFastAssumption
       DEF SwitchUp, Unanswered, Fault, TypeOK
  <2> QED
    BY <1>1, <2>1, <2>2, <2>3, QuietTyped DEF SwitchUp
<1>4. CASE Unanswered(SelectedHigh(ecu), ecu.armed) /\ Raise(s, "plain")
  <2>1. Fails
    BY <1>1, <1>4, SessionHas, SelectedFields
       DEF SwitchUp, Quiet, gui, Raise, Fails, Unanswered, Lost, Answered
  <2>2. ~s.destructive_started /\ ecu'.auth = 1 /\ s'.seeds > 0 => Blocked'
    BY <1>1, <1>2, <1>4, SessionHas, SelectedFields
       DEF AuthInv, Raise, Blocked, Authorization, Unanswered, Lost, Answered
  <2>3. ~s.destructive_started /\ Unannounced' => registry
    BY <1>1, <1>2, <1>4, SessionHas, SelectedFields
       DEF SwitchUp, Quiet, gui, LatchInv, Unannounced, Unanswered, Lost, Answered
  <2>4. ~s.slow /\ ~s.destructive_started /\ s'.identified /\ ecu'.rate = "high"
           => s'.fast_write_armed
    BY <1>1, <1>2, <1>4, SessionHas, SelectedFields
       DEF LatchInv, Raise, Entry, Authorization, Unanswered, Lost, Answered
  <2>5. pc \in Entry \cup Flashing \cup Finishing \cup Lowering
    BY <1>1 DEF Entry, Authorization
  <2> QED
    BY <1>1, <1>3, <2>1, <2>2, <2>3, <2>4, <2>5, FailsKeeps
<1>5. CASE /\ ecu.armed /\ ecu' = SelectedHigh(ecu)
           /\ Raise([s EXCEPT !.link = "unknown", !.state = HighState], "plain")
  <2>1. Fails
    BY <1>1, <1>5, SessionHas, SelectedFields
       DEF SwitchUp, Quiet, gui, Raise, Fails, HighState, Partial
  <2>2. ~s.destructive_started /\ ecu'.auth = 1 /\ s'.seeds > 0 => Blocked'
    BY <1>1, <1>2, <1>5, SessionHas, SelectedFields
       DEF AuthInv, Raise, Blocked, Authorization, HighState, Partial
  <2>3. ~s.destructive_started /\ Unannounced' => registry
    BY <1>1, <1>2, <1>5, SessionHas, SelectedFields
       DEF SwitchUp, Quiet, gui, LatchInv, Unannounced, HighState, Partial
  <2>4. ~s.slow /\ ~s.destructive_started /\ s'.identified /\ ecu'.rate = "high"
           => s'.fast_write_armed
    BY <1>1, <1>2, <1>5, SessionHas, SelectedFields
       DEF LatchInv, Raise, Entry, Authorization, HighState, Partial
  <2>5. pc \in Entry \cup Flashing \cup Finishing \cup Lowering
    BY <1>1 DEF Entry, Authorization
  <2> QED
    BY <1>1, <1>3, <2>1, <2>2, <2>3, <2>4, <2>5, FailsKeeps
<1>6. CASE /\ ecu.armed /\ ecu' = SelectedHigh(ecu)
             /\ s' = [s EXCEPT !.link = "high", !.state = HighState]
             /\ pc' = "liveness" /\ Quiet
  <2>1. OutcomeInv'
    BY <1>1, <1>6, SessionHas, SelectedFields
       DEF IInv, OutcomeInv, Running, Entry, Authorization, Flashing, Finishing, Lowering,
           Handling, Quiet, gui
  <2>2. BoundaryInv'
    BY <1>1, <1>6, SessionHas, SelectedFields DEF IInv, BoundaryInv, Affected, Partial, Entry,
         Authorization, Finishing, Probing, Lowering, Quiet, gui
  <2>3. PhaseInv'
    BY <1>1, <1>6, SessionHas, SelectedFields DEF IInv, PhaseInv, HighState, Partial, Flashing,
         Phases, Done, Finishing, Lowering, Affected, Quiet, gui
  <2>4. CellsInv'
    BY <1>1, <1>6, SessionHas, SelectedFields DEF IInv, CellsInv, Array, Quiet, gui
  <2>5. AuthInv'
    BY <1>1, <1>6, SessionHas, SelectedFields
       DEF IInv, AuthInv, Authorization, Blocked, Quiet, gui
  <2>6. LatchInv'
    BY <1>1, <1>6, SessionHas, SelectedFields
       DEF IInv, LatchInv, Unannounced, Entry, Authorization, Flashing, Probing,
           WillRegister, Lowering, Running, Finishing, Handling, Quiet, gui
  <2>7. EraseInv'
    BY <1>1, <1>6, SessionHas, SelectedFields
       DEF IInv, EraseInv, Entry, Authorization, Flashing, Finishing, Quiet, gui
  <2> QED
    BY <1>1, <1>3, <1>6, <2>1, <2>2, <2>3, <2>4, <2>5, <2>6, <2>7 DEF IInv, Quiet, gui
<1> QED
  BY <1>1, <1>4, <1>5, <1>6 DEF SwitchUp, Answered

LEMMA LivenessKeeps == ASSUME IInv, Liveness PROVE IInv'
<1>1. /\ TypeOK /\ s \in Sessions /\ ecu \in Dmes /\ pc = "liveness"
      /\ ~s.handling /\ ~s.destructive_started /\ ~s.safe_legacy_fallback
      /\ Unannounced => registry
      /\ s.state # "tune" /\ s.failure_state # "tune"
      /\ s.slow => pc \in Authorization
      /\ pc # "liveness" => s.link = "low"
      /\ ~s.slow /\ s.identified /\ ecu.rate = "high" => s.fast_write_armed
  BY EntryFacts DEF Liveness, Entry, Authorization
<1>2. AuthInv /\ LatchInv
  BY <1>1 DEF IInv
<1>3. TypeOK'
  <2>1. s' \in Sessions
    BY <1>1, Values, SessionSet, RaiseTyped DEF Liveness, Goto
  <2>2. pc' \in Pcs
    BY <1>1, Labels DEF Liveness, Raise, Goto
  <2>3. ecu' \in Dmes /\ faults' \in 0 .. MaxFaults
    BY <1>1, RepliesTyped DEF Liveness
  <2> QED
    BY <1>1, <2>1, <2>2, <2>3, QuietTyped DEF Liveness
<1>4. CASE Lost(ecu) /\ Raise(s, "plain")
  <2>1. Fails
    BY <1>1, <1>4, SessionHas DEF Liveness, Quiet, gui, Raise, Fails, Lost
  <2>2. ~s.destructive_started /\ ecu'.auth = 1 /\ s'.seeds > 0 => Blocked'
    BY <1>1, <1>2, <1>4, SessionHas DEF AuthInv, Raise, Blocked, Authorization, Lost
  <2>3. ~s.destructive_started /\ Unannounced' => registry
    BY <1>1, <1>2, <1>4, SessionHas DEF Liveness, Quiet, gui, LatchInv, Unannounced, Lost
  <2>4. ~s.slow /\ ~s.destructive_started /\ s'.identified /\ ecu'.rate = "high"
           => s'.fast_write_armed
    BY <1>1, <1>2, <1>4, SessionHas DEF LatchInv, Raise, Entry, Authorization, Lost
  <2>5. pc \in Entry \cup Flashing \cup Finishing \cup Lowering
    BY <1>1 DEF Entry, Authorization
  <2> QED
    BY <1>1, <1>3, <2>1, <2>2, <2>3, <2>4, <2>5, FailsKeeps
<1>5. CASE /\ ecu' = ecu /\ UNCHANGED s /\ Quiet
             /\ pc' = IF Partial THEN "erase" ELSE "poll"
  <2>1. OutcomeInv'
    BY <1>1, <1>5, SessionHas DEF IInv, OutcomeInv, Running, Entry, Authorization, Flashing,
         Finishing, Lowering, Handling, Quiet, gui, HighState
  <2>2. BoundaryInv'
    BY <1>1, <1>5, SessionHas DEF IInv, BoundaryInv, Affected, Partial, Entry, Authorization,
         Finishing, Probing, Lowering, Quiet, gui, HighState
  <2>3. PhaseInv'
    BY <1>1, <1>5, SessionHas DEF IInv, PhaseInv, HighState, Partial, Flashing, Phases, Done,
         Finishing, Lowering, Affected, Quiet, gui
  <2>4. CellsInv'
    BY <1>1, <1>5, SessionHas DEF IInv, CellsInv, Array, Quiet, gui, HighState
  <2>5. AuthInv'
    BY <1>1, <1>5, SessionHas DEF IInv, AuthInv, Authorization, Blocked, Quiet, gui, HighState
  <2>6. LatchInv'
    BY <1>1, <1>5, SessionHas DEF IInv, LatchInv, Unannounced, Entry, Authorization, Flashing,
         Probing, WillRegister, Lowering, Running, Finishing, Handling, Quiet, gui,
         HighState
  <2>7. EraseInv'
    BY <1>1, <1>5, SessionHas
       DEF IInv, EraseInv, Entry, Authorization, Flashing, Finishing, Quiet, gui, HighState
  <2> QED
    BY <1>1, <1>3, <1>5, <2>1, <2>2, <2>3, <2>4, <2>5, <2>6, <2>7
       DEF IInv, Quiet, gui, HighState
<1> QED
  BY <1>1, <1>4, <1>5 DEF Liveness, Answered, Goto

LEMMA ProgramPollKeeps == ASSUME IInv, ProgramPoll PROVE IInv'
<1>0. pc = "poll" /\ (pc \in Flashing \cup Finishing \/ (pc \in Lowering /\ ~s.handling))
  BY DEF ProgramPoll, Flashing, Finishing, Lowering, ControlPoll
<1>1. /\ TypeOK /\ s \in Sessions /\ ecu \in Dmes /\ pc = "poll"
      /\ ~s.slow /\ ~s.handling /\ ~s.safe_legacy_fallback
      /\ outcome = "running" /\ (~s.destructive_started => s.identified)
      /\ pc \notin {"poll", "erase", "tune_poll"} => s.destructive_started
      /\ ~s.destructive_started =>
            /\ ~Unannounced
            /\ ecu.rate = "high" => s.fast_write_armed
            /\ ecu.auth = 1 /\ s.seeds > 0 => Blocked
  BY <1>0, FlashFacts
<1>2. BoundaryInv /\ PhaseInv /\ CellsInv /\ AuthInv /\ LatchInv /\ EraseInv
  BY <1>1 DEF IInv
<1>3. TypeOK'
  <2>1. s' \in Sessions
    BY <1>1, Values, SessionSet, RaiseTyped DEF ProgramPoll, ControlPoll, Goto, FlashRefused
  <2>2. pc' \in Pcs
    BY <1>1, Labels DEF ProgramPoll, ControlPoll, Goto, FlashRefused, Raise
  <2>3. ecu' \in Dmes /\ faults' \in 0 .. MaxFaults
    BY <1>1, RepliesTyped DEF ProgramPoll, ControlPoll, Unanswered, FlashRefused
  <2> QED
    BY <1>1, <2>1, <2>2, <2>3, QuietTyped DEF ProgramPoll, ControlPoll, Goto, FlashRefused
<1>4. CASE Unanswered(ecu, PollAccepted("program", s.recovering)) /\ Raise(s, "plain")
  <2>1. Fails
    BY <1>1, <1>4, SessionHas
       DEF ProgramPoll, ControlPoll, Quiet, gui, Raise, Fails, Unanswered, Lost, Answered
  <2>2. ~s.destructive_started /\ ecu'.auth = 1 /\ s'.seeds > 0 => Blocked'
    BY <1>1, <1>4, SessionHas DEF Raise, Blocked, Unanswered, Lost, Answered
  <2>3. ~s.destructive_started /\ Unannounced' => registry
    BY <1>1, <1>4, SessionHas
       DEF ProgramPoll, ControlPoll, Quiet, gui, Unannounced, Unanswered, Lost, Answered
  <2>4. ~s.slow /\ ~s.destructive_started /\ s'.identified /\ ecu'.rate = "high"
           => s'.fast_write_armed
    BY <1>1, <1>4, SessionHas DEF Raise, Unanswered, Lost, Answered
  <2>5. pc \in Entry \cup Flashing \cup Finishing \cup Lowering
    BY <1>1 DEF Flashing, Finishing, Lowering
  <2> QED
    BY <1>1, <1>3, <2>1, <2>2, <2>3, <2>4, <2>5, FailsKeeps
<1>5. CASE Refused /\ \E a2 \in BOOLEAN : Raise([s EXCEPT !.a2 = a2], "plain")
  <2>1. Fails
    BY <1>1, <1>5, SessionHas DEF ProgramPoll, ControlPoll, Quiet, gui, Raise, Fails, Refused
  <2>2. ~s.destructive_started /\ ecu'.auth = 1 /\ s'.seeds > 0 => Blocked'
    BY <1>1, <1>5, SessionHas DEF Raise, Blocked, Refused
  <2>3. ~s.destructive_started /\ Unannounced' => registry
    BY <1>1, <1>5, SessionHas DEF ProgramPoll, ControlPoll, Quiet, gui, Unannounced, Refused
  <2>4. ~s.slow /\ ~s.destructive_started /\ s'.identified /\ ecu'.rate = "high"
           => s'.fast_write_armed
    BY <1>1, <1>5, SessionHas DEF Raise, Refused
  <2>5. pc \in Entry \cup Flashing \cup Finishing \cup Lowering
    BY <1>1 DEF Flashing, Finishing, Lowering
  <2> QED
    BY <1>1, <1>3, <2>1, <2>2, <2>3, <2>4, <2>5, FailsKeeps
<1>6. CASE /\ ecu' = ecu /\ UNCHANGED s /\ Quiet
             /\ pc' = "erase"
  <2>1. OutcomeInv'
    BY <1>1, <1>6, SessionHas DEF IInv, OutcomeInv, Running, Entry, Authorization, Flashing,
         Finishing, Lowering, Handling, Quiet, gui
  <2>2. BoundaryInv'
    BY <1>1, <1>6, SessionHas DEF IInv, BoundaryInv, Affected, Partial, Entry, Authorization,
         Finishing, Probing, Lowering, Quiet, gui
  <2>3. PhaseInv'
    BY <1>1, <1>6, SessionHas DEF IInv, PhaseInv, HighState, Partial, Flashing, Phases, Done,
         Finishing, Lowering, Affected, Quiet, gui
  <2>4. CellsInv'
    BY <1>1, <1>6, SessionHas DEF IInv, CellsInv, Array, Quiet, gui
  <2>5. AuthInv'
    BY <1>1, <1>6, SessionHas DEF IInv, AuthInv, Authorization, Blocked, Quiet, gui
  <2>6. LatchInv'
    BY <1>1, <1>6, SessionHas DEF IInv, LatchInv, Unannounced, Entry, Authorization, Flashing,
         Probing, WillRegister, Lowering, Running, Finishing, Handling, Quiet, gui
  <2>7. EraseInv'
    BY <1>1, <1>6, SessionHas
       DEF IInv, EraseInv, Entry, Authorization, Flashing, Finishing, Quiet, gui
  <2> QED
    BY <1>1, <1>3, <1>6, <2>1, <2>2, <2>3, <2>4, <2>5, <2>6, <2>7 DEF IInv, Quiet, gui
<1> QED
  BY <1>1, <1>4, <1>5, <1>6 DEF ProgramPoll, ControlPoll, Answered, Goto, FlashRefused

LEMMA TunePollKeeps == ASSUME IInv, TunePoll PROVE IInv'
<1>0. pc = "tune_poll" /\ (pc \in Flashing \cup Finishing \/ (pc \in Lowering /\ ~s.handling))
  BY DEF TunePoll, Flashing, Finishing, Lowering, ControlPoll
<1>1. /\ TypeOK /\ s \in Sessions /\ ecu \in Dmes /\ pc = "tune_poll"
      /\ ~s.slow /\ ~s.handling /\ ~s.safe_legacy_fallback
      /\ outcome = "running" /\ (~s.destructive_started => s.identified)
      /\ pc \notin {"poll", "erase", "tune_poll"} => s.destructive_started
      /\ ~s.destructive_started =>
            /\ ~Unannounced
            /\ ecu.rate = "high" => s.fast_write_armed
            /\ ecu.auth = 1 /\ s.seeds > 0 => Blocked
  BY <1>0, FlashFacts
<1>2. BoundaryInv /\ PhaseInv /\ CellsInv /\ AuthInv /\ LatchInv /\ EraseInv
  BY <1>1 DEF IInv
<1>3. TypeOK'
  <2>1. s' \in Sessions
    BY <1>1, Values, SessionSet, RaiseTyped DEF TunePoll, ControlPoll, Goto, FlashRefused
  <2>2. pc' \in Pcs
    BY <1>1, Labels DEF TunePoll, ControlPoll, Goto, FlashRefused, Raise
  <2>3. ecu' \in Dmes /\ faults' \in 0 .. MaxFaults
    BY <1>1, RepliesTyped DEF TunePoll, ControlPoll, Unanswered, FlashRefused
  <2> QED
    BY <1>1, <2>1, <2>2, <2>3, QuietTyped DEF TunePoll, ControlPoll, Goto, FlashRefused
<1>4. CASE Unanswered(ecu, PollAccepted("tune", s.recovering)) /\ Raise(s, "plain")
  <2>1. Fails
    BY <1>1, <1>4, SessionHas
       DEF TunePoll, ControlPoll, Quiet, gui, Raise, Fails, Unanswered, Lost, Answered
  <2>2. ~s.destructive_started /\ ecu'.auth = 1 /\ s'.seeds > 0 => Blocked'
    BY <1>1, <1>4, SessionHas DEF Raise, Blocked, Unanswered, Lost, Answered
  <2>3. ~s.destructive_started /\ Unannounced' => registry
    BY <1>1, <1>4, SessionHas
       DEF TunePoll, ControlPoll, Quiet, gui, Unannounced, Unanswered, Lost, Answered
  <2>4. ~s.slow /\ ~s.destructive_started /\ s'.identified /\ ecu'.rate = "high"
           => s'.fast_write_armed
    BY <1>1, <1>4, SessionHas DEF Raise, Unanswered, Lost, Answered
  <2>5. pc \in Entry \cup Flashing \cup Finishing \cup Lowering
    BY <1>1 DEF Flashing, Finishing, Lowering
  <2> QED
    BY <1>1, <1>3, <2>1, <2>2, <2>3, <2>4, <2>5, FailsKeeps
<1>5. CASE Refused /\ \E a2 \in BOOLEAN : Raise([s EXCEPT !.a2 = a2], "plain")
  <2>1. Fails
    BY <1>1, <1>5, SessionHas DEF TunePoll, ControlPoll, Quiet, gui, Raise, Fails, Refused
  <2>2. ~s.destructive_started /\ ecu'.auth = 1 /\ s'.seeds > 0 => Blocked'
    BY <1>1, <1>5, SessionHas DEF Raise, Blocked, Refused
  <2>3. ~s.destructive_started /\ Unannounced' => registry
    BY <1>1, <1>5, SessionHas DEF TunePoll, ControlPoll, Quiet, gui, Unannounced, Refused
  <2>4. ~s.slow /\ ~s.destructive_started /\ s'.identified /\ ecu'.rate = "high"
           => s'.fast_write_armed
    BY <1>1, <1>5, SessionHas DEF Raise, Refused
  <2>5. pc \in Entry \cup Flashing \cup Finishing \cup Lowering
    BY <1>1 DEF Flashing, Finishing, Lowering
  <2> QED
    BY <1>1, <1>3, <2>1, <2>2, <2>3, <2>4, <2>5, FailsKeeps
<1>6. CASE /\ ecu' = ecu /\ UNCHANGED s /\ Quiet
             /\ pc' = "erase"
  <2>1. OutcomeInv'
    BY <1>1, <1>6, SessionHas DEF IInv, OutcomeInv, Running, Entry, Authorization, Flashing,
         Finishing, Lowering, Handling, Quiet, gui
  <2>2. BoundaryInv'
    BY <1>1, <1>6, SessionHas DEF IInv, BoundaryInv, Affected, Partial, Entry, Authorization,
         Finishing, Probing, Lowering, Quiet, gui
  <2>3. PhaseInv'
    BY <1>1, <1>6, SessionHas DEF IInv, PhaseInv, HighState, Partial, Flashing, Phases, Done,
         Finishing, Lowering, Affected, Quiet, gui
  <2>4. CellsInv'
    BY <1>1, <1>6, SessionHas DEF IInv, CellsInv, Array, Quiet, gui
  <2>5. AuthInv'
    BY <1>1, <1>6, SessionHas DEF IInv, AuthInv, Authorization, Blocked, Quiet, gui
  <2>6. LatchInv'
    BY <1>1, <1>6, SessionHas DEF IInv, LatchInv, Unannounced, Entry, Authorization, Flashing,
         Probing, WillRegister, Lowering, Running, Finishing, Handling, Quiet, gui
  <2>7. EraseInv'
    BY <1>1, <1>6, SessionHas
       DEF IInv, EraseInv, Entry, Authorization, Flashing, Finishing, Quiet, gui
  <2> QED
    BY <1>1, <1>3, <1>6, <2>1, <2>2, <2>3, <2>4, <2>5, <2>6, <2>7 DEF IInv, Quiet, gui
<1> QED
  BY <1>1, <1>4, <1>5, <1>6 DEF TunePoll, ControlPoll, Answered, Goto, FlashRefused

LEMMA PostPollKeeps == ASSUME IInv, PostPoll PROVE IInv'
<1>0. pc = "post_poll" /\ (pc \in Flashing \cup Finishing \/ (pc \in Lowering /\ ~s.handling))
  BY DEF PostPoll, Flashing, Finishing, Lowering
<1>1. /\ TypeOK /\ s \in Sessions /\ ecu \in Dmes /\ pc = "post_poll"
      /\ ~s.slow /\ ~s.handling /\ ~s.safe_legacy_fallback
      /\ outcome = "running" /\ (~s.destructive_started => s.identified)
      /\ pc \notin {"poll", "erase", "tune_poll"} => s.destructive_started
      /\ ~s.destructive_started =>
            /\ ~Unannounced
            /\ ecu.rate = "high" => s.fast_write_armed
            /\ ecu.auth = 1 /\ s.seeds > 0 => Blocked
  BY <1>0, FlashFacts
<1>2. BoundaryInv /\ PhaseInv /\ CellsInv /\ AuthInv /\ LatchInv /\ EraseInv
  BY <1>1 DEF IInv
<1>3. TypeOK'
  <2>1. s' \in Sessions
    <3>1. [s EXCEPT !.state = "finalize"] \in Sessions
      BY <1>1, Values, SessionSet
    <3> QED
      BY <1>1, <3>1, Values, SessionSet, RaiseTyped DEF PostPoll, FlashRefused
  <2>2. pc' \in Pcs
    BY <1>1, Labels DEF PostPoll, FlashRefused, Raise
  <2>3. ecu' \in Dmes /\ faults' \in 0 .. MaxFaults
    BY <1>1, RepliesTyped DEF PostPoll, Unanswered, FlashRefused
  <2> QED
    BY <1>1, <2>1, <2>2, <2>3, QuietTyped DEF PostPoll
<1>4. CASE Unanswered(ecu, WholeArray(ecu, "tune")) /\ Raise(s, "plain")
  <2>1. Fails
    BY <1>1, <1>4, SessionHas DEF PostPoll, Quiet, gui, Raise, Fails, Unanswered, Lost, Answered
  <2>2. ~s.destructive_started /\ ecu'.auth = 1 /\ s'.seeds > 0 => Blocked'
    BY <1>1, <1>4, SessionHas DEF Raise, Blocked, Unanswered, Lost, Answered
  <2>3. ~s.destructive_started /\ Unannounced' => registry
    BY <1>1, <1>4, SessionHas DEF PostPoll, Quiet, gui, Unannounced, Unanswered, Lost, Answered
  <2>4. ~s.slow /\ ~s.destructive_started /\ s'.identified /\ ecu'.rate = "high"
           => s'.fast_write_armed
    BY <1>1, <1>4, SessionHas DEF Raise, Unanswered, Lost, Answered
  <2>5. pc \in Entry \cup Flashing \cup Finishing \cup Lowering
    BY <1>1 DEF Flashing, Finishing, Lowering
  <2> QED
    BY <1>1, <1>3, <2>1, <2>2, <2>3, <2>4, <2>5, FailsKeeps
<1>5. CASE Refused /\ \E a2 \in BOOLEAN : Raise([s EXCEPT !.a2 = a2], "plain")
  <2>1. Fails
    BY <1>1, <1>5, SessionHas DEF PostPoll, Quiet, gui, Raise, Fails, Refused
  <2>2. ~s.destructive_started /\ ecu'.auth = 1 /\ s'.seeds > 0 => Blocked'
    BY <1>1, <1>5, SessionHas DEF Raise, Blocked, Refused
  <2>3. ~s.destructive_started /\ Unannounced' => registry
    BY <1>1, <1>5, SessionHas DEF PostPoll, Quiet, gui, Unannounced, Refused
  <2>4. ~s.slow /\ ~s.destructive_started /\ s'.identified /\ ecu'.rate = "high"
           => s'.fast_write_armed
    BY <1>1, <1>5, SessionHas DEF Raise, Refused
  <2>5. pc \in Entry \cup Flashing \cup Finishing \cup Lowering
    BY <1>1 DEF Flashing, Finishing, Lowering
  <2> QED
    BY <1>1, <1>3, <2>1, <2>2, <2>3, <2>4, <2>5, FailsKeeps
<1>6. CASE /\ ecu' = ecu /\ Quiet
             /\ s' = [s EXCEPT !.state = "finalize"] /\ pc' = "fin_seed"
  <2>1. OutcomeInv'
    BY <1>1, <1>6, SessionHas DEF IInv, OutcomeInv, Running, Entry, Authorization, Flashing,
         Finishing, Lowering, Handling, Quiet, gui
  <2>2. BoundaryInv'
    BY <1>1, <1>6, SessionHas DEF IInv, BoundaryInv, Affected, Partial, Entry, Authorization,
         Finishing, Probing, Lowering, Quiet, gui
  <2>3. PhaseInv'
    BY <1>1, <1>6, SessionHas DEF IInv, PhaseInv, HighState, Partial, Flashing, Phases, Done,
         Finishing, Lowering, Affected, Quiet, gui
  <2>4. CellsInv'
    BY <1>1, <1>6, SessionHas DEF IInv, CellsInv, Array, Quiet, gui
  <2>5. AuthInv'
    BY <1>1, <1>6, SessionHas DEF IInv, AuthInv, Authorization, Blocked, Quiet, gui
  <2>6. LatchInv'
    BY <1>1, <1>6, SessionHas DEF IInv, LatchInv, Unannounced, Entry, Authorization, Flashing,
         Probing, WillRegister, Lowering, Running, Finishing, Handling, Quiet, gui
  <2>7. EraseInv'
    BY <1>1, <1>6, SessionHas
       DEF IInv, EraseInv, Entry, Authorization, Flashing, Finishing, Quiet, gui
  <2> QED
    BY <1>1, <1>3, <1>6, <2>1, <2>2, <2>3, <2>4, <2>5, <2>6, <2>7 DEF IInv, Quiet, gui
<1> QED
  BY <1>1, <1>4, <1>5, <1>6 DEF PostPoll, Answered, FlashRefused

LEMMA FinalizeSeedKeeps == ASSUME IInv, FinalizeSeed PROVE IInv'
<1>0. pc = "fin_seed" /\ (pc \in Flashing \cup Finishing \/ (pc \in Lowering /\ ~s.handling))
  BY DEF FinalizeSeed, Flashing, Finishing, Lowering
<1>1. /\ TypeOK /\ s \in Sessions /\ ecu \in Dmes /\ pc = "fin_seed"
      /\ ~s.slow /\ ~s.handling /\ ~s.safe_legacy_fallback
      /\ outcome = "running" /\ (~s.destructive_started => s.identified)
      /\ pc \notin {"poll", "erase", "tune_poll"} => s.destructive_started
      /\ ~s.destructive_started =>
            /\ ~Unannounced
            /\ ecu.rate = "high" => s.fast_write_armed
            /\ ecu.auth = 1 /\ s.seeds > 0 => Blocked
  BY <1>0, FlashFacts
<1>2. BoundaryInv /\ PhaseInv /\ CellsInv /\ AuthInv /\ LatchInv /\ EraseInv
  BY <1>1 DEF IInv
<1>3. TypeOK'
  <2>1. s' \in Sessions
    BY <1>1, Values, SessionSet, RaiseTyped DEF FinalizeSeed, Goto
  <2>2. pc' \in Pcs
    BY <1>1, Labels DEF FinalizeSeed, Goto, Raise
  <2>3. ecu' \in Dmes /\ faults' \in 0 .. MaxFaults
    BY <1>1, RepliesTyped, DmeTyped DEF FinalizeSeed
  <2> QED
    BY <1>1, <2>1, <2>2, <2>3, QuietTyped DEF FinalizeSeed, Goto
<1>4. CASE Lost(IF Partial THEN SeededAgain(ecu) ELSE ecu) /\ Raise(s, "plain")
  <2>1. Fails
    BY <1>1, <1>4, SessionHas, DisarmedFields DEF FinalizeSeed, Quiet, gui, Raise, Fails, Lost
  <2>2. ~s.destructive_started /\ ecu'.auth = 1 /\ s'.seeds > 0 => Blocked'
    BY <1>1, <1>4, SessionHas, DisarmedFields DEF Raise, Blocked, Lost
  <2>3. ~s.destructive_started /\ Unannounced' => registry
    BY <1>1, <1>4, SessionHas, DisarmedFields DEF FinalizeSeed, Quiet, gui, Unannounced, Lost
  <2>4. ~s.slow /\ ~s.destructive_started /\ s'.identified /\ ecu'.rate = "high"
           => s'.fast_write_armed
    BY <1>1, <1>4, SessionHas, DisarmedFields DEF Raise, Lost
  <2>5. pc \in Entry \cup Flashing \cup Finishing \cup Lowering
    BY <1>1 DEF Flashing, Finishing, Lowering
  <2> QED
    BY <1>1, <1>3, <2>1, <2>2, <2>3, <2>4, <2>5, FailsKeeps
<1>5. CASE /\ ecu' \in {SeededAgain(ecu), ecu} /\ UNCHANGED s /\ Quiet
             /\ pc' \in {"fin_key", "fin_probe"}
  <2>1. OutcomeInv'
    BY <1>1, <1>5, SessionHas, DisarmedFields
       DEF IInv, OutcomeInv, Running, Entry, Authorization, Flashing, Finishing, Lowering,
           Handling, Quiet, gui
  <2>2. BoundaryInv'
    BY <1>1, <1>5, SessionHas, DisarmedFields DEF IInv, BoundaryInv, Affected, Partial, Entry,
         Authorization, Finishing, Probing, Lowering, Quiet, gui
  <2>3. PhaseInv'
    BY <1>1, <1>5, SessionHas, DisarmedFields
       DEF IInv, PhaseInv, Quiet, gui, HighState, Partial, Flashing, Phases, Done,
           HoldsNew, Finishing, Lowering, Affected
  <2>4. CellsInv'
    BY <1>1, <1>5, SessionHas, DisarmedFields DEF IInv, CellsInv, Array, Quiet, gui
  <2>5. AuthInv'
    BY <1>1, <1>5, SessionHas, DisarmedFields
       DEF IInv, AuthInv, Authorization, Blocked, Quiet, gui
  <2>6. LatchInv'
    BY <1>1, <1>5, SessionHas, DisarmedFields
       DEF IInv, LatchInv, Unannounced, Entry, Authorization, Flashing, Probing,
           WillRegister, Lowering, Running, Finishing, Handling, Quiet, gui
  <2>7. EraseInv'
    BY <1>1, <1>5, SessionHas, DisarmedFields
       DEF IInv, EraseInv, Entry, Authorization, Flashing, Finishing, Quiet, gui
  <2> QED
    BY <1>1, <1>3, <1>5, <2>1, <2>2, <2>3, <2>4, <2>5, <2>6, <2>7 DEF IInv, Quiet, gui
<1> QED
  BY <1>1, <1>4, <1>5 DEF FinalizeSeed, Answered, Goto

LEMMA FinalizeKeyKeeps == ASSUME IInv, FinalizeKey PROVE IInv'
<1>0. pc = "fin_key" /\ (pc \in Flashing \cup Finishing \/ (pc \in Lowering /\ ~s.handling))
  BY DEF FinalizeKey, Flashing, Finishing, Lowering
<1>1. /\ TypeOK /\ s \in Sessions /\ ecu \in Dmes /\ pc = "fin_key"
      /\ ~s.slow /\ ~s.handling /\ ~s.safe_legacy_fallback
      /\ outcome = "running" /\ (~s.destructive_started => s.identified)
      /\ pc \notin {"poll", "erase", "tune_poll"} => s.destructive_started
      /\ ~s.destructive_started =>
            /\ ~Unannounced
            /\ ecu.rate = "high" => s.fast_write_armed
            /\ ecu.auth = 1 /\ s.seeds > 0 => Blocked
  BY <1>0, FlashFacts
<1>2. BoundaryInv /\ PhaseInv /\ CellsInv /\ AuthInv /\ LatchInv /\ EraseInv
  BY <1>1 DEF IInv
<1>3. TypeOK'
  <2>1. s' \in Sessions
    BY <1>1, Values, SessionSet, RaiseTyped DEF FinalizeKey, Goto
  <2>2. pc' \in Pcs
    BY <1>1, Labels DEF FinalizeKey, Goto, Raise
  <2>3. ecu' \in Dmes /\ faults' \in 0 .. MaxFaults
    BY <1>1, RepliesTyped, DmeTyped DEF FinalizeKey, Unanswered
  <2> QED
    BY <1>1, <2>1, <2>2, <2>3, QuietTyped DEF FinalizeKey, Goto
<1>4. CASE Unanswered(Keyed(ecu), ecu.auth = 1) /\ Raise(s, "plain")
  <2>1. Fails
    BY <1>1, <1>4, SessionHas, KeyedFields
       DEF FinalizeKey, Quiet, gui, Raise, Fails, Unanswered, Answered, Lost
  <2>2. ~s.destructive_started /\ ecu'.auth = 1 /\ s'.seeds > 0 => Blocked'
    BY <1>1, <1>4, SessionHas, KeyedFields DEF Raise, Blocked, Unanswered, Answered, Lost
  <2>3. ~s.destructive_started /\ Unannounced' => registry
    BY <1>1, <1>4, SessionHas, KeyedFields
       DEF FinalizeKey, Quiet, gui, Unannounced, Unanswered, Answered, Lost
  <2>4. ~s.slow /\ ~s.destructive_started /\ s'.identified /\ ecu'.rate = "high"
           => s'.fast_write_armed
    BY <1>1, <1>4, SessionHas, KeyedFields DEF Raise, Unanswered, Answered, Lost
  <2>5. pc \in Entry \cup Flashing \cup Finishing \cup Lowering
    BY <1>1 DEF Flashing, Finishing, Lowering
  <2> QED
    BY <1>1, <1>3, <2>1, <2>2, <2>3, <2>4, <2>5, FailsKeeps
<1>5. CASE /\ ecu' = Keyed(ecu) /\ UNCHANGED s /\ Quiet
             /\ pc' = "fin_poll"
  <2>1. OutcomeInv'
    BY <1>1, <1>5, SessionHas, KeyedFields DEF IInv, OutcomeInv, Running, Entry, Authorization,
         Flashing, Finishing, Lowering, Handling, Quiet, gui
  <2>2. BoundaryInv'
    BY <1>1, <1>5, SessionHas, KeyedFields DEF IInv, BoundaryInv, Affected, Partial, Entry,
         Authorization, Finishing, Probing, Lowering, Quiet, gui
  <2>3. PhaseInv'
    BY <1>1, <1>5, SessionHas, KeyedFields
       DEF IInv, PhaseInv, Quiet, gui, HighState, Partial, Flashing, Phases, Done,
           HoldsNew, Finishing, Lowering, Affected
  <2>4. CellsInv'
    BY <1>1, <1>5, SessionHas, KeyedFields DEF IInv, CellsInv, Array, Quiet, gui
  <2>5. AuthInv'
    BY <1>1, <1>5, SessionHas, KeyedFields DEF IInv, AuthInv, Authorization, Blocked, Quiet, gui
  <2>6. LatchInv'
    BY <1>1, <1>5, SessionHas, KeyedFields
       DEF IInv, LatchInv, Unannounced, Entry, Authorization, Flashing, Probing,
           WillRegister, Lowering, Running, Finishing, Handling, Quiet, gui
  <2>7. EraseInv'
    BY <1>1, <1>5, SessionHas, KeyedFields DEF IInv, EraseInv, Entry, Authorization, Flashing,
         Finishing, Quiet, gui
  <2> QED
    BY <1>1, <1>3, <1>5, <2>1, <2>2, <2>3, <2>4, <2>5, <2>6, <2>7 DEF IInv, Quiet, gui
<1> QED
  BY <1>1, <1>4, <1>5 DEF FinalizeKey, Answered, Goto

LEMMA FinalizeProbeKeeps == ASSUME IInv, FinalizeProbe PROVE IInv'
<1>0. pc = "fin_probe" /\ (pc \in Flashing \cup Finishing \/ (pc \in Lowering /\ ~s.handling))
  BY DEF FinalizeProbe, Flashing, Finishing, Lowering
<1>1. /\ TypeOK /\ s \in Sessions /\ ecu \in Dmes /\ pc = "fin_probe"
      /\ ~s.slow /\ ~s.handling /\ ~s.safe_legacy_fallback
      /\ outcome = "running" /\ (~s.destructive_started => s.identified)
      /\ pc \notin {"poll", "erase", "tune_poll"} => s.destructive_started
      /\ ~s.destructive_started =>
            /\ ~Unannounced
            /\ ecu.rate = "high" => s.fast_write_armed
            /\ ecu.auth = 1 /\ s.seeds > 0 => Blocked
  BY <1>0, FlashFacts
<1>2. BoundaryInv /\ PhaseInv /\ CellsInv /\ AuthInv /\ LatchInv /\ EraseInv
  BY <1>1 DEF IInv
<1>3. TypeOK'
  <2>1. s' \in Sessions
    BY <1>1, Values, SessionSet, RaiseTyped DEF FinalizeProbe, Goto
  <2>2. pc' \in Pcs
    BY <1>1, Labels DEF FinalizeProbe, Goto, Raise
  <2>3. ecu' \in Dmes /\ faults' \in 0 .. MaxFaults
    BY <1>1, RepliesTyped DEF FinalizeProbe, Unanswered
  <2> QED
    BY <1>1, <2>1, <2>2, <2>3, QuietTyped DEF FinalizeProbe, Goto
<1>4. CASE Unanswered(ecu, ecu.auth = 2) /\ Raise(s, "plain")
  <2>1. Fails
    BY <1>1, <1>4, SessionHas
       DEF FinalizeProbe, Quiet, gui, Raise, Fails, Unanswered, Answered, Lost
  <2>2. ~s.destructive_started /\ ecu'.auth = 1 /\ s'.seeds > 0 => Blocked'
    BY <1>1, <1>4, SessionHas DEF Raise, Blocked, Unanswered, Answered, Lost
  <2>3. ~s.destructive_started /\ Unannounced' => registry
    BY <1>1, <1>4, SessionHas
       DEF FinalizeProbe, Quiet, gui, Unannounced, Unanswered, Answered, Lost
  <2>4. ~s.slow /\ ~s.destructive_started /\ s'.identified /\ ecu'.rate = "high"
           => s'.fast_write_armed
    BY <1>1, <1>4, SessionHas DEF Raise, Unanswered, Answered, Lost
  <2>5. pc \in Entry \cup Flashing \cup Finishing \cup Lowering
    BY <1>1 DEF Flashing, Finishing, Lowering
  <2> QED
    BY <1>1, <1>3, <2>1, <2>2, <2>3, <2>4, <2>5, FailsKeeps
<1>5. CASE /\ ecu' = ecu /\ UNCHANGED s /\ Quiet
             /\ pc' = "fin_poll"
  <2>1. OutcomeInv'
    BY <1>1, <1>5, SessionHas DEF IInv, OutcomeInv, Running, Entry, Authorization, Flashing,
         Finishing, Lowering, Handling, Quiet, gui
  <2>2. BoundaryInv'
    BY <1>1, <1>5, SessionHas DEF IInv, BoundaryInv, Affected, Partial, Entry, Authorization,
         Finishing, Probing, Lowering, Quiet, gui
  <2>3. PhaseInv'
    BY <1>1, <1>5, SessionHas DEF IInv, PhaseInv, HighState, Partial, Flashing, Phases, Done,
         Finishing, Lowering, Affected, Quiet, gui
  <2>4. CellsInv'
    BY <1>1, <1>5, SessionHas DEF IInv, CellsInv, Array, Quiet, gui
  <2>5. AuthInv'
    BY <1>1, <1>5, SessionHas DEF IInv, AuthInv, Authorization, Blocked, Quiet, gui
  <2>6. LatchInv'
    BY <1>1, <1>5, SessionHas DEF IInv, LatchInv, Unannounced, Entry, Authorization, Flashing,
         Probing, WillRegister, Lowering, Running, Finishing, Handling, Quiet, gui
  <2>7. EraseInv'
    BY <1>1, <1>5, SessionHas
       DEF IInv, EraseInv, Entry, Authorization, Flashing, Finishing, Quiet, gui
  <2> QED
    BY <1>1, <1>3, <1>5, <2>1, <2>2, <2>3, <2>4, <2>5, <2>6, <2>7 DEF IInv, Quiet, gui
<1> QED
  BY <1>1, <1>4, <1>5 DEF FinalizeProbe, Answered, Goto

LEMMA FinalPollKeeps == ASSUME IInv, FinalPoll PROVE IInv'
<1>0. pc = "fin_poll" /\ (pc \in Flashing \cup Finishing \/ (pc \in Lowering /\ ~s.handling))
  BY DEF FinalPoll, Flashing, Finishing, Lowering
<1>1. /\ TypeOK /\ s \in Sessions /\ ecu \in Dmes /\ pc = "fin_poll"
      /\ ~s.slow /\ ~s.handling /\ ~s.safe_legacy_fallback
      /\ outcome = "running" /\ (~s.destructive_started => s.identified)
      /\ pc \notin {"poll", "erase", "tune_poll"} => s.destructive_started
      /\ ~s.destructive_started =>
            /\ ~Unannounced
            /\ ecu.rate = "high" => s.fast_write_armed
            /\ ecu.auth = 1 /\ s.seeds > 0 => Blocked
  BY <1>0, FlashFacts
<1>2. BoundaryInv /\ PhaseInv /\ CellsInv /\ AuthInv /\ LatchInv /\ EraseInv
  BY <1>1 DEF IInv
<1>3. ecu' \in Dmes /\ faults' \in 0 .. MaxFaults
  BY <1>1, RepliesTyped DEF FinalPoll, Unanswered, FlashRefused
<1>4. CASE Unanswered(ecu, \A a \in Arrays : WholeArray(ecu, a)) /\ Raise(s, "plain") /\ Quiet
  <2>0. TypeOK'
    <3>1. s' \in Sessions /\ pc' \in Pcs
      BY <1>1, <1>4, Values, Labels, SessionSet, RaiseTyped
    <3> QED
      BY <1>1, <1>3, <1>4, <3>1, QuietTyped
  <2>1. Fails
    BY <1>1, <1>4, SessionHas DEF Quiet, gui, Raise, Fails, Unanswered, Lost, Answered
  <2>2. ~s.destructive_started /\ ecu'.auth = 1 /\ s'.seeds > 0 => Blocked'
    BY <1>1, <1>4, SessionHas DEF Raise, Blocked, Unanswered, Lost, Answered
  <2>3. ~s.destructive_started /\ Unannounced' => registry
    BY <1>1, <1>4, SessionHas DEF Quiet, gui, Unannounced, Unanswered, Lost, Answered
  <2>4. ~s.slow /\ ~s.destructive_started /\ s'.identified /\ ecu'.rate = "high"
           => s'.fast_write_armed
    BY <1>1, <1>4, SessionHas DEF Raise, Unanswered, Lost, Answered
  <2>5. pc \in Entry \cup Flashing \cup Finishing \cup Lowering
    BY <1>1 DEF Flashing, Finishing, Lowering
  <2> QED
    BY <1>1, <2>0, <2>1, <2>2, <2>3, <2>4, <2>5, FailsKeeps
<1>5. CASE Refused /\ \E a2 \in BOOLEAN : Raise([s EXCEPT !.a2 = a2], "plain") /\ Quiet
  <2>0. TypeOK'
    <3>1. s' \in Sessions /\ pc' \in Pcs
      BY <1>1, <1>5, Values, Labels, SessionSet, RaiseTyped
    <3> QED
      BY <1>1, <1>3, <1>5, <3>1, QuietTyped
  <2>1. Fails
    BY <1>1, <1>5, SessionHas DEF Quiet, gui, Raise, Fails, Refused
  <2>2. ~s.destructive_started /\ ecu'.auth = 1 /\ s'.seeds > 0 => Blocked'
    BY <1>1, <1>5, SessionHas DEF Raise, Blocked, Refused
  <2>3. ~s.destructive_started /\ Unannounced' => registry
    BY <1>1, <1>5, SessionHas DEF Quiet, gui, Unannounced, Refused
  <2>4. ~s.slow /\ ~s.destructive_started /\ s'.identified /\ ecu'.rate = "high"
           => s'.fast_write_armed
    BY <1>1, <1>5, SessionHas DEF Raise, Refused
  <2>5. pc \in Entry \cup Flashing \cup Finishing \cup Lowering
    BY <1>1 DEF Flashing, Finishing, Lowering
  <2> QED
    BY <1>1, <2>0, <2>1, <2>2, <2>3, <2>4, <2>5, FailsKeeps
<1>6. CASE /\ ecu' = ecu /\ s' = [s EXCEPT !.flash_completed = TRUE]
             /\ pc' = "verify" /\ Quiet
  <2>0. TypeOK'
    <3>1. s' \in Sessions /\ pc' \in Pcs
      BY <1>1, <1>6, Values, Labels, SessionSet
    <3> QED
      BY <1>1, <1>3, <1>6, <3>1, QuietTyped
  <2>1. OutcomeInv'
    BY <1>1, <1>6, SessionHas DEF IInv, OutcomeInv, Running, Entry, Authorization, Flashing,
         Finishing, Lowering, Handling, Quiet, gui
  <2>2. BoundaryInv'
    BY <1>1, <1>6, SessionHas DEF IInv, BoundaryInv, Affected, Partial, Entry, Authorization,
         Finishing, Probing, Lowering, Quiet, gui
  <2>3. PhaseInv'
    BY <1>1, <1>6, SessionHas DEF IInv, PhaseInv, HighState, Partial, Flashing, Phases, Done,
         Finishing, Lowering, Affected, Quiet, gui
  <2>4. CellsInv'
    BY <1>1, <1>6, SessionHas DEF IInv, CellsInv, Array, Quiet, gui
  <2>5. AuthInv'
    BY <1>1, <1>6, SessionHas DEF IInv, AuthInv, Authorization, Blocked, Quiet, gui
  <2>6. LatchInv'
    BY <1>1, <1>6, SessionHas DEF IInv, LatchInv, Unannounced, Entry, Authorization, Flashing,
         Probing, WillRegister, Lowering, Running, Finishing, Handling, Quiet, gui
  <2>7. EraseInv'
    BY <1>1, <1>6, SessionHas
       DEF IInv, EraseInv, Entry, Authorization, Flashing, Finishing, Quiet, gui
  <2> QED
    BY <1>1, <2>0, <1>6, <2>1, <2>2, <2>3, <2>4, <2>5, <2>6, <2>7 DEF IInv, Quiet, gui
<1>7. CASE ecu' = ecu /\ Finished([s EXCEPT !.flash_completed = TRUE])
  <2>1. [s EXCEPT !.flash_completed = TRUE] \in Sessions
    BY <1>1, SessionSet
  <2> QED
    BY <1>1, <1>3, <1>7, <2>1, FinishedKeeps
<1> QED
  BY <1>1, <1>4, <1>5, <1>6, <1>7 DEF FinalPoll, Answered, FlashRefused

LEMMA VerifyKeeps == ASSUME IInv, Verify PROVE IInv'
<1>0. pc = "verify" /\ (pc \in Flashing \cup Finishing \/ (pc \in Lowering /\ ~s.handling))
  BY DEF Verify, Flashing, Finishing, Lowering
<1>1. /\ TypeOK /\ s \in Sessions /\ ecu \in Dmes /\ pc = "verify"
      /\ ~s.slow /\ ~s.handling /\ ~s.safe_legacy_fallback
      /\ outcome = "running" /\ (~s.destructive_started => s.identified)
      /\ pc \notin {"poll", "erase", "tune_poll"} => s.destructive_started
      /\ ~s.destructive_started =>
            /\ ~Unannounced
            /\ ecu.rate = "high" => s.fast_write_armed
            /\ ecu.auth = 1 /\ s.seeds > 0 => Blocked
  BY <1>0, FlashFacts
<1>2. BoundaryInv /\ PhaseInv /\ CellsInv /\ AuthInv /\ LatchInv /\ EraseInv
  BY <1>1 DEF IInv
<1>3. ecu' \in Dmes /\ faults' \in 0 .. MaxFaults
  BY <1>1, RepliesTyped DEF Verify, Unanswered
<1>4. CASE Unanswered(ecu, \A a \in Affected : HoldsNew(ecu, a)) /\ Raise(s, "plain") /\ Quiet
  <2>0. TypeOK'
    <3>1. s' \in Sessions /\ pc' \in Pcs
      BY <1>1, <1>4, Values, Labels, SessionSet, RaiseTyped
    <3> QED
      BY <1>1, <1>3, <1>4, <3>1, QuietTyped
  <2>1. Fails
    BY <1>1, <1>4, SessionHas DEF Quiet, gui, Raise, Fails, Unanswered, Lost, Answered
  <2>2. ~s.destructive_started /\ ecu'.auth = 1 /\ s'.seeds > 0 => Blocked'
    BY <1>1, <1>4, SessionHas DEF Raise, Blocked, Unanswered, Lost, Answered
  <2>3. ~s.destructive_started /\ Unannounced' => registry
    BY <1>1, <1>4, SessionHas DEF Quiet, gui, Unannounced, Unanswered, Lost, Answered
  <2>4. ~s.slow /\ ~s.destructive_started /\ s'.identified /\ ecu'.rate = "high"
           => s'.fast_write_armed
    BY <1>1, <1>4, SessionHas DEF Raise, Unanswered, Lost, Answered
  <2>5. pc \in Entry \cup Flashing \cup Finishing \cup Lowering
    BY <1>1 DEF Flashing, Finishing, Lowering
  <2> QED
    BY <1>1, <2>0, <2>1, <2>2, <2>3, <2>4, <2>5, FailsKeeps
<1>5. CASE ecu' = ecu /\ Finished(s)
  BY <1>1, <1>3, <1>5, FinishedKeeps
<1> QED
  BY <1>1, <1>4, <1>5 DEF Verify, Answered

LEMMA LoweringFacts ==
    ASSUME IInv, pc \in Lowering \cup Probing
    PROVE  /\ TypeOK /\ s \in Sessions /\ ecu \in Dmes
           /\ ~s.slow /\ outcome = "running" /\ ~s.safe_legacy_fallback
           /\ ~s.destructive_started => s.identified
           /\ s.handling <=> ~s.destructive_started
           /\ s.recovery_replay_attempted => s.destructive_started
           /\ s.failure_state = "tune" => s.kind = "full" /\ Done("program")
           /\ ~s.destructive_started =>
                 /\ ~BlockedBy(s)
                 /\ ~(ecu.auth = 1 /\ s.seeds > 0)
<1>1. pc # "idle"
  BY DEF Lowering, Probing
<1>2. BoundaryInv /\ PhaseInv /\ LatchInv /\ OutcomeInv /\ AuthInv /\ TypeOK
  BY <1>1 DEF IInv
<1>3. ~s.slow /\ outcome = "running"
  BY <1>2 DEF OutcomeInv, Running, Entry, Authorization, Handling, Lowering, Probing
<1>4. /\ s.handling <=> ~s.destructive_started
      /\ ~s.safe_legacy_fallback
      /\ s.recovery_replay_attempted => s.destructive_started
  BY <1>2 DEF BoundaryInv, Lowering, Probing
<1>5. ~s.destructive_started => s.identified
  BY <1>2 DEF LatchInv
<1>6. s.failure_state = "tune" => s.kind = "full" /\ Done("program")
  BY <1>2 DEF PhaseInv
<1>7. ASSUME ~s.destructive_started
      PROVE  /\ ~BlockedBy(s)
             /\ ~(ecu.auth = 1 /\ s.seeds > 0)
  BY <1>2, <1>4, <1>7 DEF AuthInv, Blocked, BlockedBy, Lowering, Probing
<1> QED  BY <1>2, <1>3, <1>4, <1>5, <1>6, <1>7 DEF TypeOK

LEMMA FailLoweringKeeps ==
    ASSUME IInv, pc \in Lowering, FailLowering(s),
           ecu' \in Dmes, faults' \in 0 .. MaxFaults,
           ecu'.cells = ecu.cells, ecu'.auth = ecu.auth
    PROVE  IInv'
<1>1. /\ TypeOK /\ s \in Sessions
      /\ ~s.slow /\ outcome = "running" /\ ~s.safe_legacy_fallback
      /\ s.handling <=> ~s.destructive_started
      /\ s.recovery_replay_attempted => s.destructive_started
      /\ s.failure_state = "tune" => s.kind = "full" /\ Done("program")
      /\ ~s.destructive_started =>
            /\ ~BlockedBy(s)
            /\ ~(ecu.auth = 1 /\ s.seeds > 0)
  BY LoweringFacts
<1>2. CASE s.handling
  <2>1. Conclude(s, FALSE)
    BY <1>2 DEF FailLowering
  <2>2. TypeOK'
    BY <1>1, <2>1, ConcludeTyped, Labels DEF TypeOK
  <2>3. pc # "idle" /\ ~s.destructive_started
    BY <1>1, <1>2 DEF Lowering
  <2> QED
    BY <1>1, <2>1, <2>2, <2>3, ConcludeKeeps
<1>3. CASE ~s.handling
  <2>1. Raise(s, "plain") /\ Quiet
    BY <1>3 DEF FailLowering
  <2>2. TypeOK'
    BY <1>1, <2>1, RaiseTyped, QuietTyped, Values, Labels
  <2>3. Fails
    BY <1>1, <2>1, SessionHas DEF Raise, Quiet, gui, Fails
  <2>4. s.destructive_started
    BY <1>1, <1>3
  <2> QED
    BY <1>1, <1>3, <2>2, <2>3, <2>4, FailsKeeps
<1> QED  BY <1>2, <1>3

LEMMA SwitchDownKeeps == ASSUME IInv, SwitchDown PROVE IInv'
<1>1. /\ TypeOK /\ s \in Sessions /\ ecu \in Dmes /\ pc = "down"
      /\ ~s.slow /\ outcome = "running" /\ ~s.safe_legacy_fallback
      /\ ~s.destructive_started => s.identified
      /\ s.handling <=> ~s.destructive_started
  BY LoweringFacts DEF SwitchDown, Lowering
<1>2. ecu' \in Dmes /\ faults' \in 0 .. MaxFaults
  BY <1>1, RepliesTyped, DmeTyped DEF SwitchDown
<1>3. CASE Lost(SelectedLow(ecu)) /\ FailLowering(s)
  <2>1. ecu'.cells = ecu.cells /\ ecu'.auth = ecu.auth
    BY <1>1, <1>3, SelectedFields DEF Lost
  <2> QED
    BY <1>1, <1>2, <1>3, <2>1, FailLoweringKeeps DEF Lowering
<1>4. CASE /\ ecu' = SelectedLow(ecu)
           /\ s' = [s EXCEPT !.link = "low", !.state = IF Partial THEN "lowering" ELSE @]
           /\ pc' = "bare"
           /\ Quiet
  <2>0. TypeOK'
    <3>1. (IF Partial THEN "lowering" ELSE s.state) \in HostStates
      BY <1>1 DEF Sessions, HostStates
    <3>2. s' \in Sessions /\ pc' \in Pcs
      BY <1>1, <1>4, <3>1, Labels, SessionSet
    <3> QED
      BY <1>1, <1>2, <1>4, <3>2, QuietTyped
  <2>1. BoundaryInv /\ PhaseInv /\ AuthInv /\ LatchInv /\ EraseInv
    BY <1>1 DEF IInv
  <2>2. OutcomeInv'
    BY <1>1, <1>4, <2>1, SessionHas, SelectedFields
       DEF OutcomeInv, Running, Entry, Authorization, Flashing, Finishing, Lowering,
           Handling, Quiet, gui
  <2>3. BoundaryInv'
    BY <1>1, <1>4, <2>1, SessionHas, SelectedFields DEF BoundaryInv, Affected, Partial, Entry,
         Authorization, Finishing, Probing, Lowering, Quiet, gui
  <2>4. PhaseInv'
    BY <1>1, <1>4, <2>1, SessionHas, SelectedFields DEF PhaseInv, HighState, Partial, Flashing,
         Phases, Done, Finishing, Lowering, Affected, Quiet, gui, HoldsNew
  <2>5. CellsInv'
    BY <1>1, <1>4, <2>1, SessionHas, SelectedFields DEF CellsInv, Array, Quiet, gui
  <2>6. AuthInv'
    BY <1>1, <1>4, <2>1, SessionHas, SelectedFields
       DEF AuthInv, Authorization, Blocked, Quiet, gui
  <2>7. LatchInv'
    BY <1>1, <1>4, <2>1, SessionHas, SelectedFields
       DEF LatchInv, Unannounced, Entry, Authorization, Flashing, Probing, WillRegister,
           Finishing, Lowering, Running, Handling, Quiet, gui
  <2>8. EraseInv'
    BY <1>1, <1>4, <2>1, SessionHas, SelectedFields
       DEF EraseInv, Entry, Authorization, Flashing, Finishing, Quiet, gui
  <2> QED
    BY <1>4, <2>0, <2>2, <2>3, <2>4, <2>5, <2>6, <2>7, <2>8 DEF IInv
<1> QED  BY <1>1, <1>3, <1>4 DEF SwitchDown, Answered

LEMMA BareBmwKeeps == ASSUME IInv, BareBmw PROVE IInv'
<1>1. /\ TypeOK /\ s \in Sessions /\ ecu \in Dmes /\ pc = "bare"
      /\ ~s.slow /\ outcome = "running" /\ ~s.safe_legacy_fallback
      /\ ~s.destructive_started => s.identified
      /\ s.handling <=> ~s.destructive_started
  BY LoweringFacts DEF BareBmw, Lowering
<1>2. ecu' \in Dmes /\ faults' \in 0 .. MaxFaults
  BY <1>1, RepliesTyped, DmeTyped DEF BareBmw
<1>3. CASE Lost(Disarmed(ecu)) /\ FailLowering(s)
  <2>1. ecu'.cells = ecu.cells /\ ecu'.auth = ecu.auth
    BY <1>1, <1>3, DisarmedFields DEF Lost
  <2> QED
    BY <1>1, <1>2, <1>3, <2>1, FailLoweringKeeps DEF Lowering
<1>4. CASE ecu' = Disarmed(ecu) /\ UNCHANGED s /\ pc' = "low_identity" /\ Quiet
  <2>0. TypeOK'
    BY <1>1, <1>2, <1>4, Labels, QuietTyped
  <2>1. BoundaryInv /\ PhaseInv /\ AuthInv /\ LatchInv /\ EraseInv
    BY <1>1 DEF IInv
  <2>2. OutcomeInv'
    BY <1>1, <1>4, <2>1, SessionHas, DisarmedFields
       DEF OutcomeInv, Running, Entry, Authorization, Flashing, Finishing, Lowering,
           Handling, Quiet, gui
  <2>3. BoundaryInv'
    BY <1>1, <1>4, <2>1, SessionHas, DisarmedFields DEF BoundaryInv, Affected, Partial, Entry,
         Authorization, Finishing, Probing, Lowering, Quiet, gui
  <2>4. PhaseInv'
    BY <1>1, <1>4, <2>1, SessionHas, DisarmedFields DEF PhaseInv, HighState, Partial, Flashing,
         Phases, Done, Finishing, Lowering, Affected, Quiet, gui, HoldsNew
  <2>5. CellsInv'
    BY <1>1, <1>4, <2>1, SessionHas, DisarmedFields DEF CellsInv, Array, Quiet, gui
  <2>6. AuthInv'
    BY <1>1, <1>4, <2>1, SessionHas, DisarmedFields
       DEF AuthInv, Authorization, Blocked, Quiet, gui
  <2>7. LatchInv'
    BY <1>1, <1>4, <2>1, SessionHas, DisarmedFields
       DEF LatchInv, Unannounced, Entry, Authorization, Flashing, Probing, WillRegister,
           Finishing, Lowering, Running, Handling, Quiet, gui
  <2>8. EraseInv'
    BY <1>1, <1>4, <2>1, SessionHas, DisarmedFields
       DEF EraseInv, Entry, Authorization, Flashing, Finishing, Quiet, gui
  <2> QED
    BY <1>4, <2>0, <2>2, <2>3, <2>4, <2>5, <2>6, <2>7, <2>8 DEF IInv
<1> QED  BY <1>1, <1>3, <1>4 DEF BareBmw, Answered, Goto

LEMMA LowIdentityKeeps == ASSUME IInv, LowIdentity PROVE IInv'
<1>1. /\ TypeOK /\ s \in Sessions /\ ecu \in Dmes /\ pc = "low_identity"
      /\ ~s.slow /\ outcome = "running" /\ ~s.safe_legacy_fallback
      /\ ~s.destructive_started => s.identified
      /\ s.handling <=> ~s.destructive_started
      /\ s.recovery_replay_attempted => s.destructive_started
      /\ s.failure_state = "tune" => s.kind = "full" /\ Done("program")
      /\ ~s.destructive_started =>
            /\ ~BlockedBy(s)
            /\ ~(ecu.auth = 1 /\ s.seeds > 0)
  BY LoweringFacts DEF LowIdentity, Lowering
<1>2. ecu' = ecu /\ faults' \in 0 .. MaxFaults
  BY <1>1, RepliesTyped DEF LowIdentity, Answered, Lost
<1>3. CASE Lost(ecu) /\ FailLowering(s)
  <2>1. pc \in Lowering
    BY <1>1 DEF Lowering
  <2> QED
    BY <1>1, <1>2, <1>3, <2>1, FailLoweringKeeps
<1>4. ASSUME ~s.handling, NEW state \in {"complete", "cycle"},
             Succeed([s EXCEPT !.state = state])
      PROVE  IInv'
  <2>1. [s EXCEPT !.state = state] \in Sessions
    BY <1>1, SessionSet, Values
  <2> QED
    BY <1>1, <1>2, <1>4, <2>1, SucceedTyped, SucceedKeeps
<1>5. CASE /\ Answered(ecu) /\ s.handling
           /\ Conclude([s EXCEPT !.safe_legacy_fallback = TRUE,
                                 !.fast_write_armed = @ /\ s.state # "armed"], TRUE)
  <2> DEFINE sess == [s EXCEPT !.safe_legacy_fallback = TRUE,
                               !.fast_write_armed = @ /\ s.state # "armed"]
  <2>1. sess \in Sessions
    <3>1. (s.fast_write_armed /\ s.state # "armed") \in BOOLEAN
      OBVIOUS
    <3> QED
      BY <1>1, <3>1, SessionSet
  <2>2. /\ sess.kind = s.kind /\ sess.slow = s.slow
        /\ sess.destructive_started = s.destructive_started
        /\ sess.recovery_replay_attempted = s.recovery_replay_attempted
        /\ sess.failure_state = s.failure_state /\ sess.seeds = s.seeds
        /\ sess.link = s.link
        /\ sess.fast_write_armed <=> s.fast_write_armed /\ s.state # "armed"
        /\ BlockedBy(sess) <=> BlockedBy(s)
    BY <1>1, SessionHas DEF BlockedBy
  <2>3. ecu.rate = "low" /\ s.link = "low" /\ (Unannounced => WillRegister)
    <3>1. LatchInv
      BY <1>1 DEF IInv
    <3> QED
      BY <1>1, <1>5, <3>1 DEF LatchInv, Answered, Reached, Hears
  <2>4. Unannounced' => Pending(sess)
    <3>1. lapses' = lapses
      BY <1>5 DEF Conclude
    <3> QED
      BY <1>2, <2>2, <2>3, <3>1 DEF Unannounced, WillRegister, Pending
  <2>5. Conclude(sess, TRUE)
    BY <1>5
  <2> HIDE DEF sess
  <2>6. TypeOK'
    BY <1>1, <1>2, <2>1, <2>5, ConcludeTyped, Labels DEF TypeOK
  <2> QED
    BY <1>1, <1>2, <1>5, <2>1, <2>2, <2>3, <2>4, <2>5, <2>6, ConcludeKeeps
<1> QED  BY <1>1, <1>3, <1>4, <1>5 DEF LowIdentity

LEMMA HandleKeeps == ASSUME IInv, Handle PROVE IInv'
<1> DEFINE failed == [s EXCEPT !.failure_state = s.state,
                               !.handling = ~s.destructive_started,
                               !.fast_write_armed = @ /\ ~s.recovery_replay_attempted,
                               !.recovery_replay_attempted = Spent]
<1>1. TypeOK /\ s \in Sessions /\ pc = "handler" /\ ecu' = ecu /\ faults' = faults
  BY DEF IInv, TypeOK, Handle, NoFault
<1>2. OutcomeInv /\ BoundaryInv /\ PhaseInv /\ AuthInv /\ LatchInv
  BY <1>1 DEF IInv
<1>3. ~s.slow /\ outcome = "running"
  BY <1>1, <1>2 DEF OutcomeInv, Running, Handling, Entry, Authorization
<1>4. /\ ~s.handling /\ ~s.safe_legacy_fallback
      /\ s.recovery_replay_attempted => s.destructive_started
  BY <1>1, <1>2 DEF BoundaryInv, Probing, Lowering
<1>5. failed \in Sessions
  <2>1. /\ s.state \in HostStates /\ (~s.destructive_started) \in BOOLEAN
        /\ (s.fast_write_armed /\ ~s.recovery_replay_attempted) \in BOOLEAN
        /\ Spent \in BOOLEAN
    BY <1>1 DEF Sessions, Spent
  <2> QED
    BY <1>1, <2>1, SessionSet
<1>6. /\ failed.kind = s.kind /\ failed.slow = s.slow /\ failed.state = s.state
      /\ failed.destructive_started = s.destructive_started
      /\ failed.failure_state = s.state /\ failed.seeds = s.seeds /\ failed.a2 = s.a2
      /\ failed.safe_legacy_fallback = s.safe_legacy_fallback
      /\ failed.link = s.link /\ failed.identified = s.identified
      /\ failed.write_authorized = s.write_authorized
      /\ failed.authorization_may_be_active = s.authorization_may_be_active
      /\ failed.authorization_state_requires_cycle = s.authorization_state_requires_cycle
      /\ failed.handling <=> ~s.destructive_started
      /\ failed.fast_write_armed <=> s.fast_write_armed /\ ~s.recovery_replay_attempted
      /\ failed.recovery_replay_attempted
            <=> s.recovery_replay_attempted \/ (s.destructive_started /\ s.a2)
  BY <1>1, SessionHas DEF Spent
<1>7. s.state = "tune" => s.kind = "full" /\ Done("program")
  BY <1>2 DEF PhaseInv
<1>8. ~s.destructive_started /\ ecu.auth = 1 /\ s.seeds > 0 => BlockedBy(s)
  BY <1>1, <1>2 DEF AuthInv, Blocked, BlockedBy
<1>9. CASE Conclude(failed, FALSE)
  <2>1. BlockedBy(failed) <=> BlockedBy(s)
    BY <1>6 DEF BlockedBy
  <2> HIDE DEF failed
  <2>2. TypeOK'
    BY <1>1, <1>5, <1>9, ConcludeTyped, Labels DEF TypeOK
  <2> QED
    BY <1>1, <1>3, <1>4, <1>5, <1>6, <1>7, <1>8, <1>9, <2>1, <2>2, ConcludeKeeps
<1>10. CASE /\ ~s.destructive_started /\ ~Blocked /\ s.identified
            /\ s' = failed /\ Quiet
            /\ pc' = "probe_high" \/ (pc' = "low_identity" /\ s.link = "low")
  <2> HIDE DEF failed
  <2>0. TypeOK'
    BY <1>1, <1>5, <1>10, Labels, QuietTyped DEF TypeOK
  <2>1. OutcomeInv'
    BY <1>1, <1>2, <1>3, <1>4, <1>6, <1>10 DEF OutcomeInv, Running, Entry, Authorization,
         Flashing, Finishing, Lowering, Handling, Quiet, gui
  <2>2. BoundaryInv'
    BY <1>1, <1>2, <1>3, <1>4, <1>6, <1>10 DEF BoundaryInv, Affected, Partial, Entry,
         Authorization, Finishing, Probing, Lowering, Quiet, gui
  <2>3. PhaseInv'
    BY <1>1, <1>2, <1>3, <1>4, <1>6, <1>10 DEF PhaseInv, HighState, Partial, Flashing,
         Phases, Done, Finishing, Lowering, Affected, Quiet, gui, HoldsNew
  <2>4. CellsInv'
    BY <1>1, <1>2, <1>3, <1>4, <1>6, <1>10 DEF CellsInv, Array, Quiet, gui
  <2>5. AuthInv'
    BY <1>1, <1>2, <1>3, <1>4, <1>6, <1>10 DEF AuthInv, Authorization, Blocked, Quiet, gui
  <2>6. LatchInv'
    BY <1>1, <1>2, <1>3, <1>4, <1>6, <1>10 DEF LatchInv, Unannounced, Entry, Authorization,
         Flashing, Probing, WillRegister, Finishing, Lowering, Running, Handling, Quiet, gui
  <2>7. EraseInv'
    BY <1>1, <1>2, <1>3, <1>4, <1>6, <1>10 DEF EraseInv, Entry, Authorization, Flashing,
         Finishing, Quiet, gui
  <2> QED
    BY <1>10, <2>0, <2>1, <2>2, <2>3, <2>4, <2>5, <2>6, <2>7 DEF IInv
<1> QED
  <2>1. \/ Conclude(failed, FALSE)
        \/ /\ ~s.destructive_started /\ ~Blocked /\ s.identified /\ s' = failed /\ Quiet
           /\ pc' = "probe_high" \/ (pc' = "low_identity" /\ s.link = "low")
    <3> DEFINE atLow == s.link = "low" /\ s.identified /\ ~s.write_authorized
    <3>1. CASE s.destructive_started \/ Blocked
      BY <3>1 DEF Handle
    <3>2. CASE ~s.destructive_started /\ ~Blocked /\ ~s.identified
      BY <3>2 DEF Handle
    <3>3. CASE ~s.destructive_started /\ ~Blocked /\ s.identified /\ atLow
      BY <3>3 DEF Handle
    <3>4. CASE ~s.destructive_started /\ ~Blocked /\ s.identified /\ ~atLow
      BY <3>4 DEF Handle
    <3> QED
      BY <3>1, <3>2, <3>3, <3>4
  <2> QED
    BY <1>9, <1>10, <2>1

LEMMA ProbeHighKeeps == ASSUME IInv, ProbeHigh PROVE IInv'
<1>1. /\ TypeOK /\ s \in Sessions /\ ecu \in Dmes /\ pc = "probe_high"
      /\ ~s.slow /\ outcome = "running" /\ ~s.safe_legacy_fallback
      /\ ~s.destructive_started => s.identified
      /\ s.handling <=> ~s.destructive_started
  BY LoweringFacts DEF ProbeHigh, Probing
<1>2. BoundaryInv /\ PhaseInv /\ AuthInv /\ LatchInv /\ EraseInv
  BY <1>1 DEF IInv
<1>3. ~s.destructive_started
  BY <1>1, <1>2 DEF BoundaryInv, Probing
<1>4. PICK state \in {s.state, HighState} :
         /\ s' = [s EXCEPT !.link = "high", !.state = state]
         /\ ecu' = ecu
         /\ \/ pc' = "down" /\ state = HighState /\ ecu.rate = "high"
            \/ pc' = "probe_low"
  <2>1. CASE /\ Hears(ecu, "high") /\ UNCHANGED ecu
             /\ s' = [[s EXCEPT !.link = "high"] EXCEPT !.state = HighState]
             /\ pc' = "down"
    BY <2>1 DEF Hears
  <2>2. CASE UNCHANGED ecu /\ s' = [s EXCEPT !.link = "high"] /\ pc' = "probe_low"
    <3>1. [s EXCEPT !.link = "high", !.state = s.state] = [s EXCEPT !.link = "high"]
      BY <1>1, SessionHas
    <3> QED
      BY <2>2, <3>1
  <2> QED
    BY <2>1, <2>2 DEF ProbeHigh
<1>5. faults' \in 0 .. MaxFaults /\ Quiet
  BY <1>1, NativeFastAssumption DEF ProbeHigh, TypeOK, Fault, NoFault
<1>6. TypeOK'
  <2>1. state \in HostStates
    BY <1>1 DEF Sessions, HostStates, HighState
  <2>2. s' \in Sessions
    BY <1>1, <1>4, <2>1, SessionSet
  <2> QED
    BY <1>1, <1>4, <1>5, <2>2, Labels, QuietTyped
<1>7. OutcomeInv'
  BY <1>1, <1>2, <1>3, <1>4, <1>5, SessionHas DEF OutcomeInv, Running, Entry, Authorization,
         Flashing, Finishing, Lowering, Handling, Quiet, gui
<1>8. BoundaryInv'
  BY <1>1, <1>2, <1>3, <1>4, <1>5, SessionHas DEF BoundaryInv, Affected, Partial, Entry,
         Authorization, Finishing, Probing, Lowering, Quiet, gui
<1>9. PhaseInv'
  BY <1>1, <1>2, <1>3, <1>4, <1>5, SessionHas
     DEF PhaseInv, HighState, Partial, Flashing, Phases, Done, Finishing, Lowering,
         Affected, Quiet, gui, HoldsNew
<1>10. CellsInv'
  BY <1>1, <1>2, <1>3, <1>4, <1>5, SessionHas DEF CellsInv, Array, Quiet, gui
<1>11. AuthInv'
  BY <1>1, <1>2, <1>3, <1>4, <1>5, SessionHas DEF AuthInv, Authorization, Blocked, Quiet, gui
<1>12. LatchInv'
  <2>1. /\ s'.destructive_started = s.destructive_started /\ s'.handling = s.handling
        /\ s'.identified = s.identified /\ s'.slow = s.slow /\ s'.state = state
        /\ s'.safe_legacy_fallback = s.safe_legacy_fallback
        /\ s'.fast_write_armed = s.fast_write_armed
        /\ registry' = registry /\ Unannounced' = Unannounced /\ ecu'.rate = ecu.rate
    BY <1>1, <1>4, <1>5, SessionHas DEF Quiet, gui, Unannounced
  <2>2. ecu.rate = "high" => s.fast_write_armed
    BY <1>1, <1>2, <1>3 DEF LatchInv, Running, Handling
  <2>3. Unannounced => registry
    BY <1>1, <1>2, <1>3 DEF LatchInv, Probing
  <2>4. CASE pc' = "down" /\ state = HighState /\ ecu.rate = "high"
    BY <1>1, <1>3, <2>1, <2>2, <2>3, <2>4
       DEF LatchInv, Entry, Authorization, Flashing, HighState
  <2>5. CASE pc' = "probe_low"
    BY <1>1, <1>3, <2>1, <2>2, <2>3, <2>5 DEF LatchInv, Entry, Authorization, Flashing
  <2> QED
    BY <1>4, <2>4, <2>5
<1>13. EraseInv'
  BY <1>1, <1>2, <1>3, <1>4, <1>5, SessionHas DEF EraseInv, Entry, Authorization, Flashing,
         Finishing, Quiet, gui
<1> QED
  BY <1>4, <1>6, <1>7, <1>8, <1>9, <1>10, <1>11, <1>12, <1>13 DEF IInv

LEMMA ProbeLowKeeps == ASSUME IInv, ProbeLow PROVE IInv'
<1>1. /\ TypeOK /\ s \in Sessions /\ ecu \in Dmes /\ pc = "probe_low"
      /\ ~s.slow /\ outcome = "running" /\ ~s.safe_legacy_fallback
      /\ ~s.destructive_started => s.identified
      /\ s.handling <=> ~s.destructive_started
      /\ s.recovery_replay_attempted => s.destructive_started
      /\ s.failure_state = "tune" => s.kind = "full" /\ Done("program")
      /\ ~s.destructive_started =>
            /\ ~BlockedBy(s)
            /\ ~(ecu.auth = 1 /\ s.seeds > 0)
  BY LoweringFacts DEF ProbeLow, Probing
<1>2. BoundaryInv /\ PhaseInv /\ AuthInv /\ LatchInv /\ EraseInv
  BY <1>1 DEF IInv
<1>3. ~s.destructive_started
  BY <1>1, <1>2 DEF BoundaryInv, Probing
<1>4. ecu' = ecu /\ faults' \in 0 .. MaxFaults
  <2>1. ecu' = ecu /\ (Fault \/ NoFault)
    BY DEF ProbeLow
  <2> QED
    BY <1>1, <2>1, NativeFastAssumption DEF TypeOK, Fault, NoFault
<1>5. CASE s' = [s EXCEPT !.link = "low"] /\ pc' = "low_identity" /\ Quiet
  <2>0. TypeOK'
    BY <1>1, <1>4, <1>5, SessionSet, Labels, QuietTyped
  <2>1. OutcomeInv'
    BY <1>1, <1>2, <1>3, <1>4, <1>5, SessionHas DEF OutcomeInv, Running, Entry, Authorization,
         Flashing, Finishing, Lowering, Handling, Quiet, gui
  <2>2. BoundaryInv'
    BY <1>1, <1>2, <1>3, <1>4, <1>5, SessionHas DEF BoundaryInv, Affected, Partial, Entry,
         Authorization, Finishing, Probing, Lowering, Quiet, gui
  <2>3. PhaseInv'
    BY <1>1, <1>2, <1>3, <1>4, <1>5, SessionHas
       DEF PhaseInv, HighState, Partial, Flashing, Phases, Done, Finishing, Lowering,
           Affected, Quiet, gui, HoldsNew
  <2>4. CellsInv'
    BY <1>1, <1>2, <1>3, <1>4, <1>5, SessionHas DEF CellsInv, Array, Quiet, gui
  <2>5. AuthInv'
    BY <1>1, <1>2, <1>3, <1>4, <1>5, SessionHas DEF AuthInv, Authorization, Blocked, Quiet, gui
  <2>6. LatchInv'
    BY <1>1, <1>2, <1>3, <1>4, <1>5, SessionHas DEF LatchInv, Unannounced, Entry, Authorization,
         Flashing, Probing, WillRegister, Finishing, Lowering, Running, Handling, Quiet, gui
  <2>7. EraseInv'
    BY <1>1, <1>2, <1>3, <1>4, <1>5, SessionHas DEF EraseInv, Entry, Authorization, Flashing,
         Finishing, Quiet, gui
  <2> QED
    BY <1>5, <2>0, <2>1, <2>2, <2>3, <2>4, <2>5, <2>6, <2>7 DEF IInv
<1>6. CASE Conclude([s EXCEPT !.link = "unknown"], FALSE)
  <2> DEFINE sess == [s EXCEPT !.link = "unknown"]
  <2>1. sess \in Sessions
    BY <1>1, SessionSet
  <2>2. /\ sess.kind = s.kind /\ sess.slow = s.slow
        /\ sess.destructive_started = s.destructive_started
        /\ sess.recovery_replay_attempted = s.recovery_replay_attempted
        /\ sess.failure_state = s.failure_state /\ sess.seeds = s.seeds
        /\ sess.safe_legacy_fallback = s.safe_legacy_fallback
    BY <1>1, SessionHas
  <2>3. Conclude(sess, FALSE)
    BY <1>6
  <2> HIDE DEF sess
  <2>4. TypeOK'
    BY <1>1, <1>4, <2>1, <2>3, ConcludeTyped, Labels DEF TypeOK
  <2> QED
    BY <1>1, <1>3, <1>4, <2>1, <2>2, <2>3, <2>4, ConcludeKeeps
<1> QED  BY <1>5, <1>6 DEF ProbeLow

\* The array of the phase is one of those the write is for.
LEMMA ArrayFacts ==
    ASSUME IInv, pc \in Flashing
    PROVE  /\ Array \in Arrays /\ Array \in Affected
           /\ Array = "program" => s.state = "program" /\ s.failure_state # "tune"
           /\ s.kind = "full" /\ Array = "tune" => Done("program")
           /\ s.kind = "full" /\ Array # "program" => s.state = "tune"
           /\ Partial <=> s.state = "partial"
           /\ s.kind \in {"partial", "full", "program_only"}
           /\ s.kind = "program_only" => Array = "program"
           /\ s.state = "tune" => Array = "tune" /\ s.kind = "full"
<1>1. PhaseInv /\ s.kind \in Kinds
  BY DEF IInv, TypeOK, Sessions, Flashing
<1>2. s.kind \in {"partial", "full", "program_only"}
  BY <1>1, NativeFastAssumption
<1> QED
  BY <1>1, <1>2 DEF PhaseInv, Phases, Partial, Array, Arrays, Affected

LEMMA EraseKeeps == ASSUME IInv, Erase PROVE IInv'
<1> DEFINE counted == [erases EXCEPT ![Array] = @ + 1]
<1>1. /\ TypeOK /\ s \in Sessions /\ ecu \in Dmes /\ pc = "erase" /\ pc \in Flashing
      /\ ~s.slow /\ ~s.handling /\ ~s.safe_legacy_fallback
      /\ outcome = "running"
  BY FlashFacts DEF Erase, Flashing
<1>2. BoundaryInv /\ PhaseInv /\ CellsInv /\ AuthInv /\ LatchInv /\ EraseInv
  BY <1>1 DEF IInv
<1>3. /\ Array \in Arrays /\ Array \in Affected
      /\ Array = "program" => s.state = "program" /\ s.failure_state # "tune"
  BY <1>1, ArrayFacts
<1>4. /\ AtBoundary \in Sessions
      /\ \A a2 \in BOOLEAN : [AtBoundary EXCEPT !.a2 = a2] \in Sessions
  <2>1. 1 \in 1 .. Packets /\ 1 \in 1 .. MaxTries
    BY DmeAssumption, NativeFastAssumption
  <2> QED
    BY <1>1, <2>1, SessionSet DEF AtBoundary
<1>5. \/ /\ ecu' = Erased(ecu, Array) /\ erases' = counted /\ NoFault
         /\ s' = AtBoundary /\ pc' = "program"
      \/ /\ \/ ecu' = ecu /\ erases' = erases
            \/ ecu' = Erased(ecu, Array) /\ erases' = counted
         /\ Fault \/ NoFault
         /\ \E sess \in Sessions, error \in Errors :
               /\ sess = AtBoundary \/ \E a2 \in BOOLEAN : sess = [AtBoundary EXCEPT !.a2 = a2]
               /\ Raise(sess, error)
  BY <1>4, Values DEF Erase, Answered, Refused
<1>6. /\ s'.kind = s.kind /\ s'.slow = s.slow /\ s'.handling = s.handling
      /\ s'.destructive_started /\ s'.state = s.state /\ s'.failure_state = s.failure_state
      /\ s'.recovery_replay_attempted = s.recovery_replay_attempted
      /\ s'.safe_legacy_fallback = s.safe_legacy_fallback
      /\ s'.identified = s.identified /\ s'.flash_completed = s.flash_completed
      /\ pc' = "program" => s' = AtBoundary /\ s'.pkt = 1 /\ ~s'.suffix /\ s'.a2 = s.a2
      /\ pc' \in {"program", "handler"}
  <2>1. CASE s' = AtBoundary /\ pc' = "program"
    BY <1>1, <2>1, SessionHas DEF AtBoundary
  <2>2. CASE \E sess \in Sessions, error \in Errors :
               /\ sess = AtBoundary \/ \E a2 \in BOOLEAN : sess = [AtBoundary EXCEPT !.a2 = a2]
               /\ Raise(sess, error)
    <3>1. PICK sess \in Sessions, error \in Errors :
               /\ sess = AtBoundary \/ \E a2 \in BOOLEAN : sess = [AtBoundary EXCEPT !.a2 = a2]
               /\ Raise(sess, error)
      BY <2>2
    <3>2. /\ sess.kind = s.kind /\ sess.slow = s.slow /\ sess.handling = s.handling
          /\ sess.destructive_started /\ sess.state = s.state
          /\ sess.failure_state = s.failure_state
          /\ sess.recovery_replay_attempted = s.recovery_replay_attempted
          /\ sess.safe_legacy_fallback = s.safe_legacy_fallback
          /\ sess.identified = s.identified /\ sess.flash_completed = s.flash_completed
      BY <1>1, <1>4, <3>1, SessionHas DEF AtBoundary
    <3>3. s' = [sess EXCEPT !.error = error] /\ pc' = "handler"
      BY <1>1, <3>1 DEF Raise
    <3> QED
      BY <3>2, <3>3, SessionHas
  <2> QED
    BY <1>5, <2>1, <2>2
<1>7. /\ erases' \in [Arrays -> Nat]
      /\ \A a \in Arrays \ {Array} : erases'[a] = erases[a]
      /\ pc' = "program" => ecu' = Erased(ecu, Array) /\ erases'[Array] > 0
      /\ ecu' \in {ecu, Erased(ecu, Array)} /\ ecu' \in Dmes
      /\ faults' \in 0 .. MaxFaults
  <2>1. erases \in [Arrays -> Nat]
    BY <1>1 DEF TypeOK
  <2>2. /\ counted \in [Arrays -> Nat] /\ counted[Array] > 0
        /\ \A a \in Arrays \ {Array} : counted[a] = erases[a]
    BY <1>3, <2>1
  <2>3. Erased(ecu, Array) \in Dmes
    BY <1>1, <1>3, DmeTyped
  <2>4. faults' \in 0 .. MaxFaults
    BY <1>1, <1>5, NativeFastAssumption DEF TypeOK, Fault, NoFault
  <2> HIDE DEF counted
  <2> QED
    BY <1>1, <1>5, <2>1, <2>2, <2>3, <2>4 DEF Raise
<1>8. UNCHANGED gui
  BY DEF Erase
<1>9. TypeOK'
  <2>1. s' \in Sessions
    BY <1>4, <1>5, RaiseTyped
  <2> QED
    BY <1>1, <1>6, <1>7, <1>8, <2>1, Labels DEF TypeOK, gui
<1>10. OutcomeInv'
  BY <1>1, <1>6, <1>8 DEF OutcomeInv, gui, Running, Entry, Authorization, Flashing, Handling
<1>11. BoundaryInv'
  BY <1>1, <1>2, <1>3, <1>6, <1>7 DEF BoundaryInv, Affected, Partial, Entry, Authorization,
         Finishing, Probing, Lowering
<1>12. Done("program")' \/ s.kind # "full" \/ Array = "program" \/ ~Done("program")
  <2>1. CASE Array = "tune"
    <3>1. ecu'.cells["program"] = ecu.cells["program"]
      BY <1>1, <1>3, <1>7, <2>1, FlashFields DEF Arrays
    <3>2. erases'["program"] = erases["program"]
      BY <1>7, <2>1 DEF Arrays
    <3> QED
      BY <3>1, <3>2 DEF Done, HoldsNew
  <2> QED
    BY <1>3, <2>1 DEF Arrays
<1>13. PhaseInv'
  BY <1>1, <1>2, <1>3, <1>6, <1>12 DEF PhaseInv, Flashing, Phases, Partial, Finishing, Lowering
<1>14. CellsInv'
  <2>1. CASE pc' = "program"
    <3>1. Array' = Array /\ s'.pkt = 1 /\ ~s'.suffix
      BY <1>6, <2>1 DEF Array
    <3>2. \A p \in 1 .. Packets : ecu'.cells[Array][p] = "blank"
      BY <1>1, <1>3, <1>7, <2>1, FlashFields
    <3>3. 1 \in 1 .. Packets /\ \A p \in 1 .. Packets : ~(p < 1)
      BY DmeAssumption
    <3> QED
      BY <1>7, <2>1, <3>1, <3>2, <3>3 DEF CellsInv
  <2> QED
    BY <1>6, <2>1 DEF CellsInv
<1>15. AuthInv'
  BY <1>1, <1>6 DEF AuthInv, Authorization
<1>16. LatchInv'
  BY <1>1, <1>6 DEF LatchInv, Entry, Authorization
<1>17. EraseInv'
  BY <1>1, <1>2, <1>6 DEF EraseInv, Entry, Authorization, Flashing, Finishing
<1> QED
  BY <1>6, <1>9, <1>10, <1>11, <1>13, <1>14, <1>15, <1>16, <1>17 DEF IInv

\* What a packet that is written leaves of the arrays.
LEMMA PacketFacts ==
    ASSUME IInv, pc \in {"program", "readback"}
    PROVE  /\ TypeOK /\ s \in Sessions /\ ecu \in Dmes /\ pc \in Flashing
           /\ ~s.slow /\ ~s.handling /\ ~s.safe_legacy_fallback /\ s.destructive_started
           /\ outcome = "running"
           /\ Array \in Arrays /\ Array \in Affected
           /\ s.pkt \in 1 .. Packets /\ ecu.cells[Array][s.pkt] \in Cells
           /\ erases[Array] > 0
           /\ \A p \in 1 .. Packets : /\ p < s.pkt => ecu.cells[Array][p] = "new"
                                      /\ p > s.pkt => ecu.cells[Array][p] = "blank"
<1>1. pc \in Flashing
  BY DEF Flashing
<1>2. CellsInv
  BY DEF IInv
<1>3. /\ TypeOK /\ s \in Sessions /\ ecu \in Dmes
      /\ ~s.slow /\ ~s.handling /\ ~s.safe_legacy_fallback /\ s.destructive_started
      /\ outcome = "running"
  BY <1>1, FlashFacts
<1>4. s.pkt \in 1 .. Packets
  BY <1>3 DEF Sessions
<1>5. Array \in Arrays /\ Array \in Affected
  BY <1>1, ArrayFacts
<1>6. ecu.cells[Array][s.pkt] \in Cells
  <2>1. ecu.cells \in [Arrays -> [1 .. Packets -> Cells]]
    BY <1>3 DEF Dmes
  <2> QED
    BY <1>4, <1>5, <2>1
<1> QED  BY <1>1, <1>2, <1>3, <1>4, <1>5, <1>6 DEF CellsInv

\* A step of the writing that stays with the array: the next packet, the same
\* again, its readback, or the error of a bad echo.
Writes ==
    /\ pc' \in {"program", "readback", "handler"}
    /\ Quiet
    /\ s'.kind = s.kind /\ s'.slow = s.slow /\ s'.handling = s.handling
    /\ s'.state = s.state /\ s'.failure_state = s.failure_state
    /\ s'.destructive_started = s.destructive_started
    /\ s'.recovery_replay_attempted = s.recovery_replay_attempted
    /\ s'.safe_legacy_fallback = s.safe_legacy_fallback
    /\ s'.identified = s.identified
    /\ s'.a2 = s.a2 /\ s'.flash_completed = s.flash_completed
    /\ \A a \in Arrays \ {Array} : ecu'.cells[a] = ecu.cells[a]

LEMMA WritesKeeps ==
    ASSUME IInv, TypeOK', pc \in {"program", "readback"}, Writes, CellsInv'
    PROVE  IInv'
<1>1. /\ TypeOK /\ pc \in Flashing
      /\ ~s.slow /\ ~s.handling /\ ~s.safe_legacy_fallback /\ s.destructive_started
      /\ outcome = "running"
      /\ Array \in Arrays
      /\ Array = "program" => s.state = "program" /\ s.failure_state # "tune"
  BY PacketFacts, ArrayFacts
<1>2. BoundaryInv /\ PhaseInv /\ EraseInv
  BY <1>1 DEF IInv, Flashing
<1>3. /\ pc' \in {"program", "readback", "handler"}
      /\ s'.kind = s.kind /\ s'.slow = s.slow /\ s'.handling = s.handling
      /\ s'.state = s.state /\ s'.failure_state = s.failure_state
      /\ s'.destructive_started = s.destructive_started
      /\ s'.recovery_replay_attempted = s.recovery_replay_attempted
      /\ s'.safe_legacy_fallback = s.safe_legacy_fallback
      /\ s'.identified = s.identified
      /\ s'.a2 = s.a2 /\ s'.flash_completed = s.flash_completed
      /\ erases' = erases /\ outcome' = outcome
  BY DEF Writes, Quiet, gui
<1>4. Done("program")' \/ Array = "program" \/ ~Done("program")
  BY <1>1, <1>3 DEF Writes, Done, HoldsNew, Arrays
<1>5. OutcomeInv'
  BY <1>1, <1>3 DEF OutcomeInv, Running, Entry, Authorization, Flashing, Handling
<1>6. BoundaryInv'
  BY <1>1, <1>2, <1>3 DEF BoundaryInv, Affected, Partial, Entry, Authorization, Finishing,
         Probing, Lowering
<1>7. PhaseInv'
  BY <1>1, <1>2, <1>3, <1>4 DEF PhaseInv, Flashing, Phases, Partial, Finishing, Lowering
<1>8. AuthInv' /\ LatchInv'
  BY <1>1, <1>3 DEF AuthInv, LatchInv, Entry, Authorization
<1>9. EraseInv'
  BY <1>1, <1>2, <1>3 DEF EraseInv, Entry, Authorization, Flashing, Finishing
<1> QED
  BY <1>3, <1>5, <1>6, <1>7, <1>8, <1>9 DEF IInv

LEMMA PacketDoneKeeps ==
    ASSUME IInv, pc \in {"program", "readback"}, PacketDone, Quiet,
           ecu' \in Dmes, faults' \in 0 .. MaxFaults,
           ecu'.cells[Array][s.pkt] = "new",
           \A q \in (1 .. Packets) \ {s.pkt} : ecu'.cells[Array][q] = ecu.cells[Array][q],
           \A a \in Arrays \ {Array} : ecu'.cells[a] = ecu.cells[a]
    PROVE  IInv'
<1> DEFINE next == [s EXCEPT !.tries = 1, !.suffix = FALSE]
<1>1. /\ TypeOK /\ s \in Sessions /\ pc \in Flashing
      /\ ~s.slow /\ ~s.handling /\ ~s.safe_legacy_fallback /\ s.destructive_started
      /\ outcome = "running"
      /\ Array \in Arrays /\ Array \in Affected /\ s.pkt \in 1 .. Packets
      /\ erases[Array] > 0
      /\ \A p \in 1 .. Packets : /\ p < s.pkt => ecu.cells[Array][p] = "new"
                                 /\ p > s.pkt => ecu.cells[Array][p] = "blank"
  BY PacketFacts
<1>2. BoundaryInv /\ PhaseInv /\ EraseInv
  BY <1>1 DEF IInv, Flashing
<1>3. \A p \in 1 .. Packets : /\ p <= s.pkt => ecu'.cells[Array][p] = "new"
                              /\ p > s.pkt => ecu'.cells[Array][p] = "blank"
  BY <1>1
<1>4. next \in Sessions
  <2>1. 1 \in 1 .. MaxTries
    BY NativeFastAssumption
  <2> QED
    BY <1>1, <2>1, SessionSet
<1>5. /\ next.kind = s.kind /\ next.slow = s.slow /\ next.handling = s.handling
      /\ next.state = s.state /\ next.failure_state = s.failure_state
      /\ next.destructive_started = s.destructive_started
      /\ next.recovery_replay_attempted = s.recovery_replay_attempted
      /\ next.safe_legacy_fallback = s.safe_legacy_fallback
      /\ next.identified = s.identified /\ next.pkt = s.pkt /\ ~next.suffix
      /\ next.a2 = s.a2 /\ next.flash_completed = s.flash_completed
  BY <1>1, SessionHas
<1>6. CASE s.pkt < Packets
  <2>1. s' = [next EXCEPT !.pkt = @ + 1] /\ pc' = "program"
    BY <1>6 DEF PacketDone
  <2> HIDE DEF next
  <2>2. s.pkt + 1 \in 1 .. Packets
    BY <1>1, <1>6, DmeAssumption
  <2>3. s' \in Sessions
    BY <1>4, <1>5, <2>1, <2>2, SessionSet
  <2>4. TypeOK'
    BY <1>1, <2>1, <2>3, Labels, QuietTyped
  <2>5. Writes /\ Array' = Array /\ s'.pkt = s.pkt + 1 /\ ~s'.suffix
    BY <1>4, <1>5, <2>1, SessionHas DEF Writes, Array
  <2>6. CellsInv'
    <3>1. \A p \in 1 .. Packets : /\ p < s.pkt + 1 => ecu'.cells[Array][p] = "new"
                                  /\ p > s.pkt => ecu'.cells[Array][p] = "blank"
      BY <1>1, <1>3, DmeAssumption
    <3>2. erases'[Array] > 0
      BY <1>1 DEF Quiet
    <3>3. \A p \in 1 .. Packets : p > s.pkt + 1 => p > s.pkt
      BY <1>1, DmeAssumption
    <3> QED
      BY <1>1, <2>1, <2>2, <2>5, <3>1, <3>2, <3>3, DmeAssumption DEF CellsInv
  <2> QED
    BY <2>4, <2>5, <2>6, WritesKeeps
<1>7. CASE ~(s.pkt < Packets)
  <2>1. ArrayDone(next)
    BY <1>7 DEF PacketDone
  <2> HIDE DEF next
  <2>3. \A p \in 1 .. Packets : ecu'.cells[Array][p] = "new"
    BY <1>1, <1>3, <1>7, DmeAssumption
  <2>4. erases' = erases /\ outcome' = outcome /\ erases[Array] > 0
    BY <1>1 DEF Quiet, gui
  <2>5. ASSUME NEW a \in Arrays, a = Array \/ Done(a)
        PROVE  HoldsNew(ecu', a) /\ erases'[a] > 0
    BY <2>3, <2>4, <2>5 DEF Done, HoldsNew
  <2>6. \/ /\ s.kind = "full" /\ Array = "program"
           /\ s' = [next EXCEPT !.state = "tune", !.recovering = FALSE] /\ pc' = "tune_poll"
        \/ /\ s.kind = "full" /\ Array = "tune"
           /\ s' = next /\ pc' = "post_poll"
        \/ /\ s.kind # "full"
           /\ s' = [next EXCEPT !.state = "finalize"] /\ pc' = "fin_seed"
    BY <1>1, <2>1 DEF ArrayDone, Arrays
  <2>7. s' \in Sessions
    <3>1. /\ [next EXCEPT !.state = "tune", !.recovering = FALSE] \in Sessions
          /\ [next EXCEPT !.state = "finalize"] \in Sessions
      BY <1>4, SessionSet, Values
    <3> QED
      BY <1>4, <2>6, <3>1
  <2>8. TypeOK'
    BY <1>1, <2>6, <2>7, Labels, QuietTyped
  <2>9. /\ s'.kind = s.kind /\ s'.slow = s.slow /\ s'.handling = s.handling
        /\ s'.failure_state = s.failure_state
        /\ s'.destructive_started = s.destructive_started
        /\ s'.recovery_replay_attempted = s.recovery_replay_attempted
        /\ s'.safe_legacy_fallback = s.safe_legacy_fallback
        /\ s'.identified = s.identified
        /\ s'.a2 = s.a2 /\ s'.flash_completed = s.flash_completed
        /\ \/ s.kind = "full" /\ Array = "program" /\ s'.state = "tune" /\ pc' = "tune_poll"
           \/ s.kind = "full" /\ Array = "tune" /\ s'.state = s.state /\ pc' = "post_poll"
           \/ s.kind # "full" /\ s'.state = "finalize" /\ pc' = "fin_seed"
    BY <1>4, <1>5, <2>6, SessionHas
  <2>10. /\ s.kind = "full" /\ Array = "tune" => Done("program")
         /\ s.kind = "full" /\ Array # "program" => s.state = "tune"
         /\ Array = "program" => s.failure_state # "tune"
         /\ s.kind # "full" => s.failure_state # "tune"
         /\ s.kind # "full" => Affected = {Array}
         /\ s.kind = "full" => Affected = Arrays /\ ~Partial
    <3>1. /\ s.kind = "full" /\ Array = "tune" => Done("program")
          /\ s.kind = "full" /\ Array # "program" => s.state = "tune"
          /\ Array = "program" => s.failure_state # "tune"
          /\ s.kind = "program_only" => Array = "program"
          /\ s.kind \in {"partial", "full", "program_only"}
      BY <1>1, ArrayFacts
    <3>2. s.kind # "full" => s.failure_state # "tune"
      BY <1>2 DEF PhaseInv
    <3> QED
      BY <1>1, <3>1, <3>2 DEF Affected, Partial
  <2>11. OutcomeInv'
    BY <1>1, <2>4, <2>9 DEF OutcomeInv, Running, Entry, Authorization, Flashing, Finishing
  <2>12. BoundaryInv'
    BY <1>1, <1>2, <2>4, <2>9 DEF BoundaryInv, Affected, Partial, Entry, Authorization,
           Finishing, Probing, Lowering
  <2>13. PhaseInv'
    <3>1. s.kind = "full" => HoldsNew(ecu', "program") /\ erases'["program"] > 0
      BY <1>1, <2>5, <2>10 DEF Arrays
    <3>2. pc' # "tune_poll" => \A a \in Affected : HoldsNew(ecu', a) /\ erases'[a] > 0
      BY <1>1, <2>5, <2>9, <2>10 DEF Arrays
    <3>3. Affected' = Affected /\ Partial' = Partial
      BY <2>9 DEF Affected, Partial
    <3> QED
      BY <2>9, <2>10, <3>1, <3>2, <3>3 DEF PhaseInv, Done, Flashing, Phases, Finishing, Lowering
  <2>14. CellsInv'
    BY <2>9 DEF CellsInv
  <2>15. AuthInv' /\ LatchInv'
    BY <1>1, <2>9 DEF AuthInv, LatchInv, Entry, Authorization
  <2>16. EraseInv'
    BY <1>1, <1>2, <2>9 DEF EraseInv, Entry, Authorization, Flashing, Finishing
  <2> QED
    BY <2>8, <2>9, <2>11, <2>12, <2>13, <2>14, <2>15, <2>16 DEF IInv
<1> QED  BY <1>6, <1>7

\* A flash request that was refused, or whose reply was lost.
LEMMA RefusalKeeps ==
    ASSUME IInv, pc \in {"program", "readback"}, Quiet,
           NEW sess \in Sessions, NEW error \in Errors, Raise(sess, error),
           sess = s \/ \E a2 \in BOOLEAN : sess = [s EXCEPT !.a2 = a2],
           ecu' = ecu, faults' \in 0 .. MaxFaults
    PROVE  IInv'
<1>1. /\ TypeOK /\ s \in Sessions /\ ecu \in Dmes /\ pc \in Flashing
      /\ ~s.slow /\ ~s.handling /\ s.destructive_started
  BY PacketFacts
<1>2. TypeOK'
  BY <1>1, RaiseTyped, QuietTyped, Labels
<1>3. /\ sess.kind = s.kind /\ sess.slow = s.slow /\ sess.handling = s.handling
      /\ sess.state = s.state /\ sess.failure_state = s.failure_state
      /\ sess.destructive_started = s.destructive_started
      /\ sess.recovery_replay_attempted = s.recovery_replay_attempted
      /\ sess.safe_legacy_fallback = s.safe_legacy_fallback
  BY <1>1, SessionHas
<1>4. Fails
  BY <1>3, SessionHas DEF Fails, Raise, Quiet, gui
<1> QED
  BY <1>1, <1>2, <1>4, FailsKeeps

LEMMA ProgramKeeps == ASSUME IInv, Program PROVE IInv'
<1>1. /\ TypeOK /\ s \in Sessions /\ ecu \in Dmes /\ pc = "program"
      /\ ~s.slow /\ ~s.handling /\ s.destructive_started
      /\ Array \in Arrays /\ s.pkt \in 1 .. Packets /\ ecu.cells[Array][s.pkt] \in Cells
      /\ erases[Array] > 0
      /\ \A p \in 1 .. Packets : /\ p < s.pkt => ecu.cells[Array][p] = "new"
                                 /\ p > s.pkt => ecu.cells[Array][p] = "blank"
  BY PacketFacts DEF Program
<1>2. Quiet
  BY DEF Program
<1>3. CASE Answered(Programmed(ecu, Array, s.pkt, "new")) /\ PacketDone
  <2>1. Programmed(ecu, Array, s.pkt, "new") \in Dmes
    BY <1>1, DmeTyped DEF Cells
  <2>2. ecu' \in Dmes /\ faults' \in 0 .. MaxFaults
    BY <1>1, <1>3, <2>1, RepliesTyped
  <2>3. /\ ecu'.cells[Array][s.pkt] = "new"
        /\ \A q \in (1 .. Packets) \ {s.pkt} : ecu'.cells[Array][q] = ecu.cells[Array][q]
        /\ \A a \in Arrays \ {Array} : ecu'.cells[a] = ecu.cells[a]
    BY <1>1, <1>3, FlashFields DEF Answered, Cells
  <2> QED
    BY <1>1, <1>2, <1>3, <2>2, <2>3, PacketDoneKeeps
<1>4. ASSUME NEW cell \in Cells, s.suffix => cell # "blank",
             \/ ecu' = Programmed(ecu, Array, s.pkt, cell)
             \/ ecu' = ecu /\ cell = ecu.cells[Array][s.pkt],
             faults' \in 0 .. MaxFaults, Unconfirmed
      PROVE  IInv'
  <2>1. Programmed(ecu, Array, s.pkt, cell) \in Dmes
    BY <1>1, DmeTyped
  <2>2. TypeOK'
    <3>1. CASE Goto("readback")
      BY <1>1, <1>2, <1>4, <2>1, <3>1, Labels, QuietTyped DEF Goto
    <3>2. CASE Raise(s, "plain")
      BY <1>1, <1>2, <1>4, <2>1, <3>2, RaiseTyped, QuietTyped, Values, Labels
    <3> QED
      BY <1>4, <3>1, <3>2 DEF Unconfirmed
  <2>3. /\ ecu'.cells[Array][s.pkt] = cell
        /\ \A q \in (1 .. Packets) \ {s.pkt} : ecu'.cells[Array][q] = ecu.cells[Array][q]
        /\ \A a \in Arrays \ {Array} : ecu'.cells[a] = ecu.cells[a]
    BY <1>1, <1>4, FlashFields
  <2>4. /\ \/ pc' = "readback" /\ s' = s
           \/ pc' = "handler" /\ Raise(s, "plain")
        /\ erases' = erases
    BY <1>1, <1>2, <1>4 DEF Unconfirmed, Goto, Raise, Quiet
  <2>5. Writes
    <3>1. CASE pc' = "readback" /\ s' = s
      BY <1>2, <2>3, <3>1 DEF Writes
    <3>2. CASE pc' = "handler" /\ Raise(s, "plain")
      BY <1>1, <1>2, <2>3, <3>2, SessionHas DEF Writes, Raise
    <3> QED
      BY <2>4, <3>1, <3>2
  <2>6. CellsInv'
    <3>1. \A p \in 1 .. Packets : /\ p < s.pkt => p # s.pkt
                                  /\ p > s.pkt => p # s.pkt
      BY <1>1, DmeAssumption
    <3>2. CASE pc' = "handler"
      BY <3>2 DEF CellsInv
    <3>3. CASE pc' = "readback" /\ s' = s
      BY <1>1, <1>4, <2>3, <2>4, <3>1, <3>3 DEF CellsInv, Array
    <3> QED
      BY <2>4, <3>2, <3>3
  <2> QED
    BY <1>1, <2>2, <2>5, <2>6, WritesKeeps
<1>5. CASE ~Reached /\ UNCHANGED ecu /\ NoFault /\ Unconfirmed
  <2>1. ecu.cells[Array][s.pkt] \in Cells
    BY <1>1
  <2>2. s.suffix => ecu.cells[Array][s.pkt] # "blank"
    BY <1>1 DEF IInv, CellsInv
  <2> QED
    BY <1>1, <1>4, <1>5, <2>1, <2>2 DEF NoFault, TypeOK
<1>6. CASE /\ Reached /\ Fault /\ Unconfirmed
           /\ \E cell \in Interrupted(ecu.cells[Array][s.pkt]) :
                 ecu' = Programmed(ecu, Array, s.pkt, cell)
  <2>1. PICK cell \in Interrupted(ecu.cells[Array][s.pkt]) :
               ecu' = Programmed(ecu, Array, s.pkt, cell)
    BY <1>6
  <2>2. cell \in Cells
    BY <1>1 DEF Interrupted, Cells
  <2>3. s.suffix => cell # "blank"
    BY <1>1 DEF IInv, CellsInv, Interrupted
  <2>4. faults' \in 0 .. MaxFaults
    BY <1>1, <1>6, NativeFastAssumption DEF Fault, TypeOK
  <2> QED
    BY <1>4, <1>6, <2>1, <2>2, <2>3, <2>4
<1>7. CASE FlashRefused
  <2>1. PICK a2 \in BOOLEAN : Raise([s EXCEPT !.a2 = a2], "plain")
    BY <1>7 DEF FlashRefused
  <2>2. [s EXCEPT !.a2 = a2] \in Sessions
    BY <1>1, SessionSet
  <2>3. ecu' = ecu /\ faults' \in 0 .. MaxFaults
    BY <1>1, <1>7, RepliesTyped DEF FlashRefused, Refused
  <2> QED
    BY <1>1, <1>2, <2>1, <2>2, <2>3, RefusalKeeps, Values
<1> QED  BY <1>3, <1>5, <1>6, <1>7 DEF Program

LEMMA ReadbackKeeps == ASSUME IInv, Readback PROVE IInv'
<1> DEFINE cell == ecu.cells[Array][s.pkt]
           again == [s EXCEPT !.tries = @ + 1]
<1>1. /\ TypeOK /\ s \in Sessions /\ ecu \in Dmes /\ pc = "readback" /\ pc \in Flashing
      /\ ~s.slow /\ ~s.handling /\ ~s.safe_legacy_fallback /\ s.destructive_started
      /\ outcome = "running"
      /\ Array \in Arrays /\ s.pkt \in 1 .. Packets
      /\ erases[Array] > 0
      /\ \A p \in 1 .. Packets : /\ p < s.pkt => ecu.cells[Array][p] = "new"
                                 /\ p > s.pkt => ecu.cells[Array][p] = "blank"
  BY PacketFacts DEF Readback
<1>2. Quiet /\ ecu' = ecu
  BY DEF Readback, Answered, Lost, Refused
<1>3. ecu' \in Dmes /\ faults' \in 0 .. MaxFaults
  BY <1>1, RepliesTyped DEF Readback
<1>4. CASE cell = "new" /\ PacketDone
  BY <1>1, <1>2, <1>3, <1>4, PacketDoneKeeps
<1>5. ASSUME s.tries < MaxTries, pc' = "program",
             \/ s' = again /\ cell = "blank"
             \/ s' = [again EXCEPT !.suffix = TRUE] /\ cell = "prefix"
      PROVE  IInv'
  <2>1. again \in Sessions
    <3>1. s.tries + 1 \in 1 .. MaxTries
      BY <1>1, <1>5, NativeFastAssumption DEF Sessions
    <3> QED
      BY <1>1, <3>1, SessionSet
  <2>2. again.suffix = s.suffix /\ again.pkt = s.pkt /\ again.state = s.state
    BY <1>1, SessionHas
  <2>3. s' \in Sessions
    BY <1>5, <2>1, SessionSet
  <2>4. TypeOK'
    BY <1>1, <1>2, <1>3, <1>5, <2>3, Labels, QuietTyped
  <2>5. Writes
    BY <1>1, <1>2, <1>5, SessionHas DEF Writes
  <2>6. /\ s'.state = s.state /\ s'.pkt = s.pkt
        /\ s'.suffix = IF cell = "prefix" THEN TRUE ELSE s.suffix
    BY <1>5, <2>1, <2>2, SessionHas
  <2>7. s.suffix => cell # "blank"
    BY <1>1 DEF IInv, CellsInv
  <2>8. erases' = erases /\ Array' = Array
    BY <1>2, <2>6 DEF Quiet, Array
  <2> QED
    BY <1>1, <1>2, <1>5, <2>4, <2>5, <2>6, <2>7, <2>8, WritesKeeps DEF CellsInv
<1>6. CASE ReplayPhase /\ ~Partial
  <2>1. /\ s' = [s EXCEPT !.failure_state = s.state, !.replaying = TRUE, !.recovering = TRUE]
        /\ pc' = IF Array = "program" THEN "poll" ELSE "tune_poll"
    BY <1>6 DEF ReplayPhase
  <2>2. s' \in Sessions
    <3>1. s.state \in HostStates
      BY <1>1 DEF Sessions
    <3> QED
      BY <1>1, <2>1, <3>1, SessionSet
  <2>3. TypeOK'
    BY <1>1, <1>2, <1>3, <2>1, <2>2, Labels, QuietTyped
  <2>4. /\ Array = "program" => s.state = "program"
        /\ s.kind = "full" /\ Array # "program" => s.state = "tune"
        /\ s.kind = "program_only" => Array = "program"
        /\ s.kind \in {"partial", "full", "program_only"}
    BY <1>1, ArrayFacts
  <2>5. /\ s'.kind = s.kind /\ s'.slow = s.slow /\ s'.handling = s.handling
        /\ s'.state = s.state /\ s'.failure_state = s.state
        /\ s'.destructive_started = s.destructive_started
        /\ s'.recovery_replay_attempted = s.recovery_replay_attempted
        /\ s'.safe_legacy_fallback = s.safe_legacy_fallback
        /\ s'.identified = s.identified
        /\ s'.a2 = s.a2 /\ s'.flash_completed = s.flash_completed
    BY <1>1, <2>1, SessionHas
  <2>6. BoundaryInv /\ PhaseInv /\ EraseInv
    BY <1>1 DEF IInv
  <2>7. erases' = erases /\ outcome' = outcome
    BY <1>2 DEF Quiet, gui
  <2>8. OutcomeInv' /\ CellsInv'
    BY <1>1, <2>1, <2>5, <2>7 DEF OutcomeInv, CellsInv, Running, Entry, Authorization, Flashing
  <2>9. BoundaryInv'
    BY <1>1, <2>1, <2>5, <2>6, <2>7 DEF BoundaryInv, Affected, Partial, Entry, Authorization,
           Finishing, Probing, Lowering
  <2>10. PhaseInv'
    BY <1>1, <1>2, <1>6, <2>1, <2>4, <2>5, <2>6, <2>7 DEF PhaseInv, Done, Flashing, Phases,
           Partial, Finishing, Lowering
  <2>11. AuthInv' /\ LatchInv'
    BY <1>1, <2>1, <2>5 DEF AuthInv, LatchInv, Entry, Authorization
  <2>12. EraseInv'
    BY <1>1, <2>1, <2>5, <2>6 DEF EraseInv, Entry, Authorization, Flashing, Finishing
  <2> QED
    BY <2>1, <2>3, <2>8, <2>9, <2>10, <2>11, <2>12 DEF IInv
<1>7. ASSUME NEW sess \in Sessions, NEW error \in Errors, Raise(sess, error),
             sess = s \/ \E a2 \in BOOLEAN : sess = [s EXCEPT !.a2 = a2]
      PROVE  IInv'
  BY <1>1, <1>2, <1>3, <1>7, RefusalKeeps
<1>8. \/ cell = "new" /\ PacketDone
      \/ /\ s.tries < MaxTries /\ pc' = "program"
         /\ \/ s' = again /\ cell = "blank"
            \/ s' = [again EXCEPT !.suffix = TRUE] /\ cell = "prefix"
      \/ ReplayPhase /\ ~Partial
      \/ \E error \in Errors :
            \/ Raise(s, error)
            \/ \E a2 \in BOOLEAN : Raise([s EXCEPT !.a2 = a2], error)
  <2>1. {"mismatch", "unknown", "plain"} \subseteq Errors
    BY Values
  <2>2. CASE /\ Answered(ecu)
             /\ CASE cell = "new" -> PacketDone
                  [] Resendable(cell) /\ s.tries < MaxTries -> s' = again /\ pc' = "program"
                  [] cell = "prefix" /\ Partial /\ s.tries < MaxTries ->
                         s' = [again EXCEPT !.suffix = TRUE] /\ pc' = "program"
                  [] cell \in {"prefix", "holes"} /\ ~Partial /\ ~s.replaying -> ReplayPhase
                  [] OTHER -> Raise(s, "mismatch")
    BY <2>1, <2>2 DEF Resendable
  <2> QED
    BY <2>1, <2>2 DEF Readback
<1> QED
  <2>1. \A a2 \in BOOLEAN : [s EXCEPT !.a2 = a2] \in Sessions
    BY <1>1, SessionSet
  <2> HIDE DEF again, cell
  <2> QED
    BY <1>1, <1>4, <1>5, <1>6, <1>7, <1>8, <2>1

---------------------------------------------------------------------------
(* The user interface and the surroundings.                                *)

LEMMA NewSessionFields ==
    ASSUME NEW kind \in Kinds, NEW verify \in BOOLEAN, registry \in BOOLEAN
    PROVE  /\ NewSession(kind, verify) \in Sessions
           /\ NewSession(kind, verify).kind = kind
           /\ NewSession(kind, verify).reentry = registry
           /\ NewSession(kind, verify).link = "low"
           /\ NewSession(kind, verify).state = "low"
           /\ NewSession(kind, verify).failure_state = "low"
           /\ NewSession(kind, verify).seeds = 0
           /\ ~NewSession(kind, verify).slow
           /\ ~NewSession(kind, verify).identified
           /\ ~NewSession(kind, verify).write_authorized
           /\ ~NewSession(kind, verify).destructive_started
           /\ ~NewSession(kind, verify).flash_completed
           /\ ~NewSession(kind, verify).recovery_replay_attempted
           /\ ~NewSession(kind, verify).safe_legacy_fallback
           /\ ~NewSession(kind, verify).a2
           /\ ~NewSession(kind, verify).handling
<1>1. /\ 1 \in 1 .. Packets /\ 1 \in 1 .. MaxTries /\ 0 \in 0 .. MaxSeeds
      /\ <<0, 0>> \in (0 .. 2) \X (0 .. 2)
      /\ "low" \in HostStates /\ "none" \in Errors
  BY DmeAssumption, NativeFastAssumption, Values
<1>2. NewSession(kind, verify) \in Sessions
  BY <1>1 DEF NewSession, Sessions
<1> QED
  BY <1>2 DEF NewSession

LEMMA StartKeeps ==
    ASSUME IInv, NEW kind \in Kinds, NEW verify \in BOOLEAN, Start(kind, verify)
    PROVE  IInv'
<1>1. /\ TypeOK /\ ecu \in Dmes /\ registry \in BOOLEAN /\ pc = "idle"
      /\ Unannounced => registry
  BY DEF IInv, TypeOK, Start
<1>2. /\ s' = NewSession(kind, verify) /\ pc' = "identify" /\ ecu' = Retargeted(ecu)
      /\ erases' = [a \in Arrays |-> 0] /\ outcome' = "running"
      /\ registry' = registry /\ lapses' = lapses /\ faults' = faults
      /\ cyclePending' = FALSE /\ operations' = operations + 1 /\ operations < MaxOperations
  BY DEF Start
<1>3. /\ s' \in Sessions
      /\ s'.kind = kind /\ s'.reentry = registry
      /\ s'.link = "low" /\ s'.state = "low" /\ s'.failure_state = "low" /\ s'.seeds = 0
      /\ ~s'.slow /\ ~s'.identified /\ ~s'.write_authorized /\ ~s'.destructive_started
      /\ ~s'.flash_completed /\ ~s'.recovery_replay_attempted /\ ~s'.safe_legacy_fallback
      /\ ~s'.a2 /\ ~s'.handling
  BY <1>1, <1>2, NewSessionFields
<1>4. TypeOK'
  <2>1. ecu' \in Dmes
    BY <1>1, <1>2, DmeTyped
  <2>2. operations' \in 0 .. MaxOperations
    BY <1>1, <1>2, NativeFastAssumption DEF TypeOK
  <2>3. erases' \in [Arrays -> Nat]
    BY <1>2
  <2> QED
    BY <1>1, <1>2, <1>3, <2>1, <2>2, <2>3, Labels DEF TypeOK
<1>5. OutcomeInv'
  BY <1>2, <1>3 DEF OutcomeInv
<1>6. BoundaryInv'
  BY <1>2, <1>3 DEF BoundaryInv, Finishing, Probing, Lowering, Arrays
<1>7. PhaseInv' /\ CellsInv' /\ EraseInv'
  BY <1>2, <1>3 DEF PhaseInv, CellsInv, EraseInv, Flashing, Finishing, Lowering
<1>8. AuthInv'
  BY <1>2, <1>3 DEF AuthInv
<1>9. LatchInv'
  <2>1. Unannounced' = Unannounced
    BY <1>1, <1>2, RetargetedFields DEF Unannounced
  <2> QED
    BY <1>1, <1>2, <1>3, <2>1 DEF LatchInv, Entry, Flashing, Probing, Lowering
<1> QED
  BY <1>2, <1>4, <1>5, <1>6, <1>7, <1>8, <1>9 DEF IInv

LEMMA FallBackToSlowKeeps == ASSUME IInv, FallBackToSlow PROVE IInv'
<1> DEFINE fresh == NewSession(s.kind, s.verify)
<1>1. /\ TypeOK /\ s \in Sessions /\ ecu \in Dmes /\ registry \in BOOLEAN /\ pc = "refused"
      /\ s.kind \in Kinds /\ s.verify \in BOOLEAN
      /\ s.safe_legacy_fallback /\ ~s.destructive_started
      /\ outcome = "not_started" /\ OutcomeInv /\ BoundaryInv /\ LatchInv
  BY DEF IInv, TypeOK, Sessions, FallBackToSlow, Fallback, OutcomeInv, BoundaryInv
<1>2. /\ s' = [fresh EXCEPT !.slow = TRUE, !.reentry = FALSE, !.identified = TRUE]
      /\ pc' = "read" /\ ecu' = ecu
      /\ UNCHANGED <<registry, cyclePending, lapses, outcome, operations, erases, faults>>
  BY DEF FallBackToSlow, gui
<1>3. fresh \in Sessions
  BY <1>1, NewSessionFields
<1>4. /\ fresh.kind = s.kind
      /\ fresh.link = "low" /\ fresh.state = "low" /\ fresh.failure_state = "low"
      /\ fresh.seeds = 0 /\ ~fresh.write_authorized /\ ~fresh.destructive_started
      /\ ~fresh.flash_completed /\ ~fresh.recovery_replay_attempted
      /\ ~fresh.safe_legacy_fallback /\ ~fresh.a2 /\ ~fresh.handling
  BY <1>1, NewSessionFields
<1> HIDE DEF fresh
<1>5. s' \in Sessions
  BY <1>2, <1>3, SessionSet
<1>6. /\ s'.kind = s.kind /\ s'.slow /\ ~s'.reentry /\ s'.identified
      /\ s'.link = "low" /\ s'.state = "low" /\ s'.failure_state = "low"
      /\ s'.seeds = 0 /\ ~s'.write_authorized /\ ~s'.destructive_started
      /\ ~s'.flash_completed /\ ~s'.recovery_replay_attempted
      /\ ~s'.safe_legacy_fallback /\ ~s'.a2 /\ ~s'.handling
  BY <1>2, <1>3, <1>4, SessionHas
<1>7. TypeOK'
  BY <1>1, <1>2, <1>5, Labels DEF TypeOK
<1>8. OutcomeInv'
  BY <1>1, <1>2, <1>6 DEF OutcomeInv, Authorization
<1>9. BoundaryInv'
  BY <1>1, <1>2, <1>6 DEF BoundaryInv, Affected, Partial, Finishing, Probing, Lowering
<1>10. PhaseInv' /\ CellsInv' /\ EraseInv'
  BY <1>2, <1>6 DEF PhaseInv, CellsInv, EraseInv, Flashing, Finishing, Lowering
<1>11. AuthInv'
  BY <1>2, <1>6 DEF AuthInv
<1>12. LatchInv'
  <2>1. Unannounced' => registry'
    BY <1>1, <1>2 DEF LatchInv, Unannounced
  <2> QED
    BY <1>2, <1>6, <2>1 DEF LatchInv, Flashing, Probing, Lowering
<1> QED
  BY <1>2, <1>7, <1>8, <1>9, <1>10, <1>11, <1>12 DEF IInv

LEMMA SetUpFailsKeeps == ASSUME IInv, SetUpFails PROVE IInv'
<1> DEFINE fresh == NewSession(s.kind, s.verify)
           sess == [fresh EXCEPT !.safe_legacy_fallback = Hears(ecu, "low")]
<1>1. /\ TypeOK /\ s \in Sessions /\ ecu \in Dmes /\ registry \in BOOLEAN /\ pc = "identify"
      /\ s.kind \in Kinds /\ s.verify \in BOOLEAN
      /\ ~s.slow /\ ~s.destructive_started /\ outcome = "running"
      /\ Unannounced => registry
  <2>1. pc = "identify" /\ pc \in Entry /\ pc # "idle"
    BY DEF SetUpFails, Entry
  <2>2. OutcomeInv
    BY DEF IInv
  <2>3. ~s.slow /\ outcome = "running"
    BY <2>1, <2>2 DEF OutcomeInv, Running, Authorization
  <2> QED
    BY <2>1, <2>3, EntryFacts DEF TypeOK, Sessions
<1>2. /\ ecu' = ecu /\ lapses' = lapses /\ Conclude(sess, TRUE)
      /\ faults' \in 0 .. MaxFaults
  <2>1. faults' \in 0 .. MaxFaults
    BY <1>1, NativeFastAssumption DEF SetUpFails, Fault, TypeOK
  <2> QED
    BY <2>1 DEF SetUpFails, Conclude
<1>3. fresh \in Sessions
  BY <1>1, NewSessionFields
<1>4. /\ fresh.kind = s.kind /\ ~fresh.slow /\ ~fresh.destructive_started
      /\ ~fresh.recovery_replay_attempted /\ fresh.failure_state = "low"
      /\ fresh.seeds = 0 /\ ~BlockedBy(fresh)
  BY <1>1, NewSessionFields DEF BlockedBy, NewSession
<1>5. Hears(ecu, "low") \in BOOLEAN /\ (Hears(ecu, "low") => ecu.rate = "low")
  BY DEF Hears
<1> HIDE DEF fresh
<1>6. /\ sess \in Sessions
      /\ sess.kind = s.kind /\ sess.slow = s.slow
      /\ sess.destructive_started = s.destructive_started
      /\ ~sess.recovery_replay_attempted /\ sess.failure_state # "tune"
      /\ sess.seeds = 0 /\ ~BlockedBy(sess)
      /\ sess.safe_legacy_fallback => ecu.rate = "low"
  <2>1. sess \in Sessions
    BY <1>3, <1>5, SessionSet
  <2>2. /\ sess.kind = fresh.kind /\ sess.slow = fresh.slow
        /\ sess.destructive_started = fresh.destructive_started
        /\ sess.recovery_replay_attempted = fresh.recovery_replay_attempted
        /\ sess.failure_state = fresh.failure_state /\ sess.seeds = fresh.seeds
        /\ BlockedBy(sess) <=> BlockedBy(fresh)
        /\ sess.safe_legacy_fallback => ecu.rate = "low"
    BY <1>3, <1>5, SessionHas DEF BlockedBy
  <2>3. sess.slow = s.slow /\ sess.destructive_started = s.destructive_started
    BY <1>1, <1>3, <1>4, <2>1, <2>2 DEF Sessions
  <2> QED
    BY <1>4, <2>1, <2>2, <2>3
<1> HIDE DEF sess
<1>7. Unannounced' => Pending(sess)
  BY <1>1, <1>2 DEF Unannounced, Pending
<1>8. TypeOK'
  BY <1>1, <1>2, <1>6, ConcludeTyped, Labels DEF TypeOK
<1>9. pc # "idle" /\ ecu'.cells = ecu.cells /\ ecu'.rate = ecu.rate /\ ~(sess.seeds > 0)
      /\ TRUE \in BOOLEAN
  BY <1>1, <1>2, <1>6
<1> QED
  BY <1>1, <1>2, <1>6, <1>7, <1>8, <1>9, ConcludeKeeps

LEMMA RetryRecoveryKeeps == ASSUME IInv, RetryRecovery PROVE IInv'
<1> DEFINE tune == s.kind = "full" /\ s.failure_state = "tune"
<1>1. /\ TypeOK /\ s \in Sessions /\ pc = "held" /\ CanRecover
      /\ OutcomeInv /\ BoundaryInv /\ PhaseInv /\ EraseInv
  BY DEF IInv, TypeOK, RetryRecovery
<1>2. /\ ~Partial /\ s.destructive_started /\ ~s.flash_completed
      /\ s.failure_state \in {"program", "tune"} /\ ~s.recovery_replay_attempted
      /\ s.kind \in {"full", "program_only"} /\ ~s.a2
      /\ ~s.handling /\ ~s.safe_legacy_fallback
      /\ s.failure_state = "tune" => s.kind = "full" /\ Done("program")
      /\ outcome = "running"
  <2>1. s.kind \in {"full", "program_only"}
    BY <1>1, NativeFastAssumption DEF CanRecover, Partial, Sessions
  <2>2. s.failure_state = "tune" => s.kind = "full" /\ Done("program")
    BY <1>1 DEF PhaseInv
  <2>3. ~s.handling /\ ~s.safe_legacy_fallback
    BY <1>1 DEF BoundaryInv, Probing, Lowering
  <2> QED
    BY <1>1, <2>1, <2>2, <2>3 DEF CanRecover, EraseInv, OutcomeInv
<1>3. /\ s' = [s EXCEPT !.link = "high", !.error = "none", !.replaying = TRUE,
                        !.recovery_replay_attempted = TRUE, !.recovering = TRUE,
                        !.state = IF tune THEN "tune" ELSE "program"]
      /\ pc' = IF tune THEN "tune_poll" ELSE "poll"
      /\ UNCHANGED <<ecu, registry, cyclePending, lapses, outcome, operations, erases, faults>>
  BY DEF RetryRecovery, gui
<1>4. s' \in Sessions
  <2>1. (IF tune THEN "tune" ELSE "program") \in HostStates /\ "none" \in Errors
    BY Values
  <2> HIDE DEF tune
  <2> QED
    BY <1>1, <1>3, <2>1, SessionSet
<1>5. /\ s'.kind = s.kind /\ s'.state = IF tune THEN "tune" ELSE "program"
      /\ s'.failure_state = s.failure_state /\ s'.recovery_replay_attempted
      /\ s'.destructive_started = s.destructive_started /\ s'.handling = s.handling
      /\ s'.safe_legacy_fallback = s.safe_legacy_fallback /\ s'.slow = s.slow
      /\ s'.a2 = s.a2 /\ s'.flash_completed = s.flash_completed
  <2> HIDE DEF tune
  <2> QED
    BY <1>1, <1>3, SessionHas
<1>6. TypeOK'
  BY <1>1, <1>3, <1>4, Labels DEF TypeOK
<1>7. ~s.slow
  BY <1>1 DEF OutcomeInv
<1>8. OutcomeInv'
  BY <1>2, <1>3, <1>5, <1>7 DEF OutcomeInv
<1>9. BoundaryInv'
  BY <1>1, <1>2, <1>3, <1>5 DEF BoundaryInv, Affected, Partial, Entry, Authorization,
         Finishing, Probing, Lowering
<1>10. PhaseInv'
  BY <1>1, <1>2, <1>3, <1>5 DEF PhaseInv, Done, Flashing, Phases, Partial, Finishing, Lowering
<1>11. CellsInv' /\ EraseInv'
  BY <1>2, <1>3, <1>5 DEF CellsInv, EraseInv
<1>12. AuthInv' /\ LatchInv'
  BY <1>2, <1>3, <1>5 DEF AuthInv, LatchInv, Entry, Authorization
<1> QED
  BY <1>3, <1>6, <1>8, <1>9, <1>10, <1>11, <1>12 DEF IInv

\* The operation is over: nothing is left running, and the latch is known.
LEMMA RestKeeps ==
    ASSUME TypeOK', pc' = "idle", outcome' # "running", Unannounced' => registry'
    PROVE  IInv'
  BY
     DEF IInv, OutcomeInv, Running, Entry, Authorization, Flashing, Finishing, Lowering,
         Handling

LEMMA ReportNotStartedKeeps == ASSUME IInv, ReportNotStarted PROVE IInv'
<1>1. TypeOK /\ pc = "refused" /\ outcome = "not_started"
  BY DEF IInv, OutcomeInv, ReportNotStarted
<1>2. Fault \/ NoFault
  BY DEF ReportNotStarted
<1>3. TypeOK'
  BY <1>1, <1>2, Labels, NativeFastAssumption DEF TypeOK, ReportNotStarted, Fault, NoFault
<1> QED
  BY <1>1, <1>3, RestKeeps DEF ReportNotStarted, Unannounced

LEMMA ReleaseAfterCycleKeeps == ASSUME IInv, ReleaseAfterCycle PROVE IInv'
<1>1. TypeOK /\ LatchInv /\ pc = "held" /\ s.cycled
  BY DEF IInv, ReleaseAfterCycle
<1>2. TypeOK'
  BY <1>1, Labels DEF TypeOK, ReleaseAfterCycle
<1>3. ecu.latch # "busy"
  BY <1>1 DEF LatchInv
<1> QED
  BY <1>2, <1>3, RestKeeps DEF ReleaseAfterCycle, Unannounced

LEMMA ForgottenKeeps ==
    ASSUME IInv, Forgotten, faults' \in 0 .. MaxFaults
    PROVE  IInv'
<1>1. TypeOK /\ s \in Sessions
  BY DEF IInv, TypeOK
<1>2. s' \in Sessions
  BY <1>1, SessionSet DEF Forgotten
<1>3. TypeOK'
  BY <1>1, <1>2, Labels DEF TypeOK, Forgotten
<1> QED
  BY <1>3, RestKeeps DEF Forgotten, Unannounced

LEMMA CrashKeeps == ASSUME IInv, Crash PROVE IInv'
  BY ForgottenKeeps, NativeFastAssumption DEF Crash, Fault, IInv, TypeOK

LEMMA CloseProgramKeeps == ASSUME IInv, CloseProgram PROVE IInv'
  BY ForgottenKeeps DEF CloseProgram, NoFault, IInv, TypeOK

\* The surroundings reach into any state: the computer loses power, or its
\* timer runs out, while the session stands where it is.
Surroundings ==
    /\ UNCHANGED <<pc, registry, erases, outcome>>
    /\ ecu'.cells = ecu.cells
    /\ ecu'.rate \in {ecu.rate, "low"}
    /\ ecu'.auth \in {ecu.auth, 0}
    /\ ecu'.latch # "busy"
    /\ s' \in {s, [s EXCEPT !.cycled = TRUE]}

LEMMA SurroundingsKeep ==
    ASSUME IInv, TypeOK', Surroundings
    PROVE  IInv'
<1>1. /\ TypeOK /\ s \in Sessions /\ OutcomeInv
      /\ pc # "idle" =>
            BoundaryInv /\ PhaseInv /\ CellsInv /\ AuthInv /\ LatchInv /\ EraseInv
  BY DEF IInv, TypeOK
<1>2. /\ s'.kind = s.kind /\ s'.slow = s.slow /\ s'.handling = s.handling
      /\ s'.state = s.state /\ s'.failure_state = s.failure_state
      /\ s'.destructive_started = s.destructive_started
      /\ s'.recovery_replay_attempted = s.recovery_replay_attempted
      /\ s'.safe_legacy_fallback = s.safe_legacy_fallback
      /\ s'.identified = s.identified /\ s'.fast_write_armed = s.fast_write_armed
      /\ s'.a2 = s.a2 /\ s'.flash_completed = s.flash_completed
      /\ s'.link = s.link /\ s'.reentry = s.reentry /\ s'.seeds = s.seeds /\ s'.seen = s.seen
      /\ s'.pkt = s.pkt /\ s'.suffix = s.suffix
      /\ s'.write_authorized = s.write_authorized
      /\ s'.authorization_may_be_active = s.authorization_may_be_active
      /\ s'.authorization_state_requires_cycle = s.authorization_state_requires_cycle
  BY <1>1, SessionHas DEF Surroundings
<1>3. /\ pc' = pc /\ registry' = registry /\ erases' = erases /\ outcome' = outcome
      /\ ecu'.cells = ecu.cells
      /\ ecu'.rate \in {ecu.rate, "low"} /\ ecu'.auth \in {ecu.auth, 0}
      /\ ecu'.latch # "busy"
  BY DEF Surroundings
<1>4. ~Unannounced'
  BY <1>3 DEF Unannounced
<1>5. OutcomeInv'
  BY <1>1, <1>2, <1>3 DEF OutcomeInv
<1>6. CASE pc # "idle"
  <2>1. BoundaryInv'
    BY <1>1, <1>2, <1>3, <1>6 DEF BoundaryInv, Affected, Partial
  <2>2. PhaseInv'
    BY <1>1, <1>2, <1>3, <1>6 DEF PhaseInv, HighState, Phases, Affected, Partial, Done, HoldsNew
  <2>3. CellsInv'
    BY <1>1, <1>2, <1>3, <1>6 DEF CellsInv, Array
  <2>4. AuthInv'
    BY <1>1, <1>2, <1>3, <1>6 DEF AuthInv, Blocked
  <2>5. LatchInv'
    BY <1>1, <1>2, <1>3, <1>4, <1>6 DEF LatchInv
  <2>6. EraseInv'
    BY <1>1, <1>2, <1>3, <1>6 DEF EraseInv
  <2> QED
    BY <1>3, <1>4, <1>5, <2>1, <2>2, <2>3, <2>4, <2>5, <2>6 DEF IInv
<1> QED
  BY <1>3, <1>4, <1>5, <1>6 DEF IInv

LEMMA PowerUpTyped ==
    ASSUME TypeOK, ecu' = PowerUp(ecu), s' = [s EXCEPT !.cycled = TRUE]
    PROVE  /\ ecu' \in Dmes /\ s' \in Sessions
           /\ ecu'.cells = ecu.cells /\ ecu'.rate = "low" /\ ecu'.auth = 0
           /\ ecu'.latch = "clear"
<1>1. ecu \in Dmes /\ s \in Sessions
  BY DEF TypeOK
<1> QED
  BY <1>1, DmeTyped, PowerUpFields, SessionSet

LEMMA CycleIgnitionKeeps == ASSUME IInv, CycleIgnition PROVE IInv'
<1>1. /\ TypeOK /\ OutcomeInv /\ pc \in {"idle", "slow", "held"}
      /\ ecu' = PowerUp(ecu) /\ s' = [s EXCEPT !.cycled = TRUE] /\ lapses' = {}
      /\ pc' = IF pc = "slow" THEN "idle" ELSE pc
      /\ UNCHANGED <<registry, cyclePending, erases, outcome, faults, operations>>
  BY DEF IInv, CycleIgnition
<1>2. /\ ecu' \in Dmes /\ s' \in Sessions
      /\ ecu'.cells = ecu.cells /\ ecu'.rate = "low" /\ ecu'.auth = 0
      /\ ecu'.latch = "clear"
  BY <1>1, PowerUpTyped
<1>3. TypeOK'
  BY <1>1, <1>2, Labels DEF TypeOK
<1>4. CASE pc = "slow"
  BY <1>1, <1>2, <1>3, <1>4, RestKeeps DEF OutcomeInv, Unannounced
<1>5. CASE pc # "slow"
  BY <1>1, <1>2, <1>3, <1>5, SurroundingsKeep DEF Surroundings
<1> QED  BY <1>4, <1>5

LEMMA PowerCutKeeps == ASSUME IInv, PowerCut PROVE IInv'
<1>1. /\ TypeOK /\ ecu' = PowerUp(ecu) /\ s' = [s EXCEPT !.cycled = TRUE] /\ lapses' = {}
      /\ UNCHANGED <<pc, registry, cyclePending, erases, outcome, operations>>
      /\ faults' \in 0 .. MaxFaults
  BY NativeFastAssumption DEF IInv, TypeOK, PowerCut, Fault
<1>2. /\ ecu' \in Dmes /\ s' \in Sessions
      /\ ecu'.cells = ecu.cells /\ ecu'.rate = "low" /\ ecu'.auth = 0
      /\ ecu'.latch = "clear"
  BY <1>1, PowerUpTyped
<1>3. TypeOK'
  BY <1>1, <1>2 DEF TypeOK
<1> QED
  BY <1>1, <1>2, <1>3, SurroundingsKeep DEF Surroundings

LEMMA LatchReadyKeeps == ASSUME IInv, LatchReady PROVE IInv'
<1>1. TypeOK /\ ecu \in Dmes
  BY DEF IInv, TypeOK
<1>2. /\ ecu' = [ecu EXCEPT !.latch = "ready"]
      /\ UNCHANGED <<s, pc, registry, cyclePending, lapses, outcome, operations, erases, faults>>
  BY DEF LatchReady, gui
<1>3. /\ ecu' \in Dmes /\ ecu'.cells = ecu.cells /\ ecu'.rate = ecu.rate
      /\ ecu'.auth = ecu.auth /\ ecu'.latch = "ready"
  BY <1>1, <1>2, DmeSet DEF Dmes
<1>4. TypeOK'
  BY <1>1, <1>2, <1>3 DEF TypeOK
<1> QED
  BY <1>2, <1>3, <1>4, SurroundingsKeep DEF Surroundings

LEMMA Initially == ASSUME Init PROVE IInv
<1>1. ecu \in Dmes /\ ecu.latch = "clear"
  <2> DEFINE old == [a \in Arrays |-> [p \in 1 .. Packets |-> "old"]]
  <2>1. old \in [Arrays -> [1 .. Packets -> Cells]]
    BY DEF Cells
  <2> HIDE DEF old
  <2>2. ecu \in [ rate : {"low"}, auth : 0 .. 2, wrong : 0 .. 2, armed : {FALSE},
                  latch : {"clear"}, cells : {old} ]
    BY DEF Init, old
  <2> QED
    BY <2>1, <2>2 DEF Dmes
<1>2. s \in Sessions
  <2>1. PICK kind \in Kinds : s = NewSession(kind, FALSE)
    BY DEF Init
  <2>2. registry \in BOOLEAN /\ FALSE \in BOOLEAN
    BY DEF Init
  <2> QED
    BY <2>1, <2>2, NewSessionFields
<1>3. pc = "idle" /\ outcome = "none"
  BY DEF Init
<1>4. TypeOK
  <2>1. /\ pc \in Pcs /\ registry \in BOOLEAN /\ cyclePending \in BOOLEAN
        /\ lapses \in SUBSET {"told", "restarted"}
        /\ outcome \in {"none", "running", "not_started", "complete", "abandoned"}
    BY Labels DEF Init
  <2>2. erases \in [Arrays -> Nat] /\ faults \in 0 .. MaxFaults
        /\ operations \in 0 .. MaxOperations
    BY NativeFastAssumption DEF Init
  <2> QED
    BY <1>1, <1>2, <2>1, <2>2 DEF TypeOK
<1> QED
  BY <1>1, <1>3, <1>4
     DEF IInv, OutcomeInv, Unannounced, Running, Entry, Authorization, Flashing, Finishing,
         Lowering, Handling

LEMMA StutterKeeps == ASSUME IInv, UNCHANGED vars PROVE IInv'
  BY DEF vars, IInv, TypeOK, OutcomeInv, BoundaryInv, PhaseInv, CellsInv, AuthInv, LatchInv,
         EraseInv, Unannounced, WillRegister, HighState, Partial, Phases, Affected, Done,
         HoldsNew, Array, Blocked

\* Every request, failure, decision of the user and reach of the surroundings
\* keeps the inductive invariant.
THEOREM NativeFastInvariant == Spec => []IInv
<1>1. Init => IInv
  BY Initially
<1>2. IInv /\ [Next]_vars => IInv'
  <2> SUFFICES ASSUME IInv, [Next]_vars PROVE IInv'
    OBVIOUS
  <2>1. CASE \E kind \in Kinds, verify \in BOOLEAN : Start(kind, verify)
    BY <2>1, StartKeeps
  <2>2. CASE SessionStep
    BY <2>2, SetUpFailsKeeps, IdentifyKeeps, ReadAuthorizationKeeps, AwaitReentryKeeps,
       ConfirmExistingKeeps,
       PrepareKeeps, ChallengeKeeps, RereadAfterA1Keeps, SendKeyKeeps, ArmKeeps, SwitchUpKeeps,
       LivenessKeeps, ProgramPollKeeps, TunePollKeeps, EraseKeeps, ProgramKeeps, ReadbackKeeps,
       PostPollKeeps, FinalizeSeedKeeps, FinalizeKeyKeeps, FinalizeProbeKeeps, FinalPollKeeps,
       VerifyKeeps, SwitchDownKeeps, BareBmwKeeps, LowIdentityKeeps, HandleKeeps,
       ProbeHighKeeps, ProbeLowKeeps, FallBackToSlowKeeps, ReportNotStartedKeeps
       DEF SessionStep
  <2>3. CASE RetryRecovery
    BY <2>3, RetryRecoveryKeeps
  <2>4. CASE ReleaseAfterCycle
    BY <2>4, ReleaseAfterCycleKeeps
  <2>5. CASE CloseProgram \/ Crash
    BY <2>5, CloseProgramKeeps, CrashKeeps
  <2>6. CASE CycleIgnition \/ PowerCut \/ LatchReady
    BY <2>6, CycleIgnitionKeeps, PowerCutKeeps, LatchReadyKeeps
  <2>7. CASE UNCHANGED vars
    BY <2>7, StutterKeeps
  <2> QED
    BY <2>1, <2>2, <2>3, <2>4, <2>5, <2>6, <2>7 DEF Next
<1> QED  BY <1>1, <1>2, PTL DEF Spec

\* Every variable keeps its type, the counters within their bounds.
THEOREM NativeFastTyped == Spec => []TypeOK
<1>1. IInv => TypeOK
  BY DEF IInv
<1> QED  BY <1>1, NativeFastInvariant, PTL

---------------------------------------------------------------------------
(* What the invariant means for the reader.                                *)

\* A session that lets the slow writer take over, and a session about to take
\* the high rate, are never in the wrong state to do so.
THEOREM RatesAreSafe == Spec => []SafeRates
<1>1. IInv => SafeFallback
  <2> SUFFICES ASSUME IInv, pc = "refused", s.safe_legacy_fallback
               PROVE  /\ \A a \in Arrays : erases[a] = 0
                      /\ ecu.rate = "low"
                      /\ ecu.auth = 1 => s.seeds = 0
    BY DEF SafeFallback
  <2>1. BoundaryInv /\ AuthInv /\ s \in Sessions
    BY DEF IInv, TypeOK
  <2>2. ~s.destructive_started
    BY <2>1 DEF BoundaryInv
  <2>3. s.seeds \in 0 .. MaxSeeds
    BY <2>1 DEF Sessions
  <2> QED
    BY <2>1, <2>2, <2>3, NativeFastAssumption DEF BoundaryInv, AuthInv
<1>2. IInv => LatchObserved
  <2> SUFFICES ASSUME IInv, pc = "up", ecu.latch = "busy" PROVE lapses # {}
    BY DEF LatchObserved
  <2>1. LatchInv /\ OutcomeInv
    BY DEF IInv
  <2>2. ~s.slow
    BY <2>1 DEF OutcomeInv, Running, Entry, Authorization
  <2> QED
    BY <2>1, <2>2 DEF LatchInv, Unannounced, Entry
<1> QED  BY <1>1, <1>2, NativeFastInvariant, PTL DEF SafeRates

\* Whatever was lost, cut short, refused or retried, a packet goes only onto what
\* is still erased for it.
THEOREM PacketsOntoErased == Spec => []OnlyOntoErased
<1>1. IInv => OnlyOntoErased
  BY DEF IInv, CellsInv, OnlyOntoErased
<1> QED  BY <1>1, NativeFastInvariant, PTL

---------------------------------------------------------------------------
(* The steps, as the key counter, the erase counters and the flash see     *)
(* them: all but four leave the flash alone.                               *)

Calm ==
    /\ s'.kind = s.kind
    /\ ecu'.cells = ecu.cells
    /\ ecu'.wrong <= ecu.wrong
    /\ erases' = erases

\* A request that neither the user nor the flash notices.
Unnoticed == Calm /\ outcome' = outcome /\ pc # "held" /\ pc' # "held"

LEMMA Known ==
    ASSUME IInv
    PROVE  /\ TypeOK /\ s \in Sessions /\ ecu \in Dmes /\ ecu.wrong \in 0 .. 2
           /\ \A e \in Dmes : e.wrong = ecu.wrong => e.wrong <= ecu.wrong
<1>1. TypeOK /\ s \in Sessions /\ ecu \in Dmes
  BY DEF IInv, TypeOK
<1>2. ecu.wrong \in 0 .. 2
  BY <1>1 DEF Dmes
<1> QED  BY <1>1, <1>2

LEMMA EntryUnnoticed ==
    ASSUME IInv,
           \/ Identify \/ ReadAuthorization \/ AwaitReentry \/ ConfirmExisting \/ Prepare
           \/ Challenge \/ RereadAfterA1 \/ SendKey \/ Arm \/ SwitchUp \/ Liveness
    PROVE  Unnoticed
<1>0. /\ TypeOK /\ s \in Sessions /\ ecu \in Dmes /\ ecu.wrong \in 0 .. 2
      /\ \A e \in Dmes : e.wrong = ecu.wrong => e.wrong <= ecu.wrong
  BY Known
<1>1. CASE Identify
  BY <1>0, <1>1, SessionHas DEF Identify, Raise, Quiet, gui, Answered, Lost, Unnoticed, Calm
<1>2. CASE ReadAuthorization
  BY <1>0, <1>2, SessionHas DEF ReadAuthorization, Raise, Quiet, gui, Answered, Lost, Unnoticed,
      Calm
<1>3. CASE AwaitReentry
  BY <1>0, <1>3, SessionHas DEF AwaitReentry, Raise, Quiet, gui, Answered, Lost, Unnoticed, Calm
<1>4. CASE Prepare
  BY <1>0, <1>4, SessionHas
     DEF Prepare, Raise, Quiet, gui, Answered, Lost, Goto, Unnoticed, Calm
<1>5. CASE RereadAfterA1
  BY <1>0, <1>5, SessionHas
     DEF RereadAfterA1, Raise, Quiet, gui, Answered, Lost, Unnoticed, Calm
<1>6. CASE SendKey
  BY <1>0, <1>6, SessionHas, KeyedFields DEF SendKey, Raise, Quiet, gui, Authorize, Unanswered,
      Answered, Lost, Unnoticed, Calm
<1>7. CASE Arm
  BY <1>0, <1>7, SessionHas, ArmedFields DEF Arm, Raise, Quiet, gui, Unanswered, Answered, Lost,
      Unnoticed, Calm
<1>8. CASE Liveness
  BY <1>0, <1>8, SessionHas
     DEF Liveness, Raise, Quiet, gui, Answered, Lost, Goto, Unnoticed, Calm
<1>9. CASE ConfirmExisting
  <2>1. ecu.auth # 1
    BY <1>9 DEF IInv, AuthInv, ConfirmExisting
  <2>2. ecu' = ecu \/ ecu' = Challenged(ecu)
    BY <1>9 DEF ConfirmExisting, Unanswered, Answered, Lost
  <2>3. ecu'.cells = ecu.cells /\ ecu'.wrong = ecu.wrong
    <3>1. ecu.auth \in 0 .. 2
      BY <1>0 DEF Dmes
    <3> QED
      BY <1>0, <2>1, <2>2, <3>1, ChallengedFields
  <2>4. s'.kind = s.kind
    BY <1>0, <1>9, SessionHas DEF ConfirmExisting, Authorize, Raise
  <2>5. Quiet /\ pc = "confirm_existing" /\ pc' \in {"slow", "arm", "handler", "idle"}
    BY <1>9 DEF ConfirmExisting, Authorize, Raise
  <2> QED
    BY <1>0, <2>3, <2>4, <2>5 DEF Unnoticed, Calm, Quiet, gui
<1>10. CASE Challenge
  <2>1. ecu.auth = 0 /\ Challenged(ecu) \in Dmes
    BY <1>0, <1>10, DmeTyped DEF IInv, AuthInv, Challenge
  <2>2. ecu' = ecu \/ ecu' = Challenged(ecu)
    BY <1>10 DEF Challenge, Unanswered, Answered, Lost
  <2>3. ecu'.cells = ecu.cells /\ ecu'.wrong = ecu.wrong
    BY <1>0, <2>1, <2>2, ChallengedFields
  <2>4. s'.kind = s.kind
    BY <1>0, <1>10, SessionHas DEF Challenge, Raise
  <2>5. Quiet /\ pc = "challenge" /\ pc' \in {"key", "reread", "handler", "idle"}
    BY <1>10 DEF Challenge, Raise
  <2> QED
    BY <1>0, <2>3, <2>4, <2>5 DEF Unnoticed, Calm, Quiet, gui
<1>11. CASE SwitchUp
  <2>1. ecu' = ecu \/ ecu' = SelectedHigh(ecu)
    BY <1>11 DEF SwitchUp, Unanswered, Answered, Lost
  <2>2. ecu'.cells = ecu.cells /\ ecu'.wrong = ecu.wrong
    BY <1>0, <2>1, SelectedFields
  <2>3. s'.kind = s.kind
    BY <1>0, <1>11, SessionHas DEF SwitchUp, Raise
  <2>4. Quiet /\ pc = "up" /\ pc' \in {"liveness", "handler", "idle"}
    BY <1>11 DEF SwitchUp, Raise
  <2> QED
    BY <1>0, <2>2, <2>3, <2>4 DEF Unnoticed, Calm, Quiet, gui
<1> QED  BY <1>1, <1>2, <1>3, <1>4, <1>5, <1>6, <1>7, <1>8, <1>9, <1>10, <1>11

LEMMA FlashUnnoticed ==
    ASSUME IInv,
           \/ ProgramPoll \/ TunePoll \/ Readback \/ PostPoll \/ FinalizeSeed \/ FinalizeKey
           \/ FinalizeProbe \/ ProbeHigh \/ FallBackToSlow
    PROVE  Unnoticed
<1>0. /\ TypeOK /\ s \in Sessions /\ ecu \in Dmes /\ ecu.wrong \in 0 .. 2
      /\ \A e \in Dmes : e.wrong = ecu.wrong => e.wrong <= ecu.wrong
  BY Known
<1>1. CASE ProgramPoll
  BY <1>0, <1>1, SessionHas DEF ProgramPoll, Raise, Quiet, gui, ControlPoll, Goto, FlashRefused,
      Refused, Unanswered, Answered, Lost, Unnoticed, Calm
<1>2. CASE TunePoll
  BY <1>0, <1>2, SessionHas DEF TunePoll, Raise, Quiet, gui, ControlPoll, Goto, FlashRefused,
      Refused, Unanswered, Answered, Lost, Unnoticed, Calm
<1>3. CASE Readback
  BY <1>0, <1>3, SessionHas DEF Readback, Raise, Quiet, gui, PacketDone, ArrayDone, ReplayPhase,
      Refused, Answered, Lost, Unnoticed, Calm
<1>4. CASE PostPoll
  BY <1>0, <1>4, SessionHas DEF PostPoll, Raise, Quiet, gui, FlashRefused, Refused, Unanswered,
      Answered, Lost, Unnoticed, Calm
<1>5. CASE FinalizeSeed
  BY <1>0, <1>5, SessionHas, DisarmedFields DEF FinalizeSeed, Raise, Quiet, gui, Goto, Answered,
      Lost, Unnoticed, Calm
<1>6. CASE FinalizeKey
  BY <1>0, <1>6, SessionHas, KeyedFields DEF FinalizeKey, Raise, Quiet, gui, Goto, Unanswered,
      Answered, Lost, Unnoticed, Calm
<1>7. CASE FinalizeProbe
  BY <1>0, <1>7, SessionHas
     DEF FinalizeProbe, Raise, Quiet, gui, Goto, Unanswered, Answered, Lost, Unnoticed,
         Calm
<1>8. CASE ProbeHigh
  BY <1>0, <1>8, SessionHas DEF ProbeHigh, Raise, Quiet, gui, NoFault, Unnoticed, Calm
<1>9. CASE FallBackToSlow
  <2>1. NewSession(s.kind, s.verify) \in Sessions /\ NewSession(s.kind, s.verify).kind = s.kind
    BY <1>0, NewSessionFields DEF TypeOK, Sessions
  <2> QED
    BY <1>0, <1>9, <2>1, SessionHas DEF FallBackToSlow, gui, Unnoticed, Calm
<1> QED  BY <1>1, <1>2, <1>3, <1>4, <1>5, <1>6, <1>7, <1>8, <1>9

\* A write that failed, handed over to the user: kept open past the boundary,
\* reported as not started before it.
Concluded ==
    /\ Calm
    /\ outcome = "running" /\ pc # "held"
    /\ IF s.destructive_started
       THEN pc' = "held" /\ outcome' = outcome
       ELSE pc' # "held" /\ outcome' = "not_started"

\* A write that is reported complete has erased and written every array it is for.
Completed ==
    /\ Calm
    /\ outcome = "running" /\ pc # "held" /\ pc' # "held"
    /\ outcome' = "complete"
    /\ \A a \in Affected : Done(a)

LEMMA ConcludeNoticed ==
    ASSUME IInv, pc \in Running, ~s.slow, NEW sess \in Sessions, NEW recovered \in BOOLEAN,
           Conclude(sess, recovered), sess.kind = s.kind,
           sess.destructive_started = s.destructive_started,
           ecu'.cells = ecu.cells, ecu'.wrong = ecu.wrong
    PROVE  Concluded
<1>1. PICK state \in HostStates :
         s' = [sess EXCEPT !.state = state, !.handling = FALSE, !.cycled = FALSE]
  BY Values DEF Conclude
<1>2. s'.kind = s.kind /\ ecu'.wrong <= ecu.wrong
  BY <1>1, SessionHas, Known
<1>3. outcome = "running" /\ pc # "held"
  BY
     DEF IInv, OutcomeInv, Running, Entry, Authorization, Flashing, Finishing, Lowering,
         Handling
<1>4. erases' = erases
  BY DEF Conclude
<1> QED
  BY <1>2, <1>3, <1>4 DEF Concluded, Calm, Conclude

LEMMA SucceedNoticed ==
    ASSUME IInv, \/ pc \in Finishing
                 \/ pc \in Lowering /\ ~s.handling,
           NEW sess, Succeed(sess), sess.kind = s.kind,
           ecu'.cells = ecu.cells, ecu'.wrong = ecu.wrong
    PROVE  Completed
<1>1. outcome = "running" /\ pc # "held" /\ pc # "idle"
  BY FlashFacts DEF Finishing, Lowering
<1>2. \A a \in Affected : Done(a)
  BY <1>1 DEF IInv, PhaseInv
<1>3. s'.kind = s.kind /\ ecu'.wrong <= ecu.wrong
  BY Known DEF Succeed
<1> QED
  BY <1>1, <1>2, <1>3 DEF Completed, Calm, Succeed

LEMMA FinishedNoticed ==
    ASSUME IInv, pc \in {"fin_poll", "verify"},
           NEW sess \in {s, [s EXCEPT !.flash_completed = TRUE]},
           Finished(sess), ecu' = ecu
    PROVE  Unnoticed \/ Completed
<1>0. s \in Sessions /\ ecu.wrong <= ecu.wrong /\ pc \in Finishing
  BY Known DEF Finishing
<1>1. sess \in Sessions /\ sess.kind = s.kind
  BY <1>0, SessionHas, SessionSet
<1>2. CASE Partial
  BY <1>0, <1>1, <1>2 DEF Finished, Quiet, gui, Unnoticed, Calm
<1>3. CASE ~Partial
  <2>1. [sess EXCEPT !.state = "cycle"].kind = s.kind
    BY <1>1, SessionHas
  <2>2. Succeed([sess EXCEPT !.state = "cycle"])
    BY <1>3 DEF Finished
  <2> QED
    BY <1>0, <2>1, <2>2, SucceedNoticed
<1> QED  BY <1>2, <1>3

LEMMA FinishingNoticed ==
    ASSUME IInv, FinalPoll \/ Verify
    PROVE  Unnoticed \/ Completed
<1>0. /\ s \in Sessions /\ ecu.wrong <= ecu.wrong
      /\ pc \in {"fin_poll", "verify"}
  BY Known DEF FinalPoll, Verify
<1>1. ecu' = ecu
  BY DEF FinalPoll, Verify, Unanswered, Answered, Lost, FlashRefused, Refused, Finished
<1>2. \/ \E sess \in {s, [s EXCEPT !.flash_completed = TRUE]} : Finished(sess)
      \/ /\ Quiet
         /\ \/ s' = [s EXCEPT !.flash_completed = TRUE] /\ pc' = "verify"
            \/ Raise(s, "plain")
            \/ \E a2 \in BOOLEAN : Raise([s EXCEPT !.a2 = a2], "plain")
  BY DEF FinalPoll, Verify, FlashRefused
<1>3. CASE \E sess \in {s, [s EXCEPT !.flash_completed = TRUE]} : Finished(sess)
  BY <1>0, <1>1, <1>3, FinishedNoticed
<1>4. CASE /\ Quiet
           /\ \/ s' = [s EXCEPT !.flash_completed = TRUE] /\ pc' = "verify"
              \/ Raise(s, "plain")
              \/ \E a2 \in BOOLEAN : Raise([s EXCEPT !.a2 = a2], "plain")
  <2>1. s'.kind = s.kind /\ pc' # "held"
    BY <1>0, <1>4, SessionHas DEF Raise
  <2> QED
    BY <1>0, <1>1, <1>4, <2>1 DEF Quiet, gui, Unnoticed, Calm
<1> QED  BY <1>2, <1>3, <1>4

LEMMA FailLoweringNoticed ==
    ASSUME IInv, pc \in Lowering, FailLowering(s),
           ecu'.cells = ecu.cells, ecu'.wrong = ecu.wrong
    PROVE  Unnoticed \/ Concluded
<1>0. s \in Sessions /\ ecu'.wrong <= ecu.wrong
  BY Known
<1>1. CASE s.handling
  <2>1. ~s.slow /\ pc \in Running /\ FALSE \in BOOLEAN
    BY DEF IInv, OutcomeInv, Running, Authorization, Lowering
  <2> QED
    BY <1>0, <1>1, <2>1, ConcludeNoticed DEF FailLowering
<1>2. CASE ~s.handling
  <2>1. Raise(s, "plain") /\ Quiet
    BY <1>2 DEF FailLowering
  <2>2. s'.kind = s.kind /\ pc' # "held" /\ pc # "held"
    BY <1>0, <2>1, SessionHas DEF Raise, Lowering
  <2> QED
    BY <1>0, <2>1, <2>2 DEF Quiet, gui, Unnoticed, Calm
<1> QED  BY <1>1, <1>2

LEMMA LoweringNoticed ==
    ASSUME IInv, SwitchDown \/ BareBmw
    PROVE  Unnoticed \/ Concluded
<1>0. /\ s \in Sessions /\ ecu \in Dmes /\ ecu.wrong <= ecu.wrong
      /\ pc \in Lowering /\ pc # "held"
  BY Known DEF SwitchDown, BareBmw, Lowering
<1>1. ecu' \in {ecu, SelectedLow(ecu), Disarmed(ecu)}
  BY DEF SwitchDown, BareBmw, Answered, Lost
<1>2. ecu'.cells = ecu.cells /\ ecu'.wrong = ecu.wrong
  BY <1>0, <1>1, SelectedFields, DisarmedFields
<1>3. FailLowering(s) \/ (Quiet /\ s'.kind = s.kind /\ pc' \in {"bare", "low_identity"})
  BY <1>0, SessionHas DEF SwitchDown, BareBmw, Goto
<1> QED
  BY <1>0, <1>2, <1>3, FailLoweringNoticed DEF Quiet, gui, Unnoticed, Calm

LEMMA LowIdentityNoticed ==
    ASSUME IInv, LowIdentity
    PROVE  Unnoticed \/ Concluded \/ Completed
<1>0. /\ s \in Sessions /\ pc \in Lowering /\ ~s.slow /\ pc \in Running
      /\ TRUE \in BOOLEAN /\ FALSE \in BOOLEAN
  BY Known DEF LowIdentity, IInv, OutcomeInv, Running, Authorization, Lowering
<1>1. ecu' = ecu
  BY DEF LowIdentity, Answered, Lost
<1>2. CASE s.handling
  <2> DEFINE proven == [s EXCEPT !.safe_legacy_fallback = TRUE,
                                 !.fast_write_armed = @ /\ s.state # "armed"]
  <2>1. proven \in Sessions
    <3>1. (s.fast_write_armed /\ s.state # "armed") \in BOOLEAN
      BY <1>0 DEF Sessions
    <3>2. proven = [[s EXCEPT !.safe_legacy_fallback = TRUE]
                       EXCEPT !.fast_write_armed = s.fast_write_armed /\ s.state # "armed"]
      BY <1>0, SessionHas
    <3> HIDE DEF proven
    <3> QED
      BY <1>0, <3>1, <3>2, SessionSet
  <2>2. proven.kind = s.kind /\ proven.destructive_started = s.destructive_started
    BY <1>0, SessionHas
  <2>3. Conclude(proven, TRUE) \/ Conclude(s, FALSE)
    BY <1>2 DEF LowIdentity, FailLowering
  <2> HIDE DEF proven
  <2> QED
    BY <1>0, <1>1, <2>1, <2>2, <2>3, ConcludeNoticed
<1>3. CASE ~s.handling
  <2>1. \/ Succeed([s EXCEPT !.state = "complete"]) \/ Succeed([s EXCEPT !.state = "cycle"])
        \/ FailLowering(s)
    BY <1>3 DEF LowIdentity
  <2>2. /\ [s EXCEPT !.state = "complete"].kind = s.kind
        /\ [s EXCEPT !.state = "cycle"].kind = s.kind
    BY <1>0, SessionHas
  <2> QED
    BY <1>0, <1>1, <1>3, <2>1, <2>2, SucceedNoticed, FailLoweringNoticed
<1> QED  BY <1>2, <1>3

LEMMA SetUpFailsNoticed == ASSUME IInv, SetUpFails PROVE Concluded
<1> DEFINE fresh == NewSession(s.kind, s.verify)
           sess == [fresh EXCEPT !.safe_legacy_fallback = Hears(ecu, "low")]
<1>1. /\ s \in Sessions /\ pc = "identify" /\ s.kind \in Kinds /\ s.verify \in BOOLEAN
      /\ registry \in BOOLEAN /\ ecu' = ecu /\ Conclude(sess, TRUE)
  BY Known DEF SetUpFails, TypeOK, Sessions
<1>2. pc \in Running /\ ~s.slow /\ ~s.destructive_started
  <2>1. pc \in Entry /\ pc \in Running /\ pc # "idle" /\ pc \notin Authorization
    BY <1>1 DEF Entry, Running, Authorization
  <2>2. OutcomeInv
    BY DEF IInv
  <2> QED
    BY <2>1, <2>2, EntryFacts DEF OutcomeInv
<1>3. fresh \in Sessions /\ fresh.kind = s.kind /\ ~fresh.destructive_started
  BY <1>1, NewSessionFields
<1>4. Hears(ecu, "low") \in BOOLEAN
  BY DEF Hears
<1> HIDE DEF fresh
<1>5. sess \in Sessions /\ sess.kind = s.kind
  BY <1>3, <1>4, SessionSet, SessionHas
<1>6. sess.destructive_started = s.destructive_started
  <2>1. sess.destructive_started = fresh.destructive_started
    BY <1>3, SessionHas
  <2> QED
    BY <1>1, <1>2, <1>3, <2>1 DEF Sessions
<1> HIDE DEF sess
<1> QED
  BY <1>1, <1>2, <1>5, <1>6, ConcludeNoticed

LEMMA HandleNoticed ==
    ASSUME IInv, Handle
    PROVE  Unnoticed \/ Concluded
<1>0. /\ s \in Sessions /\ pc = "handler" /\ ~s.slow /\ pc \in Running /\ ecu.wrong <= ecu.wrong
      /\ FALSE \in BOOLEAN /\ ecu' = ecu
  BY Known DEF Handle, IInv, OutcomeInv, Running, Handling, Authorization
<1> DEFINE failed == [s EXCEPT !.failure_state = s.state,
                               !.handling = ~s.destructive_started,
                               !.fast_write_armed = @ /\ ~s.recovery_replay_attempted,
                               !.recovery_replay_attempted = Spent]
<1>1. failed \in Sessions
  <2>1. /\ s.state \in HostStates /\ (~s.destructive_started) \in BOOLEAN
        /\ (s.fast_write_armed /\ ~s.recovery_replay_attempted) \in BOOLEAN
        /\ Spent \in BOOLEAN
    BY <1>0 DEF Sessions, Spent
  <2> DEFINE armed == s.fast_write_armed /\ ~s.recovery_replay_attempted
  <2>2. failed = [[[[s EXCEPT !.failure_state = s.state]
                       EXCEPT !.handling = ~s.destructive_started]
                       EXCEPT !.fast_write_armed = armed]
                       EXCEPT !.recovery_replay_attempted = Spent]
    BY <1>0, SessionHas
  <2>3. armed \in BOOLEAN
    BY <2>1
  <2> HIDE DEF failed, armed
  <2> QED
    BY <1>0, <2>1, <2>2, <2>3, SessionSet
<1>2. failed.kind = s.kind /\ failed.destructive_started = s.destructive_started
  BY <1>0, SessionHas
<1>3. \/ Conclude(failed, FALSE)
      \/ s' = failed /\ pc' \in {"low_identity", "probe_high"} /\ Quiet
  BY DEF Handle
<1> HIDE DEF failed
<1> QED
  BY <1>0, <1>1, <1>2, <1>3, ConcludeNoticed DEF Quiet, gui, Unnoticed, Calm

LEMMA ProbeLowNoticed ==
    ASSUME IInv, ProbeLow
    PROVE  Unnoticed \/ Concluded
<1>0. /\ s \in Sessions /\ pc = "probe_low" /\ ~s.slow /\ pc \in Running /\ ecu.wrong <= ecu.wrong
      /\ FALSE \in BOOLEAN /\ ecu' = ecu
  BY Known DEF ProbeLow, IInv, OutcomeInv, Running, Handling, Authorization
<1>1. \A link \in {"low", "unknown"} :
        /\ [s EXCEPT !.link = link] \in Sessions
        /\ [s EXCEPT !.link = link].kind = s.kind
        /\ [s EXCEPT !.link = link].destructive_started = s.destructive_started
  BY <1>0, SessionSet, SessionHas
<1>2. \/ Conclude([s EXCEPT !.link = "unknown"], FALSE)
      \/ s' = [s EXCEPT !.link = "low"] /\ pc' = "low_identity" /\ Quiet
  BY DEF ProbeLow
<1> QED
  BY <1>0, <1>1, <1>2, ConcludeNoticed DEF Quiet, gui, Unnoticed, Calm

LEMMA ReportUnnoticed == ASSUME IInv, ReportNotStarted PROVE Unnoticed
  BY Known DEF ReportNotStarted, Unnoticed, Calm

\* What ends a write that is running or kept open without a report.
GivenUp ==
    /\ Calm
    /\ pc = "held" \/ outcome = "running"
    /\ pc' # "held" /\ outcome' = "abandoned"

LEMMA ForgottenNoticed ==
    ASSUME IInv, Forgotten
    PROVE  Unnoticed \/ GivenUp
<1>1. pc = "held" => outcome = "running"
  BY DEF IInv, OutcomeInv
<1>2. Calm
  BY Known, SessionHas DEF Forgotten, Calm
<1>3. pc' # "held" /\ outcome' = IF outcome = "running" THEN "abandoned" ELSE outcome
  BY DEF Forgotten
<1> QED
  BY <1>1, <1>2, <1>3 DEF GivenUp, Unnoticed

\* What happens around the program leaves the report and the flash alone.
LEMMA SurroundingsNoticed ==
    ASSUME IInv, CycleIgnition \/ PowerCut \/ LatchReady
    PROVE  Calm /\ outcome' = outcome /\ (pc' = "held" <=> pc = "held")
<1>0. /\ s \in Sessions /\ ecu \in Dmes /\ ecu.wrong \in 0 .. 2 /\ ecu.wrong <= ecu.wrong
      /\ "latch" \in DOMAIN ecu
  BY Known DEF Dmes
<1>1. ecu' = PowerUp(ecu) \/ ecu' = [ecu EXCEPT !.latch = "ready"]
  BY DEF CycleIgnition, PowerCut, LatchReady
<1>2. ecu'.cells = ecu.cells /\ ecu'.wrong <= ecu.wrong
  BY <1>0, <1>1, PowerUpFields DEF Dmes
<1>3. s'.kind = s.kind
  BY <1>0, SessionHas DEF CycleIgnition, PowerCut, LatchReady
<1>4. erases' = erases /\ outcome' = outcome /\ (pc' = "held" <=> pc = "held")
  BY DEF CycleIgnition, PowerCut, LatchReady, gui
<1> QED  BY <1>2, <1>3, <1>4 DEF Calm

LEMMA RetryNoticed ==
    ASSUME IInv, RetryRecovery
    PROVE  Calm /\ pc = "held" /\ outcome = "running" /\ outcome' = outcome /\ pc' # "held"
<1>1. outcome = "running" /\ pc = "held"
  BY DEF IInv, OutcomeInv, RetryRecovery
<1>2. s'.kind = s.kind
  BY Known, SessionHas DEF RetryRecovery
<1> QED
  BY <1>1, <1>2, Known DEF RetryRecovery, gui, Calm

LEMMA ReleaseNoticed == ASSUME IInv, ReleaseAfterCycle PROVE GivenUp
  BY Known DEF ReleaseAfterCycle, GivenUp, Calm

LEMMA StartNoticed ==
    ASSUME IInv, NEW kind \in Kinds, NEW verify \in BOOLEAN, Start(kind, verify)
    PROVE  /\ ecu'.wrong <= ecu.wrong
           /\ pc = "idle" /\ pc' # "held" /\ outcome # "running" /\ outcome' = "running"
           /\ \A a \in Arrays : erases'[a] = 0
           /\ operations' # operations
<1>1. ecu \in Dmes /\ ecu.wrong <= ecu.wrong /\ operations \in Nat
  BY Known DEF TypeOK
<1>2. ecu' = Retargeted(ecu)
  BY DEF Start
<1>3. ecu'.wrong <= ecu.wrong
  BY <1>1, <1>2, RetargetedFields
<1>4. pc = "idle" /\ outcome # "running"
  BY DEF IInv, OutcomeInv, Start
<1> QED
  BY <1>1, <1>3, <1>4 DEF Start

\* An erase is sent by a write that runs, at most once from each place, and not
\* after an A2 or a final write; a packet only goes onto an array it has erased.
Cuts ==
    /\ s'.kind = s.kind
    /\ ecu'.wrong <= ecu.wrong
    /\ outcome = "running" /\ outcome' = outcome /\ pc # "held" /\ pc' # "held"
    /\ \/ ecu'.cells = ecu.cells /\ erases' = erases
       \/ \E a \in Arrays : erases'[a] > 0
    /\ (s.a2 \/ s.flash_completed) => erases' = erases

LEMMA EraseNoticed == ASSUME IInv, Erase PROVE Cuts
<1>1. /\ TypeOK /\ s \in Sessions /\ ecu \in Dmes /\ pc = "erase" /\ pc \in Flashing
      /\ outcome = "running"
  BY FlashFacts DEF Erase, Flashing
<1>2. Array \in Arrays
  BY <1>1, ArrayFacts
<1>3. ~s.a2 /\ ~s.flash_completed
  BY <1>1 DEF IInv, EraseInv
<1>4. \/ ecu' = ecu /\ erases' = erases
      \/ ecu' = Erased(ecu, Array) /\ erases' = [erases EXCEPT ![Array] = @ + 1]
  BY DEF Erase, Answered, Refused
<1>5. ecu'.wrong = ecu.wrong
  BY <1>1, <1>2, <1>4, FlashFields
<1>6. \/ ecu'.cells = ecu.cells /\ erases' = erases
      \/ erases'[Array] > 0
  BY <1>1, <1>2, <1>4 DEF TypeOK
<1>7. s'.kind = s.kind
  BY <1>1, SessionHas DEF Erase, AtBoundary, Raise
<1>8. outcome' = outcome /\ pc' # "held"
  BY DEF Erase, gui, Raise
<1> QED
  BY <1>1, <1>2, <1>3, <1>5, <1>6, <1>7, <1>8, Known DEF Cuts

LEMMA ProgramNoticed == ASSUME IInv, Program PROVE Cuts
<1>1. /\ TypeOK /\ s \in Sessions /\ ecu \in Dmes /\ pc = "program" /\ ecu.wrong <= ecu.wrong
      /\ outcome = "running" /\ Array \in Arrays /\ erases[Array] > 0
      /\ s.pkt \in 1 .. Packets /\ ecu.cells[Array][s.pkt] \in Cells
  BY PacketFacts, Known DEF Program
<1>2. \/ ecu' = ecu
      \/ \E cell \in Cells : ecu' = Programmed(ecu, Array, s.pkt, cell)
  BY <1>1 DEF Program, Answered, FlashRefused, Refused, Interrupted, Cells
<1>3. ecu'.wrong = ecu.wrong
  BY <1>1, <1>2, FlashFields
<1>4. s'.kind = s.kind
  BY <1>1, SessionHas
     DEF Program, Unconfirmed, PacketDone, ArrayDone, Goto, FlashRefused, Raise
<1>5. Quiet /\ pc' # "held"
  BY <1>1 DEF Program, Unconfirmed, PacketDone, ArrayDone, Goto, FlashRefused, Raise
<1> QED
  BY <1>1, <1>3, <1>4, <1>5 DEF Cuts, Quiet, gui

\* Every step is one of these.
LEMMA EveryStep ==
    ASSUME IInv, [Next]_vars
    PROVE  \/ \E kind \in Kinds, verify \in BOOLEAN : Start(kind, verify)
           \/ Calm /\ outcome' = outcome /\ (pc' = "held" <=> pc = "held")
           \/ Calm /\ pc = "held" /\ outcome = "running" /\ outcome' = outcome /\ pc' # "held"
           \/ Concluded
           \/ Completed
           \/ GivenUp
           \/ Cuts
<1>1. Unnoticed => Calm /\ outcome' = outcome /\ (pc' = "held" <=> pc = "held")
  BY DEF Unnoticed
<1>2. CASE SessionStep
  BY <1>1, <1>2, EntryUnnoticed, FlashUnnoticed, FinishingNoticed, LoweringNoticed,
     LowIdentityNoticed, SetUpFailsNoticed, HandleNoticed, ProbeLowNoticed, ReportUnnoticed,
     EraseNoticed,
     ProgramNoticed DEF SessionStep
<1>3. CASE RetryRecovery
  BY <1>3, RetryNoticed
<1>4. CASE ReleaseAfterCycle
  BY <1>4, ReleaseNoticed
<1>5. CASE CloseProgram \/ Crash
  BY <1>1, <1>5, ForgottenNoticed DEF CloseProgram, Crash
<1>6. CASE CycleIgnition \/ PowerCut \/ LatchReady
  BY <1>6, SurroundingsNoticed
<1>7. CASE UNCHANGED vars
  BY <1>7, Known DEF vars, Calm
<1> QED
  BY <1>2, <1>3, <1>4, <1>5, <1>6, <1>7 DEF Next

\* No sequence of failures, fallbacks, retries and restarts spends a wrong key, or
\* erases once more after an A2 or a final write.
THEOREM NothingIsSpent == Spec => NothingSpent
<1>1. IInv /\ [Next]_vars => [ecu'.wrong <= ecu.wrong]_vars
  <2> SUFFICES ASSUME IInv, [Next]_vars PROVE ecu'.wrong <= ecu.wrong
    OBVIOUS
  <2> QED
    BY EveryStep, StartNoticed DEF Calm, Concluded, Completed, GivenUp, Cuts
<1>2. IInv /\ [Next]_vars
         => [(s.a2 \/ s.flash_completed) /\ operations' = operations => erases' = erases]_vars
  <2> SUFFICES ASSUME IInv, [Next]_vars, s.a2 \/ s.flash_completed, operations' = operations
               PROVE  erases' = erases
    OBVIOUS
  <2> QED
    BY EveryStep, StartNoticed DEF Calm, Concluded, Completed, GivenUp, Cuts
<1> QED
  BY <1>1, <1>2, NativeFastInvariant, PTL DEF NothingSpent, NoWrongKey, NoEraseAfterA2, Spec

---------------------------------------------------------------------------
(* The writer implements FlashOutcome.                                     *)

Untouched == \A a \in Arrays : erases[a] = 0

LEMMA ContentSame == ASSUME Calm PROVE Content' = Content
  BY DEF Calm, Content, Affected, Partial, HoldsNew

LEMMA ContentKinds ==
    /\ Untouched => Content = "kept"
    /\ ~Untouched => Content \in {"torn", "target"}
  BY DEF Content, Untouched

\* Each step is one of the abstract writer's, or none of its business.
LEMMA StepRefined ==
    ASSUME IInv, [Next]_vars
    PROVE  [Promise!Next]_<<Content, Verdict>>
<1>1. CASE \E kind \in Kinds, verify \in BOOLEAN : Start(kind, verify)
  <2>1. /\ pc = "idle" /\ pc' # "held" /\ outcome # "running" /\ outcome' = "running"
        /\ Untouched'
    BY <1>1, StartNoticed DEF Untouched
  <2>2. outcome \in {"none", "not_started", "complete", "abandoned"}
    BY <2>1, Known DEF TypeOK
  <2>3. Content' = "kept"
    BY <2>1 DEF Content, Untouched
  <2> QED
    BY <2>1, <2>2, <2>3 DEF Promise!Next, Promise!Begin, Verdict
<1>2. CASE Calm /\ outcome' = outcome /\ (pc' = "held" <=> pc = "held")
  BY <1>2, ContentSame DEF Verdict
<1>3. CASE Calm /\ pc = "held" /\ outcome = "running" /\ outcome' = outcome /\ pc' # "held"
  BY <1>3, ContentSame DEF Verdict, Promise!Next, Promise!Resume
<1>4. CASE Concluded
  <2>1. Content' = Content
    BY <1>4, ContentSame DEF Concluded
  <2>2. CASE s.destructive_started
    BY <1>4, <2>1, <2>2 DEF Concluded, Verdict, Promise!Next, Promise!Hold
  <2>3. CASE ~s.destructive_started
    <3>1. pc # "idle"
      BY <1>4 DEF Concluded, IInv, OutcomeInv
    <3>2. Content = "kept"
      BY <2>3, <3>1 DEF IInv, BoundaryInv, Content
    <3> QED
      BY <1>4, <2>1, <2>3, <3>2 DEF Concluded, Verdict, Promise!Next, Promise!ReportNotStarted
  <2> QED  BY <2>2, <2>3
<1>5. CASE Completed
  <2>1. Content' = Content
    BY <1>5, ContentSame DEF Completed
  <2>2. Content = "target"
    <3>1. s.kind \in {"partial", "full", "program_only"} /\ erases \in [Arrays -> Nat]
      BY Known, NativeFastAssumption DEF TypeOK, Sessions
    <3>2. \E a \in Affected : a \in Arrays
      BY <3>1 DEF Affected, Arrays, Partial
    <3>3. PICK a \in Arrays : Done(a)
      BY <1>5, <3>2 DEF Completed
    <3>4. erases[a] # 0
      BY <3>1, <3>3 DEF Done
    <3>5. \A b \in Arrays \ Affected : erases[b] = 0
      BY <1>5 DEF Completed, IInv, OutcomeInv, BoundaryInv
    <3> QED
      BY <1>5, <3>4, <3>5 DEF Completed, Content, Done
  <2> QED
    BY <1>5, <2>1, <2>2 DEF Completed, Verdict, Promise!Next, Promise!ReportComplete
<1>6. CASE GivenUp
  BY <1>6, ContentSame DEF GivenUp, Verdict, Promise!Next, Promise!Abandon
<1>7. CASE Cuts
  <2>1. CASE ecu'.cells = ecu.cells /\ erases' = erases
    <3>1. Calm
      BY <1>7, <2>1 DEF Cuts, Calm
    <3> QED
      BY <1>7, <3>1, ContentSame DEF Cuts, Verdict
  <2>2. CASE \E a \in Arrays : erases'[a] > 0
    <3>1. Content' \in {"torn", "target"}
      <4>1. PICK a \in Arrays : erases'[a] > 0
        BY <2>2
      <4>2. erases'[a] # 0
        BY <4>1
      <4> QED
        BY <4>2 DEF Content
    <3> QED
      BY <1>7, <3>1 DEF Cuts, Verdict, Promise!Next, Promise!Change
  <2> QED  BY <1>7, <2>1, <2>2 DEF Cuts
<1> QED
  BY <1>1, <1>2, <1>3, <1>4, <1>5, <1>6, <1>7, EveryStep

LEMMA InitRefined == ASSUME Init PROVE Promise!Init
  BY DEF Init, Promise!Init, Content, Verdict

\* The writer keeps what FlashOutcome promises, for any number of packets, kinds of
\* write, retries, failures and restarts.
THEOREM OutcomeIsPromised == Spec => ImplementsPromise
<1>1. Init => Promise!Init
  BY InitRefined
<1>2. IInv /\ [Next]_vars => [Promise!Next]_<<Content, Verdict>>
  BY StepRefined
<1> QED
  BY <1>1, <1>2, NativeFastInvariant, PTL DEF Spec, ImplementsPromise, Promise!Spec
================================================================================
