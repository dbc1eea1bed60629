----------------------------- MODULE LegacyWrite -----------------------------
(***************************************************************************)
(* The slow DS2 writer at 9600: write_partial and write_full of ds2.py     *)
(* with their retained recovery (LegacyWriteRecovery), the one automatic   *)
(* and the one manual replay, the stock finalizer, and what gui.py does    *)
(* with a session that failed after its first erase.                       *)
(*                                                                         *)
(* Every request may be lost, carried out with its reply lost, or refused, *)
(* as often as the code's own limits allow it to be sent; power may fail   *)
(* and the program may die between any two requests.                       *)
(***************************************************************************)
EXTENDS Dme

CONSTANT WriteRetries    \* WRITE_RETRIES: transmissions of one packet

VARIABLES
    ecu,      \* the engine computer: E658, the flash routine in RAM, the packets
    s,        \* the LegacyWriteRecovery of the write
    pc,       \* the request it makes next, or where it rests
    outcome,  \* history: what the operation was reported as
    touched   \* history: the operation has erased

vars == <<ecu, s, pc, outcome, touched>>

Pcs == {"idle", "unlock", "poll", "erase", "program", "readback", "confirm",
        "finalize", "verify", "handler", "held"}
Computers ==
    [ auth : 0 .. 2, resident : BOOLEAN, cells : [Arrays -> [1 .. Packets -> Cells]] ]

\* cycle: the error asks for an ignition cycle (status A2, or a state of the
\* authorization that only a cycle clears).
Recoveries ==
    [ operation : {"tune", "full"}, verify_write : BOOLEAN,
      phase : {"program", "tune", "finalize"}, destructive_started : BOOLEAN,
      automatic_replay_attempted : BOOLEAN, manual_replay_attempted : BOOLEAN,
      completed : BOOLEAN, cycle : BOOLEAN, pkt : 1 .. Packets, tries : 1 .. WriteRetries ]

NewRecovery(operation, verify) ==
    [ operation |-> operation, verify_write |-> verify,
      phase |-> IF operation = "full" THEN "program" ELSE "tune",
      destructive_started |-> FALSE, automatic_replay_attempted |-> FALSE,
      manual_replay_attempted |-> FALSE, completed |-> FALSE, cycle |-> FALSE,
      pkt |-> 1, tries |-> 1 ]

Affected == IF s.operation = "full" THEN Arrays ELSE {"tune"}

\* After the first erase the flash routine in RAM answers until power is lost;
\* before it, the program in flash does.
Answers == ecu.resident \/ WholeArray(ecu, "program")

PowerCycleRequired == s.completed \/ s.cycle

RetrySupported ==
    /\ s.destructive_started /\ ~s.completed
    /\ s.phase \in {"program", "tune"}
    /\ ~s.manual_replay_attempted
    /\ ~PowerCycleRequired

Raise(sess, cycle) == s' = [sess EXCEPT !.cycle = cycle] /\ pc' = "handler"

\* A request that ends in an exception; only a computer that answers can ask
\* for a cycle.
Failed(sess) ==
    \/ Raise(sess, FALSE)
    \/ Answers /\ Raise(sess, TRUE)
---------------------------------------------------------------------------
Start(operation, verify) ==
    /\ pc = "idle"
    /\ ecu' = Retargeted(ecu)
    /\ s' = NewRecovery(operation, verify)
    /\ pc' = "unlock"
    /\ outcome' = "running"
    /\ touched' = FALSE

\* Preparation, the challenge and its key, and the reads before the erase.
Unlock ==
    /\ pc = "unlock"
    /\ \/ /\ Answers
          /\ ecu' = [ecu EXCEPT !.auth = 2]
          /\ pc' = "poll" /\ UNCHANGED s
       \/ /\ \E auth \in 0 .. 2 : ecu' = [ecu EXCEPT !.auth = IF Answers THEN auth ELSE @]
          /\ Failed(s)
    /\ UNCHANGED <<outcome, touched>>

\* _erase_sector polls twice; what the polls report is not looked at.
Poll ==
    /\ pc = "poll"
    /\ \/ Answers /\ ecu.auth = 2 /\ pc' = "erase" /\ UNCHANGED s
       \/ Failed(s)
    /\ UNCHANGED <<ecu, outcome, touched>>

\* Mutant: the boundary is not recorded.
NotRecorded == [s EXCEPT !.pkt = 1, !.tries = 1]
BeforeErase == [s EXCEPT !.destructive_started = TRUE, !.pkt = 1, !.tries = 1]

\* The boundary is recorded before the request; an erase without a valid
\* acknowledgement is not repeated.
Erase ==
    /\ pc = "erase"
    /\ LET erased == [Erased(ecu, s.phase) EXCEPT !.resident = TRUE]
       IN  \/ /\ Answers /\ ecu.auth = 2
              /\ ecu' = erased
              /\ touched' = TRUE
              /\ s' = BeforeErase
              /\ pc' = "program"
           \/ /\ \/ UNCHANGED <<ecu, touched>>
                 \/ Answers /\ ecu.auth = 2 /\ ecu' = erased /\ touched' = TRUE
              /\ Failed(BeforeErase)
    /\ UNCHANGED outcome

\* After the last packet of a phase the full write goes on with the
\* calibration; then the finalizer follows.
PacketDone ==
    CASE s.pkt < Packets ->
            s' = [s EXCEPT !.pkt = @ + 1, !.tries = 1] /\ pc' = "program"
      [] s.pkt = Packets /\ s.phase = "program" ->
            s' = [s EXCEPT !.phase = "tune"] /\ pc' = "poll"
      [] OTHER ->
            s' = [s EXCEPT !.phase = "finalize"] /\ pc' = "finalize"

\* A packet with a valid reply, one whose reply is uncertain and is looked up,
\* or one that fails in another way.
Program ==
    /\ pc = "program"
    /\ \/ /\ Answers /\ ecu.auth = 2
          /\ ecu' = Programmed(ecu, s.phase, s.pkt, "new")
          /\ PacketDone
       \/ /\ \E cell \in Interrupted(ecu.cells[s.phase][s.pkt]) :
                 ecu' = IF Answers /\ ecu.auth = 2
                        THEN Programmed(ecu, s.phase, s.pkt, cell) ELSE ecu
          /\ \/ pc' = "readback" /\ UNCHANGED s
             \/ Failed(s)
    /\ UNCHANGED <<outcome, touched>>

\* Mutant: whatever is not what was sent is sent again.
ResendAny(cell) == cell # "new"
\* DS2ProgramMismatch.blank: only a packet that is still erased is sent again.
Resendable(cell) == cell = "blank"

\* What the packet holds decides; a mixture replays the phase, once.
Readback ==
    /\ pc = "readback"
    /\ \/ /\ Answers
          /\ LET cell == ecu.cells[s.phase][s.pkt]
             IN  CASE cell = "new" -> PacketDone
                   [] Resendable(cell) ->
                        IF s.tries < WriteRetries
                        THEN s' = [s EXCEPT !.tries = @ + 1] /\ pc' = "program"
                        ELSE Raise(s, FALSE)
                   [] OTHER ->
                        IF s.automatic_replay_attempted
                        THEN Raise(s, FALSE)
                        ELSE /\ s' = [s EXCEPT !.automatic_replay_attempted = TRUE]
                             /\ pc' = "confirm"
       \/ Failed(s)
    /\ UNCHANGED <<ecu, outcome, touched>>

\* _confirm_legacy_recovery, before either replay: nothing but reads.
Confirm ==
    /\ pc = "confirm"
    /\ \/ Answers /\ ecu.auth = 2 /\ pc' = "poll" /\ UNCHANGED s
       \/ Answers /\ ecu.auth # 2 /\ Raise(s, ecu.auth = 1)
       \/ Failed(s)
    /\ UNCHANGED <<ecu, outcome, touched>>

Succeed ==
    /\ pc' = "idle"
    /\ outcome' = "complete"

FinalizerPasses == \A a \in Arrays : WholeArray(ecu, a)

\* verify_program_region authorizes again and runs the stock check, which
\* commits E740=0 when it passes.
Finalize ==
    /\ pc = "finalize"
    /\ \/ /\ Answers /\ FinalizerPasses
          /\ ecu' = [ecu EXCEPT !.auth = 2]
          /\ s' = [s EXCEPT !.completed = TRUE]
          /\ IF s.verify_write THEN pc' = "verify" /\ UNCHANGED outcome ELSE Succeed
       \/ /\ \E auth \in 0 .. 2 : ecu' = [ecu EXCEPT !.auth = IF Answers THEN auth ELSE @]
          /\ Failed(s)
          /\ UNCHANGED outcome
    /\ UNCHANGED touched

\* _ds2_verify_after_write.
Verify ==
    /\ pc = "verify"
    /\ UNCHANGED <<ecu, touched>>
    /\ \/ Answers /\ (\A a \in Affected : HoldsNew(ecu, a)) /\ Succeed /\ UNCHANGED s
       \/ Failed(s) /\ UNCHANGED outcome

\* Nothing erased: the error is reported and the session dropped.  Otherwise
\* the session is retained with its port.
Handle ==
    /\ pc = "handler"
    /\ IF s.destructive_started
       THEN pc' = "held" /\ UNCHANGED outcome
       ELSE pc' = "idle" /\ outcome' = "not_started"
    /\ UNCHANGED <<ecu, s, touched>>
---------------------------------------------------------------------------
(* The user and the surroundings.                                          *)

\* resume_legacy_recovery: a replay the user asked for starts no other one.
Retry ==
    /\ pc = "held" /\ RetrySupported
    /\ s' = [s EXCEPT !.manual_replay_attempted = TRUE, !.automatic_replay_attempted = TRUE]
    /\ pc' = "confirm"
    /\ UNCHANGED <<ecu, outcome, touched>>

\* _release_flash_recovery_after_cycle.
Release ==
    /\ pc = "held" /\ ~RetrySupported /\ PowerCycleRequired
    /\ pc' = "idle"
    /\ outcome' = "abandoned"
    /\ UNCHANGED <<ecu, s, touched>>

\* The program is closed on a retained session, or dies.
Exit ==
    /\ pc # "idle"
    /\ pc' = "idle"
    /\ outcome' = "abandoned"
    /\ UNCHANGED <<ecu, s, touched>>

\* The ignition is cycled or power is lost.
PowerOff ==
    /\ ecu' = [ecu EXCEPT !.auth = 0, !.resident = FALSE]
    /\ ecu' # ecu
    /\ UNCHANGED <<s, pc, outcome, touched>>

Init ==
    /\ ecu \in [ auth : 0 .. 2, resident : {FALSE},
                 cells : {[a \in Arrays |-> [p \in 1 .. Packets |-> "old"]]} ]
    /\ s = NewRecovery("tune", FALSE)
    /\ pc = "idle"
    /\ outcome = "none"
    /\ touched = FALSE

WorkerStep ==
    \/ Unlock \/ Poll \/ Erase \/ Program \/ Readback \/ Confirm
    \/ Finalize \/ Verify \/ Handle

Next ==
    \/ \E operation \in {"tune", "full"}, verify \in BOOLEAN : Start(operation, verify)
    \/ WorkerStep
    \/ Retry \/ Release \/ Exit \/ PowerOff

Spec == Init /\ [][Next]_vars
FairSpec == Spec /\ WF_vars(WorkerStep)
---------------------------------------------------------------------------
TypeOK ==
    /\ ecu \in Computers
    /\ s \in Recoveries
    /\ pc \in Pcs
    /\ outcome \in {"none", "running", "not_started", "complete", "abandoned"}
    /\ touched \in BOOLEAN

\* A packet is sent only onto erased flash, also after lost replies and in a
\* replay of either kind.
OnlyOntoErased ==
    pc = "program" /\ Answers => ecu.cells[s.phase][s.pkt] = "blank"

\* Waiting for the user, or for the next write.
Resting == pc \in {"idle", "held"}
WritesEnd == ~Resting ~> Resting

Content ==
    IF ~touched THEN "kept"
    ELSE IF \A a \in Affected : HoldsNew(ecu, a) THEN "target" ELSE "torn"
Verdict == IF pc = "held" THEN "held" ELSE outcome

Promise == INSTANCE FlashOutcome WITH content <- Content, verdict <- Verdict
ImplementsPromise == Promise!Spec
==============================================================================
