-------------------------- MODULE FlashWritersProofs --------------------------
(***************************************************************************)
(* The writers behind one operation, for every number of packets, blocks,  *)
(* rates and repeats.  The connection fixes the writer, so that what holds *)
(* of each writer under its own steps holds of the operation.              *)
(***************************************************************************)
EXTENDS SessionWritersProofs

---------------------------------------------------------------------------
(* The guided installation.                                                *)

LEMMA InstallRebooted ==
    ASSUME NEW e \in Install!Computers
    PROVE  /\ Install!Rebooted(e) \in Install!Computers
           /\ Install!Rebooted(e).mode # "waiting"
           /\ Install!Rebooted(e).marker = e.marker
  BY DEF Install!Computers, Install!Rebooted

LEMMA InstallSessions ==
    /\ Install!NewSession \in Install!Sessions
    /\ \A phase \in {"bootstrap", "target"}, replay \in Install!Replays :
          [Install!NewSession EXCEPT !.phase = phase, !.replay = replay] \in Install!Sessions
<1>1. Install!NewSession \in Install!Sessions
  BY DEF Install!Sessions, Install!NewSession, Install!Replays
<1> QED
  BY <1>1 DEF Install!Sessions

LEMMA InstallStarts == ASSUME Install!Init PROVE Install!TypeOK /\ Install!OneTrigger
<1>1. ecu \in Install!Computers
  BY DEF Install!Init, Install!Computers
<1>2. s \in Install!Sessions
  BY DEF Install!Init, Install!Sessions, Install!NewSession, Install!Replays
<1>3. pc = "idle" /\ outcome = "none" /\ touched = FALSE
  BY DEF Install!Init
<1> QED
  BY <1>1, <1>2, <1>3 DEF Install!TypeOK, Install!OneTrigger, Install!Pcs

LEMMA InstallTyped == ASSUME Install!TypeOK, Install!Next PROVE (Install!TypeOK)'
<1>1. CASE Install!Start
  <2>1. ecu' \in Install!Computers
    BY <1>1, InstallRebooted
       DEF Install!TypeOK, Install!Start, Install!Goto, Install!Report, Install!Stopped,
           Install!Retain, Install!Stays, Install!AnswersDs2, Install!Computers
  <2>2. s' \in Install!Sessions
    BY <1>1, InstallSessions
       DEF Install!TypeOK, Install!Start, Install!Goto, Install!Report, Install!Stopped,
           Install!Retain, Install!Stays, Install!AnswersDs2, Install!Replays
  <2>3. pc' \in Install!Pcs
    BY <1>1
       DEF Install!TypeOK, Install!Start, Install!Goto, Install!Report, Install!Stopped,
           Install!Retain, Install!Stays, Install!AnswersDs2, Install!Pcs, Install!Questions
  <2>4. /\ outcome' \in {"none", "running", "not_started", "complete", "abandoned"}
        /\ touched' \in BOOLEAN
    BY <1>1
       DEF Install!TypeOK, Install!Start, Install!Goto, Install!Report, Install!Stopped,
           Install!Retain, Install!Stays, Install!AnswersDs2, Install!AnswersDs2
  <2> QED BY <2>1, <2>2, <2>3, <2>4 DEF Install!TypeOK
<1>2. CASE Install!Preflight
  <2>1. ecu' \in Install!Computers
    BY <1>2, InstallRebooted
       DEF Install!TypeOK, Install!Preflight, Install!Goto, Install!Report, Install!Stopped,
           Install!Retain, Install!Stays, Install!AnswersDs2, Install!Computers
  <2>2. s' \in Install!Sessions
    BY <1>2, InstallSessions
       DEF Install!TypeOK, Install!Preflight, Install!Goto, Install!Report, Install!Stopped,
           Install!Retain, Install!Stays, Install!AnswersDs2, Install!Replays
  <2>3. pc' \in Install!Pcs
    BY <1>2
       DEF Install!TypeOK, Install!Preflight, Install!Goto, Install!Report, Install!Stopped,
           Install!Retain, Install!Stays, Install!AnswersDs2, Install!Pcs, Install!Questions
  <2>4. /\ outcome' \in {"none", "running", "not_started", "complete", "abandoned"}
        /\ touched' \in BOOLEAN
    BY <1>2
       DEF Install!TypeOK, Install!Preflight, Install!Goto, Install!Report, Install!Stopped,
           Install!Retain, Install!Stays, Install!AnswersDs2, Install!AnswersDs2
  <2> QED BY <2>1, <2>2, <2>3, <2>4 DEF Install!TypeOK
<1>3. CASE Install!DeployFast
  <2>1. ecu' \in Install!Computers
    <3>1. \E program \in {"torn", "door"}, marker \in BOOLEAN, mode \in {"fast", "normal"} :
             ecu' = [ecu EXCEPT !.program = program, !.marker = marker, !.mode = mode]
      <4>1. \E mode \in {"fast", "normal"}, marker \in {FALSE} :
               \/ ecu' = [ecu EXCEPT !.program = "door", !.marker = marker, !.mode = mode]
               \/ \E program \in {"torn", "door"}, high \in {TRUE} :
                     ecu' = [ecu EXCEPT !.program = program, !.marker = high, !.mode = "fast"]
        BY <1>3 DEF Install!DeployFast
      <4> QED BY <4>1
    <3> QED BY <3>1 DEF Install!TypeOK, Install!Computers
  <2>2. s' \in Install!Sessions
    BY <1>3, InstallSessions
       DEF Install!TypeOK, Install!DeployFast, Install!Goto, Install!Report, Install!Stopped,
           Install!Retain, Install!Stays, Install!AnswersDs2, Install!Replays
  <2>3. pc' \in Install!Pcs
    BY <1>3
       DEF Install!TypeOK, Install!DeployFast, Install!Goto, Install!Report, Install!Stopped,
           Install!Retain, Install!Stays, Install!AnswersDs2, Install!Pcs, Install!Questions
  <2>4. /\ outcome' \in {"none", "running", "not_started", "complete", "abandoned"}
        /\ touched' \in BOOLEAN
    BY <1>3
       DEF Install!TypeOK, Install!DeployFast, Install!Goto, Install!Report, Install!Stopped,
           Install!Retain, Install!Stays, Install!AnswersDs2, Install!AnswersDs2
  <2> QED BY <2>1, <2>2, <2>3, <2>4 DEF Install!TypeOK
<1>4. CASE Install!DeployNotStarted
  <2>1. ecu' \in Install!Computers
    BY <1>4, InstallRebooted
       DEF Install!TypeOK, Install!DeployNotStarted, Install!Goto, Install!Report,
           Install!Stopped, Install!Retain, Install!Stays, Install!AnswersDs2,
           Install!Computers
  <2>2. s' \in Install!Sessions
    BY <1>4, InstallSessions
       DEF Install!TypeOK, Install!DeployNotStarted, Install!Goto, Install!Report,
           Install!Stopped, Install!Retain, Install!Stays, Install!AnswersDs2,
           Install!Replays
  <2>3. pc' \in Install!Pcs
    BY <1>4
       DEF Install!TypeOK, Install!DeployNotStarted, Install!Goto, Install!Report,
           Install!Stopped, Install!Retain, Install!Stays, Install!AnswersDs2, Install!Pcs,
           Install!Questions
  <2>4. /\ outcome' \in {"none", "running", "not_started", "complete", "abandoned"}
        /\ touched' \in BOOLEAN
    BY <1>4
       DEF Install!TypeOK, Install!DeployNotStarted, Install!Goto, Install!Report,
           Install!Stopped, Install!Retain, Install!Stays, Install!AnswersDs2,
           Install!AnswersDs2
  <2> QED BY <2>1, <2>2, <2>3, <2>4 DEF Install!TypeOK
<1>5. CASE Install!DeploySlow
  <2>1. ecu' \in Install!Computers
    BY <1>5, InstallRebooted
       DEF Install!TypeOK, Install!DeploySlow, Install!Goto, Install!Report, Install!Stopped,
           Install!Retain, Install!Stays, Install!AnswersDs2, Install!Computers
  <2>2. s' \in Install!Sessions
    BY <1>5, InstallSessions
       DEF Install!TypeOK, Install!DeploySlow, Install!Goto, Install!Report, Install!Stopped,
           Install!Retain, Install!Stays, Install!AnswersDs2, Install!Replays
  <2>3. pc' \in Install!Pcs
    BY <1>5
       DEF Install!TypeOK, Install!DeploySlow, Install!Goto, Install!Report, Install!Stopped,
           Install!Retain, Install!Stays, Install!AnswersDs2, Install!Pcs, Install!Questions
  <2>4. /\ outcome' \in {"none", "running", "not_started", "complete", "abandoned"}
        /\ touched' \in BOOLEAN
    BY <1>5
       DEF Install!TypeOK, Install!DeploySlow, Install!Goto, Install!Report, Install!Stopped,
           Install!Retain, Install!Stays, Install!AnswersDs2, Install!AnswersDs2
  <2> QED BY <2>1, <2>2, <2>3, <2>4 DEF Install!TypeOK
<1>6. CASE Install!Redeploy
  <2>1. ecu' \in Install!Computers
    BY <1>6, InstallRebooted
       DEF Install!TypeOK, Install!Redeploy, Install!Goto, Install!Report, Install!Stopped,
           Install!Retain, Install!Stays, Install!AnswersDs2, Install!Computers
  <2>2. s' \in Install!Sessions
    BY <1>6, InstallSessions
       DEF Install!TypeOK, Install!Redeploy, Install!Goto, Install!Report, Install!Stopped,
           Install!Retain, Install!Stays, Install!AnswersDs2, Install!Replays
  <2>3. pc' \in Install!Pcs
    BY <1>6
       DEF Install!TypeOK, Install!Redeploy, Install!Goto, Install!Report, Install!Stopped,
           Install!Retain, Install!Stays, Install!AnswersDs2, Install!Pcs, Install!Questions
  <2>4. /\ outcome' \in {"none", "running", "not_started", "complete", "abandoned"}
        /\ touched' \in BOOLEAN
    BY <1>6
       DEF Install!TypeOK, Install!Redeploy, Install!Goto, Install!Report, Install!Stopped,
           Install!Retain, Install!Stays, Install!AnswersDs2, Install!AnswersDs2
  <2> QED BY <2>1, <2>2, <2>3, <2>4 DEF Install!TypeOK
<1>7. CASE Install!Probe
  <2>1. ecu' \in Install!Computers
    BY <1>7, InstallRebooted
       DEF Install!TypeOK, Install!Probe, Install!Goto, Install!Report, Install!Stopped,
           Install!Retain, Install!Stays, Install!AnswersDs2, Install!Computers
  <2>2. s' \in Install!Sessions
    BY <1>7, InstallSessions
       DEF Install!TypeOK, Install!Probe, Install!Goto, Install!Report, Install!Stopped,
           Install!Retain, Install!Stays, Install!AnswersDs2, Install!Replays
  <2>3. pc' \in Install!Pcs
    BY <1>7
       DEF Install!TypeOK, Install!Probe, Install!Goto, Install!Report, Install!Stopped,
           Install!Retain, Install!Stays, Install!AnswersDs2, Install!Pcs, Install!Questions
  <2>4. /\ outcome' \in {"none", "running", "not_started", "complete", "abandoned"}
        /\ touched' \in BOOLEAN
    BY <1>7
       DEF Install!TypeOK, Install!Probe, Install!Goto, Install!Report, Install!Stopped,
           Install!Retain, Install!Stays, Install!AnswersDs2, Install!AnswersDs2
  <2> QED BY <2>1, <2>2, <2>3, <2>4 DEF Install!TypeOK
<1>8. CASE Install!Entry
  <2>1. ecu' \in Install!Computers
    BY <1>8, InstallRebooted
       DEF Install!TypeOK, Install!Entry, Install!Goto, Install!Report, Install!Stopped,
           Install!Retain, Install!Stays, Install!AnswersDs2, Install!Computers
  <2>2. s' \in Install!Sessions
    BY <1>8, InstallSessions
       DEF Install!TypeOK, Install!Entry, Install!Goto, Install!Report, Install!Stopped,
           Install!Retain, Install!Stays, Install!AnswersDs2, Install!Sessions,
           Install!Replays
  <2>3. pc' \in Install!Pcs
    BY <1>8
       DEF Install!TypeOK, Install!Entry, Install!Goto, Install!Report, Install!Stopped,
           Install!Retain, Install!Stays, Install!AnswersDs2, Install!Pcs, Install!Questions
  <2>4. /\ outcome' \in {"none", "running", "not_started", "complete", "abandoned"}
        /\ touched' \in BOOLEAN
    BY <1>8
       DEF Install!TypeOK, Install!Entry, Install!Goto, Install!Report, Install!Stopped,
           Install!Retain, Install!Stays, Install!AnswersDs2, Install!AnswersDs2
  <2> QED BY <2>1, <2>2, <2>3, <2>4 DEF Install!TypeOK
<1>9. CASE Install!FlashNotStarted
  <2>1. ecu' \in Install!Computers
    BY <1>9, InstallRebooted
       DEF Install!TypeOK, Install!FlashNotStarted, Install!Goto, Install!Report,
           Install!Stopped, Install!Retain, Install!Stays, Install!AnswersDs2,
           Install!Computers
  <2>2. s' \in Install!Sessions
    BY <1>9, InstallSessions
       DEF Install!TypeOK, Install!FlashNotStarted, Install!Goto, Install!Report,
           Install!Stopped, Install!Retain, Install!Stays, Install!AnswersDs2,
           Install!Replays
  <2>3. pc' \in Install!Pcs
    BY <1>9
       DEF Install!TypeOK, Install!FlashNotStarted, Install!Goto, Install!Report,
           Install!Stopped, Install!Retain, Install!Stays, Install!AnswersDs2, Install!Pcs,
           Install!Questions
  <2>4. /\ outcome' \in {"none", "running", "not_started", "complete", "abandoned"}
        /\ touched' \in BOOLEAN
    BY <1>9
       DEF Install!TypeOK, Install!FlashNotStarted, Install!Goto, Install!Report,
           Install!Stopped, Install!Retain, Install!Stays, Install!AnswersDs2,
           Install!AnswersDs2
  <2> QED BY <2>1, <2>2, <2>3, <2>4 DEF Install!TypeOK
<1>10. CASE Install!EraseProgram
  <2>1. ecu' \in Install!Computers
    BY <1>10, InstallRebooted
       DEF Install!TypeOK, Install!EraseProgram, Install!Goto, Install!Report,
           Install!Stopped, Install!Retain, Install!Stays, Install!AnswersDs2,
           Install!Computers
  <2>2. s' \in Install!Sessions
    BY <1>10, InstallSessions
       DEF Install!TypeOK, Install!EraseProgram, Install!Goto, Install!Report,
           Install!Stopped, Install!Retain, Install!Stays, Install!AnswersDs2,
           Install!Replays
  <2>3. pc' \in Install!Pcs
    BY <1>10
       DEF Install!TypeOK, Install!EraseProgram, Install!Goto, Install!Report,
           Install!Stopped, Install!Retain, Install!Stays, Install!AnswersDs2, Install!Pcs,
           Install!Questions
  <2>4. /\ outcome' \in {"none", "running", "not_started", "complete", "abandoned"}
        /\ touched' \in BOOLEAN
    BY <1>10
       DEF Install!TypeOK, Install!EraseProgram, Install!Goto, Install!Report,
           Install!Stopped, Install!Retain, Install!Stays, Install!AnswersDs2,
           Install!AnswersDs2
  <2> QED BY <2>1, <2>2, <2>3, <2>4 DEF Install!TypeOK
<1>11. CASE Install!EraseBoot
  <2>1. ecu' \in Install!Computers
    BY <1>11, InstallRebooted
       DEF Install!TypeOK, Install!EraseBoot, Install!Goto, Install!Report, Install!Stopped,
           Install!Retain, Install!Stays, Install!AnswersDs2, Install!Computers
  <2>2. s' \in Install!Sessions
    BY <1>11, InstallSessions
       DEF Install!TypeOK, Install!EraseBoot, Install!Goto, Install!Report, Install!Stopped,
           Install!Retain, Install!Stays, Install!AnswersDs2, Install!Replays
  <2>3. pc' \in Install!Pcs
    BY <1>11
       DEF Install!TypeOK, Install!EraseBoot, Install!Goto, Install!Report, Install!Stopped,
           Install!Retain, Install!Stays, Install!AnswersDs2, Install!Pcs, Install!Questions
  <2>4. /\ outcome' \in {"none", "running", "not_started", "complete", "abandoned"}
        /\ touched' \in BOOLEAN
    BY <1>11
       DEF Install!TypeOK, Install!EraseBoot, Install!Goto, Install!Report, Install!Stopped,
           Install!Retain, Install!Stays, Install!AnswersDs2, Install!AnswersDs2
  <2> QED BY <2>1, <2>2, <2>3, <2>4 DEF Install!TypeOK
<1>12. CASE Install!ProgramTarget
  <2>1. ecu' \in Install!Computers
    BY <1>12, InstallRebooted
       DEF Install!TypeOK, Install!ProgramTarget, Install!Goto, Install!Report,
           Install!Stopped, Install!Retain, Install!Stays, Install!AnswersDs2,
           Install!Computers
  <2>2. s' \in Install!Sessions
    BY <1>12, InstallSessions
       DEF Install!TypeOK, Install!ProgramTarget, Install!Goto, Install!Report,
           Install!Stopped, Install!Retain, Install!Stays, Install!AnswersDs2,
           Install!Replays
  <2>3. pc' \in Install!Pcs
    BY <1>12
       DEF Install!TypeOK, Install!ProgramTarget, Install!Goto, Install!Report,
           Install!Stopped, Install!Retain, Install!Stays, Install!AnswersDs2, Install!Pcs,
           Install!Questions
  <2>4. /\ outcome' \in {"none", "running", "not_started", "complete", "abandoned"}
        /\ touched' \in BOOLEAN
    BY <1>12
       DEF Install!TypeOK, Install!ProgramTarget, Install!Goto, Install!Report,
           Install!Stopped, Install!Retain, Install!Stays, Install!AnswersDs2,
           Install!AnswersDs2
  <2> QED BY <2>1, <2>2, <2>3, <2>4 DEF Install!TypeOK
<1>13. CASE Install!FlashFails
  <2>1. ecu' \in Install!Computers
    <3>1. \/ ecu' = ecu
          \/ \E b \in {ecu.boot, "torn"} : ecu' = [ecu EXCEPT !.program = "torn", !.boot = b]
          \/ \E m \in {"agent", "normal"} :
                ecu' = [ecu EXCEPT !.program = "target", !.boot = "target", !.mode = m]
      BY <1>13 DEF Install!FlashFails
    <3> QED BY <3>1 DEF Install!TypeOK, Install!Computers
  <2>2. s' \in Install!Sessions
    BY <1>13, InstallSessions
       DEF Install!TypeOK, Install!FlashFails, Install!Goto, Install!Report, Install!Stopped,
           Install!Retain, Install!Stays, Install!AnswersDs2, Install!Replays
  <2>3. pc' \in Install!Pcs
    BY <1>13
       DEF Install!TypeOK, Install!FlashFails, Install!Goto, Install!Report, Install!Stopped,
           Install!Retain, Install!Stays, Install!AnswersDs2, Install!Pcs, Install!Questions
  <2>4. /\ outcome' \in {"none", "running", "not_started", "complete", "abandoned"}
        /\ touched' \in BOOLEAN
    BY <1>13
       DEF Install!TypeOK, Install!FlashFails, Install!Goto, Install!Report, Install!Stopped,
           Install!Retain, Install!Stays, Install!AnswersDs2, Install!AnswersDs2
  <2> QED BY <2>1, <2>2, <2>3, <2>4 DEF Install!TypeOK
<1>14. CASE Install!Finalize
  <2>1. ecu' \in Install!Computers
    BY <1>14, InstallRebooted
       DEF Install!TypeOK, Install!Finalize, Install!Goto, Install!Report, Install!Stopped,
           Install!Retain, Install!Stays, Install!AnswersDs2, Install!Computers
  <2>2. s' \in Install!Sessions
    BY <1>14, InstallSessions
       DEF Install!TypeOK, Install!Finalize, Install!Goto, Install!Report, Install!Stopped,
           Install!Retain, Install!Stays, Install!AnswersDs2, Install!Replays
  <2>3. pc' \in Install!Pcs
    BY <1>14
       DEF Install!TypeOK, Install!Finalize, Install!Goto, Install!Report, Install!Stopped,
           Install!Retain, Install!Stays, Install!AnswersDs2, Install!Pcs, Install!Questions
  <2>4. /\ outcome' \in {"none", "running", "not_started", "complete", "abandoned"}
        /\ touched' \in BOOLEAN
    BY <1>14
       DEF Install!TypeOK, Install!Finalize, Install!Goto, Install!Report, Install!Stopped,
           Install!Retain, Install!Stays, Install!AnswersDs2, Install!AnswersDs2
  <2> QED BY <2>1, <2>2, <2>3, <2>4 DEF Install!TypeOK
<1>15. CASE Install!VerifyInstall
  <2>1. ecu' \in Install!Computers
    BY <1>15, InstallRebooted
       DEF Install!TypeOK, Install!VerifyInstall, Install!Goto, Install!Report,
           Install!Stopped, Install!Retain, Install!Stays, Install!AnswersDs2,
           Install!Computers
  <2>2. s' \in Install!Sessions
    BY <1>15, InstallSessions
       DEF Install!TypeOK, Install!VerifyInstall, Install!Goto, Install!Report,
           Install!Stopped, Install!Retain, Install!Stays, Install!AnswersDs2,
           Install!Replays
  <2>3. pc' \in Install!Pcs
    BY <1>15
       DEF Install!TypeOK, Install!VerifyInstall, Install!Goto, Install!Report,
           Install!Stopped, Install!Retain, Install!Stays, Install!AnswersDs2, Install!Pcs,
           Install!Questions
  <2>4. /\ outcome' \in {"none", "running", "not_started", "complete", "abandoned"}
        /\ touched' \in BOOLEAN
    BY <1>15
       DEF Install!TypeOK, Install!VerifyInstall, Install!Goto, Install!Report,
           Install!Stopped, Install!Retain, Install!Stays, Install!AnswersDs2,
           Install!AnswersDs2
  <2> QED BY <2>1, <2>2, <2>3, <2>4 DEF Install!TypeOK
<1>16. CASE Install!Handle
  <2>1. ecu' \in Install!Computers
    BY <1>16, InstallRebooted
       DEF Install!TypeOK, Install!Handle, Install!Goto, Install!Report, Install!Stopped,
           Install!Retain, Install!Stays, Install!AnswersDs2, Install!Computers
  <2>2. s' \in Install!Sessions
    BY <1>16, InstallSessions
       DEF Install!TypeOK, Install!Handle, Install!Goto, Install!Report, Install!Stopped,
           Install!Retain, Install!Stays, Install!AnswersDs2, Install!Replays
  <2>3. pc' \in Install!Pcs
    BY <1>16
       DEF Install!TypeOK, Install!Handle, Install!Goto, Install!Report, Install!Stopped,
           Install!Retain, Install!Stays, Install!AnswersDs2, Install!Pcs, Install!Questions
  <2>4. /\ outcome' \in {"none", "running", "not_started", "complete", "abandoned"}
        /\ touched' \in BOOLEAN
    BY <1>16
       DEF Install!TypeOK, Install!Handle, Install!Goto, Install!Report, Install!Stopped,
           Install!Retain, Install!Stays, Install!AnswersDs2, Install!AnswersDs2
  <2> QED BY <2>1, <2>2, <2>3, <2>4 DEF Install!TypeOK
<1>17. CASE Install!AnswerReentry
  <2>1. ecu' \in Install!Computers
    BY <1>17, InstallRebooted
       DEF Install!TypeOK, Install!AnswerReentry, Install!Goto, Install!Report,
           Install!Stopped, Install!Retain, Install!Stays, Install!AnswersDs2,
           Install!Computers
  <2>2. s' \in Install!Sessions
    BY <1>17, InstallSessions
       DEF Install!TypeOK, Install!AnswerReentry, Install!Goto, Install!Report,
           Install!Stopped, Install!Retain, Install!Stays, Install!AnswersDs2,
           Install!Sessions, Install!Replays
  <2>3. pc' \in Install!Pcs
    BY <1>17
       DEF Install!TypeOK, Install!AnswerReentry, Install!Goto, Install!Report,
           Install!Stopped, Install!Retain, Install!Stays, Install!AnswersDs2, Install!Pcs,
           Install!Questions
  <2>4. /\ outcome' \in {"none", "running", "not_started", "complete", "abandoned"}
        /\ touched' \in BOOLEAN
    BY <1>17
       DEF Install!TypeOK, Install!AnswerReentry, Install!Goto, Install!Report,
           Install!Stopped, Install!Retain, Install!Stays, Install!AnswersDs2,
           Install!AnswersDs2
  <2> QED BY <2>1, <2>2, <2>3, <2>4 DEF Install!TypeOK
<1>18. CASE Install!AnswerNotReady
  <2>1. ecu' \in Install!Computers
    BY <1>18, InstallRebooted
       DEF Install!TypeOK, Install!AnswerNotReady, Install!Goto, Install!Report,
           Install!Stopped, Install!Retain, Install!Stays, Install!AnswersDs2,
           Install!Computers
  <2>2. s' \in Install!Sessions
    BY <1>18, InstallSessions
       DEF Install!TypeOK, Install!AnswerNotReady, Install!Goto, Install!Report,
           Install!Stopped, Install!Retain, Install!Stays, Install!AnswersDs2,
           Install!Replays
  <2>3. pc' \in Install!Pcs
    BY <1>18
       DEF Install!TypeOK, Install!AnswerNotReady, Install!Goto, Install!Report,
           Install!Stopped, Install!Retain, Install!Stays, Install!AnswersDs2, Install!Pcs,
           Install!Questions
  <2>4. /\ outcome' \in {"none", "running", "not_started", "complete", "abandoned"}
        /\ touched' \in BOOLEAN
    BY <1>18
       DEF Install!TypeOK, Install!AnswerNotReady, Install!Goto, Install!Report,
           Install!Stopped, Install!Retain, Install!Stays, Install!AnswersDs2,
           Install!AnswersDs2
  <2> QED BY <2>1, <2>2, <2>3, <2>4 DEF Install!TypeOK
<1>19. CASE Install!AnswerEntryFailed
  <2>1. ecu' \in Install!Computers
    BY <1>19, InstallRebooted
       DEF Install!TypeOK, Install!AnswerEntryFailed, Install!AfterEntryFailure,
           Install!Goto, Install!Report, Install!Stopped, Install!Retain, Install!Stays,
           Install!AnswersDs2, Install!Computers
  <2>2. s' \in Install!Sessions
    BY <1>19, InstallSessions
       DEF Install!TypeOK, Install!AnswerEntryFailed, Install!AfterEntryFailure,
           Install!Goto, Install!Report, Install!Stopped, Install!Retain, Install!Stays,
           Install!AnswersDs2, Install!Sessions, Install!Replays
  <2>3. pc' \in Install!Pcs
    BY <1>19
       DEF Install!TypeOK, Install!AnswerEntryFailed, Install!AfterEntryFailure,
           Install!Goto, Install!Report, Install!Stopped, Install!Retain, Install!Stays,
           Install!AnswersDs2, Install!Pcs, Install!Questions
  <2>4. /\ outcome' \in {"none", "running", "not_started", "complete", "abandoned"}
        /\ touched' \in BOOLEAN
    BY <1>19
       DEF Install!TypeOK, Install!AnswerEntryFailed, Install!AfterEntryFailure,
           Install!Goto, Install!Report, Install!Stopped, Install!Retain, Install!Stays,
           Install!AnswersDs2, Install!AnswersDs2
  <2> QED BY <2>1, <2>2, <2>3, <2>4 DEF Install!TypeOK
<1>20. CASE Install!Continue
  <2>1. ecu' \in Install!Computers
    BY <1>20, InstallRebooted
       DEF Install!TypeOK, Install!Continue, Install!Goto, Install!Report, Install!Stopped,
           Install!Retain, Install!Stays, Install!AnswersDs2, Install!Computers
  <2>2. s' \in Install!Sessions
    BY <1>20, InstallSessions
       DEF Install!TypeOK, Install!Continue, Install!Goto, Install!Report, Install!Stopped,
           Install!Retain, Install!Stays, Install!AnswersDs2, Install!Replays
  <2>3. pc' \in Install!Pcs
    BY <1>20
       DEF Install!TypeOK, Install!Continue, Install!Goto, Install!Report, Install!Stopped,
           Install!Retain, Install!Stays, Install!AnswersDs2, Install!Pcs, Install!Questions
  <2>4. /\ outcome' \in {"none", "running", "not_started", "complete", "abandoned"}
        /\ touched' \in BOOLEAN
    BY <1>20
       DEF Install!TypeOK, Install!Continue, Install!Goto, Install!Report, Install!Stopped,
           Install!Retain, Install!Stays, Install!AnswersDs2, Install!AnswersDs2
  <2> QED BY <2>1, <2>2, <2>3, <2>4 DEF Install!TypeOK
<1>21. CASE Install!Retry
  <2>1. ecu' \in Install!Computers
    BY <1>21, InstallRebooted
       DEF Install!TypeOK, Install!Retry, Install!Goto, Install!Report, Install!Stopped,
           Install!Retain, Install!Stays, Install!AnswersDs2, Install!Computers
  <2>2. s' \in Install!Sessions
    BY <1>21, InstallSessions
       DEF Install!TypeOK, Install!Retry, Install!Goto, Install!Report, Install!Stopped,
           Install!Retain, Install!Stays, Install!AnswersDs2, Install!Replays
  <2>3. pc' \in Install!Pcs
    BY <1>21
       DEF Install!TypeOK, Install!Retry, Install!Goto, Install!Report, Install!Stopped,
           Install!Retain, Install!Stays, Install!AnswersDs2, Install!Pcs, Install!Questions
  <2>4. /\ outcome' \in {"none", "running", "not_started", "complete", "abandoned"}
        /\ touched' \in BOOLEAN
    BY <1>21
       DEF Install!TypeOK, Install!Retry, Install!Goto, Install!Report, Install!Stopped,
           Install!Retain, Install!Stays, Install!AnswersDs2, Install!AnswersDs2
  <2> QED BY <2>1, <2>2, <2>3, <2>4 DEF Install!TypeOK
<1>22. CASE Install!Exit
  <2>1. ecu' \in Install!Computers
    BY <1>22, InstallRebooted
       DEF Install!TypeOK, Install!Exit, Install!Goto, Install!Report, Install!Stopped,
           Install!Retain, Install!Stays, Install!AnswersDs2, Install!Computers
  <2>2. s' \in Install!Sessions
    BY <1>22, InstallSessions
       DEF Install!TypeOK, Install!Exit, Install!Goto, Install!Report, Install!Stopped,
           Install!Retain, Install!Stays, Install!AnswersDs2, Install!Replays
  <2>3. pc' \in Install!Pcs
    BY <1>22
       DEF Install!TypeOK, Install!Exit, Install!Goto, Install!Report, Install!Stopped,
           Install!Retain, Install!Stays, Install!AnswersDs2, Install!Pcs, Install!Questions
  <2>4. /\ outcome' \in {"none", "running", "not_started", "complete", "abandoned"}
        /\ touched' \in BOOLEAN
    BY <1>22
       DEF Install!TypeOK, Install!Exit, Install!Goto, Install!Report, Install!Stopped,
           Install!Retain, Install!Stays, Install!AnswersDs2, Install!AnswersDs2
  <2> QED BY <2>1, <2>2, <2>3, <2>4 DEF Install!TypeOK
<1>23. CASE Install!Ignition
  <2>1. ecu' \in Install!Computers
    BY <1>23, InstallRebooted
       DEF Install!TypeOK, Install!Ignition, Install!Goto, Install!Report, Install!Stopped,
           Install!Retain, Install!Stays, Install!AnswersDs2, Install!Computers
  <2>2. s' \in Install!Sessions
    BY <1>23, InstallSessions
       DEF Install!TypeOK, Install!Ignition, Install!Goto, Install!Report, Install!Stopped,
           Install!Retain, Install!Stays, Install!AnswersDs2, Install!Replays
  <2>3. pc' \in Install!Pcs
    BY <1>23
       DEF Install!TypeOK, Install!Ignition, Install!Goto, Install!Report, Install!Stopped,
           Install!Retain, Install!Stays, Install!AnswersDs2, Install!Pcs, Install!Questions
  <2>4. /\ outcome' \in {"none", "running", "not_started", "complete", "abandoned"}
        /\ touched' \in BOOLEAN
    BY <1>23
       DEF Install!TypeOK, Install!Ignition, Install!Goto, Install!Report, Install!Stopped,
           Install!Retain, Install!Stays, Install!AnswersDs2, Install!AnswersDs2
  <2> QED BY <2>1, <2>2, <2>3, <2>4 DEF Install!TypeOK
<1> QED
  BY <1>1, <1>2, <1>3, <1>4, <1>5, <1>6, <1>7, <1>8, <1>9, <1>10, <1>11, <1>12, <1>13, <1>14,
     <1>15, <1>16, <1>17, <1>18, <1>19, <1>20, <1>21, <1>22, <1>23
     DEF Install!Next, Install!WorkerStep, Install!Phase1, Install!Phase2

LEMMA InstallTriggers ==
    ASSUME Install!TypeOK, Install!OneTrigger, Install!Next PROVE (Install!OneTrigger)'
<1> USE DEF Install!OneTrigger, Install!Goto
<1>1. CASE Install!Probe
  BY <1>1 DEF Install!Probe, Install!AnswersDs2, Install!Proven, Install!Stopped, Install!Report
<1>2. CASE Install!Entry
  BY <1>2, InstallRebooted DEF Install!Entry, Install!Stays, Install!TypeOK, Install!Computers
<1>3. CASE Install!Ignition
  BY <1>3, InstallRebooted DEF Install!Ignition, Install!TypeOK
<1>4. ASSUME Install!Next, ~Install!Probe, ~Install!Entry, ~Install!Ignition PROVE pc' # "entry"
  BY <1>4
     DEF Install!Next, Install!WorkerStep, Install!Phase1, Install!Phase2, Install!Start,
         Install!Preflight, Install!DeployFast, Install!DeployNotStarted, Install!DeploySlow,
         Install!Redeploy, Install!FlashNotStarted, Install!EraseProgram, Install!EraseBoot,
         Install!ProgramTarget, Install!FlashFails, Install!Finalize, Install!VerifyInstall,
         Install!Handle, Install!AnswerReentry, Install!AnswerNotReady,
         Install!AnswerEntryFailed, Install!AfterEntryFailure, Install!Continue,
         Install!Retry, Install!Exit, Install!Stopped, Install!Report, Install!Retain
<1> QED BY <1>1, <1>2, <1>3, <1>4

---------------------------------------------------------------------------
(* The native-fast reads.                                                  *)

\* A computer that may not be selected yet is known to be one.
ReadSafe == ecu.latch = "busy" => s.pending \/ s.lapsed

\* The registry is looked at before the first selector; after it, the session
\* has asked, and what the link is left at tells whether to mark the port.  A
\* session that needed no recovery came back by the selector and the bare BMW.
ReadInv ==
    /\ pc \in {"begin", "reentry"} =>
          s.required = s.pending /\ ~s.attempted /\ ~s.recovering /\ s.link = "low"
    /\ pc = "begin" => s.state = "low_ready"
    /\ pc = "reentry" => s.state = "token"
    /\ pc \in {"idle", "begin", "reentry", "reopen", "slow", "result"} => ReadSafe
    /\ pc \in {"up", "liveness", "read"} => (ecu.latch = "busy" => s.lapsed)
    /\ pc \in {"liveness", "read", "select_low", "bare", "low_ready", "probe"} => s.attempted
    /\ pc = "raise" /\ ~s.attempted => /\ ~s.recovering /\ s.link = "low" /\ ReadSafe
                                       /\ s.state \in {"low_ready", "token"}
    /\ pc = "probe" => s.recovering
    /\ pc \in {"bare", "low_ready"} => s.link = "low"
    /\ pc = "close" => IF s.attempted THEN s.link \in {"low", "unknown"} ELSE ReadSafe
    /\ pc \in {"begin", "reentry", "up", "liveness"} => s.got = 0
    /\ pc \in {"read", "slow"} => s.got < Read!Size
    /\ pc \in {"low_ready", "close", "reopen"} /\ ~s.recovering =>
          ecu.rate = "low" /\ ~ecu.staged

LEMMA BlocksCount == Blocks \in Nat \ {0}
  BY WritersAssumption DEF WritersAssumption

LEMMA ReadStarts == ASSUME Read!Init PROVE Read!TypeOK /\ ReadInv
<1>1. /\ s = Read!NewSession("image", TRUE, ecu.latch = "busy", FALSE)
      /\ ecu \in [rate : {"low"}, staged : {FALSE}, latch : {"clear", "busy"}]
      /\ pc = "idle" /\ outcome = "none" /\ touched = FALSE
  BY DEF Read!Init
<1>2. ecu \in Read!Computers
  BY <1>1 DEF Read!Computers, Read!Rates
<1>3. s \in Read!Sessions
  BY <1>1, BlocksCount DEF Read!Sessions, Read!NewSession, Read!Rates
<1>4. ReadInv
  BY <1>1 DEF Read!NewSession, ReadInv, ReadSafe
<1> QED
  BY <1>1, <1>2, <1>3, <1>4 DEF Read!TypeOK, Read!Pcs

LEMMA ReadSteps ==
    ASSUME Read!TypeOK, ReadInv, Read!Next PROVE (Read!TypeOK)' /\ ReadInv'
<1>1. CASE Read!Start
  <2>1. ecu' \in Read!Computers
    BY <1>1
       DEF Read!TypeOK, Read!Start, Read!Goto, Read!Raise, Read!Same, Read!Heard,
           Read!Computers, Read!Rates
  <2>2. s' \in Read!Sessions
    BY <1>1, BlocksCount
       DEF Read!TypeOK, Read!Start, Read!Goto, Read!Raise, Read!Same, Read!Heard,
           Read!Sessions, Read!Rates, Read!NewSession
  <2>3. pc' \in Read!Pcs
    BY <1>1 DEF Read!TypeOK, Read!Start, Read!Goto, Read!Raise, Read!Same, Read!Heard, Read!Pcs
  <2>4. /\ outcome' \in {"none", "running", "not_started", "complete", "abandoned"}
        /\ touched' \in BOOLEAN
    BY <1>1 DEF Read!TypeOK, Read!Start, Read!Goto, Read!Raise, Read!Same, Read!Heard
  <2>5. ReadInv'
    BY <1>1, BlocksCount
       DEF Read!TypeOK, Read!Start, Read!Goto, Read!Raise, Read!Same, Read!Heard, ReadInv,
           ReadSafe, Read!Computers, Read!Sessions, Read!Size, Read!Rates, Read!NewSession
  <2> QED BY <2>1, <2>2, <2>3, <2>4, <2>5 DEF Read!TypeOK
<1>2. CASE Read!Begin
  <2>1. ecu' \in Read!Computers
    BY <1>2
       DEF Read!TypeOK, Read!Begin, Read!Goto, Read!Raise, Read!Same, Read!Heard,
           Read!Computers, Read!Rates
  <2>2. s' \in Read!Sessions
    BY <1>2, BlocksCount
       DEF Read!TypeOK, Read!Begin, Read!Goto, Read!Raise, Read!Same, Read!Heard,
           Read!Sessions, Read!Rates
  <2>3. pc' \in Read!Pcs
    BY <1>2 DEF Read!TypeOK, Read!Begin, Read!Goto, Read!Raise, Read!Same, Read!Heard, Read!Pcs
  <2>4. /\ outcome' \in {"none", "running", "not_started", "complete", "abandoned"}
        /\ touched' \in BOOLEAN
    BY <1>2 DEF Read!TypeOK, Read!Begin, Read!Goto, Read!Raise, Read!Same, Read!Heard
  <2>5. ReadInv'
    BY <1>2, BlocksCount
       DEF Read!TypeOK, Read!Begin, Read!Goto, Read!Raise, Read!Same, Read!Heard, ReadInv,
           ReadSafe, Read!Computers, Read!Sessions, Read!Size, Read!Rates
  <2> QED BY <2>1, <2>2, <2>3, <2>4, <2>5 DEF Read!TypeOK
<1>3. CASE Read!AwaitReentry
  <2>1. ecu' \in Read!Computers
    BY <1>3
       DEF Read!TypeOK, Read!AwaitReentry, Read!Goto, Read!Raise, Read!Same, Read!Heard,
           Read!Computers, Read!Rates
  <2>2. s' \in Read!Sessions
    BY <1>3, BlocksCount
       DEF Read!TypeOK, Read!AwaitReentry, Read!Goto, Read!Raise, Read!Same, Read!Heard,
           Read!Sessions, Read!Rates
  <2>3. pc' \in Read!Pcs
    BY <1>3
       DEF Read!TypeOK, Read!AwaitReentry, Read!Goto, Read!Raise, Read!Same, Read!Heard,
           Read!Pcs
  <2>4. /\ outcome' \in {"none", "running", "not_started", "complete", "abandoned"}
        /\ touched' \in BOOLEAN
    BY <1>3 DEF Read!TypeOK, Read!AwaitReentry, Read!Goto, Read!Raise, Read!Same, Read!Heard
  <2>5. ReadInv'
    BY <1>3, BlocksCount
       DEF Read!TypeOK, Read!AwaitReentry, Read!Goto, Read!Raise, Read!Same, Read!Heard,
           ReadInv, ReadSafe, Read!Computers, Read!Sessions, Read!Size, Read!Rates
  <2> QED BY <2>1, <2>2, <2>3, <2>4, <2>5 DEF Read!TypeOK
<1>4. CASE Read!SwitchUp
  <2>1. ecu' \in Read!Computers
    BY <1>4
       DEF Read!TypeOK, Read!SwitchUp, Read!Target, Read!Goto, Read!Raise, Read!Same,
           Read!Heard, Read!Computers, Read!Rates
  <2>2. s' \in Read!Sessions
    <3> DEFINE asked == [s EXCEPT !.attempted = TRUE]
               acked == [asked EXCEPT !.acknowledged = TRUE, !.state = "high"]
    <3>1. asked \in Read!Sessions
      BY DEF Read!TypeOK, Read!Sessions
    <3>2. acked \in Read!Sessions
      BY <3>1 DEF Read!Sessions
    <3>3. \/ s' = asked
          \/ s' = [acked EXCEPT !.link = Read!Target] \/ s' = [acked EXCEPT !.link = "unknown"]
      BY <1>4 DEF Read!SwitchUp
    <3>4. \E link \in Read!Rates \cup {"unknown"} : s' = asked \/ s' = [acked EXCEPT !.link = link]
      BY <3>3 DEF Read!Rates, Read!Target
    <3> HIDE DEF acked
    <3>5. \A link \in Read!Rates \cup {"unknown"} : [acked EXCEPT !.link = link] \in Read!Sessions
      BY <3>2 DEF Read!Sessions
    <3> QED
      BY <3>1, <3>4, <3>5
  <2>3. pc' \in Read!Pcs
    BY <1>4
       DEF Read!TypeOK, Read!SwitchUp, Read!Target, Read!Goto, Read!Raise, Read!Same,
           Read!Heard, Read!Pcs
  <2>4. /\ outcome' \in {"none", "running", "not_started", "complete", "abandoned"}
        /\ touched' \in BOOLEAN
    BY <1>4
       DEF Read!TypeOK, Read!SwitchUp, Read!Target, Read!Goto, Read!Raise, Read!Same,
           Read!Heard
  <2>5. ReadInv'
    BY <1>4, BlocksCount
       DEF Read!TypeOK, Read!SwitchUp, Read!Target, Read!Goto, Read!Raise, Read!Same,
           Read!Heard, ReadInv, ReadSafe, Read!Computers, Read!Sessions, Read!Size,
           Read!Rates
  <2> QED BY <2>1, <2>2, <2>3, <2>4, <2>5 DEF Read!TypeOK
<1>5. CASE Read!Liveness
  <2>1. ecu' \in Read!Computers
    BY <1>5
       DEF Read!TypeOK, Read!Liveness, Read!Goto, Read!Raise, Read!Same, Read!Heard,
           Read!Computers, Read!Rates
  <2>2. s' \in Read!Sessions
    BY <1>5, BlocksCount
       DEF Read!TypeOK, Read!Liveness, Read!Goto, Read!Raise, Read!Same, Read!Heard,
           Read!Sessions, Read!Rates
  <2>3. pc' \in Read!Pcs
    BY <1>5
       DEF Read!TypeOK, Read!Liveness, Read!Goto, Read!Raise, Read!Same, Read!Heard, Read!Pcs
  <2>4. /\ outcome' \in {"none", "running", "not_started", "complete", "abandoned"}
        /\ touched' \in BOOLEAN
    BY <1>5 DEF Read!TypeOK, Read!Liveness, Read!Goto, Read!Raise, Read!Same, Read!Heard
  <2>5. ReadInv'
    <3>1. pc = "liveness" /\ ecu' = ecu
      BY <1>5 DEF Read!Liveness
    <3>2. CASE s' = [s EXCEPT !.link = "unknown", !.state = "failed"] /\ pc' = "raise"
      BY <3>1, <3>2 DEF ReadInv, ReadSafe, Read!Sessions, Read!TypeOK
    <3>3. CASE s' = s /\ pc' \in {"up", "read"}
      <4>1. 0 < Read!Size /\ Read!Size' = Read!Size
        BY <3>3, BlocksCount DEF Read!Size
      <4> QED
        BY <3>1, <3>3, <4>1 DEF ReadInv, ReadSafe
    <3> QED
      BY <1>5, <3>2, <3>3 DEF Read!Liveness, Read!Goto
  <2> QED BY <2>1, <2>2, <2>3, <2>4, <2>5 DEF Read!TypeOK
<1>6. CASE Read!ReadBlock
  <2>1. ecu' \in Read!Computers
    BY <1>6
       DEF Read!TypeOK, Read!ReadBlock, Read!Size, Read!Goto, Read!Raise, Read!Same,
           Read!Heard, Read!Computers, Read!Rates
  <2>2. s' \in Read!Sessions
    BY <1>6, BlocksCount
       DEF Read!TypeOK, Read!ReadBlock, Read!Size, Read!Goto, Read!Raise, Read!Same,
           Read!Heard, Read!Sessions, Read!Rates, ReadInv, Read!Size
  <2>3. pc' \in Read!Pcs
    BY <1>6
       DEF Read!TypeOK, Read!ReadBlock, Read!Size, Read!Goto, Read!Raise, Read!Same,
           Read!Heard, Read!Pcs
  <2>4. /\ outcome' \in {"none", "running", "not_started", "complete", "abandoned"}
        /\ touched' \in BOOLEAN
    BY <1>6
       DEF Read!TypeOK, Read!ReadBlock, Read!Size, Read!Goto, Read!Raise, Read!Same,
           Read!Heard
  <2>5. ReadInv'
    BY <1>6, BlocksCount
       DEF Read!TypeOK, Read!ReadBlock, Read!Size, Read!Goto, Read!Raise, Read!Same,
           Read!Heard, ReadInv, ReadSafe, Read!Computers, Read!Sessions, Read!Size,
           Read!Rates
  <2> QED BY <2>1, <2>2, <2>3, <2>4, <2>5 DEF Read!TypeOK
<1>7. CASE Read!SelectLow
  <2>1. ecu' \in Read!Computers
    BY <1>7
       DEF Read!TypeOK, Read!SelectLow, Read!Goto, Read!Raise, Read!Same, Read!Heard,
           Read!Computers, Read!Rates
  <2>2. s' \in Read!Sessions
    BY <1>7, BlocksCount
       DEF Read!TypeOK, Read!SelectLow, Read!Goto, Read!Raise, Read!Same, Read!Heard,
           Read!Sessions, Read!Rates
  <2>3. pc' \in Read!Pcs
    BY <1>7
       DEF Read!TypeOK, Read!SelectLow, Read!Goto, Read!Raise, Read!Same, Read!Heard,
           Read!Pcs
  <2>4. /\ outcome' \in {"none", "running", "not_started", "complete", "abandoned"}
        /\ touched' \in BOOLEAN
    BY <1>7 DEF Read!TypeOK, Read!SelectLow, Read!Goto, Read!Raise, Read!Same, Read!Heard
  <2>5. ReadInv'
    BY <1>7, BlocksCount
       DEF Read!TypeOK, Read!SelectLow, Read!Goto, Read!Raise, Read!Same, Read!Heard,
           ReadInv, ReadSafe, Read!Computers, Read!Sessions, Read!Size, Read!Rates
  <2> QED BY <2>1, <2>2, <2>3, <2>4, <2>5 DEF Read!TypeOK
<1>8. CASE Read!BareBmw
  <2>1. ecu' \in Read!Computers
    BY <1>8
       DEF Read!TypeOK, Read!BareBmw, Read!Goto, Read!Raise, Read!Same, Read!Heard,
           Read!Computers, Read!Rates
  <2>2. s' \in Read!Sessions
    BY <1>8, BlocksCount
       DEF Read!TypeOK, Read!BareBmw, Read!Goto, Read!Raise, Read!Same, Read!Heard,
           Read!Sessions, Read!Rates
  <2>3. pc' \in Read!Pcs
    BY <1>8
       DEF Read!TypeOK, Read!BareBmw, Read!Goto, Read!Raise, Read!Same, Read!Heard, Read!Pcs
  <2>4. /\ outcome' \in {"none", "running", "not_started", "complete", "abandoned"}
        /\ touched' \in BOOLEAN
    BY <1>8 DEF Read!TypeOK, Read!BareBmw, Read!Goto, Read!Raise, Read!Same, Read!Heard
  <2>5. ReadInv'
    BY <1>8, BlocksCount
       DEF Read!TypeOK, Read!BareBmw, Read!Goto, Read!Raise, Read!Same, Read!Heard, ReadInv,
           ReadSafe, Read!Computers, Read!Sessions, Read!Size, Read!Rates
  <2> QED BY <2>1, <2>2, <2>3, <2>4, <2>5 DEF Read!TypeOK
<1>9. CASE Read!LowReady
  <2>1. ecu' \in Read!Computers
    BY <1>9
       DEF Read!TypeOK, Read!LowReady, Read!Goto, Read!Raise, Read!Same, Read!Heard,
           Read!Computers, Read!Rates
  <2>2. s' \in Read!Sessions
    BY <1>9, BlocksCount
       DEF Read!TypeOK, Read!LowReady, Read!Goto, Read!Raise, Read!Same, Read!Heard,
           Read!Sessions, Read!Rates
  <2>3. pc' \in Read!Pcs
    BY <1>9
       DEF Read!TypeOK, Read!LowReady, Read!Goto, Read!Raise, Read!Same, Read!Heard, Read!Pcs
  <2>4. /\ outcome' \in {"none", "running", "not_started", "complete", "abandoned"}
        /\ touched' \in BOOLEAN
    BY <1>9 DEF Read!TypeOK, Read!LowReady, Read!Goto, Read!Raise, Read!Same, Read!Heard
  <2>5. ReadInv'
    BY <1>9, BlocksCount
       DEF Read!TypeOK, Read!LowReady, Read!Goto, Read!Raise, Read!Same, Read!Heard, ReadInv,
           ReadSafe, Read!Computers, Read!Sessions, Read!Size, Read!Rates
  <2> QED BY <2>1, <2>2, <2>3, <2>4, <2>5 DEF Read!TypeOK
<1>10. CASE Read!Recover
  <2>1. ecu' \in Read!Computers
    BY <1>10
       DEF Read!TypeOK, Read!Recover, Read!Untouched, Read!Goto, Read!Raise, Read!Same,
           Read!Heard, Read!Computers, Read!Rates
  <2>2. s' \in Read!Sessions
    BY <1>10, BlocksCount
       DEF Read!TypeOK, Read!Recover, Read!Untouched, Read!Goto, Read!Raise, Read!Same,
           Read!Heard, Read!Sessions, Read!Rates
  <2>3. pc' \in Read!Pcs
    BY <1>10
       DEF Read!TypeOK, Read!Recover, Read!Untouched, Read!Goto, Read!Raise, Read!Same,
           Read!Heard, Read!Pcs
  <2>4. /\ outcome' \in {"none", "running", "not_started", "complete", "abandoned"}
        /\ touched' \in BOOLEAN
    BY <1>10
       DEF Read!TypeOK, Read!Recover, Read!Untouched, Read!Goto, Read!Raise, Read!Same,
           Read!Heard
  <2>5. ReadInv'
    BY <1>10, BlocksCount
       DEF Read!TypeOK, Read!Recover, Read!Untouched, Read!Goto, Read!Raise, Read!Same,
           Read!Heard, ReadInv, ReadSafe, Read!Computers, Read!Sessions, Read!Size,
           Read!Rates
  <2> QED BY <2>1, <2>2, <2>3, <2>4, <2>5 DEF Read!TypeOK
<1>11. CASE Read!Probe
  <2>1. ecu' \in Read!Computers
    BY <1>11
       DEF Read!TypeOK, Read!Probe, Read!Goto, Read!Raise, Read!Same, Read!Heard,
           Read!Computers, Read!Rates
  <2>2. s' \in Read!Sessions
    <3>1. ecu.rate \in Read!Rates
      BY DEF Read!TypeOK, Read!Computers
    <3>2. s' = [s EXCEPT !.link = ecu.rate] \/ s' = [s EXCEPT !.link = "unknown"]
      BY <1>11 DEF Read!Probe
    <3> QED
      BY <3>1, <3>2 DEF Read!TypeOK, Read!Sessions
  <2>3. pc' \in Read!Pcs
    BY <1>11 DEF Read!TypeOK, Read!Probe, Read!Goto, Read!Raise, Read!Same, Read!Heard, Read!Pcs
  <2>4. /\ outcome' \in {"none", "running", "not_started", "complete", "abandoned"}
        /\ touched' \in BOOLEAN
    BY <1>11 DEF Read!TypeOK, Read!Probe, Read!Goto, Read!Raise, Read!Same, Read!Heard
  <2>5. ReadInv'
    <3>1. pc = "probe" /\ ecu' = ecu /\ s.attempted
      BY <1>11 DEF Read!Probe, ReadInv
    <3>2. CASE s' = [s EXCEPT !.link = "unknown"] /\ pc' = "close"
      BY <3>1, <3>2, <2>2 DEF ReadInv, ReadSafe, Read!Sessions, Read!TypeOK
    <3>3. CASE /\ s' = [s EXCEPT !.link = ecu.rate]
               /\ pc' \in {"select_low", "low_ready", "bare"}
               /\ ecu.rate # "low" => pc' = "select_low"
      <4>1. s'.link = ecu.rate /\ s'.attempted
        BY <3>1, <3>3 DEF Read!TypeOK, Read!Sessions
      <4>2. s'.recovering = s.recovering
        BY <3>3 DEF Read!TypeOK, Read!Sessions
      <4>3. s.recovering
        BY <3>1 DEF ReadInv
      <4> QED
        BY <3>3, <4>1, <4>2, <4>3, <2>2 DEF ReadInv, ReadSafe
    <3> QED
      BY <1>11, <3>2, <3>3 DEF Read!Probe
  <2> QED BY <2>1, <2>2, <2>3, <2>4, <2>5 DEF Read!TypeOK
<1>12. CASE Read!Close
  <2>1. ecu' \in Read!Computers
    BY <1>12
       DEF Read!TypeOK, Read!Close, Read!MarkRequired, Read!Goto, Read!Raise, Read!Same,
           Read!Heard, Read!Computers, Read!Rates
  <2>2. s' \in Read!Sessions
    BY <1>12, BlocksCount
       DEF Read!TypeOK, Read!Close, Read!MarkRequired, Read!Goto, Read!Raise, Read!Same,
           Read!Heard, Read!Sessions, Read!Rates
  <2>3. pc' \in Read!Pcs
    BY <1>12
       DEF Read!TypeOK, Read!Close, Read!MarkRequired, Read!Goto, Read!Raise, Read!Same,
           Read!Heard, Read!Pcs
  <2>4. /\ outcome' \in {"none", "running", "not_started", "complete", "abandoned"}
        /\ touched' \in BOOLEAN
    BY <1>12
       DEF Read!TypeOK, Read!Close, Read!MarkRequired, Read!Goto, Read!Raise, Read!Same,
           Read!Heard
  <2>5. ReadInv'
    BY <1>12, BlocksCount
       DEF Read!TypeOK, Read!Close, Read!MarkRequired, Read!Goto, Read!Raise, Read!Same,
           Read!Heard, ReadInv, ReadSafe, Read!Computers, Read!Sessions, Read!Size,
           Read!Rates
  <2> QED BY <2>1, <2>2, <2>3, <2>4, <2>5 DEF Read!TypeOK
<1>13. CASE Read!Reopen
  <2>1. ecu' \in Read!Computers
    BY <1>13
       DEF Read!TypeOK, Read!Reopen, Read!Succeeded, Read!Goto, Read!Raise, Read!Same,
           Read!Heard, Read!Computers, Read!Rates
  <2>2. s' \in Read!Sessions
    BY <1>13, BlocksCount
       DEF Read!TypeOK, Read!Reopen, Read!Succeeded, Read!Goto, Read!Raise, Read!Same,
           Read!Heard, Read!Sessions, Read!Rates
  <2>3. pc' \in Read!Pcs
    BY <1>13
       DEF Read!TypeOK, Read!Reopen, Read!Succeeded, Read!Goto, Read!Raise, Read!Same,
           Read!Heard, Read!Pcs
  <2>4. /\ outcome' \in {"none", "running", "not_started", "complete", "abandoned"}
        /\ touched' \in BOOLEAN
    BY <1>13
       DEF Read!TypeOK, Read!Reopen, Read!Succeeded, Read!Goto, Read!Raise, Read!Same,
           Read!Heard
  <2>5. ReadInv'
    BY <1>13, BlocksCount
       DEF Read!TypeOK, Read!Reopen, Read!Succeeded, Read!Goto, Read!Raise, Read!Same,
           Read!Heard, ReadInv, ReadSafe, Read!Computers, Read!Sessions, Read!Size,
           Read!Rates
  <2> QED BY <2>1, <2>2, <2>3, <2>4, <2>5 DEF Read!TypeOK
<1>14. CASE Read!SlowBlock
  <2>1. ecu' \in Read!Computers
    BY <1>14
       DEF Read!TypeOK, Read!SlowBlock, Read!Size, Read!Goto, Read!Raise, Read!Same,
           Read!Heard, Read!Computers, Read!Rates
  <2>2. s' \in Read!Sessions
    BY <1>14, BlocksCount
       DEF Read!TypeOK, Read!SlowBlock, Read!Size, Read!Goto, Read!Raise, Read!Same,
           Read!Heard, Read!Sessions, Read!Rates, ReadInv, Read!Size
  <2>3. pc' \in Read!Pcs
    BY <1>14
       DEF Read!TypeOK, Read!SlowBlock, Read!Size, Read!Goto, Read!Raise, Read!Same,
           Read!Heard, Read!Pcs
  <2>4. /\ outcome' \in {"none", "running", "not_started", "complete", "abandoned"}
        /\ touched' \in BOOLEAN
    BY <1>14
       DEF Read!TypeOK, Read!SlowBlock, Read!Size, Read!Goto, Read!Raise, Read!Same,
           Read!Heard
  <2>5. ReadInv'
    BY <1>14, BlocksCount
       DEF Read!TypeOK, Read!SlowBlock, Read!Size, Read!Goto, Read!Raise, Read!Same,
           Read!Heard, ReadInv, ReadSafe, Read!Computers, Read!Sessions, Read!Size,
           Read!Rates
  <2> QED BY <2>1, <2>2, <2>3, <2>4, <2>5 DEF Read!TypeOK
<1>15. CASE Read!Return
  <2>1. ecu' \in Read!Computers
    BY <1>15
       DEF Read!TypeOK, Read!Return, Read!Goto, Read!Raise, Read!Same, Read!Heard,
           Read!Computers, Read!Rates
  <2>2. s' \in Read!Sessions
    BY <1>15, BlocksCount
       DEF Read!TypeOK, Read!Return, Read!Goto, Read!Raise, Read!Same, Read!Heard,
           Read!Sessions, Read!Rates
  <2>3. pc' \in Read!Pcs
    BY <1>15
       DEF Read!TypeOK, Read!Return, Read!Goto, Read!Raise, Read!Same, Read!Heard, Read!Pcs
  <2>4. /\ outcome' \in {"none", "running", "not_started", "complete", "abandoned"}
        /\ touched' \in BOOLEAN
    BY <1>15 DEF Read!TypeOK, Read!Return, Read!Goto, Read!Raise, Read!Same, Read!Heard
  <2>5. ReadInv'
    BY <1>15, BlocksCount
       DEF Read!TypeOK, Read!Return, Read!Goto, Read!Raise, Read!Same, Read!Heard, ReadInv,
           ReadSafe, Read!Computers, Read!Sessions, Read!Size, Read!Rates
  <2> QED BY <2>1, <2>2, <2>3, <2>4, <2>5 DEF Read!TypeOK
<1>16. CASE Read!Exit
  <2>1. ecu' \in Read!Computers
    BY <1>16
       DEF Read!TypeOK, Read!Exit, Read!Goto, Read!Raise, Read!Same, Read!Heard,
           Read!Computers, Read!Rates
  <2>2. s' \in Read!Sessions
    BY <1>16, BlocksCount
       DEF Read!TypeOK, Read!Exit, Read!Goto, Read!Raise, Read!Same, Read!Heard,
           Read!Sessions, Read!Rates
  <2>3. pc' \in Read!Pcs
    BY <1>16 DEF Read!TypeOK, Read!Exit, Read!Goto, Read!Raise, Read!Same, Read!Heard, Read!Pcs
  <2>4. /\ outcome' \in {"none", "running", "not_started", "complete", "abandoned"}
        /\ touched' \in BOOLEAN
    BY <1>16 DEF Read!TypeOK, Read!Exit, Read!Goto, Read!Raise, Read!Same, Read!Heard
  <2>5. ReadInv'
    BY <1>16, BlocksCount
       DEF Read!TypeOK, Read!Exit, Read!Goto, Read!Raise, Read!Same, Read!Heard, ReadInv,
           ReadSafe, Read!Computers, Read!Sessions, Read!Size, Read!Rates
  <2> QED BY <2>1, <2>2, <2>3, <2>4, <2>5 DEF Read!TypeOK
<1>17. CASE Read!Ignition
  <2>1. ecu' \in Read!Computers
    BY <1>17
       DEF Read!TypeOK, Read!Ignition, Read!Goto, Read!Raise, Read!Same, Read!Heard,
           Read!Computers, Read!Rates
  <2>2. s' \in Read!Sessions
    BY <1>17, BlocksCount
       DEF Read!TypeOK, Read!Ignition, Read!Goto, Read!Raise, Read!Same, Read!Heard,
           Read!Sessions, Read!Rates
  <2>3. pc' \in Read!Pcs
    BY <1>17
       DEF Read!TypeOK, Read!Ignition, Read!Goto, Read!Raise, Read!Same, Read!Heard, Read!Pcs
  <2>4. /\ outcome' \in {"none", "running", "not_started", "complete", "abandoned"}
        /\ touched' \in BOOLEAN
    BY <1>17 DEF Read!TypeOK, Read!Ignition, Read!Goto, Read!Raise, Read!Same, Read!Heard
  <2>5. ReadInv'
    BY <1>17, BlocksCount
       DEF Read!TypeOK, Read!Ignition, Read!Goto, Read!Raise, Read!Same, Read!Heard, ReadInv,
           ReadSafe, Read!Computers, Read!Sessions, Read!Size, Read!Rates
  <2> QED BY <2>1, <2>2, <2>3, <2>4, <2>5 DEF Read!TypeOK
<1>18. CASE Read!LatchReady
  <2>1. ecu' \in Read!Computers
    BY <1>18
       DEF Read!TypeOK, Read!LatchReady, Read!Goto, Read!Raise, Read!Same, Read!Heard,
           Read!Computers, Read!Rates
  <2>2. s' \in Read!Sessions
    BY <1>18, BlocksCount
       DEF Read!TypeOK, Read!LatchReady, Read!Goto, Read!Raise, Read!Same, Read!Heard,
           Read!Sessions, Read!Rates
  <2>3. pc' \in Read!Pcs
    BY <1>18
       DEF Read!TypeOK, Read!LatchReady, Read!Goto, Read!Raise, Read!Same, Read!Heard,
           Read!Pcs
  <2>4. /\ outcome' \in {"none", "running", "not_started", "complete", "abandoned"}
        /\ touched' \in BOOLEAN
    BY <1>18 DEF Read!TypeOK, Read!LatchReady, Read!Goto, Read!Raise, Read!Same, Read!Heard
  <2>5. ReadInv'
    BY <1>18, BlocksCount
       DEF Read!TypeOK, Read!LatchReady, Read!Goto, Read!Raise, Read!Same, Read!Heard,
           ReadInv, ReadSafe, Read!Computers, Read!Sessions, Read!Size, Read!Rates
  <2> QED BY <2>1, <2>2, <2>3, <2>4, <2>5 DEF Read!TypeOK
<1> QED
  BY <1>1, <1>2, <1>3, <1>4, <1>5, <1>6, <1>7, <1>8, <1>9, <1>10, <1>11, <1>12, <1>13, <1>14,
     <1>15, <1>16, <1>17, <1>18
     DEF Read!Next, Read!WorkerStep, Read!Session, Read!Lowering

---------------------------------------------------------------------------
(* The writers of the serial EEPROM.                                       *)

MarkersOnly(plan) == \A n \in 1 .. Len(plan) : plan[n].at = Eeprom!Marker

\* There is something to write where something is written, and a seed or its
\* undoing has the marker only.
EepromInv ==
    /\ pc \in {"confirm", "write"} => s.rest # <<>>
    /\ pc \in {"confirm", "write"} /\ s.op \in {"seed", "restore"} => MarkersOnly(s.rest)
    /\ pc \in {"enter", "held", "query"} => s.op = "agent"
    /\ pc = "capture" /\ s.op = "restore" => Eeprom!SameRecord(s.seen, s.target)

LEMMA EepromCounts == /\ LastTier \in Nat \ {0} /\ 1 \in 1 .. LastTier
                      /\ Base \in Nat \ {0, 1, 2} /\ Images \subseteq Eeprom!Chips
                      /\ {0, 1, 2} \subseteq Eeprom!Bytes
<1>1. LastTier \in Nat \ {0} /\ Base \in Nat \ {0, 1, 2}
      /\ Images \subseteq [1 .. 5 -> 0 .. Base - 1]
  BY WritersAssumption
<1> QED
  BY <1>1 DEF Eeprom!Chips, Eeprom!Bytes, Eeprom!Marker

LEMMA EepromReduced == ASSUME NEW n \in Nat PROVE n % Base \in Eeprom!Bytes
  BY EepromCounts DEF Eeprom!Bytes

LEMMA EepromChanges ==
    ASSUME NEW at \in 1 .. 5, NEW from \in Eeprom!Bytes, NEW to \in Eeprom!Bytes
    PROVE  /\ Eeprom!Change(at, from, to) \in Seq(Eeprom!Writes)
           /\ at = 5 => MarkersOnly(Eeprom!Change(at, from, to))
<1>1. Eeprom!Update(at, from, to) \in Eeprom!Writes /\ Eeprom!Update(at, from, to).at = at
  BY DEF Eeprom!Update, Eeprom!Writes, Eeprom!Marker
<1> DEFINE w == Eeprom!Update(at, from, to)
<1> HIDE DEF w
<1>2. w \in Eeprom!Writes /\ w.at = at
  BY <1>1 DEF w
<1>3. /\ << w >> \in Seq(Eeprom!Writes) /\ << w >> # <<>>
      /\ Len(<< w >>) = 1 /\ << w >>[1] = w
  BY <1>2
<1>4. MarkersOnly(<<>>) /\ (at = 5 => MarkersOnly(<< w >>))
  BY <1>2, <1>3 DEF MarkersOnly, Eeprom!Marker
<1>5. Eeprom!Change(at, from, to) = IF from = to THEN <<>> ELSE << w >>
  BY DEF Eeprom!Change, w
<1>6. CASE from = to
  BY <1>4, <1>5, <1>6
<1>7. CASE from # to
  BY <1>3, <1>4, <1>5, <1>7
<1> QED
  BY <1>6, <1>7

\* The plan of a write is one; it is empty where nothing differs, and has nothing
\* but the marker where the record does not.
LEMMA EepromPlans ==
    ASSUME NEW before \in Eeprom!Chips, NEW target \in Eeprom!Chips
    PROVE  /\ Eeprom!Plan(before, target) \in Seq(Eeprom!Writes)
           /\ Eeprom!SameRecord(before, target) => MarkersOnly(Eeprom!Plan(before, target))
           /\ before # target => Eeprom!Plan(before, target) # <<>>
<1> DEFINE same == before[1] = target[1] /\ before[2] = target[2]
           spoilt == IF same THEN before[3] ELSE Eeprom!InvalidLow(before, target)
           a == Eeprom!Change(3, before[3], spoilt)
           b == Eeprom!Change(1, before[1], target[1])
           c == Eeprom!Change(2, before[2], target[2])
           d == Eeprom!Change(4, before[4], target[4])
           e == Eeprom!Change(3, spoilt, target[3])
           f == Eeprom!Change(5, before[5], target[5])
<1>0. 1 \in 1 .. 5 /\ 2 \in 1 .. 5 /\ 3 \in 1 .. 5 /\ 4 \in 1 .. 5 /\ 5 \in 1 .. 5
  OBVIOUS
<1>1. \A n \in 1 .. 5 : before[n] \in Eeprom!Bytes /\ target[n] \in Eeprom!Bytes
  BY DEF Eeprom!Chips, Eeprom!Marker
<1>2. Eeprom!InvalidLow(before, target) \in Eeprom!Bytes
  <2>1. target[3] + 1 \in Nat /\ (target[3] + 1) % Base \in Eeprom!Bytes
    BY <1>1, EepromReduced DEF Eeprom!Bytes
  <2>2. ((target[3] + 1) % Base) + 1 \in Nat
    BY <2>1, EepromCounts DEF Eeprom!Bytes
  <2>3. (((target[3] + 1) % Base) + 1) % Base \in Eeprom!Bytes
    BY <2>2, EepromReduced
  <2> QED
    BY <2>1, <2>3 DEF Eeprom!InvalidLow, Eeprom!Low
<1>3. spoilt \in Eeprom!Bytes
  BY <1>1, <1>2
<1>4. Eeprom!Plan(before, target) = a \o b \o c \o d \o e \o f
  BY DEF Eeprom!Plan, Eeprom!Low, Eeprom!High, Eeprom!Marker
<1> HIDE DEF spoilt, same
<1>5. /\ a \in Seq(Eeprom!Writes) /\ b \in Seq(Eeprom!Writes) /\ c \in Seq(Eeprom!Writes)
      /\ d \in Seq(Eeprom!Writes) /\ e \in Seq(Eeprom!Writes) /\ f \in Seq(Eeprom!Writes)
  BY <1>0, <1>1, <1>3, EepromChanges
<1>12. /\ (a = <<>>) <=> (before[3] = spoilt)
       /\ (b = <<>>) <=> (before[1] = target[1])
       /\ (c = <<>>) <=> (before[2] = target[2])
       /\ (d = <<>>) <=> (before[4] = target[4])
       /\ (e = <<>>) <=> (spoilt = target[3])
       /\ (f = <<>>) <=> (before[5] = target[5])
  <2>1. (a = <<>>) <=> (before[3] = spoilt)
    BY DEF Eeprom!Change
  <2>2. (b = <<>>) <=> (before[1] = target[1])
    BY DEF Eeprom!Change
  <2>3. (c = <<>>) <=> (before[2] = target[2])
    BY DEF Eeprom!Change
  <2>4. (d = <<>>) <=> (before[4] = target[4])
    BY DEF Eeprom!Change
  <2>5. (e = <<>>) <=> (spoilt = target[3])
    BY DEF Eeprom!Change
  <2>6. (f = <<>>) <=> (before[5] = target[5])
    BY DEF Eeprom!Change
  <2> QED
    BY <2>1, <2>2, <2>3, <2>4, <2>5, <2>6
<1>6. MarkersOnly(f)
  BY <1>0, <1>1, EepromChanges
<1> HIDE DEF a, b, c, d, e, f
<1>7. ASSUME Eeprom!SameRecord(before, target)
      PROVE  a = <<>> /\ b = <<>> /\ c = <<>> /\ d = <<>> /\ e = <<>>
  <2>1. \A n \in 1 .. 4 : before[n] = target[n]
    BY <1>7 DEF Eeprom!SameRecord, Eeprom!High
  <2>2. spoilt = before[3] /\ spoilt = target[3]
    BY <2>1 DEF spoilt, same
  <2> QED
    BY <1>12, <2>1, <2>2
<1>8. ASSUME before # target PROVE \/ a # <<>> \/ b # <<>> \/ c # <<>>
                                   \/ d # <<>> \/ e # <<>> \/ f # <<>>
  <2>1. PICK n \in 1 .. 5 : before[n] # target[n]
    BY <1>8 DEF Eeprom!Chips, Eeprom!Marker
  <2>2. n = 1 \/ n = 2 \/ n = 3 \/ n = 4 \/ n = 5
    OBVIOUS
  <2>3. n = 1 => b # <<>>
    BY <1>12, <2>1
  <2>4. n = 2 => c # <<>>
    BY <1>12, <2>1
  <2>5. n = 4 => d # <<>>
    BY <1>12, <2>1
  <2>6. n = 5 => f # <<>>
    BY <1>12, <2>1
  <2>7. n = 3 => a # <<>> \/ e # <<>>
    BY <1>12, <2>1
  <2> QED
    BY <2>2, <2>3, <2>4, <2>5, <2>6, <2>7
<1>9. a \o b \o c \o d \o e \o f \in Seq(Eeprom!Writes)
  BY <1>5
<1>10. ASSUME Eeprom!SameRecord(before, target) PROVE a \o b \o c \o d \o e \o f = f
  BY <1>5, <1>7, <1>10
<1>11. ASSUME before # target PROVE a \o b \o c \o d \o e \o f # <<>>
  <2>1. Len(a \o b \o c \o d \o e \o f) = Len(a) + Len(b) + Len(c) + Len(d) + Len(e) + Len(f)
    BY <1>5
  <2>2. \/ Len(a) > 0 \/ Len(b) > 0 \/ Len(c) > 0 \/ Len(d) > 0 \/ Len(e) > 0 \/ Len(f) > 0
    BY <1>5, <1>8, <1>11
  <2>3. Len(a \o b \o c \o d \o e \o f) > 0
    BY <1>5, <2>1, <2>2
  <2> QED
    BY <2>3, <1>9
<1> QED
  BY <1>4, <1>6, <1>9, <1>10, <1>11


\* A session after one assignment of the writer.
LEMMA EepromEdits ==
    ASSUME NEW w \in Eeprom!Sessions
    PROVE  /\ \A op \in Eeprom!Ops, target \in Eeprom!Chips :
                 [w EXCEPT !.op = op, !.tier = 1, !.before = target, !.target = target,
                           !.rest = <<>>] \in Eeprom!Sessions
           /\ w.tier < LastTier => [w EXCEPT !.tier = @ + 1] \in Eeprom!Sessions
           /\ \A seen \in Eeprom!Chips \cup {<<>>} : [w EXCEPT !.seen = seen] \in Eeprom!Sessions
           /\ \A preseed \in Eeprom!Chips \cup {<<>>} :
                 [w EXCEPT !.preseed = preseed] \in Eeprom!Sessions
           /\ \A uncertain \in BOOLEAN : [w EXCEPT !.uncertain = uncertain] \in Eeprom!Sessions
           /\ \A before \in Eeprom!Chips : [w EXCEPT !.before = before] \in Eeprom!Sessions
           /\ \A rest \in Seq(Eeprom!Writes) : [w EXCEPT !.rest = rest] \in Eeprom!Sessions
           /\ \A before \in Eeprom!Chips :
                 [w EXCEPT !.tier = 1, !.before = before, !.rest = <<>>] \in Eeprom!Sessions
<1>1. <<>> \in Seq(Eeprom!Writes)
  OBVIOUS
<1>2. w.tier < LastTier => w.tier + 1 \in 1 .. LastTier
  BY EepromCounts DEF Eeprom!Sessions
<1>3. 1 \in 1 .. LastTier
  BY EepromCounts
<1> QED
  BY <1>1, <1>2, <1>3 DEF Eeprom!Sessions, Eeprom!None

EepromTypes == {"none", "running", "not_started", "complete", "abandoned"}

\* What a report leaves.
LEMMA EepromReports ==
    ASSUME Eeprom!TypeOK, NEW w \in Eeprom!Sessions, NEW what \in EepromTypes,
           Eeprom!Report(what, w)
    PROVE  s' \in Eeprom!Sessions /\ pc' = "idle" /\ outcome' \in EepromTypes /\ EepromInv'
<1>1. s.target \in Eeprom!Chips
  BY DEF Eeprom!TypeOK, Eeprom!Sessions
<1>2. s' = [w EXCEPT !.tier = 1, !.before = s.target, !.rest = <<>>] /\ pc' = "idle"
  BY DEF Eeprom!Report
<1>3. s' \in Eeprom!Sessions
  BY <1>1, <1>2, EepromEdits
<1> QED
  BY <1>2, <1>3 DEF Eeprom!Report, EepromInv

EepromStepped == (Eeprom!TypeOK)' /\ EepromInv' /\ Eeprom!MarkerAlone

\* A step that leaves the image alone, and one that goes to a step with no demand.
LEMMA EepromSteppedBy ==
    ASSUME Eeprom!TypeOK, ecu'.image = ecu.image, ecu'.agent \in BOOLEAN,
           ecu' \in Eeprom!Computers, s' \in Eeprom!Sessions, pc' \in Eeprom!Pcs,
           outcome' \in EepromTypes, touched' \in BOOLEAN, EepromInv'
    PROVE  EepromStepped
<1>1. (Eeprom!TypeOK)'
  BY DEF Eeprom!TypeOK, EepromInv, EepromTypes
<1>2. Eeprom!MarkerAlone
  BY DEF Eeprom!MarkerAlone, Eeprom!SameRecord
<1> QED
  BY <1>1, <1>2 DEF EepromStepped

LEMMA EepromTyped ==
    ASSUME Eeprom!TypeOK
    PROVE  /\ ecu \in Eeprom!Computers /\ ecu.image \in Eeprom!Chips /\ ecu.agent \in BOOLEAN
           /\ s \in Eeprom!Sessions /\ s.target \in Eeprom!Chips /\ s.before \in Eeprom!Chips
           /\ s.rest \in Seq(Eeprom!Writes) /\ s.op \in Eeprom!Ops
           /\ s.seen \in Eeprom!Chips \cup {<<>>} /\ s.preseed \in Eeprom!Chips \cup {<<>>}
           /\ pc \in Eeprom!Pcs /\ outcome \in EepromTypes /\ touched \in BOOLEAN
  BY DEF Eeprom!TypeOK, Eeprom!Computers, Eeprom!Sessions, EepromTypes, Eeprom!None

LEMMA EepromAgent ==
    ASSUME Eeprom!TypeOK
    PROVE  \A agent \in BOOLEAN :
              /\ [ecu EXCEPT !.agent = agent] \in Eeprom!Computers
              /\ [ecu EXCEPT !.agent = agent].image = ecu.image
  BY DEF Eeprom!TypeOK, Eeprom!Computers

LEMMA EepromStarts == ASSUME Eeprom!Init PROVE Eeprom!TypeOK /\ EepromInv
<1>1. ecu \in Eeprom!Computers /\ ecu.image \in Eeprom!Chips
  BY EepromCounts DEF Eeprom!Init, Eeprom!Computers
<1>2. <<>> \in Seq(Eeprom!Writes)
  OBVIOUS
<1>3. s \in Eeprom!Sessions
  BY <1>1, <1>2, EepromCounts DEF Eeprom!Init, Eeprom!Sessions, Eeprom!Ops, Eeprom!None
<1> QED
  BY <1>1, <1>3 DEF Eeprom!Init, Eeprom!TypeOK, EepromInv, Eeprom!Pcs

\* What fails before the first byte.
LEMMA EepromFails ==
    ASSUME Eeprom!TypeOK, NEW seen \in Eeprom!Chips \cup {<<>>}, Eeprom!Fail(seen)
    PROVE  /\ s' \in Eeprom!Sessions /\ pc' \in {"idle", "quit"} /\ outcome' \in EepromTypes
           /\ EepromInv'
<1>1. CASE Eeprom!Report("not_started", Eeprom!Remember(s, seen))
  <2>1. Eeprom!Remember(s, seen) \in Eeprom!Sessions
    BY EepromTyped, EepromEdits DEF Eeprom!Remember
  <2>2. "not_started" \in EepromTypes
    BY DEF EepromTypes
  <2> QED
    BY <1>1, <2>1, <2>2, EepromReports
<1>2. CASE s' = s /\ pc' = "quit" /\ outcome' = outcome
  BY <1>2, EepromTyped DEF EepromInv
<1> QED
  BY <1>1, <1>2 DEF Eeprom!Fail, Eeprom!Goto

\* What a success leaves.
LEMMA EepromSucceeds ==
    ASSUME Eeprom!TypeOK, Eeprom!Succeed
    PROVE  /\ s' \in Eeprom!Sessions /\ pc' = "idle" /\ outcome' = "complete"
           /\ s'.target = s.target /\ EepromInv'
<1> DEFINE seen == IF Eeprom!Programmer(s.op) THEN ecu.image ELSE s.seen
           preseed == CASE s.op = "seed"    -> s.before
                        [] s.op = "restore" -> <<>>
                        [] OTHER            -> s.preseed
           v == [s EXCEPT !.seen = seen]
           w == [v EXCEPT !.preseed = preseed]
<1>1. seen \in Eeprom!Chips \cup {<<>>} /\ preseed \in Eeprom!Chips \cup {<<>>}
  BY EepromTyped
<1>2. Eeprom!Report("complete", w) /\ w.target = s.target
  BY EepromTyped DEF Eeprom!Succeed, Eeprom!None, Eeprom!Sessions
<1> HIDE DEF seen, preseed
<1>3. v \in Eeprom!Sessions
  BY <1>1, EepromTyped, EepromEdits
<1> HIDE DEF v
<1>4. w \in Eeprom!Sessions
  BY <1>1, <1>3, EepromEdits
<1> HIDE DEF w
<1>5. "complete" \in EepromTypes
  BY DEF EepromTypes
<1>6. s'.target = s.target /\ outcome' = "complete"
  BY <1>2, <1>4 DEF Eeprom!Report, Eeprom!Sessions
<1> QED
  BY <1>2, <1>4, <1>5, <1>6, EepromReports

LEMMA EepromTargets ==
    ASSUME Eeprom!TypeOK, NEW op \in Eeprom!Ops, NEW target \in Eeprom!Targets(op)
    PROVE  /\ target \in Eeprom!Chips
           /\ op = "restore" => Eeprom!SameRecord(s.seen, target)
<1>1. CASE op \in {"agent", "write"}
  BY <1>1, EepromCounts DEF Eeprom!Targets
<1>2. CASE op = "seed"
  <2>1. s.seen \in Eeprom!Chips /\ target = [s.seen EXCEPT ![Eeprom!Marker] = Eeprom!Recovery]
    BY <1>2, EepromTyped DEF Eeprom!Targets, Eeprom!None
  <2>2. target \in Eeprom!Chips
    BY <2>1, EepromCounts DEF Eeprom!Chips, Eeprom!Recovery
  <2> QED
    BY <1>2, <2>2
<1>3. CASE op = "restore"
  BY <1>3, EepromTyped DEF Eeprom!Targets, Eeprom!None
<1> QED
  BY <1>1, <1>2, <1>3 DEF Eeprom!Ops

\* The rest of a plan.
LEMMA EepromTails ==
    ASSUME NEW q \in Seq(Eeprom!Writes), q # <<>>
    PROVE  /\ Head(q) \in Eeprom!Writes /\ Head(q) = q[1] /\ Len(q) \in Nat /\ Len(q) >= 1
           /\ Tail(q) \in Seq(Eeprom!Writes) /\ (Len(q) # 1 => Tail(q) # <<>>)
           /\ MarkersOnly(q) => Head(q).at = 5 /\ MarkersOnly(Tail(q))
<1>1. Len(q) \in Nat /\ Len(q) >= 1 /\ Head(q) = q[1]
  OBVIOUS
<1>2. Head(q) \in Eeprom!Writes /\ Tail(q) \in Seq(Eeprom!Writes)
  OBVIOUS
<1>3. Len(Tail(q)) = Len(q) - 1
  OBVIOUS
<1>4. Len(q) # 1 => Tail(q) # <<>>
  <2>1. Len(q) # 1 => Len(Tail(q)) > 0
    BY <1>1, <1>3
  <2>2. Len(<<>>) = 0
    OBVIOUS
  <2>3. Tail(q) = <<>> => Len(Tail(q)) = 0
    BY <2>2, Zenon
  <2> QED
    BY <2>1, <2>3
<1>5. \A n \in 1 .. Len(Tail(q)) : n + 1 \in 1 .. Len(q) /\ Tail(q)[n] = q[n + 1]
  BY <1>1, <1>3
<1>6. MarkersOnly(q) => Head(q).at = 5
  BY <1>1 DEF MarkersOnly, Eeprom!Marker
<1>7. MarkersOnly(q) => MarkersOnly(Tail(q))
  BY <1>5 DEF MarkersOnly
<1> QED
  BY <1>1, <1>2, <1>4, <1>6, <1>7

LEMMA EepromSteps ==
    ASSUME Eeprom!TypeOK, EepromInv, Eeprom!Next PROVE EepromStepped
<1> DEFINE Kept == ecu'.image = ecu.image /\ ecu' \in Eeprom!Computers /\ ecu'.agent \in BOOLEAN
<1>0. /\ ecu' = ecu => Kept
      /\ \A agent \in BOOLEAN : ecu' = [ecu EXCEPT !.agent = agent] => Kept
      /\ touched \in BOOLEAN /\ outcome \in EepromTypes /\ s \in Eeprom!Sessions
      /\ pc \in Eeprom!Pcs
      /\ {"idle", "quit", "capture", "enter", "confirm", "write", "failed", "held", "query",
          "readback"} \subseteq Eeprom!Pcs
      /\ {"none", "running", "not_started", "complete", "abandoned"} \subseteq EepromTypes
  <2>1. ecu' = ecu => Kept
    BY EepromTyped
  <2>2. ASSUME NEW agent \in BOOLEAN, ecu' = [ecu EXCEPT !.agent = agent] PROVE Kept
    <3>1. ecu' \in Eeprom!Computers /\ ecu'.image = ecu.image
      BY <2>2, EepromAgent
    <3> QED
      BY <3>1 DEF Eeprom!Computers
  <2> QED
    BY <2>1, <2>2, EepromTyped DEF Eeprom!Pcs, EepromTypes
<1> HIDE DEF Kept
<1>00. ASSUME Kept, s' \in Eeprom!Sessions, pc' \in Eeprom!Pcs, outcome' \in EepromTypes,
              touched' \in BOOLEAN, EepromInv'
       PROVE  EepromStepped
  BY <1>00, EepromSteppedBy DEF Kept
<1>1. ASSUME NEW op \in Eeprom!Ops, Eeprom!Start(op) PROVE EepromStepped
  <2>1. PICK target \in Eeprom!Targets(op) :
           s' = [s EXCEPT !.op = op, !.tier = 1, !.before = target, !.target = target,
                          !.rest = <<>>]
    BY <1>1 DEF Eeprom!Start
  <2>2. target \in Eeprom!Chips /\ (op = "restore" => Eeprom!SameRecord(s.seen, target))
    BY EepromTargets
  <2>3. s' \in Eeprom!Sessions
    BY <2>1, <2>2, EepromTyped, EepromEdits
  <2>4. s'.op = op /\ s'.target = target /\ s'.seen = s.seen
    BY <2>1, EepromTyped DEF Eeprom!Sessions
  <2>5. pc' \in {"capture", "enter"} /\ outcome' = "running" /\ touched' = FALSE
    BY <1>1 DEF Eeprom!Start
  <2>6. EepromInv'
    <3>1. pc' = "capture" /\ s'.op = "restore" => Eeprom!SameRecord(s'.seen, s'.target)
      BY <2>2, <2>4
    <3>2. pc' = "enter" => op = "agent"
      BY <1>1 DEF Eeprom!Start, Eeprom!Programmer
    <3> QED
      BY <2>4, <2>5, <3>1, <3>2 DEF EepromInv
  <2>7. Kept
    BY <1>0, <1>1 DEF Eeprom!Start, Eeprom!Chip
  <2> QED
    BY <1>0, <1>00, <2>3, <2>5, <2>6, <2>7
<1>2. CASE Eeprom!Enter
  <2>1. Kept /\ touched' \in BOOLEAN
    BY <1>0, <1>2 DEF Eeprom!Enter, Eeprom!Staged
  <2>2. pc = "enter"
    BY <1>2 DEF Eeprom!Enter
  <2>3. CASE s' = s /\ pc' = "capture" /\ outcome' = outcome
    <3>1. EepromInv'
      BY <2>2, <2>3 DEF EepromInv
    <3> QED
      BY <1>0, <1>00, <2>1, <2>3, <3>1
  <2>4. CASE s.tier < LastTier /\ s' = [s EXCEPT !.tier = @ + 1] /\ UNCHANGED <<pc, outcome>>
    <3>1. s' \in Eeprom!Sessions
      BY <2>4, EepromTyped, EepromEdits
    <3>2. EepromInv'
      BY <2>2, <2>4 DEF EepromInv
    <3> QED
      BY <1>0, <1>00, <2>1, <2>4, <3>1, <3>2
  <2>5. CASE Eeprom!Report("not_started", s)
    BY <1>0, <1>00, <2>1, <2>5, EepromReports
  <2> QED
    BY <1>2, <2>3, <2>4, <2>5 DEF Eeprom!Enter, Eeprom!Goto
<1>3. CASE Eeprom!Capture
  <2>1. Kept /\ touched' \in BOOLEAN /\ pc = "capture"
    BY <1>0, <1>3 DEF Eeprom!Capture, Eeprom!Stays
  <2>2. CASE Eeprom!Fail(<<>>)
    <3>1. s' \in Eeprom!Sessions /\ pc' \in {"idle", "quit"} /\ outcome' \in EepromTypes
          /\ EepromInv'
      BY <2>2, EepromFails
    <3> QED
      BY <1>0, <1>00, <2>1, <3>1
  <2>3. ASSUME NEW plan, plan # <<>>, Eeprom!StillAsSeen, pc' = "confirm", outcome' = outcome,
               plan = (IF s.op = "seed"
                       THEN << Eeprom!Update(Eeprom!Marker, ecu.image[Eeprom!Marker],
                                             Eeprom!Recovery) >>
                       ELSE Eeprom!Plan(ecu.image, s.target)),
               s' = [s EXCEPT !.before = ecu.image, !.rest = plan]
        PROVE  EepromStepped
    <3>1. plan \in Seq(Eeprom!Writes) /\ (s.op \in {"seed", "restore"} => MarkersOnly(plan))
      <4>1. CASE s.op = "seed"
        <5> DEFINE w == Eeprom!Update(Eeprom!Marker, ecu.image[Eeprom!Marker], Eeprom!Recovery)
        <5>1. w \in Eeprom!Writes /\ w.at = 5
          BY EepromTyped, EepromCounts
             DEF Eeprom!Chips, Eeprom!Update, Eeprom!Writes, Eeprom!Marker, Eeprom!Recovery
        <5> HIDE DEF w
        <5>2. plan = << w >>
          BY <2>3, <4>1 DEF w
        <5>3. plan \in Seq(Eeprom!Writes) /\ Len(plan) = 1 /\ plan[1] = w
          BY <5>1, <5>2
        <5> QED
          BY <5>1, <5>3 DEF MarkersOnly, Eeprom!Marker
      <4>2. CASE s.op = "restore"
        <5>1. Eeprom!SameRecord(ecu.image, s.target)
          BY <2>1, <2>3, <4>2 DEF EepromInv, Eeprom!StillAsSeen
        <5> QED
          BY <2>3, <4>2, <5>1, EepromTyped, EepromPlans
      <4>3. CASE s.op \notin {"seed", "restore"}
        BY <2>3, <4>3, EepromTyped, EepromPlans
      <4> QED
        BY <4>1, <4>2, <4>3
    <3> DEFINE w == [s EXCEPT !.before = ecu.image]
    <3>2. w \in Eeprom!Sessions
      BY EepromTyped, EepromEdits
    <3>3. s' = [w EXCEPT !.rest = plan]
      BY <2>3
    <3> HIDE DEF w
    <3>4. s' \in Eeprom!Sessions
      BY <3>1, <3>2, <3>3, EepromEdits
    <3>5. s'.rest = plan /\ s'.op = s.op
      BY <2>3, EepromTyped DEF Eeprom!Sessions
    <3>6. EepromInv'
      BY <2>3, <3>1, <3>5 DEF EepromInv
    <3> QED
      BY <1>0, <1>00, <2>1, <2>3, <3>4, <3>6
  <2>4. CASE s' = s /\ pc' = "quit" /\ outcome' = outcome
    <3>1. EepromInv'
      BY <2>4 DEF EepromInv
    <3> QED
      BY <1>0, <1>00, <2>1, <2>4, <3>1
  <2>5. \/ Eeprom!Fail(<<>>)
        \/ s' = s /\ pc' = "quit" /\ outcome' = outcome
        \/ \E plan : /\ plan # <<>> /\ Eeprom!StillAsSeen /\ pc' = "confirm" /\ outcome' = outcome
                     /\ plan = (IF s.op = "seed"
                                THEN << Eeprom!Update(Eeprom!Marker, ecu.image[Eeprom!Marker],
                                                      Eeprom!Recovery) >>
                                ELSE Eeprom!Plan(ecu.image, s.target))
                     /\ s' = [s EXCEPT !.before = ecu.image, !.rest = plan]
    BY <1>3 DEF Eeprom!Capture, Eeprom!None, Eeprom!Goto, Eeprom!Stays
  <2> QED
    BY <2>2, <2>3, <2>4, <2>5
<1>4. CASE Eeprom!Confirm
  <2>1. Kept /\ touched' \in BOOLEAN /\ pc = "confirm"
    BY <1>0, <1>4 DEF Eeprom!Confirm
  <2>2. CASE s' = s /\ pc' = "write" /\ outcome' = outcome
    <3>1. EepromInv'
      BY <2>1, <2>2 DEF EepromInv
    <3> QED
      BY <1>0, <1>00, <2>1, <2>2, <3>1
  <2>3. CASE Eeprom!Fail(s.seen)
    <3>1. s' \in Eeprom!Sessions /\ pc' \in {"idle", "quit"} /\ outcome' \in EepromTypes
          /\ EepromInv'
      BY <2>3, EepromTyped, EepromFails
    <3> QED
      BY <1>0, <1>00, <2>1, <3>1
  <2> QED
    BY <1>4, <2>2, <2>3 DEF Eeprom!Confirm, Eeprom!Goto
<1>5. CASE Eeprom!WriteByte
  <2> DEFINE w == Head(s.rest)
  <2>1. pc = "write" /\ s.rest \in Seq(Eeprom!Writes) /\ s.rest # <<>>
    BY <1>5, EepromTyped DEF Eeprom!WriteByte, EepromInv
  <2>2. /\ w \in Eeprom!Writes /\ Tail(s.rest) \in Seq(Eeprom!Writes)
        /\ Len(s.rest) # 1 => Tail(s.rest) # <<>>
        /\ MarkersOnly(s.rest) => w.at = 5 /\ MarkersOnly(Tail(s.rest))
    BY <2>1, EepromTails
  <2>3. w.at \in 1 .. 5 /\ w.from \in Eeprom!Bytes /\ w.to \in Eeprom!Bytes
    BY <2>2 DEF Eeprom!Writes, Eeprom!Marker
  <2> HIDE DEF w
  <2>4. s.op \in {"seed", "restore"} => w.at = 5 /\ MarkersOnly(Tail(s.rest))
    BY <2>1, <2>2 DEF EepromInv
  <2>5. \A value \in Eeprom!Bytes :
           /\ [ecu EXCEPT !.image[w.at] = value] \in Eeprom!Computers
           /\ s.op \in {"seed", "restore"} =>
                 Eeprom!SameRecord(ecu.image, [ecu EXCEPT !.image[w.at] = value].image)
    <3> SUFFICES ASSUME NEW value \in Eeprom!Bytes
                 PROVE  /\ [ecu EXCEPT !.image[w.at] = value] \in Eeprom!Computers
                        /\ w.at = 5 =>
                           Eeprom!SameRecord(ecu.image, [ecu EXCEPT !.image[w.at] = value].image)
      BY <2>4
    <3> DEFINE image == [ecu.image EXCEPT ![w.at] = value]
    <3>1. image \in Eeprom!Chips /\ (w.at = 5 => \A o \in 1 .. 4 : image[o] = ecu.image[o])
      BY <2>3, EepromTyped DEF Eeprom!Chips, Eeprom!Marker
    <3>2. [ecu EXCEPT !.image[w.at] = value] = [ecu EXCEPT !.image = image]
      BY EepromTyped DEF Eeprom!Computers
    <3> HIDE DEF image
    <3>3. [ecu EXCEPT !.image = image] \in Eeprom!Computers
          /\ [ecu EXCEPT !.image = image].image = image
      BY <3>1, EepromTyped DEF Eeprom!Computers
    <3> QED
      BY <3>1, <3>2, <3>3 DEF Eeprom!SameRecord, Eeprom!High
  <2>6. CASE /\ ecu' = [ecu EXCEPT !.image[w.at] = w.to] /\ touched' = TRUE
             /\ s' = [s EXCEPT !.rest = Tail(@)]
             /\ pc' = (IF Len(s.rest) = 1 THEN "readback" ELSE "write")
             /\ outcome' = outcome
    <3>1. s' = [s EXCEPT !.rest = Tail(s.rest)]
      BY <2>6, EepromTyped DEF Eeprom!Sessions
    <3>2. s' \in Eeprom!Sessions /\ s'.rest = Tail(s.rest) /\ s'.op = s.op
      <4>1. s' \in Eeprom!Sessions
        BY <2>2, <3>1, EepromTyped, EepromEdits
      <4> QED
        BY <3>1, <4>1, EepromTyped DEF Eeprom!Sessions
    <3>3. EepromInv'
      BY <2>2, <2>4, <2>6, <3>2 DEF EepromInv
    <3>4. ecu' \in Eeprom!Computers
          /\ (s.op \in {"seed", "restore"} => Eeprom!SameRecord(ecu.image, ecu'.image))
      BY <2>3, <2>5, <2>6
    <3>5. pc' \in Eeprom!Pcs
      BY <2>6 DEF Eeprom!Pcs
    <3>6. (Eeprom!TypeOK)'
      BY <1>0, <2>2, <2>6, <3>2, <3>3, <3>4, <3>5 DEF Eeprom!TypeOK, EepromTypes, EepromInv
    <3> QED
      BY <3>3, <3>4, <3>6 DEF EepromStepped, Eeprom!MarkerAlone
  <2>7. ASSUME NEW value \in Eeprom!Cut(w), ecu' \in {ecu, [ecu EXCEPT !.image[w.at] = value]},
               s' = s, pc' = "failed", outcome' = outcome, touched' \in BOOLEAN
        PROVE  EepromStepped
    <3>1. value \in Eeprom!Bytes
      BY <2>3, <2>7, EepromCounts DEF Eeprom!Cut, Eeprom!Mixed
    <3>2. ecu' \in Eeprom!Computers
          /\ (s.op \in {"seed", "restore"} => Eeprom!SameRecord(ecu.image, ecu'.image))
      <4>1. CASE ecu' = ecu
        BY <4>1, EepromTyped DEF Eeprom!SameRecord
      <4>2. CASE ecu' = [ecu EXCEPT !.image[w.at] = value]
        BY <2>5, <3>1, <4>2
      <4> QED
        BY <2>7, <4>1, <4>2
    <3>3. EepromInv' /\ (Eeprom!TypeOK)'
      BY <1>0, <2>7, <3>2 DEF EepromInv, Eeprom!TypeOK, EepromTypes
    <3> QED
      BY <3>2, <3>3 DEF EepromStepped, Eeprom!MarkerAlone
  <2> QED
    <3>1. CASE \E value \in Eeprom!Cut(w) :
                  ecu' = IF Eeprom!Reachable /\ ecu.image[w.at] = w.from
                         THEN [ecu EXCEPT !.image[w.at] = value] ELSE ecu
      <4>1. PICK value \in Eeprom!Cut(w) : ecu' \in {ecu, [ecu EXCEPT !.image[w.at] = value]}
        BY <3>1
      <4>2. CASE s' = s /\ pc' = "failed" /\ outcome' = outcome /\ touched' \in BOOLEAN
        BY <2>7, <4>1, <4>2
      <4>3. CASE ~(s' = s /\ pc' = "failed" /\ outcome' = outcome /\ touched' \in BOOLEAN)
        BY <1>0, <1>5, <2>6, <4>3 DEF Eeprom!WriteByte, Eeprom!Goto, w
      <4> QED
        BY <4>2, <4>3
    <3> QED
      BY <1>5, <2>6, <3>1 DEF Eeprom!WriteByte, w
<1>6. CASE Eeprom!Readback
  <2>1. Kept /\ touched' \in BOOLEAN
    BY <1>0, <1>6 DEF Eeprom!Readback
  <2>2. CASE s' = s /\ pc' \in {"quit", "failed"} /\ outcome' = outcome
    <3>1. EepromInv'
      BY <2>2 DEF EepromInv
    <3> QED
      BY <1>0, <1>00, <2>1, <2>2, <3>1
  <2>3. CASE Eeprom!Succeed
    BY <1>0, <1>00, <2>1, <2>3, EepromSucceeds DEF EepromTypes
  <2> QED
    BY <1>6, <2>2, <2>3 DEF Eeprom!Readback, Eeprom!Goto
<1>7. CASE Eeprom!Failed
  <2>1. Kept /\ touched' \in BOOLEAN
    BY <1>0, <1>7 DEF Eeprom!Failed
  <2>2. CASE Eeprom!Programmer(s.op)
    <3> DEFINE preseed == IF s.op = "seed" THEN s.before ELSE s.preseed
               u == [s EXCEPT !.uncertain = TRUE]
               v == [u EXCEPT !.seen = <<>>]
               w == [v EXCEPT !.preseed = preseed]
    <3>1. preseed \in Eeprom!Chips \cup {<<>>}
      BY EepromTyped
    <3>2. Eeprom!Report("abandoned", w)
      BY <1>7, <2>2, EepromTyped DEF Eeprom!Failed, Eeprom!None, Eeprom!Sessions
    <3> HIDE DEF preseed
    <3>3. u \in Eeprom!Sessions
      BY EepromTyped, EepromEdits
    <3> HIDE DEF u
    <3>4. v \in Eeprom!Sessions
      BY <3>3, EepromEdits
    <3> HIDE DEF v
    <3>5. w \in Eeprom!Sessions
      BY <3>1, <3>4, EepromEdits
    <3> HIDE DEF w
    <3> QED
      BY <1>0, <1>00, <2>1, <3>2, <3>5, EepromReports
  <2>3. CASE ~Eeprom!Programmer(s.op)
    <3>1. s' = s /\ pc' = "held" /\ outcome' = outcome /\ s.op = "agent"
      BY <1>7, <2>3 DEF Eeprom!Failed, Eeprom!Programmer
    <3>2. EepromInv'
      BY <3>1 DEF EepromInv
    <3> QED
      BY <1>0, <1>00, <2>1, <3>1, <3>2
  <2> QED
    BY <2>2, <2>3
<1>8. CASE Eeprom!Quit
  <2>1. Kept /\ touched' \in BOOLEAN
    BY <1>0, <1>8 DEF Eeprom!Quit, Eeprom!Restarted
  <2>2. CASE Eeprom!Succeed
    BY <1>0, <1>00, <2>1, <2>2, EepromSucceeds DEF EepromTypes
  <2>3. CASE Eeprom!Report("not_started", s)
    BY <1>0, <1>00, <2>1, <2>3, EepromReports
  <2> QED
    BY <1>8, <2>2, <2>3 DEF Eeprom!Quit
<1>9. CASE Eeprom!Query
  <2>1. Kept /\ touched' \in BOOLEAN /\ outcome' = outcome /\ pc = "query" /\ s.op = "agent"
    BY <1>0, <1>9 DEF Eeprom!Query, EepromInv
  <2>2. CASE s' = s /\ pc' \in {"quit", "failed"}
    <3>1. EepromInv'
      BY <2>2 DEF EepromInv
    <3> QED
      BY <1>0, <1>00, <2>1, <2>2, <3>1
  <2>3. CASE /\ ecu.image # s.target /\ pc' = "write"
             /\ s' = [s EXCEPT !.rest = Eeprom!Plan(ecu.image, s.target)]
    <3> DEFINE plan == Eeprom!Plan(ecu.image, s.target)
    <3>1. plan \in Seq(Eeprom!Writes) /\ plan # <<>>
      BY <2>3, EepromTyped, EepromPlans
    <3> HIDE DEF plan
    <3>2. s' = [s EXCEPT !.rest = plan]
      BY <2>3 DEF plan
    <3>3. s' \in Eeprom!Sessions
      BY <3>1, <3>2, EepromTyped, EepromEdits
    <3>4. s'.rest = plan /\ s'.op = "agent"
      BY <2>1, <3>2, EepromTyped DEF Eeprom!Sessions
    <3>5. EepromInv'
      BY <2>3, <3>1, <3>4 DEF EepromInv
    <3> QED
      BY <1>0, <1>00, <2>1, <2>3, <3>3, <3>5
  <2> QED
    BY <1>9, <2>2, <2>3 DEF Eeprom!Query, Eeprom!Goto
<1>10. CASE Eeprom!Resolve
  <2>1. Kept /\ touched' = touched /\ outcome' = outcome /\ s' = s /\ pc' = "query" /\ pc = "held"
    BY <1>0, <1>10 DEF Eeprom!Resolve, Eeprom!Goto
  <2>2. EepromInv'
    BY <2>1 DEF EepromInv
  <2> QED
    BY <1>0, <1>00, <2>1, <2>2
<1>11. CASE Eeprom!Release
  <2>1. Kept /\ touched' \in BOOLEAN /\ Eeprom!Report("abandoned", s)
    BY <1>0, <1>11 DEF Eeprom!Release
  <2> QED
    BY <1>0, <1>00, <2>1, EepromReports
<1>12. CASE Eeprom!ReadChip
  <2>1. Kept /\ touched' = touched /\ outcome' = outcome /\ pc' = pc /\ pc = "idle"
    BY <1>0, <1>12 DEF Eeprom!ReadChip, Eeprom!Chip
  <2>2. s' \in Eeprom!Sessions
    <3>1. [ecu.image EXCEPT ![Eeprom!Marker] = Eeprom!Normal] \in Eeprom!Chips
      BY EepromTyped, EepromCounts DEF Eeprom!Chips, Eeprom!Normal
    <3>2. ASSUME NEW preseed \in Eeprom!Chips \cup {<<>>},
                 s' = [s EXCEPT !.seen = ecu.image, !.preseed = preseed, !.uncertain = FALSE]
          PROVE  s' \in Eeprom!Sessions
      <4> DEFINE u == [s EXCEPT !.seen = ecu.image]
                 v == [u EXCEPT !.preseed = preseed]
      <4>1. s' = [v EXCEPT !.uncertain = FALSE]
        BY <3>2, EepromTyped DEF Eeprom!Sessions
      <4>2. u \in Eeprom!Sessions
        BY EepromTyped, EepromEdits
      <4> HIDE DEF u
      <4>3. v \in Eeprom!Sessions
        BY <4>2, EepromEdits
      <4> HIDE DEF v
      <4> QED
        BY <4>1, <4>3, EepromEdits
    <3>3. CASE s' = Eeprom!Remember(s, <<>>)
      BY <3>3, EepromTyped, EepromEdits DEF Eeprom!Remember
    <3> QED
      BY <1>12, <3>1, <3>2, <3>3 DEF Eeprom!ReadChip, Eeprom!None
  <2>3. EepromInv'
    BY <2>1 DEF EepromInv
  <2> QED
    BY <1>0, <1>00, <2>1, <2>2, <2>3
<1>13. CASE Eeprom!Exit
  <2>1. Kept /\ touched' \in BOOLEAN
    BY <1>0, <1>13 DEF Eeprom!Exit
  <2> DEFINE u == [s EXCEPT !.seen = <<>>]
             v == [u EXCEPT !.preseed = <<>>]
             w == [v EXCEPT !.uncertain = FALSE]
             what == IF outcome = "running" THEN "abandoned" ELSE outcome
  <2>2. Eeprom!Report(what, w)
    BY <1>13, EepromTyped DEF Eeprom!Exit, Eeprom!None, Eeprom!Sessions
  <2>3. what \in EepromTypes
    BY <1>0
  <2> HIDE DEF what
  <2>4. u \in Eeprom!Sessions
    BY EepromTyped, EepromEdits
  <2> HIDE DEF u
  <2>5. v \in Eeprom!Sessions
    BY <2>4, EepromEdits
  <2> HIDE DEF v
  <2>6. w \in Eeprom!Sessions
    BY <2>5, EepromEdits
  <2> HIDE DEF w
  <2> QED
    BY <1>0, <1>00, <2>1, <2>2, <2>3, <2>6, EepromReports
<1>14. CASE Eeprom!PowerOff
  <2>1. Kept /\ touched' = touched /\ outcome' = outcome /\ s' = s /\ pc' = pc
    BY <1>0, <1>14 DEF Eeprom!PowerOff
  <2>2. EepromInv'
    BY <2>1 DEF EepromInv
  <2> QED
    BY <1>0, <1>00, <2>1, <2>2
<1> QED
  BY <1>1, <1>2, <1>3, <1>4, <1>5, <1>6, <1>7, <1>8, <1>9, <1>10, <1>11, <1>12, <1>13, <1>14
     DEF Eeprom!Next, Eeprom!WorkerStep

---------------------------------------------------------------------------
(* The hardware recovery.                                                  *)

\* The regions of a plan for everything are written in order.  A write of one region
\* that found one firmware, and was let through unforced, is of the firmware of the
\* others.
BslInv ==
    /\ s.region \in Bsl!Range(ecu.map) \cup {"all"}
    /\ s.i <= Len(Bsl!Order(s.region))
    /\ pc \in {"idle", "start", "guard"} => s.i = 1
    /\ s.region = "all" =>
          \A j \in 1 .. Len(ecu.map) : j < s.i => ecu.flash[ecu.map[j]] = Bsl!Of(s.fw)
    /\ pc = "guard" /\ s.sane => Bsl!OneFirmware(ecu)
    /\ pc \in {"prepare", "erase", "program", "verify"} /\ s.sane /\ ~s.force
       /\ s.region # "all" =>
          \A r \in Bsl!Range(ecu.map) \ {s.region} : ecu.flash[r] = Bsl!Of(s.fw)

LEMMA FirmwaresKnown ==
    /\ Firmwares # {} /\ Firmwares \subseteq {"MS41.0", "MS41.1", "MS41.2", "MS41.3"}
    /\ "none" \notin Firmwares
<1>1. Firmwares # {} /\ Firmwares \subseteq {"MS41.0", "MS41.1", "MS41.2", "MS41.3"}
  BY WritersAssumption
<1> QED
  BY <1>1

LEMMA BslMaps ==
    /\ Len(Bsl!Coarse) = 3 /\ Len(Bsl!Fine) = 4
    /\ Bsl!Range(Bsl!Coarse) = {"tune", "program-high", "low"}
    /\ Bsl!Range(Bsl!Fine) = {"tune", "program-high", "program-low", "boot"}
    /\ Bsl!Regions = {"tune", "program-high", "low", "program-low", "boot"}
    /\ "all" \notin Bsl!Regions
<1>1. Bsl!Range(Bsl!Coarse) = {"tune", "program-high", "low"}
  BY DEF Bsl!Range, Bsl!Coarse
<1>2. Bsl!Range(Bsl!Fine) = {"tune", "program-high", "program-low", "boot"}
  BY DEF Bsl!Range, Bsl!Fine
<1>3. Len(Bsl!Coarse) = 3 /\ Len(Bsl!Fine) = 4
  BY DEF Bsl!Coarse, Bsl!Fine
<1>4. Bsl!Regions = {"tune", "program-high", "low", "program-low", "boot"}
  BY <1>1, <1>2 DEF Bsl!Regions
<1> QED
  BY <1>1, <1>2, <1>3, <1>4

LEMMA BslMap ==
    ASSUME NEW map \in Bsl!Maps
    PROVE  /\ Len(map) \in 3 .. 4 /\ Bsl!Range(map) \subseteq Bsl!Regions
           /\ {"tune", "program-high", Bsl!IdRegion(map)} \subseteq Bsl!Range(map)
           /\ \A j \in 1 .. Len(map) : map[j] \in Bsl!Range(map)
           /\ \A r \in Bsl!Range(map) : \E j \in 1 .. Len(map) : r = map[j]
<1>1. CASE map = Bsl!Coarse
  <2>1. \A j \in 1 .. 3 : map[j] \in {"tune", "program-high", "low"}
    BY <1>1 DEF Bsl!Coarse
  <2>2. map[1] = "tune" /\ map[2] = "program-high" /\ map[3] = "low"
    BY <1>1 DEF Bsl!Coarse
  <2>3. \A r \in {"tune", "program-high", "low"} : \E j \in 1 .. 3 : r = map[j]
    BY <2>2
  <2>4. Bsl!IdRegion(map) = "low"
    BY <1>1 DEF Bsl!IdRegion
  <2> QED
    BY <1>1, <2>1, <2>3, <2>4, BslMaps
<1>2. CASE map = Bsl!Fine
  <2>1. \A j \in 1 .. 4 : map[j] \in {"tune", "program-high", "program-low", "boot"}
    BY <1>2 DEF Bsl!Fine
  <2>2. map[1] = "tune" /\ map[2] = "program-high" /\ map[3] = "program-low" /\ map[4] = "boot"
    BY <1>2 DEF Bsl!Fine
  <2>3. \A r \in {"tune", "program-high", "program-low", "boot"} : \E j \in 1 .. 4 : r = map[j]
    BY <2>2
  <2>4. Bsl!IdRegion(map) = "program-low"
    BY <1>2 DEF Bsl!IdRegion, Bsl!Coarse, Bsl!Fine
  <2> QED
    BY <1>2, <2>1, <2>3, <2>4, BslMaps
<1> QED
  BY <1>1, <1>2 DEF Bsl!Maps

LEMMA BslDistinct ==
    ASSUME NEW map \in Bsl!Maps, NEW j \in 1 .. Len(map), NEW k \in 1 .. Len(map), j # k
    PROVE  map[j] # map[k]
<1>1. CASE map = Bsl!Coarse
  <2>1. Len(map) = 3 /\ map[1] = "tune" /\ map[2] = "program-high" /\ map[3] = "low"
    BY <1>1 DEF Bsl!Coarse
  <2>2. j \in {1, 2, 3} /\ k \in {1, 2, 3}
    BY <2>1
  <2> QED
    BY <2>1, <2>2
<1>2. CASE map = Bsl!Fine
  <2>1. Len(map) = 4 /\ map[1] = "tune" /\ map[2] = "program-high" /\ map[3] = "program-low"
        /\ map[4] = "boot"
    BY <1>2 DEF Bsl!Fine
  <2>2. j \in {1, 2, 3, 4} /\ k \in {1, 2, 3, 4}
    BY <2>1
  <2> QED
    BY <2>1, <2>2
<1> QED
  BY <1>1, <1>2 DEF Bsl!Maps

BslTypes == {"none", "running", "not_started", "complete", "abandoned"}

LEMMA BslTyped ==
    ASSUME Bsl!TypeOK
    PROVE  /\ ecu.map \in Bsl!Maps /\ ecu.flash \in [Bsl!Range(ecu.map) -> Bsl!Contents]
           /\ s \in Bsl!Plans /\ s.fw \in Firmwares /\ s.i \in 1 .. 4 /\ s.i \in Nat
           /\ s.force \in BOOLEAN /\ s.sane \in BOOLEAN
           /\ pc \in Bsl!Pcs /\ outcome \in BslTypes /\ touched \in BOOLEAN
<1>1. PICK m \in Bsl!Maps : ecu \in [map : {m}, flash : [Bsl!Range(m) -> Bsl!Contents]]
  BY DEF Bsl!TypeOK, Bsl!Computers
<1>2. ecu.map = m /\ ecu.flash \in [Bsl!Range(m) -> Bsl!Contents]
  BY <1>1
<1>3. s \in Bsl!Plans /\ s.fw \in Firmwares /\ s.i \in 1 .. 4 /\ s.force \in BOOLEAN
      /\ s.sane \in BOOLEAN
  BY BslMaps DEF Bsl!TypeOK, Bsl!Plans
<1> QED
  BY <1>2, <1>3 DEF Bsl!TypeOK, BslTypes

LEMMA BslEdits ==
    ASSUME NEW w \in Bsl!Plans
    PROVE  /\ \A region \in Bsl!Regions \cup {"all"}, fw \in Firmwares, force \in BOOLEAN :
                 [w EXCEPT !.region = region, !.fw = fw, !.force = force] \in Bsl!Plans
           /\ \A sane \in BOOLEAN : [w EXCEPT !.sane = sane] \in Bsl!Plans
           /\ \A i \in 1 .. 4 : [w EXCEPT !.i = i] \in Bsl!Plans
<1>1. Len(Bsl!Fine) = 4
  BY BslMaps
<1> QED
  BY <1>1 DEF Bsl!Plans

\* The region at hand.
LEMMA BslHere ==
    ASSUME Bsl!TypeOK, BslInv
    PROVE  /\ Bsl!Region \in Bsl!Range(ecu.map) /\ s.i >= 1
           /\ s.region = "all" => /\ Len(Bsl!Order(s.region)) = Len(ecu.map)
                                  /\ Bsl!Region = ecu.map[s.i] /\ s.i \in 1 .. Len(ecu.map)
           /\ s.region # "all" => /\ Len(Bsl!Order(s.region)) = 1 /\ s.i = 1
                                  /\ Bsl!Region = s.region
<1>1. CASE s.region = "all"
  <2>1. Bsl!Order(s.region) = ecu.map
    BY <1>1 DEF Bsl!Order
  <2>2. s.i \in 1 .. Len(ecu.map)
    BY <2>1, BslTyped, BslMap DEF BslInv
  <2> QED
    BY <1>1, <2>1, <2>2, BslTyped, BslMap DEF Bsl!Region
<1>2. CASE s.region # "all"
  <2>1. Bsl!Order(s.region) = << s.region >>
    BY <1>2 DEF Bsl!Order
  <2>2. Len(Bsl!Order(s.region)) = 1 /\ Bsl!Order(s.region)[1] = s.region
    BY <2>1
  <2>3. s.i = 1
    BY <2>2, BslTyped DEF BslInv
  <2> QED
    BY <1>2, <2>2, <2>3 DEF Bsl!Region, BslInv
<1> QED
  BY <1>1, <1>2

\* What is written to the region at hand.
LEMMA BslPut ==
    ASSUME Bsl!TypeOK, BslInv, NEW left \in Bsl!Contents,
           ecu' = [ecu EXCEPT !.flash[Bsl!Region] = left]
    PROVE  /\ ecu' \in Bsl!Computers /\ ecu'.map = ecu.map
           /\ ecu'.flash[Bsl!Region] = left
           /\ \A r \in Bsl!Range(ecu.map) \ {Bsl!Region} : ecu'.flash[r] = ecu.flash[r]
<1> DEFINE flash == [ecu.flash EXCEPT ![Bsl!Region] = left]
<1>1. flash \in [Bsl!Range(ecu.map) -> Bsl!Contents] /\ flash[Bsl!Region] = left
      /\ \A r \in Bsl!Range(ecu.map) \ {Bsl!Region} : flash[r] = ecu.flash[r]
  BY BslTyped, BslHere
<1>2. PICK m \in Bsl!Maps : ecu \in [map : {m}, flash : [Bsl!Range(m) -> Bsl!Contents]]
  BY DEF Bsl!TypeOK, Bsl!Computers
<1>3. ecu' = [ecu EXCEPT !.flash = flash]
  BY <1>2
<1> HIDE DEF flash
<1>4. ecu' \in [map : {m}, flash : [Bsl!Range(m) -> Bsl!Contents]] /\ ecu'.flash = flash
      /\ ecu'.map = ecu.map
  BY <1>1, <1>2, <1>3
<1> QED
  BY <1>1, <1>4 DEF Bsl!Computers

LEMMA BslContents ==
    /\ Bsl!Blank \in Bsl!Contents /\ Bsl!Spoilt \in Bsl!Contents
    /\ \A fw \in Firmwares : Bsl!Of(fw) \in Bsl!Contents /\ Bsl!Part(fw) \in Bsl!Contents
  BY DEF Bsl!Blank, Bsl!Spoilt, Bsl!Of, Bsl!Part, Bsl!Contents

\* The flash was of one firmware, and the write is let through unforced: what it leaves
\* as it is is of the firmware that it writes.
LEMMA BslGuards ==
    ASSUME Bsl!TypeOK, BslInv, pc = "guard", s.sane, ~s.force, s.region # "all",
           NEW program \in Bsl!LivePrograms, NEW cal \in Bsl!Reads("tune"),
           NEW idRead \in Bsl!Reads(Bsl!IdRegion(ecu.map)), Bsl!Admitted(program, cal, idRead)
    PROVE  \A r \in Bsl!Range(ecu.map) \ {s.region} : ecu.flash[r] = Bsl!Of(s.fw)
<1>1. PICK fw \in Firmwares : \A r \in Bsl!Range(ecu.map) : ecu.flash[r] = Bsl!Of(fw)
  BY DEF BslInv, Bsl!OneFirmware
<1>2. ASSUME NEW r \in Bsl!Range(ecu.map) PROVE Bsl!Reads(r) = {fw}
  BY <1>1 DEF Bsl!Reads, Bsl!Of
<1>3. {"tune", "program-high", Bsl!IdRegion(ecu.map)} \subseteq Bsl!Range(ecu.map)
  BY BslTyped, BslMap
<1>4. cal = fw /\ idRead = fw
  BY <1>2, <1>3
<1>5. program = fw
  BY <1>2, <1>3 DEF Bsl!LivePrograms, Bsl!ById
<1>6. Bsl!SameProgram(fw) /\ Bsl!Compatible(fw, fw, fw)
  BY <1>4, <1>5 DEF Bsl!Admitted
<1>7. Bsl!Written = {s.region} /\ s.region \in Bsl!Regions
  <2>1. Bsl!Written = Bsl!Range(<< s.region >>)
    BY DEF Bsl!Written, Bsl!Order
  <2>2. Bsl!Range(<< s.region >>) = {s.region}
    BY DEF Bsl!Range
  <2> QED
    BY <2>1, <2>2, BslTyped, BslMap DEF BslInv
<1>8. s.region = "tune" => s.fw = fw
  BY <1>6, <1>7 DEF Bsl!Compatible
<1>9. s.region = "program-high" => s.fw = fw
  BY <1>6, <1>7 DEF Bsl!Compatible
<1>10. s.region \notin {"tune", "program-high"} => s.fw = fw
  BY <1>6, <1>7 DEF Bsl!SameProgram, Bsl!Program
<1> QED
  BY <1>1, <1>8, <1>9, <1>10

LEMMA BslStarts == ASSUME Bsl!Init PROVE Bsl!TypeOK /\ BslInv
<1>1. PICK fw \in Firmwares, map \in Bsl!Maps :
         ecu = [map |-> map, flash |-> [r \in Bsl!Range(map) |-> Bsl!Of(fw)]]
  BY DEF Bsl!Init
<1>2. ecu \in Bsl!Computers /\ ecu.map = map
  <2>1. [r \in Bsl!Range(map) |-> Bsl!Of(fw)] \in [Bsl!Range(map) -> Bsl!Contents]
    BY BslContents
  <2>2. ecu \in [map : {map}, flash : [Bsl!Range(map) -> Bsl!Contents]]
    BY <1>1, <2>1
  <2> QED
    BY <1>1, <2>2 DEF Bsl!Computers
<1>3. (CHOOSE fw1 \in Firmwares : TRUE) \in Firmwares
  BY FirmwaresKnown
<1>4. s \in Bsl!Plans /\ s.region = "all" /\ s.i = 1
  <2>1. 1 \in 1 .. Len(Bsl!Fine)
    BY BslMaps
  <2> QED
    BY <1>3, <2>1 DEF Bsl!Init, Bsl!Plans
<1>5. Len(Bsl!Order("all")) = Len(map) /\ Len(map) >= 1
  BY <1>2, BslMap DEF Bsl!Order
<1>6. pc = "idle" /\ outcome = "none" /\ touched = FALSE
  BY DEF Bsl!Init
<1>7. Bsl!TypeOK
  BY <1>2, <1>4, <1>6 DEF Bsl!TypeOK, Bsl!Pcs
<1>8. BslInv
  <2>1. \A j \in 1 .. Len(map) : ~(j < 1)
    BY <1>5
  <2> QED
    BY <1>2, <1>4, <1>5, <1>6, <2>1 DEF BslInv
<1> QED
  BY <1>7, <1>8

BslStepped == (Bsl!TypeOK)' /\ BslInv' /\ Bsl!BootLast /\ Bsl!KeepsOneFirmware

\* The boot region comes when the others are written.
LEMMA BslBootLast == ASSUME Bsl!TypeOK, BslInv PROVE Bsl!BootLast
<1> SUFFICES ASSUME s.region = "all", s.i = Len(ecu.map),
                    NEW r \in Bsl!Range(ecu.map) \ {Bsl!Region}
             PROVE  ecu.flash[r] = Bsl!Of(s.fw)
  BY DEF Bsl!BootLast
<1>1. PICK j \in 1 .. Len(ecu.map) : r = ecu.map[j]
  BY BslTyped, BslMap
<1>2. j # s.i
  BY <1>1, BslHere
<1>3. j < s.i
  BY <1>1, <1>2, BslTyped
<1> QED
  BY <1>1, <1>3 DEF BslInv

\* A step back to idle, and a step that leaves the flash alone.
LEMMA BslReports ==
    ASSUME Bsl!TypeOK, BslInv, NEW what \in BslTypes \ {"complete"}, Bsl!Report(what),
           UNCHANGED <<ecu, touched>>
    PROVE  BslStepped
<1>1. s' = [s EXCEPT !.i = 1] /\ pc' = "idle" /\ outcome' = what
  BY DEF Bsl!Report
<1>2. 1 \in 1 .. 4
  OBVIOUS
<1>3. s' \in Bsl!Plans
  BY <1>1, <1>2, BslTyped, BslEdits
<1>4. s'.i = 1 /\ s'.region = s.region /\ s'.fw = s.fw
  BY <1>1, BslTyped DEF Bsl!Plans
<1>5. \A j \in 1 .. Len(ecu.map) : ~(j < 1)
  BY BslTyped, BslMap
<1>6. 1 <= Len(Bsl!Order(s.region))
  BY BslTyped DEF BslInv
<1>7. BslInv'
  <2>1. Bsl!Order(s.region)' = Bsl!Order(s.region)
    BY <1>4 DEF Bsl!Order
  <2> QED
    BY <1>1, <1>4, <1>5, <1>6, <2>1 DEF BslInv
<1>8. (Bsl!TypeOK)'
  BY <1>1, <1>3 DEF Bsl!TypeOK, Bsl!Pcs, BslTypes
<1>9. Bsl!KeepsOneFirmware
  BY <1>1 DEF Bsl!KeepsOneFirmware
<1> QED
  BY <1>7, <1>8, <1>9, BslBootLast DEF BslStepped

\* A step within a write keeps what was written before the region at hand.
LEMMA BslStays ==
    ASSUME Bsl!TypeOK, BslInv, s' = s, ecu' \in Bsl!Computers, ecu'.map = ecu.map,
           \A r \in Bsl!Range(ecu.map) \ {Bsl!Region} : ecu'.flash[r] = ecu.flash[r],
           \A r \in Bsl!Range(ecu.map) :
              pc \in {"idle", "start", "guard"} => ecu'.flash[r] = ecu.flash[r],
           pc' \in {"prepare", "erase", "program", "verify", "failed"}, outcome' = outcome,
           touched' \in BOOLEAN,
           pc' # "failed" => pc \in {"prepare", "erase", "program", "verify"}
    PROVE  BslStepped
<1>1. (Bsl!TypeOK)'
  BY BslTyped DEF Bsl!TypeOK, Bsl!Pcs, BslTypes
<1>2. Bsl!KeepsOneFirmware
  BY DEF Bsl!KeepsOneFirmware
<1>3. Bsl!Order(s.region)' = Bsl!Order(s.region)
  BY DEF Bsl!Order
<1>4. ASSUME s.region = "all", NEW j \in 1 .. Len(ecu.map), j < s.i
      PROVE  ecu'.flash[ecu.map[j]] = Bsl!Of(s.fw)
  <2>1. ecu.map[j] \in Bsl!Range(ecu.map) /\ ecu.flash[ecu.map[j]] = Bsl!Of(s.fw)
    BY <1>4, BslTyped, BslMap DEF BslInv
  <2>2. ecu.map[j] # Bsl!Region
    <3>1. s.i \in 1 .. Len(ecu.map) /\ Bsl!Region = ecu.map[s.i] /\ j # s.i
      BY <1>4, BslHere
    <3> QED
      BY <3>1, BslTyped, BslDistinct
  <2> QED
    BY <2>1, <2>2
<1>5. ASSUME pc' # "failed", s.sane, ~s.force, s.region # "all",
             NEW r \in Bsl!Range(ecu.map) \ {s.region}
      PROVE  ecu'.flash[r] = Bsl!Of(s.fw)
  <2>1. ecu.flash[r] = Bsl!Of(s.fw)
    BY <1>5 DEF BslInv
  <2>2. r # Bsl!Region
    BY <1>5, BslHere
  <2> QED
    BY <2>1, <2>2, <1>5
<1>6. BslInv'
  BY <1>3, <1>4, <1>5 DEF BslInv
<1> QED
  BY <1>1, <1>2, <1>6, BslBootLast DEF BslStepped

\* A step that comes to the confirmation of a plan.
LEMMA BslPrepares ==
    ASSUME Bsl!TypeOK, BslInv, ecu' = ecu, s' \in Bsl!Plans, s'.i = 1,
           s'.region \in Bsl!Range(ecu.map) \cup {"all"}, pc' \in {"start", "guard"},
           pc' = "guard" /\ s'.sane => Bsl!OneFirmware(ecu),
           outcome' = "running", touched' \in BOOLEAN
    PROVE  BslStepped
<1>1. (Bsl!TypeOK)'
  BY DEF Bsl!TypeOK, Bsl!Pcs
<1>2. Bsl!KeepsOneFirmware
  BY DEF Bsl!KeepsOneFirmware
<1>3. 1 <= Len(Bsl!Order(s.region)')
  <2>1. CASE s'.region = "all"
    <3>1. Bsl!Order(s.region)' = ecu.map
      BY <2>1 DEF Bsl!Order
    <3> QED
      BY <3>1, BslTyped, BslMap
  <2>2. CASE s'.region # "all"
    <3>1. Bsl!Order(s.region)' = << s'.region >>
      BY <2>2 DEF Bsl!Order
    <3> QED
      BY <3>1
  <2> QED
    BY <2>1, <2>2
<1>4. \A j \in 1 .. Len(ecu.map) : ~(j < 1)
  BY BslTyped, BslMap
<1>5. (Bsl!OneFirmware(ecu))' <=> Bsl!OneFirmware(ecu)
  BY DEF Bsl!OneFirmware
<1>6. BslInv'
  BY <1>3, <1>4, <1>5 DEF BslInv
<1> QED
  BY <1>1, <1>2, <1>6, BslBootLast DEF BslStepped

LEMMA BslSteps ==
    ASSUME Bsl!TypeOK, BslInv, Bsl!Next PROVE BslStepped
<1>1. CASE Bsl!Preview
  <2>1. PICK region \in Bsl!Range(ecu.map) \cup {"all"}, fw \in Firmwares, force \in BOOLEAN :
           s' = [s EXCEPT !.region = region, !.fw = fw, !.force = force]
    BY <1>1 DEF Bsl!Preview
  <2>2. region \in Bsl!Regions \cup {"all"}
    BY <2>1, BslTyped, BslMap
  <2>3. s' \in Bsl!Plans
    BY <2>1, <2>2, BslTyped, BslEdits
  <2>4. s'.i = 1 /\ s'.region = region
    BY <1>1, <2>1, BslTyped DEF Bsl!Plans, BslInv, Bsl!Preview
  <2> QED
    BY <1>1, <2>3, <2>4, BslPrepares DEF Bsl!Preview
<1>2. CASE Bsl!Rearm
  <2>1. s' = s /\ s.i = 1 /\ s.region \in Bsl!Range(ecu.map) \cup {"all"}
    BY <1>2 DEF Bsl!Rearm, Bsl!Goto, BslInv
  <2> QED
    BY <1>2, <2>1, BslTyped, BslPrepares DEF Bsl!Rearm, Bsl!Goto
<1>3. CASE Bsl!StartMonitor
  <2>1. CASE /\ s' = [s EXCEPT !.sane = Bsl!OneFirmware(ecu)] /\ pc' = "guard"
             /\ UNCHANGED <<ecu, outcome, touched>>
    <3> DEFINE sane == Bsl!OneFirmware(ecu)
    <3>1. sane \in BOOLEAN
      BY DEF Bsl!OneFirmware
    <3>2. s' = [s EXCEPT !.sane = sane]
      BY <2>1
    <3>3. sane => Bsl!OneFirmware(ecu)
      OBVIOUS
    <3> HIDE DEF sane
    <3>4. s' \in Bsl!Plans
      BY <3>1, <3>2, BslTyped, BslEdits
    <3>5. s'.i = s.i /\ s'.region = s.region /\ s'.sane = sane
      BY <3>2, BslTyped DEF Bsl!Plans
    <3>6. s'.i = 1 /\ s'.region \in Bsl!Range(ecu.map) \cup {"all"}
      BY <1>3, <3>5 DEF BslInv, Bsl!StartMonitor
    <3>7. (Bsl!TypeOK)' /\ BslInv'
      <4>1. (Bsl!TypeOK)'
        BY <2>1, <3>4, BslTyped DEF Bsl!TypeOK, Bsl!Pcs, BslTypes
      <4>2. Bsl!Order(s.region)' = Bsl!Order(s.region)
        BY <2>1, <3>5 DEF Bsl!Order
      <4>3. (Bsl!OneFirmware(ecu))' <=> Bsl!OneFirmware(ecu)
        BY <2>1 DEF Bsl!OneFirmware
      <4>4. \A j \in 1 .. Len(ecu.map) : ~(j < 1)
        BY BslTyped, BslMap
      <4>5. BslInv'
        BY <2>1, <3>3, <3>5, <3>6, <4>2, <4>3, <4>4 DEF BslInv
      <4> QED
        BY <4>1, <4>5
    <3>8. Bsl!KeepsOneFirmware
      BY <2>1 DEF Bsl!KeepsOneFirmware
    <3> QED
      BY <3>7, <3>8, BslBootLast DEF BslStepped
  <2>2. CASE Bsl!Refuse
    <3>1. "not_started" \in BslTypes \ {"complete"}
      BY DEF BslTypes
    <3> QED
      BY <2>2, <3>1, BslReports DEF Bsl!Refuse
  <2> QED
    BY <1>3, <2>1, <2>2 DEF Bsl!StartMonitor
<1>4. CASE Bsl!Guard
  <2>1. CASE Bsl!Refuse
    <3>1. "not_started" \in BslTypes \ {"complete"}
      BY DEF BslTypes
    <3> QED
      BY <2>1, <3>1, BslReports DEF Bsl!Refuse
  <2>2. ASSUME NEW program \in Bsl!LivePrograms, NEW cal \in Bsl!Reads("tune"),
               NEW idRead \in Bsl!Reads(Bsl!IdRegion(ecu.map)),
               Bsl!Admitted(program, cal, idRead),
               s' = s, pc = "guard", pc' = "prepare", UNCHANGED <<ecu, outcome, touched>>
        PROVE  BslStepped
    <3>1. s.sane /\ ~s.force /\ s.region # "all" =>
             \A r \in Bsl!Range(ecu.map) \ {s.region} : ecu.flash[r] = Bsl!Of(s.fw)
      BY <2>2, BslGuards
    <3>2. (Bsl!TypeOK)'
      BY <2>2 DEF Bsl!TypeOK, Bsl!Pcs
    <3>3. Bsl!Order(s.region)' = Bsl!Order(s.region)
      BY <2>2 DEF Bsl!Order
    <3>4. BslInv'
      BY <2>2, <3>1, <3>3 DEF BslInv
    <3>5. Bsl!KeepsOneFirmware
      BY <2>2 DEF Bsl!KeepsOneFirmware
    <3> QED
      BY <3>2, <3>4, <3>5, BslBootLast DEF BslStepped
  <2> QED
    BY <1>4, <2>1, <2>2 DEF Bsl!Guard, Bsl!Goto
<1>5. CASE Bsl!Prepare
  <2>1. pc = "prepare" /\ s' = s /\ pc' \in {"erase", "failed"}
        /\ UNCHANGED <<ecu, outcome, touched>>
    BY <1>5 DEF Bsl!Prepare, Bsl!Stop, Bsl!Goto
  <2>2. ecu \in Bsl!Computers
    BY DEF Bsl!TypeOK
  <2> QED
    BY <2>1, <2>2, BslTyped, BslStays
<1>6. CASE Bsl!Erase
  <2>1. pc = "erase" /\ s' = s /\ pc' \in {"program", "failed"} /\ outcome' = outcome
        /\ touched' = TRUE
    BY <1>6 DEF Bsl!Erase, Bsl!Stop, Bsl!Goto
  <2>2. PICK left \in {ecu.flash[Bsl!Region], Bsl!Blank, Bsl!Spoilt} :
           ecu' = [ecu EXCEPT !.flash[Bsl!Region] = left]
    BY <1>6 DEF Bsl!Erase
  <2>3. left \in Bsl!Contents
    BY <2>2, BslTyped, BslHere, BslContents
  <2> QED
    BY <2>1, <2>2, <2>3, BslPut, BslStays
<1>7. CASE Bsl!ProgramRegion
  <2>1. pc = "program" /\ s' = s /\ pc' \in {"verify", "failed"} /\ outcome' = outcome
        /\ touched' = touched
    BY <1>7 DEF Bsl!ProgramRegion, Bsl!Stop, Bsl!Goto
  <2>2. PICK left \in {Bsl!Blank, Bsl!Part(s.fw), Bsl!Of(s.fw)} :
           ecu' = [ecu EXCEPT !.flash[Bsl!Region] = left]
    BY <1>7 DEF Bsl!ProgramRegion
  <2>3. left \in Bsl!Contents
    BY <2>2, BslTyped, BslContents
  <2> QED
    BY <2>1, <2>2, <2>3, BslTyped, BslPut, BslStays
<1>8. CASE Bsl!Verify
  <2>1. pc = "verify" /\ UNCHANGED <<ecu, touched>>
    BY <1>8 DEF Bsl!Verify
  <2>2. CASE s' = s /\ pc' = "failed" /\ outcome' = outcome
    <3>1. ecu \in Bsl!Computers
      BY DEF Bsl!TypeOK
    <3> QED
      BY <2>1, <2>2, <3>1, BslTyped, BslStays
  <2>3. CASE /\ ecu.flash[Bsl!Region] = Bsl!Of(s.fw) /\ s.i < Len(Bsl!Order(s.region))
             /\ s' = [s EXCEPT !.i = @ + 1] /\ pc' = "prepare" /\ outcome' = outcome
    <3>1. s.region = "all" /\ Len(Bsl!Order(s.region)) = Len(ecu.map) /\ Bsl!Region = ecu.map[s.i]
      <4>1. s.region = "all"
        <5>1. s.region # "all" => Len(Bsl!Order(s.region)) = 1 /\ s.i = 1
          BY BslHere
        <5>2. ~(1 < 1)
          OBVIOUS
        <5> QED
          BY <2>3, <5>1, <5>2, Zenon
      <4> QED
        BY <4>1, BslHere
    <3>2. s.i + 1 \in 1 .. 4 /\ s.i + 1 <= Len(ecu.map) /\ Len(ecu.map) \in 3 .. 4
      <4>1. Len(ecu.map) \in 3 .. 4
        BY BslTyped, BslMap
      <4>2. s.i < Len(ecu.map) /\ s.i \in 1 .. 4
        BY <2>3, <3>1, BslTyped
      <4>3. \A i \in 1 .. 4, n \in 3 .. 4 : i < n => i + 1 \in 1 .. 4 /\ i + 1 <= n
        OBVIOUS
      <4> QED
        BY <4>1, <4>2, <4>3, Zenon
    <3>3. s' = [s EXCEPT !.i = s.i + 1]
      BY <2>3, BslTyped DEF Bsl!Plans
    <3>4. s' \in Bsl!Plans
      BY <3>2, <3>3, BslTyped, BslEdits
    <3>5. s'.i = s.i + 1 /\ s'.region = "all" /\ s'.fw = s.fw
      BY <3>1, <3>3, BslTyped DEF Bsl!Plans
    <3>6. ASSUME NEW j \in 1 .. Len(ecu.map), j < s.i + 1
          PROVE  ecu.flash[ecu.map[j]] = Bsl!Of(s.fw)
      <4>1. CASE j = s.i
        BY <2>3, <3>1, <4>1
      <4>2. CASE j # s.i
        <5>1. j < s.i
          BY <3>6, <4>2, BslTyped, BslMap
        <5> QED
          BY <3>1, <5>1 DEF BslInv
      <4> QED
        BY <4>1, <4>2
    <3>7. Bsl!Order(s.region)' = ecu.map
      BY <2>1, <3>5 DEF Bsl!Order
    <3>8. BslInv'
      BY <2>1, <2>3, <3>2, <3>5, <3>6, <3>7 DEF BslInv
    <3>9. (Bsl!TypeOK)'
      BY <2>1, <2>3, <3>4, BslTyped DEF Bsl!TypeOK, Bsl!Pcs, BslTypes
    <3>10. Bsl!KeepsOneFirmware
      BY <2>3 DEF Bsl!KeepsOneFirmware
    <3> QED
      BY <3>8, <3>9, <3>10, BslBootLast DEF BslStepped
  <2>4. CASE /\ ecu.flash[Bsl!Region] = Bsl!Of(s.fw) /\ ~(s.i < Len(Bsl!Order(s.region)))
             /\ Bsl!Report("complete")
    <3>1. s' = [s EXCEPT !.i = 1] /\ pc' = "idle" /\ outcome' = "complete"
      BY <2>4 DEF Bsl!Report
    <3>2. 1 \in 1 .. 4
      OBVIOUS
    <3>3. s' \in Bsl!Plans
      BY <3>1, <3>2, BslTyped, BslEdits
    <3>4. s'.i = 1 /\ s'.region = s.region /\ s'.fw = s.fw
      BY <3>1, BslTyped DEF Bsl!Plans
    <3>5. Bsl!Order(s.region)' = Bsl!Order(s.region)
      BY <2>1, <3>4 DEF Bsl!Order
    <3>6. \A j \in 1 .. Len(ecu.map) : ~(j < 1)
      BY BslTyped, BslMap
    <3>7. 1 <= Len(Bsl!Order(s.region))
      <4>1. s.region # "all" => Len(Bsl!Order(s.region)) = 1
        BY BslHere
      <4>2. s.region = "all" => Len(Bsl!Order(s.region)) = Len(ecu.map)
        BY BslHere
      <4>3. Len(ecu.map) \in 3 .. 4
        BY BslTyped, BslMap
      <4>4. 1 <= 1 /\ \A n \in 3 .. 4 : 1 <= n
        OBVIOUS
      <4> QED
        BY <4>1, <4>2, <4>3, <4>4, Zenon
    <3>8. BslInv'
      BY <2>1, <3>1, <3>4, <3>5, <3>6, <3>7 DEF BslInv
    <3>9. (Bsl!TypeOK)'
      BY <2>1, <3>1, <3>3 DEF Bsl!TypeOK, Bsl!Pcs
    <3>10. ASSUME s.sane, ~s.force PROVE Bsl!OneFirmware(ecu)
      <4>1. ASSUME NEW r \in Bsl!Range(ecu.map) PROVE ecu.flash[r] = Bsl!Of(s.fw)
        <5>1. CASE r = Bsl!Region
          BY <2>4, <5>1
        <5>2. CASE r # Bsl!Region /\ s.region # "all"
          <6>1. r # s.region
            BY <5>2, BslHere
          <6> QED
            BY <2>1, <3>10, <5>2, <6>1 DEF BslInv
        <5>3. CASE r # Bsl!Region /\ s.region = "all"
          <6>1. s.i = Len(ecu.map)
            BY <2>4, <5>3, BslHere, BslTyped, BslMap
          <6> QED
            BY <5>3, <6>1, BslBootLast DEF Bsl!BootLast
        <5> QED
          BY <5>1, <5>2, <5>3
      <4> QED
        BY <4>1, BslTyped DEF Bsl!OneFirmware
    <3>11. Bsl!KeepsOneFirmware
      BY <2>1, <3>10 DEF Bsl!KeepsOneFirmware, Bsl!OneFirmware
    <3> QED
      BY <3>8, <3>9, <3>11, BslBootLast DEF BslStepped
  <2> QED
    BY <1>8, <2>2, <2>3, <2>4 DEF Bsl!Verify, Bsl!Stop, Bsl!Goto
<1>9. CASE Bsl!Failed
  <2>1. {"abandoned", "not_started"} \subseteq BslTypes \ {"complete"}
    BY DEF BslTypes
  <2> QED
    BY <1>9, <2>1, BslReports DEF Bsl!Failed
<1>10. CASE Bsl!Exit
  <2>1. "abandoned" \in BslTypes \ {"complete"}
    BY DEF BslTypes
  <2> QED
    BY <1>10, <2>1, BslReports DEF Bsl!Exit
<1> QED
  BY <1>1, <1>2, <1>3, <1>4, <1>5, <1>6, <1>7, <1>8, <1>9, <1>10 DEF Bsl!Next, Bsl!WorkerStep

---------------------------------------------------------------------------
(* The storage and the identity of an MS42/MS43.                           *)

\* The bank or record at hand can be programmed; the first bank is verified before
\* the second, and a record before its word.
DataInv ==
    /\ s.kind # "retained" => s.bank = 1
    /\ s.kind = "retained" /\ s.bank = 2 => \A p \in 1 .. RegionChunks : ecu.cells[p] = "new"
    /\ pc = "program" /\ s.kind # "eeprom" =>
          \A p \in Data!Body : ecu.cells[p] \in {"part", "blank", "new"}
    /\ pc \in {"program", "readback", "commit"} /\ s.kind \in Data!Vin =>
          ecu.cells[Data!Commit] \in {"part", "blank", "new"}
    /\ pc = "commit" =>
          s.kind \in Data!Vin /\ \A p \in 1 .. RegionChunks : ecu.cells[p] = "new"
    /\ pc = "idle" => outcome # "running"

LEMMA RegionChunksCount == RegionChunks \in Nat \ {0}
  BY WritersAssumption

LEMMA DataStarts == ASSUME Data!Init PROVE Data!TypeOK /\ DataInv
<1>1. ecu \in Data!Computers
  BY DEF Data!Init, Data!Computers, Data!Cells
<1>2. s \in Data!Transactions /\ s.kind = "eeprom" /\ s.bank = 1
  BY DEF Data!Init, Data!Transactions, Data!NewTransaction, Data!Kinds
<1>3. pc = "idle" /\ outcome = "none" /\ touched = FALSE
  BY DEF Data!Init
<1> QED
  BY <1>1, <1>2, <1>3 DEF Data!TypeOK, Data!Pcs, DataInv, Data!Vin

LEMMA DataPlaces ==
    /\ \A kind \in Data!Kinds : Data!PlacesOf(kind) \subseteq Data!Places
    /\ Data!Commit \in Data!Places /\ 1 .. RegionChunks \subseteq Data!Places
    /\ Data!Commit \notin 1 .. RegionChunks /\ Data!Places \subseteq Nat
  BY RegionChunksCount DEF Data!PlacesOf, Data!Places, Data!Commit

\* What is at hand, by the kind of transaction.
LEMMA DataHere ==
    ASSUME s \in Data!Transactions, s.kind # "retained" => s.bank = 1
    PROVE  /\ Data!Here \subseteq Data!Places /\ Data!Body \subseteq Data!Here
           /\ s.kind = "retained" /\ s.bank = 1 => Data!Here = 1 .. RegionChunks
           /\ s.kind = "retained" /\ s.bank = 2 =>
                 \A p \in Data!Here : p \notin 1 .. RegionChunks
           /\ s.kind = "retained" => Data!Commit \notin Data!Here
           /\ s.kind \in Data!Vin =>
                 /\ Data!Commit \in Data!Here /\ Data!Body = 1 .. RegionChunks
                 /\ Data!PlacesOf(s.kind) \ {Data!Commit} = 1 .. RegionChunks
           /\ s.kind \notin Data!Vin => Data!Commit \notin Data!Here
           /\ Data!Commit \notin Data!Body
<1>1. s.bank \in {1, 2} /\ s.kind \in Data!Kinds
  BY DEF Data!Transactions
<1>2. Data!Here \subseteq Data!Places /\ Data!Body \subseteq Data!Here
  BY <1>1, DataPlaces DEF Data!Here, Data!Body
<1>3. CASE s.kind = "retained"
  <2>1. Data!Here = {p \in 1 .. 2 * RegionChunks : Data!Bank(p) = s.bank}
    BY <1>3 DEF Data!Here, Data!PlacesOf, Data!Vin
  <2> QED
    BY <1>1, <1>2, <1>3, <2>1, RegionChunksCount DEF Data!Bank, Data!Commit, Data!Vin, Data!Body
<1>4. CASE s.kind \in Data!Vin
  <2>1. s.kind # "retained" /\ s.bank = 1 /\ Data!PlacesOf(s.kind) = 0 .. RegionChunks
    BY <1>4 DEF Data!Vin, Data!PlacesOf, Data!Commit
  <2>2. Data!Here = 0 .. RegionChunks
    BY <2>1, RegionChunksCount DEF Data!Here, Data!Bank
  <2> QED
    BY <1>4, <2>1, <2>2, <1>2, RegionChunksCount DEF Data!Commit, Data!Body
<1>5. CASE s.kind # "retained" /\ s.kind \notin Data!Vin
  <2>1. s.bank = 1 /\ Data!PlacesOf(s.kind) = 1 .. RegionChunks
    BY <1>5 DEF Data!PlacesOf
  <2> QED
    BY <1>2, <1>5, <2>1 DEF Data!Here, Data!Commit, Data!Body
<1> QED
  BY <1>3, <1>4, <1>5

LEMMA DataWith ==
    ASSUME ecu \in Data!Computers, NEW places, NEW value \in Data!Cells
    PROVE  /\ Data!With(places, value) \in Data!Computers
           /\ \A p \in Data!Places : Data!With(places, value).cells[p] =
                 IF p \in places THEN value ELSE ecu.cells[p]
<1> DEFINE f == [p \in Data!Places |-> IF p \in places THEN value ELSE ecu.cells[p]]
<1>1. f \in [Data!Places -> Data!Cells]
  BY DEF Data!Computers
<1>2. Data!With(places, value) = [ecu EXCEPT !.cells = f]
  BY DEF Data!With
<1>3. \A p \in Data!Places : f[p] = IF p \in places THEN value ELSE ecu.cells[p]
  OBVIOUS
<1> HIDE DEF f
<1> QED
  BY <1>1, <1>2, <1>3 DEF Data!Computers

LEMMA DataFirst == ASSUME NEW S, S \subseteq Nat, S # {} PROVE Data!Min(S) \in S
<1>1. PICK x \in S : \A y \in S : ~(<<y, x>> \in OpToRel(<, Nat))
  BY NatLessThanWellFounded, WFMin
<1>2. ASSUME NEW y \in S PROVE x <= y
  <2>1. <<y, x>> \in Nat \X Nat /\ ~(y < x)
    BY <1>1 DEF OpToRel
  <2> QED
    BY <2>1
<1> QED
  BY <1>2 DEF Data!Min

LEMMA DataProgrammed ==
    ASSUME Data!TypeOK, DataInv, Data!Program
    PROVE  /\ ecu' \in Data!Computers
           /\ \A p \in Data!Places : p \notin Data!Body => ecu'.cells[p] = ecu.cells[p]
           /\ \A p \in Data!Body : ecu'.cells[p] \in {ecu.cells[p], "new", "part"}
<1>1. ecu \in Data!Computers /\ Data!Body \subseteq Data!Places
  BY DataHere DEF Data!TypeOK, DataInv
<1>2. CASE ecu' = ecu
  BY <1>1, <1>2
<1>3. CASE \E p \in Data!Body, value \in {"new", "part"} : ecu' = Data!With({p}, value)
  <2>1. PICK p \in Data!Body, value \in {"new", "part"} : ecu' = Data!With({p}, value)
    BY <1>3
  <2>2. value \in Data!Cells
    BY DEF Data!Cells
  <2>3. /\ ecu' \in Data!Computers
        /\ \A q \in Data!Places : ecu'.cells[q] = IF q \in {p} THEN value ELSE ecu.cells[q]
    BY <1>1, <2>1, <2>2, DataWith
  <2> QED
    BY <1>1, <2>3
<1>4. CASE Data!Missing # {} /\ ecu' # ecu
  <2>1. Data!Min(Data!Missing) \in Data!Body
    BY <1>1, <1>4, DataFirst, DataPlaces DEF Data!Missing
  <2> QED
    BY <1>3, <1>4, <2>1 DEF Data!Program
<1> QED
  BY <1>2, <1>4 DEF Data!Program

LEMMA DataSteps ==
    ASSUME Data!TypeOK, DataInv, Data!Next PROVE (Data!TypeOK)' /\ DataInv' /\ Data!InOrder
<1>1. CASE Data!Start
  <2>1. ecu' \in Data!Computers
    <3>1. PICK cells \in [Data!Places -> Data!Cells] : ecu' = [ecu EXCEPT !.cells = cells]
      BY <1>1 DEF Data!Start
    <3>2. ecu \in Data!Computers
      BY DEF Data!TypeOK
    <3> QED
      BY <3>1, <3>2 DEF Data!Computers
  <2>2. s' \in Data!Transactions
    BY <1>1
       DEF Data!Start, Data!NewTransaction, Data!TypeOK, Data!Goto, Data!Raise, Data!Same,
           Data!Transactions
  <2>3. pc' \in Data!Pcs
    BY <1>1 DEF Data!Start, Data!TypeOK, Data!Goto, Data!Raise, Data!Same, Data!Pcs
  <2>4. /\ outcome' \in {"none", "running", "not_started", "complete", "abandoned"}
        /\ touched' \in BOOLEAN
    BY <1>1 DEF Data!Start, Data!TypeOK, Data!Goto, Data!Raise, Data!Same
  <2>5. DataInv'
    BY <1>1
       DEF Data!Start, Data!NewTransaction, Data!Kinds, Data!TypeOK, Data!Goto, Data!Raise,
           Data!Same, DataInv, Data!Transactions
  <2>6. Data!InOrder
    BY <1>1 DEF Data!Start, DataInv, Data!InOrder
  <2> QED BY <2>1, <2>2, <2>3, <2>4, <2>5, <2>6 DEF Data!TypeOK
<1>2. CASE Data!Enter
  <2>1. ecu' \in Data!Computers
    BY <1>2 DEF Data!Enter, Data!TypeOK, Data!Goto, Data!Raise, Data!Same, Data!Computers
  <2>2. s' \in Data!Transactions
    BY <1>2 DEF Data!Enter, Data!TypeOK, Data!Goto, Data!Raise, Data!Same, Data!Transactions
  <2>3. pc' \in Data!Pcs
    BY <1>2 DEF Data!Enter, Data!TypeOK, Data!Goto, Data!Raise, Data!Same, Data!Pcs
  <2>4. /\ outcome' \in {"none", "running", "not_started", "complete", "abandoned"}
        /\ touched' \in BOOLEAN
    BY <1>2 DEF Data!Enter, Data!TypeOK, Data!Goto, Data!Raise, Data!Same
  <2>5. DataInv'
    <3>1. ecu'.cells = ecu.cells
      BY <1>2 DEF Data!Enter, Data!TypeOK, Data!Goto, Data!Computers
    <3>2. /\ s'.kind = s.kind /\ s'.bank = s.bank
          /\ pc' \in {"backup", "raise"} /\ pc = "enter"
      BY <1>2 DEF Data!Enter, Data!TypeOK, Data!Goto, Data!Transactions
    <3> QED
      BY <3>1, <3>2 DEF DataInv
  <2>6. Data!InOrder
    <3>1. \A p \in Data!Places : ecu'.cells[p] = ecu.cells[p]
      BY <1>2 DEF Data!Enter, Data!Goto, Data!Raise, Data!Same, Data!TypeOK, Data!Computers
    <3>2. Data!Commit \in Data!Places
      BY DataPlaces
    <3> QED
      BY <3>1, <3>2 DEF Data!InOrder
  <2> QED BY <2>1, <2>2, <2>3, <2>4, <2>5, <2>6 DEF Data!TypeOK
<1>3. CASE Data!Backup
  <2>1. ecu' \in Data!Computers
    BY <1>3 DEF Data!Backup, Data!TypeOK, Data!Goto, Data!Raise, Data!Same, Data!Computers
  <2>2. s' \in Data!Transactions
    BY <1>3 DEF Data!Backup, Data!TypeOK, Data!Goto, Data!Raise, Data!Same, Data!Transactions
  <2>3. pc' \in Data!Pcs
    BY <1>3 DEF Data!Backup, Data!TypeOK, Data!Goto, Data!Raise, Data!Same, Data!Pcs
  <2>4. /\ outcome' \in {"none", "running", "not_started", "complete", "abandoned"}
        /\ touched' \in BOOLEAN
    BY <1>3 DEF Data!Backup, Data!TypeOK, Data!Goto, Data!Raise, Data!Same
  <2>5. DataInv'
    BY <1>3
       DEF Data!Backup, Data!TypeOK, Data!Goto, Data!Raise, Data!Same, DataInv,
           Data!Transactions
  <2>6. Data!InOrder
    <3>1. \A p \in Data!Places : ecu'.cells[p] = ecu.cells[p]
      BY <1>3 DEF Data!Backup, Data!Goto, Data!Raise, Data!Same, Data!TypeOK, Data!Computers
    <3>2. Data!Commit \in Data!Places
      BY DataPlaces
    <3> QED
      BY <3>1, <3>2 DEF Data!InOrder
  <2> QED BY <2>1, <2>2, <2>3, <2>4, <2>5, <2>6 DEF Data!TypeOK
<1>4. CASE Data!NextBank
  <2>1. ecu' \in Data!Computers
    BY <1>4 DEF Data!NextBank, Data!TypeOK, Data!Goto, Data!Raise, Data!Same, Data!Computers
  <2>2. s' \in Data!Transactions
    <3>1. s' = s \/ s' = [s EXCEPT !.bank = 2] \/ s' = [s EXCEPT !.erase_verified = TRUE]
      BY <1>4 DEF Data!NextBank, Data!Goto
    <3>2. s \in Data!Transactions /\ 2 \in 1 .. 2
      BY DEF Data!TypeOK
    <3>3. [s EXCEPT !.bank = 2] \in Data!Transactions
      BY <3>2 DEF Data!Transactions
    <3>4. [s EXCEPT !.erase_verified = TRUE] \in Data!Transactions
      BY <3>2 DEF Data!Transactions
    <3> QED
      BY <3>1, <3>2, <3>3, <3>4
  <2>3. pc' \in Data!Pcs
    BY <1>4 DEF Data!NextBank, Data!TypeOK, Data!Goto, Data!Raise, Data!Same, Data!Pcs
  <2>4. /\ outcome' \in {"none", "running", "not_started", "complete", "abandoned"}
        /\ touched' \in BOOLEAN
    BY <1>4 DEF Data!NextBank, Data!TypeOK, Data!Goto, Data!Raise, Data!Same
  <2>5. DataInv'
    <3>0. s \in Data!Transactions /\ (s.kind # "retained" => s.bank = 1)
      BY DEF Data!TypeOK, DataInv
    <3>1. pc' = "program" /\ s.kind # "eeprom" => Data!Is(Data!Here, {"part", "blank", "new"})
      <4>1. CASE s.kind \in {"retained"} \cup Data!Sector
        BY <1>4, <4>1 DEF Data!NextBank, Data!NeedsErase, Data!Goto, Data!Is, Data!Sector
      <4>2. CASE s.kind = "append"
        BY <1>4, <4>2 DEF Data!NextBank, Data!NeedsErase, Data!Goto, Data!Sector
      <4> QED
        BY <3>0, <4>1, <4>2 DEF Data!Transactions, Data!Kinds, Data!Sector
    <3>2. /\ ecu' = ecu /\ pc' \in {"bank", "verify", "program", "erase", "raise"}
          /\ s'.kind = s.kind
          /\ s'.bank = s.bank \/ (/\ s.kind = "retained" /\ s.bank = 1 /\ s'.bank = 2
                                  /\ Data!Is(Data!Here, {"new"}))
          /\ pc' = "program" => s'.bank = s.bank
      BY <1>4, <3>0 DEF Data!NextBank, Data!Goto, Data!Transactions
    <3>3. pc' = "program" => Data!Body' = Data!Body
      BY <3>2 DEF Data!Body, Data!Here
    <3>4. s.kind = "retained" /\ s'.bank = 2 => \A p \in 1 .. RegionChunks : ecu.cells[p] = "new"
      <4>1. CASE s'.bank = s.bank
        BY <4>1 DEF DataInv
      <4>2. CASE s.kind = "retained" /\ s.bank = 1 /\ Data!Is(Data!Here, {"new"})
        BY <3>0, <4>2, DataHere DEF Data!Is
      <4> QED
        BY <3>2, <4>1, <4>2
    <3>5. pc' = "program" /\ s.kind # "eeprom" =>
             \A p \in Data!Here : ecu.cells[p] \in {"part", "blank", "new"}
      BY <3>1 DEF Data!Is
    <3>6. s.kind \in Data!Vin => Data!Commit \in Data!Here /\ s.kind # "eeprom"
      BY <3>0, DataHere DEF Data!Vin
    <3>7. Data!Body \subseteq Data!Here
      BY <3>0, DataHere
    <3> QED
      BY <3>0, <3>2, <3>3, <3>4, <3>5, <3>6, <3>7 DEF DataInv
  <2>6. Data!InOrder
    <3>1. \A p \in Data!Places : ecu'.cells[p] = ecu.cells[p]
      BY <1>4 DEF Data!NextBank, Data!Goto, Data!Raise, Data!Same, Data!TypeOK, Data!Computers
    <3>2. Data!Commit \in Data!Places
      BY DataPlaces
    <3> QED
      BY <3>1, <3>2 DEF Data!InOrder
  <2> QED BY <2>1, <2>2, <2>3, <2>4, <2>5, <2>6 DEF Data!TypeOK
<1>5. CASE Data!Erase
  <2>1. ecu' \in Data!Computers
    <3>1. \E value \in {"blank", "old"} : ecu' = ecu \/ ecu' = Data!With(Data!Here, value)
      BY <1>5 DEF Data!Erase
    <3> QED
      BY <3>1, DataWith DEF Data!TypeOK, Data!Cells
  <2>2. s' \in Data!Transactions
    <3> DEFINE b == s.kind \in Data!Sector
    <3>1. b \in BOOLEAN
      OBVIOUS
    <3>2. \/ s' = [s EXCEPT !.destructive = TRUE, !.erase_verified = b]
          \/ s' = [s EXCEPT !.destructive = TRUE]
      BY <1>5 DEF Data!Erase
    <3> HIDE DEF b
    <3> QED
      BY <3>1, <3>2 DEF Data!TypeOK, Data!Transactions
  <2>3. pc' \in Data!Pcs
    BY <1>5 DEF Data!Erase, Data!TypeOK, Data!Goto, Data!Raise, Data!Same, Data!Pcs
  <2>4. /\ outcome' \in {"none", "running", "not_started", "complete", "abandoned"}
        /\ touched' \in BOOLEAN
    BY <1>5 DEF Data!Erase, Data!TypeOK, Data!Goto, Data!Raise, Data!Same
  <2>5. DataInv'
    <3>0. s \in Data!Transactions /\ (s.kind # "retained" => s.bank = 1)
      BY DEF Data!TypeOK, DataInv
    <3>1. \E value \in {"blank", "old"} : ecu' = ecu \/ ecu' = Data!With(Data!Here, value)
      BY <1>5 DEF Data!Erase
    <3>2. s'.kind = s.kind /\ s'.bank = s.bank
      BY <1>5 DEF Data!Erase, Data!Goto, Data!TypeOK, Data!Transactions
    <3>3. Data!Body' = Data!Body
      BY <3>2 DEF Data!Body, Data!Here
    <3>4. pc' \in {"program", "raise"}
      BY <1>5 DEF Data!Erase
    <3>5. s.kind = "retained" /\ s.bank = 2 => \A p \in 1 .. RegionChunks : ecu'.cells[p] = "new"
      BY <3>0, <3>1, DataHere, DataPlaces, DataWith DEF Data!TypeOK, DataInv, Data!Cells
    <3>6. pc' = "program" => \A p \in Data!Here : ecu'.cells[p] = "blank"
      <4>1. pc' = "program" => ecu' = Data!With(Data!Here, "blank")
        BY <1>5 DEF Data!Erase
      <4> QED
        BY <3>0, <4>1, DataHere, DataWith DEF Data!TypeOK, Data!Cells
    <3> QED
      BY <3>0, <3>2, <3>3, <3>4, <3>5, <3>6, DataHere DEF DataInv, Data!Vin
  <2>6. Data!InOrder
    <3>0. s \in Data!Transactions /\ (s.kind # "retained" => s.bank = 1)
      BY DEF Data!TypeOK, DataInv
    <3>1. \E value \in {"blank", "old"} : ecu' = ecu \/ ecu' = Data!With(Data!Here, value)
      BY <1>5 DEF Data!Erase
    <3>2. s.kind = "retained" =>
             \/ \A p \in 1 .. RegionChunks : ecu.cells[p] = "new"
             \/ \A p \in Data!Places : Data!Bank(p) = 2 => ecu'.cells[p] = ecu.cells[p]
      <4>1. CASE s.kind = "retained" /\ s.bank = 1
        <5>1. \A p \in Data!Here : Data!Bank(p) = 1
          BY <3>0, <4>1, DataHere, RegionChunksCount DEF Data!Bank
        <5> QED
          BY <3>1, <5>1, DataWith DEF Data!TypeOK, Data!Cells
      <4> QED
        BY <3>0, <4>1 DEF DataInv, Data!Transactions
    <3>3. ecu'.cells[Data!Commit] = "new" => ecu.cells[Data!Commit] = "new"
      BY <3>1, DataWith, DataPlaces DEF Data!TypeOK, Data!Cells
    <3> QED
      BY <3>2, <3>3 DEF Data!InOrder
  <2> QED BY <2>1, <2>2, <2>3, <2>4, <2>5, <2>6 DEF Data!TypeOK
<1>6. CASE Data!Program
  <2>1. ecu' \in Data!Computers
    BY <1>6, DataProgrammed
  <2>2. s' \in Data!Transactions
    BY <1>6 DEF Data!Program, Data!TypeOK, Data!Goto, Data!Raise, Data!Same, Data!Transactions
  <2>3. pc' \in Data!Pcs
    BY <1>6 DEF Data!Program, Data!TypeOK, Data!Goto, Data!Raise, Data!Same, Data!Pcs
  <2>4. /\ outcome' \in {"none", "running", "not_started", "complete", "abandoned"}
        /\ touched' \in BOOLEAN
    BY <1>6 DEF Data!Program, Data!TypeOK, Data!Goto, Data!Raise, Data!Same
  <2>5. DataInv'
    <3>0. s \in Data!Transactions /\ (s.kind # "retained" => s.bank = 1)
      BY DEF Data!TypeOK, DataInv
    <3>2. s'.kind = s.kind /\ s'.bank = s.bank
      BY <1>6 DEF Data!Program, Data!Goto, Data!TypeOK, Data!Transactions
    <3>3. Data!Body' = Data!Body
      BY <3>2 DEF Data!Body, Data!Here
    <3>4. pc' \in {"program", "readback", "raise"} /\ pc = "program"
      BY <1>6 DEF Data!Program, Data!Goto
    <3>5. s.kind = "retained" /\ s.bank = 2 => \A p \in 1 .. RegionChunks : ecu'.cells[p] = "new"
      BY <1>6, <3>0, DataHere, DataPlaces, DataProgrammed DEF DataInv
    <3>6. s.kind # "eeprom" => \A p \in Data!Body : ecu'.cells[p] \in {"part", "blank", "new"}
      BY <1>6, <3>4, DataProgrammed DEF DataInv
    <3>7. ecu'.cells[Data!Commit] = ecu.cells[Data!Commit]
      BY <1>6, <3>0, DataHere, DataPlaces, DataProgrammed
    <3> QED
      BY <3>2, <3>3, <3>4, <3>5, <3>6, <3>7, <3>0 DEF DataInv
  <2>6. Data!InOrder
    <3>0. s \in Data!Transactions /\ (s.kind # "retained" => s.bank = 1)
      BY DEF Data!TypeOK, DataInv
    <3>2. s.kind = "retained" =>
             \/ \A p \in 1 .. RegionChunks : ecu.cells[p] = "new"
             \/ \A p \in Data!Places : Data!Bank(p) = 2 => ecu'.cells[p] = ecu.cells[p]
      <4>1. CASE s.kind = "retained" /\ s.bank = 1
        <5>1. \A p \in Data!Body : Data!Bank(p) = 1
          BY <3>0, <4>1, DataHere, RegionChunksCount DEF Data!Bank
        <5> QED
          BY <1>6, <5>1, DataProgrammed
      <4> QED
        BY <3>0, <4>1 DEF DataInv, Data!Transactions
    <3>3. ecu'.cells[Data!Commit] = ecu.cells[Data!Commit]
      BY <1>6, <3>0, DataHere, DataPlaces, DataProgrammed
    <3> QED
      BY <3>2, <3>3 DEF Data!InOrder
  <2> QED BY <2>1, <2>2, <2>3, <2>4, <2>5, <2>6 DEF Data!TypeOK
<1>7. CASE Data!Readback
  <2>1. ecu' \in Data!Computers
    BY <1>7 DEF Data!Readback, Data!TypeOK, Data!Goto, Data!Raise, Data!Same, Data!Computers
  <2>2. s' \in Data!Transactions
    BY <1>7 DEF Data!Readback, Data!TypeOK, Data!Goto, Data!Raise, Data!Same, Data!Transactions
  <2>3. pc' \in Data!Pcs
    BY <1>7 DEF Data!Readback, Data!TypeOK, Data!Goto, Data!Raise, Data!Same, Data!Pcs
  <2>4. /\ outcome' \in {"none", "running", "not_started", "complete", "abandoned"}
        /\ touched' \in BOOLEAN
    BY <1>7 DEF Data!Readback, Data!TypeOK, Data!Goto, Data!Raise, Data!Same
  <2>5. DataInv'
    <3>0. s \in Data!Transactions /\ (s.kind # "retained" => s.bank = 1)
      BY DEF Data!TypeOK, DataInv
    <3>1. /\ UNCHANGED <<ecu, s>> /\ pc = "readback"
          /\ pc' \in {"bank", "commit", "verify", "raise"}
          /\ pc' = "commit" => s.kind \in Data!Vin /\ Data!Is(Data!Body, {"new"})
      BY <1>7 DEF Data!Readback, Data!Goto, Data!Vin
    <3>2. pc' = "commit" => \A p \in 1 .. RegionChunks : ecu.cells[p] = "new"
      BY <3>0, <3>1, DataHere DEF Data!Is
    <3> QED
      BY <3>1, <3>2 DEF DataInv
  <2>6. Data!InOrder
    <3>1. \A p \in Data!Places : ecu'.cells[p] = ecu.cells[p]
      BY <1>7 DEF Data!Readback, Data!Goto, Data!Raise, Data!Same, Data!TypeOK, Data!Computers
    <3>2. Data!Commit \in Data!Places
      BY DataPlaces
    <3> QED
      BY <3>1, <3>2 DEF Data!InOrder
  <2> QED BY <2>1, <2>2, <2>3, <2>4, <2>5, <2>6 DEF Data!TypeOK
<1>8. CASE Data!CommitWord
  <2>1. ecu' \in Data!Computers
    <3>1. \/ ecu' = ecu
          \/ \E value \in {"new", "part"} : ecu' = Data!With({Data!Commit}, value)
      BY <1>8 DEF Data!CommitWord
    <3>2. s.kind \in Data!Vin /\ \A p \in 1 .. RegionChunks : ecu.cells[p] = "new"
      BY <1>8 DEF Data!CommitWord, DataInv
    <3> QED
      BY <3>1, DataWith DEF Data!TypeOK, Data!Cells
  <2>2. s' \in Data!Transactions
    BY <1>8
       DEF Data!CommitWord, Data!TypeOK, Data!Goto, Data!Raise, Data!Same, Data!Transactions
  <2>3. pc' \in Data!Pcs
    BY <1>8 DEF Data!CommitWord, Data!TypeOK, Data!Goto, Data!Raise, Data!Same, Data!Pcs
  <2>4. /\ outcome' \in {"none", "running", "not_started", "complete", "abandoned"}
        /\ touched' \in BOOLEAN
    BY <1>8 DEF Data!CommitWord, Data!TypeOK, Data!Goto, Data!Raise, Data!Same
  <2>5. DataInv'
    <3>0. s \in Data!Transactions /\ (s.kind # "retained" => s.bank = 1)
      BY DEF Data!TypeOK, DataInv
    <3>1. \/ ecu' = ecu
          \/ \E value \in {"new", "part"} : ecu' = Data!With({Data!Commit}, value)
      BY <1>8 DEF Data!CommitWord
    <3>2. s.kind \in Data!Vin /\ \A p \in 1 .. RegionChunks : ecu.cells[p] = "new"
      BY <1>8 DEF Data!CommitWord, DataInv
    <3>3. s'.kind = s.kind /\ s'.bank = s.bank /\ pc' \in {"verify", "raise"}
      BY <1>8 DEF Data!CommitWord, Data!Goto, Data!TypeOK, Data!Transactions
    <3>4. s.kind # "retained"
      BY <3>2 DEF Data!Vin
    <3> QED
      BY <3>0, <3>3, <3>4 DEF DataInv
  <2>6. Data!InOrder
    <3>0. s \in Data!Transactions /\ (s.kind # "retained" => s.bank = 1)
      BY DEF Data!TypeOK, DataInv
    <3>1. \/ ecu' = ecu
          \/ \E value \in {"new", "part"} : ecu' = Data!With({Data!Commit}, value)
      BY <1>8 DEF Data!CommitWord
    <3>2. s.kind \in Data!Vin /\ \A p \in 1 .. RegionChunks : ecu.cells[p] = "new"
      BY <1>8 DEF Data!CommitWord, DataInv
    <3>3. s.kind # "retained" /\ Data!Is(Data!PlacesOf(s.kind) \ {Data!Commit}, {"new"})
      BY <3>0, <3>2, DataHere DEF Data!Is, Data!Vin
    <3> QED
      BY <3>3 DEF Data!InOrder
  <2> QED BY <2>1, <2>2, <2>3, <2>4, <2>5, <2>6 DEF Data!TypeOK
<1>9. CASE Data!Verify
  <2>1. ecu' \in Data!Computers
    BY <1>9 DEF Data!Verify, Data!TypeOK, Data!Goto, Data!Raise, Data!Same, Data!Computers
  <2>2. s' \in Data!Transactions
    BY <1>9 DEF Data!Verify, Data!TypeOK, Data!Goto, Data!Raise, Data!Same, Data!Transactions
  <2>3. pc' \in Data!Pcs
    BY <1>9 DEF Data!Verify, Data!TypeOK, Data!Goto, Data!Raise, Data!Same, Data!Pcs
  <2>4. /\ outcome' \in {"none", "running", "not_started", "complete", "abandoned"}
        /\ touched' \in BOOLEAN
    BY <1>9 DEF Data!Verify, Data!TypeOK, Data!Goto, Data!Raise, Data!Same
  <2>5. DataInv'
    BY <1>9
       DEF Data!Verify, Data!TypeOK, Data!Goto, Data!Raise, Data!Same, DataInv,
           Data!Transactions
  <2>6. Data!InOrder
    <3>1. \A p \in Data!Places : ecu'.cells[p] = ecu.cells[p]
      BY <1>9 DEF Data!Verify, Data!Goto, Data!Raise, Data!Same, Data!TypeOK, Data!Computers
    <3>2. Data!Commit \in Data!Places
      BY DataPlaces
    <3> QED
      BY <3>1, <3>2 DEF Data!InOrder
  <2> QED BY <2>1, <2>2, <2>3, <2>4, <2>5, <2>6 DEF Data!TypeOK
<1>10. CASE Data!Reset
  <2>1. ecu' \in Data!Computers
    BY <1>10 DEF Data!Reset, Data!TypeOK, Data!Goto, Data!Raise, Data!Same, Data!Computers
  <2>2. s' \in Data!Transactions
    BY <1>10 DEF Data!Reset, Data!TypeOK, Data!Goto, Data!Raise, Data!Same, Data!Transactions
  <2>3. pc' \in Data!Pcs
    BY <1>10 DEF Data!Reset, Data!TypeOK, Data!Goto, Data!Raise, Data!Same, Data!Pcs
  <2>4. /\ outcome' \in {"none", "running", "not_started", "complete", "abandoned"}
        /\ touched' \in BOOLEAN
    BY <1>10 DEF Data!Reset, Data!TypeOK, Data!Goto, Data!Raise, Data!Same
  <2>5. DataInv'
    <3>1. ecu'.cells = ecu.cells
      BY <1>10 DEF Data!Reset, Data!TypeOK, Data!Goto, Data!Computers
    <3>2. /\ s'.kind = s.kind /\ s'.bank = s.bank
          /\ pc' \in {"idle"} /\ outcome' = "complete"
      BY <1>10 DEF Data!Reset, Data!TypeOK, Data!Goto, Data!Transactions
    <3> QED
      BY <3>1, <3>2 DEF DataInv
  <2>6. Data!InOrder
    <3>1. \A p \in Data!Places : ecu'.cells[p] = ecu.cells[p]
      BY <1>10 DEF Data!Reset, Data!Goto, Data!Raise, Data!Same, Data!TypeOK, Data!Computers
    <3>2. Data!Commit \in Data!Places
      BY DataPlaces
    <3> QED
      BY <3>1, <3>2 DEF Data!InOrder
  <2> QED BY <2>1, <2>2, <2>3, <2>4, <2>5, <2>6 DEF Data!TypeOK
<1>11. CASE Data!Handle
  <2>1. ecu' \in Data!Computers
    BY <1>11 DEF Data!Handle, Data!TypeOK, Data!Goto, Data!Raise, Data!Same, Data!Computers
  <2>2. s' \in Data!Transactions
    BY <1>11 DEF Data!Handle, Data!TypeOK, Data!Goto, Data!Raise, Data!Same, Data!Transactions
  <2>3. pc' \in Data!Pcs
    BY <1>11 DEF Data!Handle, Data!TypeOK, Data!Goto, Data!Raise, Data!Same, Data!Pcs
  <2>4. /\ outcome' \in {"none", "running", "not_started", "complete", "abandoned"}
        /\ touched' \in BOOLEAN
    BY <1>11 DEF Data!Handle, Data!TypeOK, Data!Goto, Data!Raise, Data!Same
  <2>5. DataInv'
    <3>1. ecu'.cells = ecu.cells
      BY <1>11 DEF Data!Handle, Data!TypeOK, Data!Goto, Data!Computers
    <3>2. /\ s'.kind = s.kind /\ s'.bank = s.bank
          /\ pc' \in {"held", "idle"} /\ (pc' = "idle" => outcome' = "not_started")
      BY <1>11 DEF Data!Handle, Data!TypeOK, Data!Goto, Data!Transactions
    <3> QED
      BY <3>1, <3>2 DEF DataInv
  <2>6. Data!InOrder
    <3>1. \A p \in Data!Places : ecu'.cells[p] = ecu.cells[p]
      BY <1>11 DEF Data!Handle, Data!Goto, Data!Raise, Data!Same, Data!TypeOK, Data!Computers
    <3>2. Data!Commit \in Data!Places
      BY DataPlaces
    <3> QED
      BY <3>1, <3>2 DEF Data!InOrder
  <2> QED BY <2>1, <2>2, <2>3, <2>4, <2>5, <2>6 DEF Data!TypeOK
<1>12. CASE Data!Retry
  <2>1. ecu' \in Data!Computers
    BY <1>12 DEF Data!Retry, Data!TypeOK, Data!Goto, Data!Raise, Data!Same, Data!Computers
  <2>2. s' \in Data!Transactions
    BY <1>12 DEF Data!Retry, Data!TypeOK, Data!Goto, Data!Raise, Data!Same, Data!Transactions
  <2>3. pc' \in Data!Pcs
    BY <1>12 DEF Data!Retry, Data!TypeOK, Data!Goto, Data!Raise, Data!Same, Data!Pcs
  <2>4. /\ outcome' \in {"none", "running", "not_started", "complete", "abandoned"}
        /\ touched' \in BOOLEAN
    BY <1>12 DEF Data!Retry, Data!TypeOK, Data!Goto, Data!Raise, Data!Same
  <2>5. DataInv'
    BY <1>12
       DEF Data!Retry, Data!TypeOK, Data!Goto, Data!Raise, Data!Same, DataInv,
           Data!Transactions
  <2>6. Data!InOrder
    <3>1. \A p \in Data!Places : ecu'.cells[p] = ecu.cells[p]
      BY <1>12 DEF Data!Retry, Data!Goto, Data!Raise, Data!Same, Data!TypeOK, Data!Computers
    <3>2. Data!Commit \in Data!Places
      BY DataPlaces
    <3> QED
      BY <3>1, <3>2 DEF Data!InOrder
  <2> QED BY <2>1, <2>2, <2>3, <2>4, <2>5, <2>6 DEF Data!TypeOK
<1>13. CASE Data!Exit
  <2>1. ecu' \in Data!Computers
    BY <1>13 DEF Data!Exit, Data!TypeOK, Data!Goto, Data!Raise, Data!Same, Data!Computers
  <2>2. s' \in Data!Transactions
    BY <1>13
       DEF Data!Exit, Data!NewTransaction, Data!TypeOK, Data!Goto, Data!Raise, Data!Same,
           Data!Transactions
  <2>3. pc' \in Data!Pcs
    BY <1>13 DEF Data!Exit, Data!TypeOK, Data!Goto, Data!Raise, Data!Same, Data!Pcs
  <2>4. /\ outcome' \in {"none", "running", "not_started", "complete", "abandoned"}
        /\ touched' \in BOOLEAN
    BY <1>13 DEF Data!Exit, Data!TypeOK, Data!Goto, Data!Raise, Data!Same
  <2>5. DataInv'
    BY <1>13
       DEF Data!Exit, Data!NewTransaction, Data!TypeOK, Data!Goto, Data!Raise, Data!Same,
           DataInv, Data!Transactions
  <2>6. Data!InOrder
    <3>1. \A p \in Data!Places : ecu'.cells[p] = ecu.cells[p]
      BY <1>13 DEF Data!Exit, Data!Goto, Data!Raise, Data!Same, Data!TypeOK, Data!Computers
    <3>2. Data!Commit \in Data!Places
      BY DataPlaces
    <3> QED
      BY <3>1, <3>2 DEF Data!InOrder
  <2> QED BY <2>1, <2>2, <2>3, <2>4, <2>5, <2>6 DEF Data!TypeOK
<1>14. CASE Data!Ignition
  <2>1. ecu' \in Data!Computers
    <3>1. \E mode \in {"stock", "agent", "dead"} : ecu' = [ecu EXCEPT !.mode = mode]
      BY <1>14 DEF Data!Ignition, Data!TypeOK, Data!Computers
    <3> QED
      BY <3>1 DEF Data!TypeOK, Data!Computers
  <2>2. s' \in Data!Transactions
    BY <1>14 DEF Data!Ignition, Data!TypeOK, Data!Goto, Data!Raise, Data!Same, Data!Transactions
  <2>3. pc' \in Data!Pcs
    BY <1>14 DEF Data!Ignition, Data!TypeOK, Data!Goto, Data!Raise, Data!Same, Data!Pcs
  <2>4. /\ outcome' \in {"none", "running", "not_started", "complete", "abandoned"}
        /\ touched' \in BOOLEAN
    BY <1>14 DEF Data!Ignition, Data!TypeOK, Data!Goto, Data!Raise, Data!Same
  <2>5. DataInv'
    <3>1. ecu'.cells = ecu.cells /\ UNCHANGED <<s, pc, outcome>>
      BY <1>14 DEF Data!Ignition, Data!TypeOK, Data!Computers
    <3>2. Data!Body' = Data!Body
      BY <3>1 DEF Data!Body, Data!Here
    <3> QED
      BY <3>1, <3>2 DEF DataInv
  <2>6. Data!InOrder
    <3>1. \A p \in Data!Places : ecu'.cells[p] = ecu.cells[p]
      BY <1>14 DEF Data!Ignition, Data!Goto, Data!Raise, Data!Same, Data!TypeOK, Data!Computers
    <3>2. Data!Commit \in Data!Places
      BY DataPlaces
    <3> QED
      BY <3>1, <3>2 DEF Data!InOrder
  <2> QED BY <2>1, <2>2, <2>3, <2>4, <2>5, <2>6 DEF Data!TypeOK
<1> QED
  BY <1>1, <1>2, <1>3, <1>4, <1>5, <1>6, <1>7, <1>8, <1>9, <1>10, <1>11, <1>12, <1>13, <1>14
     DEF Data!Next, Data!WorkerStep, Data!Writing

---------------------------------------------------------------------------
(* What the other writers keep of FlashOutcome.                            *)

\* The MS42/MS43 writer: every region before the one at hand holds the new data, and
\* so do its packets before this one; what follows the regions follows new regions.
MsFirst == {"enter", "fallback", "lower", "identity", "unlock"}
MsRegional == {"invalidate", "erase", "erase_check", "program", "readback", "repair_verify"}
MsAfter == {"verify", "boot", "boot_verify", "leave", "finalize", "conclude"}
MsPast == {"program", "readback", "repair_verify"} \cup MsAfter
MsBefore ==
    /\ Ms4x!Region # "program" /\ s.op # "tune" => Ms4x!HoldsNew("program")
    /\ Ms4x!Region = "boot" => Ms4x!HoldsNew("tune")
MsMain == Ms4x!HoldsNew("tune") /\ (s.op # "tune" => Ms4x!HoldsNew("program"))
MsMarked == \A r \in DOMAIN ecu.marked : ecu.marked[r]
MsKept ==
    /\ pc = "idle" <=> outcome # "running"
    /\ pc # "idle" /\ touched => s.destructive_started
    /\ ~touched => \A r \in Ms4x!Regions : Ms4x!Holding(ecu, r, {"old", "bad"})
    /\ pc \in MsPast => touched
    /\ pc # "idle" /\ s.op = "boot" => s.route # "stock" /\ pc # "fallback"
    /\ pc \in MsFirst \/ (pc = "invalidate" /\ ~touched) => s.i = 1
    /\ pc \in MsRegional => MsBefore
    /\ pc \in {"program", "readback"} =>
          \A k \in 1 .. RegionChunks : k < s.chunk => ecu.cells[Ms4x!Region][k] = "new"
    /\ pc \in MsAfter => MsMain
    /\ pc \in {"leave", "finalize", "conclude"} /\ s.op = "boot" => Ms4x!HoldsNew("boot")
    /\ pc = "conclude" \/ (pc = "verify" /\ s.route = "stock") => MsMarked
MsDone == MsKept' /\ Moves(Ms4x!Content, Ms4x!Verdict, Ms4x!Content', Ms4x!Verdict')

LEMMA MsContents ==
    ASSUME Ms4x!TypeOK, MsKept
    PROVE  /\ outcome \in {"none", "running", "not_started", "complete", "abandoned"}
           /\ Ms4x!Content' \in {"kept", "torn", "target"}
           /\ (~touched => Ms4x!Content = "kept") /\ (~touched' => Ms4x!Content' = "kept")
           /\ (touched' => Ms4x!Content' \in {"torn", "target"})
           /\ (pc = "conclude" => Ms4x!Content = "target")
           /\ (pc # "held" => Ms4x!Verdict = outcome)
           /\ (pc' # "held" => Ms4x!Verdict' = outcome')
           /\ (pc = "held" => Ms4x!Verdict = "held")
           /\ (pc' = "held" => Ms4x!Verdict' = "held")
<1>1. ASSUME pc = "conclude" PROVE Ms4x!Content = "target"
  <2>1. touched /\ MsMain /\ (s.op = "boot" => Ms4x!HoldsNew("boot")) /\ MsMarked
    BY <1>1 DEF MsKept, MsPast, MsAfter
  <2>2. s.op \in {"tune", "full", "boot"}
    BY DEF Ms4x!TypeOK, Ms4x!Writes
  <2>3. CASE s.op = "tune"
    <3>1. Ms4x!Range(Ms4x!Order(s.op)) = {"tune"}
      BY <2>3 DEF Ms4x!Range, Ms4x!Order
    <3> QED
      BY <2>1, <3>1 DEF Ms4x!Content, MsMain, MsMarked
  <2>4. CASE s.op = "full"
    <3>1. Ms4x!Range(Ms4x!Order(s.op)) \subseteq {"program", "tune"}
      BY <2>4 DEF Ms4x!Range, Ms4x!Order
    <3> QED
      BY <2>1, <2>4, <3>1 DEF Ms4x!Content, MsMain, MsMarked
  <2>5. CASE s.op = "boot"
    <3>1. Ms4x!Range(Ms4x!Order(s.op)) \subseteq {"program", "tune", "boot"}
      BY <2>5 DEF Ms4x!Range, Ms4x!Order
    <3> QED
      BY <2>1, <2>5, <3>1 DEF Ms4x!Content, MsMain, MsMarked
  <2> QED
    BY <2>2, <2>3, <2>4, <2>5
<1> QED
  BY <1>1 DEF Ms4x!TypeOK, Ms4x!Verdict, Ms4x!Content

LEMMA MsSame ==
    ASSUME ecu'.cells = ecu.cells, ecu'.marked = ecu.marked, s'.op = s.op, touched' = touched
    PROVE  Ms4x!Content' = Ms4x!Content
<1>1. \A r : Ms4x!HoldsNew(r)' = Ms4x!HoldsNew(r)
  BY DEF Ms4x!HoldsNew, Ms4x!Holding
<1>2. Ms4x!Order(s.op)' = Ms4x!Order(s.op)
  BY DEF Ms4x!Order
<1> QED
  BY <1>1, <1>2 DEF Ms4x!Content

\* A step that goes on, a failure among them.
LEMMA MsGoesOn ==
    ASSUME Ms4x!TypeOK, MsKept, MsKept', pc \notin {"idle", "held"},
           pc' # "held", outcome' = outcome, touched => touched'
    PROVE  MsDone
  BY MsContents DEF Moves, MsDone, MsKept

\* A step that leaves the packets and its place among them alone.
LEMMA MsStays ==
    ASSUME Ms4x!TypeOK, MsKept, ecu'.cells = ecu.cells, s'.op = s.op, s'.i = s.i,
           s'.chunk = s.chunk, touched => touched',
           pc' = "idle" <=> outcome' # "running",
           pc' # "idle" /\ touched' => s'.destructive_started,
           pc' \in MsPast => touched',
           pc' # "idle" /\ s.op = "boot" => s'.route # "stock" /\ pc' # "fallback",
           pc' \in MsFirst \/ (pc' = "invalidate" /\ ~touched') => s.i = 1,
           pc' \in MsRegional => MsBefore,
           pc' \in {"program", "readback"} => pc \in {"program", "readback"},
           pc' \in MsAfter => MsMain,
           pc' \in {"leave", "finalize", "conclude"} /\ s.op = "boot" => Ms4x!HoldsNew("boot"),
           pc' = "conclude" \/ (pc' = "verify" /\ s'.route = "stock") => MsMarked'
    PROVE  MsKept'
<1>1. Ms4x!Region' = Ms4x!Region
  BY DEF Ms4x!Region, Ms4x!Order
<1>2. /\ Ms4x!HoldsNew("program")' = Ms4x!HoldsNew("program")
      /\ Ms4x!HoldsNew("tune")' = Ms4x!HoldsNew("tune")
      /\ Ms4x!HoldsNew("boot")' = Ms4x!HoldsNew("boot")
  BY DEF Ms4x!HoldsNew, Ms4x!Holding
<1>3. (MsBefore => MsBefore') /\ (MsMain => MsMain')
  BY <1>1, <1>2 DEF MsBefore, MsMain
<1>4. ~touched' => \A r \in Ms4x!Regions : Ms4x!Holding(ecu, r, {"old", "bad"})'
  BY DEF MsKept, Ms4x!Holding
<1>5. pc' \in {"program", "readback"} =>
         \A k \in 1 .. RegionChunks : k < s'.chunk => ecu'.cells[Ms4x!Region'][k] = "new"
  BY <1>1 DEF MsKept
<1> QED
  BY <1>2, <1>3, <1>4, <1>5 DEF MsKept

LEMMA MsRestartKeeps ==
    ASSUME NEW e \in Ms4x!Computers
    PROVE  /\ Ms4x!Restarted(e).cells = e.cells
           /\ Ms4x!Restarted(e).marked = e.marked
  BY DEF Ms4x!Restarted, Ms4x!Computers

\* The region at hand of a write, by its place.
LEMMA MsPlaces ==
    ASSUME s \in Ms4x!Writes, s.i <= Len(Ms4x!Order(s.op))
    PROVE  /\ Ms4x!Region \in Ms4x!Regions
           /\ s.i = 1 => Ms4x!Region = IF s.op = "tune" THEN "tune" ELSE "program"
           /\ Ms4x!Region = "program" => s.i = 1 /\ s.op # "tune"
           /\ Ms4x!Region = "boot" => s.op = "boot"
           /\ s.op # "tune" => Ms4x!Order(s.op)[2] = "tune"
           /\ s.op = "boot" => Ms4x!Order(s.op)[3] = "boot"
<1>1. s.i \in 1 .. 3 /\ s.op \in {"tune", "full", "boot"}
  BY DEF Ms4x!Writes
<1>2. CASE s.op = "tune"
  BY <1>1, <1>2 DEF Ms4x!Region, Ms4x!Order, Ms4x!Regions
<1>3. CASE s.op = "full"
  BY <1>1, <1>3 DEF Ms4x!Region, Ms4x!Order, Ms4x!Regions
<1>4. CASE s.op = "boot"
  BY <1>1, <1>4 DEF Ms4x!Region, Ms4x!Order, Ms4x!Regions
<1> QED
  BY <1>1, <1>2, <1>3, <1>4

\* After a region whose packets all hold the new data.
LEMMA MsRegionKept ==
    ASSUME Ms4x!TypeOK, MsInv, MsKept, Ms4x!RegionDone(s),
           pc \in {"program", "readback", "repair_verify"}, UNCHANGED <<outcome, touched>>,
           \A k \in 1 .. RegionChunks : ecu'.cells[Ms4x!Region][k] = "new",
           \A r \in Ms4x!Regions : r # Ms4x!Region => ecu'.cells[r] = ecu.cells[r]
    PROVE  MsDone
<1>0. /\ s \in Ms4x!Writes /\ s.i <= Len(Ms4x!Order(s.op))
      /\ outcome = "running" /\ touched /\ s.destructive_started
      /\ MsBefore /\ (s.op = "boot" => s.route # "stock")
  BY DEF Ms4x!TypeOK, MsInv, MsKept, MsPast, MsRegional
<1>1. /\ Ms4x!Region \in {"program", "tune", "boot"}
      /\ Ms4x!Region = "program" => s.i = 1 /\ s.op # "tune"
      /\ Ms4x!Region = "boot" => s.op = "boot"
      /\ s.op # "tune" => Ms4x!Order(s.op)[2] = "tune"
  BY <1>0, MsPlaces DEF Ms4x!Regions
<1>2. [s EXCEPT !.repairing = FALSE] \in Ms4x!Writes
  BY <1>0 DEF Ms4x!Writes
<1>3. CASE Ms4x!Region = "program"
  <2>1. /\ s' = [[s EXCEPT !.repairing = FALSE] EXCEPT !.i = s.i + 1, !.chunk = 1, !.tries = 1]
        /\ pc' \in {"erase", "invalidate"}
    BY <1>0, <1>3 DEF Ms4x!RegionDone, Ms4x!Writes
  <2>2. /\ s'.op = s.op /\ s'.i = 2 /\ s'.destructive_started /\ s'.route = s.route
    BY <1>0, <1>1, <1>3, <2>1 DEF Ms4x!Writes
  <2>3. Ms4x!Region' = "tune"
    BY <1>1, <1>3, <2>2 DEF Ms4x!Region, Ms4x!Order
  <2>4. Ms4x!HoldsNew("program")'
    BY <1>3 DEF Ms4x!HoldsNew, Ms4x!Holding
  <2>5. MsKept'
    BY <1>0, <2>1, <2>2, <2>3, <2>4
       DEF MsKept, MsBefore, MsPast, MsAfter, MsFirst, MsRegional
  <2> QED
    BY <1>0, <2>1, <2>5, MsGoesOn
<1>4. CASE Ms4x!Region = "tune"
  <2>1. /\ s' = [s EXCEPT !.repairing = FALSE]
        /\ pc' = CASE s.route = "stock" -> "finalize"
                   [] s.verify /\ s.route # "stock" -> "verify"
                   [] OTHER -> "boot"
    BY <1>4 DEF Ms4x!RegionDone
  <2>2. s'.op = s.op /\ s'.destructive_started /\ s'.route = s.route
    BY <1>0, <2>1 DEF Ms4x!Writes
  <2>3. Ms4x!HoldsNew("tune")'
    BY <1>4 DEF Ms4x!HoldsNew, Ms4x!Holding
  <2>4. s.op # "tune" => Ms4x!HoldsNew("program")'
    BY <1>0, <1>4 DEF MsBefore, Ms4x!HoldsNew, Ms4x!Holding, Ms4x!Regions
  <2>5. /\ pc' \in {"finalize", "verify", "boot"}
        /\ pc' = "finalize" => s.route = "stock"
        /\ pc' = "verify" => s.route # "stock"
    BY <2>1
  <2>6. MsKept'
    BY <1>0, <2>2, <2>3, <2>4, <2>5 DEF MsKept, MsMain, MsPast, MsAfter, MsFirst, MsRegional
  <2> QED
    BY <1>0, <2>5, <2>6, MsGoesOn
<1>5. CASE Ms4x!Region = "boot"
  <2>1. s' = [s EXCEPT !.repairing = FALSE] /\ pc' = "boot_verify"
    BY <1>5 DEF Ms4x!RegionDone
  <2>2. s'.op = s.op /\ s'.destructive_started /\ s'.route = s.route
    BY <1>0, <2>1 DEF Ms4x!Writes
  <2>3. MsMain'
    BY <1>0, <1>5, <2>2 DEF MsBefore, MsMain, Ms4x!HoldsNew, Ms4x!Holding, Ms4x!Regions
  <2>4. MsKept'
    BY <1>0, <2>1, <2>2, <2>3 DEF MsKept, MsPast, MsAfter, MsFirst, MsRegional
  <2> QED
    BY <1>0, <2>1, <2>4, MsGoesOn
<1> QED
  BY <1>1, <1>3, <1>4, <1>5

\* Another region written leaves those before this one as they were.
LEMMA MsElsewhere ==
    ASSUME MsBefore, s'.op = s.op, s'.i = s.i,
           \A r \in Ms4x!Regions : r # Ms4x!Region => ecu'.cells[r] = ecu.cells[r]
    PROVE  MsBefore'
<1>1. Ms4x!Region' = Ms4x!Region
  BY DEF Ms4x!Region, Ms4x!Order
<1>2. \A r \in Ms4x!Regions : r # Ms4x!Region => Ms4x!HoldsNew(r)' = Ms4x!HoldsNew(r)
  BY DEF Ms4x!HoldsNew, Ms4x!Holding
<1>3. "program" # Ms4x!Region /\ Ms4x!HoldsNew("program") => Ms4x!HoldsNew("program")'
  BY DEF Ms4x!HoldsNew, Ms4x!Holding, Ms4x!Regions
<1>4. "tune" # Ms4x!Region /\ Ms4x!HoldsNew("tune") => Ms4x!HoldsNew("tune")'
  BY DEF Ms4x!HoldsNew, Ms4x!Holding, Ms4x!Regions
<1> QED
  BY <1>1, <1>3, <1>4 DEF MsBefore

\* After a packet that holds the new data.
LEMMA MsChunkKept ==
    ASSUME Ms4x!TypeOK, MsInv, MsKept, Ms4x!ChunkDone,
           pc \in {"program", "readback"}, UNCHANGED <<outcome, touched>>,
           \A k \in 1 .. RegionChunks : k <= s.chunk => ecu'.cells[Ms4x!Region][k] = "new",
           \A r \in Ms4x!Regions : r # Ms4x!Region => ecu'.cells[r] = ecu.cells[r]
    PROVE  MsDone
<1>0. /\ s \in Ms4x!Writes /\ s.i <= Len(Ms4x!Order(s.op))
      /\ s.chunk \in 1 .. RegionChunks /\ RegionChunks \in Nat
      /\ outcome = "running" /\ touched /\ s.destructive_started
      /\ MsBefore /\ (s.op = "boot" => s.route # "stock")
  BY MsCounts DEF Ms4x!TypeOK, MsInv, MsKept, MsPast, MsRegional, Ms4x!Writes
<1>1. CASE s.chunk < RegionChunks
  <2>1. s' = [s EXCEPT !.chunk = s.chunk + 1, !.tries = 1] /\ pc' = "program"
    BY <1>0, <1>1 DEF Ms4x!ChunkDone
  <2>2. /\ s'.op = s.op /\ s'.i = s.i /\ s'.chunk = s.chunk + 1
        /\ s'.destructive_started /\ s'.route = s.route
    BY <1>0, <2>1 DEF Ms4x!Writes
  <2>3. Ms4x!Region' = Ms4x!Region
    BY <2>2 DEF Ms4x!Region, Ms4x!Order
  <2>4. \A k \in 1 .. RegionChunks : k < s.chunk + 1 => ecu'.cells[Ms4x!Region][k] = "new"
    BY <1>0
  <2>5. MsBefore'
    BY <1>0, <2>2, MsElsewhere
  <2>6. MsKept'
    BY <1>0, <2>1, <2>2, <2>3, <2>4, <2>5 DEF MsKept, MsPast, MsAfter, MsFirst, MsRegional
  <2> QED
    BY <1>0, <2>1, <2>6, MsGoesOn
<1>2. CASE ~(s.chunk < RegionChunks)
  <2>1. s.chunk = RegionChunks
    BY <1>0, <1>2
  <2>2. \A k \in 1 .. RegionChunks : ecu'.cells[Ms4x!Region][k] = "new"
    BY <1>0, <2>1
  <2>3. CASE s.repairing
    <3>1. pc' = "repair_verify" /\ s' = s
      BY <1>0, <1>2, <2>1, <2>3 DEF Ms4x!ChunkDone, Ms4x!Goto
    <3>2. MsBefore'
      BY <1>0, <3>1, MsElsewhere
    <3>3. MsKept'
      BY <1>0, <3>1, <3>2 DEF MsKept, MsPast, MsAfter, MsFirst, MsRegional
    <3> QED
      BY <1>0, <3>1, <3>3, MsGoesOn
  <2>4. CASE ~s.repairing
    <3>1. Ms4x!RegionDone(s)
      BY <1>0, <1>2, <2>1, <2>4 DEF Ms4x!ChunkDone
    <3> QED
      BY <2>2, <3>1, MsRegionKept
  <2> QED
    BY <2>3, <2>4
<1> QED
  BY <1>1, <1>2

\* A failure before anything changed in this step, but perhaps the packet or the
\* sector at hand.
LEMMA MsRaised ==
    ASSUME Ms4x!TypeOK, MsKept, s'.op = s.op, pc' = "handler", pc \notin {"idle", "held"},
           touched => touched', touched' => s'.destructive_started, outcome' = outcome,
           s.op = "boot" => s'.route # "stock",
           ~touched' => ecu'.cells = ecu.cells
    PROVE  MsDone
<1>1. ~touched' => \A r \in Ms4x!Regions : Ms4x!Holding(ecu, r, {"old", "bad"})'
  BY DEF MsKept, Ms4x!Holding
<1>2. MsKept'
  BY <1>1 DEF MsKept, MsPast, MsAfter, MsFirst, MsRegional
<1> QED
  BY <1>2, MsGoesOn

\* The agent and the loader are entered, left and entered again.
LEMMA MsEntries ==
    ASSUME Ms4x!TypeOK, MsInv, MsKept,
           Ms4x!Enter \/ Ms4x!Fallback \/ Ms4x!Lower \/ Ms4x!Identity \/ Ms4x!Unlock
    PROVE  MsDone
<1>0. /\ s \in Ms4x!Writes /\ ecu \in Ms4x!Computers /\ s.i <= Len(Ms4x!Order(s.op))
      /\ pc \in MsFirst /\ UNCHANGED <<outcome, touched>> /\ outcome = "running" /\ s.i = 1
      /\ (touched => s.destructive_started) /\ (s.op = "boot" => s.route # "stock")
      /\ (pc = "fallback" => s.op # "boot")
  BY DEF Ms4x!TypeOK, MsInv, MsKept, MsFirst, Ms4x!Enter, Ms4x!Fallback, Ms4x!Lower,
         Ms4x!Identity, Ms4x!Unlock, Ms4x!Stays
<1>1. MsBefore
  BY <1>0, MsPlaces DEF MsBefore
<1>2. ASSUME ecu'.cells = ecu.cells, s'.op = s.op, s'.i = s.i, s'.chunk = s.chunk,
             touched' => s'.destructive_started,
             pc' \in MsFirst \cup {"invalidate", "erase", "handler"},
             s.op = "boot" => s'.route # "stock" /\ pc' # "fallback"
      PROVE  MsDone
  <2>1. MsKept'
    BY <1>0, <1>1, <1>2, MsStays DEF MsFirst, MsPast, MsAfter, MsRegional
  <2> QED
    BY <1>0, <1>2, <2>1, MsGoesOn DEF MsFirst
<1>3. CASE Ms4x!Enter
  <2>1. ecu'.cells = ecu.cells
    BY <1>0, <1>3 DEF Ms4x!Enter, Ms4x!Computers
  <2>2. \/ s' = s /\ pc' \in {"identity", "handler"}
        \/ s' = [s EXCEPT !.active = TRUE] /\ pc' = "identity"
        \/ \E rate \in {FALSE, s.rate} : s' = [s EXCEPT !.rate = rate]
              /\ pc' \in {"fallback", "handler"} /\ (pc' = "fallback" => s.op # "boot")
    <3>1. CASE s.active
      BY <1>3, <3>1 DEF Ms4x!Enter, Ms4x!Goto, Ms4x!Raise
    <3>2. CASE ~s.active
      BY <1>3, <3>2 DEF Ms4x!Enter, Ms4x!FallsBack
    <3> QED
      BY <3>1, <3>2
  <2>3. /\ s'.op = s.op /\ s'.i = s.i /\ s'.chunk = s.chunk /\ s'.route = s.route
        /\ s'.destructive_started = s.destructive_started
    BY <1>0, <2>2 DEF Ms4x!Writes
  <2> QED
    BY <1>0, <1>2, <2>1, <2>2, <2>3 DEF MsFirst
<1>4. CASE Ms4x!Fallback
  <2>1. pc = "fallback" /\ ecu'.cells = ecu.cells
    BY <1>0, <1>4, MsRestartKeeps DEF Ms4x!Fallback
  <2>2. \/ s' = [s EXCEPT !.route = "stock", !.rate = TRUE] /\ pc' = "unlock"
        \/ s' = [s EXCEPT !.rate = FALSE] /\ pc' = "handler"
    BY <1>4 DEF Ms4x!Fallback, Ms4x!Raise
  <2>3. /\ s'.op = s.op /\ s'.i = s.i /\ s'.chunk = s.chunk
        /\ s'.destructive_started = s.destructive_started
    BY <1>0, <2>2 DEF Ms4x!Writes
  <2> QED
    BY <1>0, <1>2, <2>1, <2>2, <2>3 DEF MsFirst
<1>5. CASE Ms4x!Lower
  <2>1. pc = "lower" /\ ecu'.cells = ecu.cells
    BY <1>0, <1>5, MsRestartKeeps DEF Ms4x!Lower
  <2>2. \/ s' = [s EXCEPT !.active = FALSE, !.rate = TRUE, !.tier = @ + 1] /\ pc' = "enter"
        \/ s' = [s EXCEPT !.active = FALSE, !.rate = FALSE] /\ pc' = "handler"
    BY <1>5 DEF Ms4x!Lower, Ms4x!Raise
  <2>3. /\ s'.op = s.op /\ s'.i = s.i /\ s'.chunk = s.chunk /\ s'.route = s.route
        /\ s'.destructive_started = s.destructive_started
    BY <1>0, <2>2 DEF Ms4x!Writes
  <2> QED
    BY <1>0, <1>2, <2>1, <2>2, <2>3 DEF MsFirst
<1>6. CASE Ms4x!Identity
  <2>1. ecu'.cells = ecu.cells
    BY <1>0, <1>6, MsRestartKeeps DEF Ms4x!Identity
  <2>2. /\ s' \in {s, Ms4x!Begun} \/ \E rate \in BOOLEAN :
               s' = [s EXCEPT !.active = FALSE, !.rate = rate]
        /\ pc' \in {"invalidate", "handler", "lower"}
    BY <1>6 DEF Ms4x!Identity, Ms4x!Raise, Ms4x!ReadFails
  <2>3. /\ s'.op = s.op /\ s'.i = s.i /\ s'.chunk = s.chunk /\ s'.route = s.route
        /\ (s.destructive_started => s'.destructive_started)
    BY <1>0, <2>2 DEF Ms4x!Writes, Ms4x!Begun
  <2> QED
    BY <1>0, <1>2, <2>1, <2>2, <2>3 DEF MsFirst
<1>7. CASE Ms4x!Unlock
  <2>1. ecu'.cells = ecu.cells
    BY <1>0, <1>7 DEF Ms4x!Unlock, Ms4x!Computers
  <2>2. s' = s /\ pc' \in {"erase", "handler"}
    BY <1>7 DEF Ms4x!Unlock, Ms4x!Goto, Ms4x!Raise
  <2> QED
    BY <1>0, <1>2, <2>1, <2>2
<1> QED
  BY <1>3, <1>4, <1>5, <1>6, <1>7

LEMMA MsInvalidates == ASSUME Ms4x!TypeOK, MsInv, MsKept, Ms4x!Invalidate PROVE MsDone
<1>0. /\ s \in Ms4x!Writes /\ ecu \in Ms4x!Computers
      /\ pc = "invalidate" /\ outcome' = outcome /\ outcome = "running"
      /\ (touched => s.destructive_started) /\ (s.op = "boot" => s.route # "stock")
      /\ MsBefore
  BY DEF Ms4x!TypeOK, MsKept, MsRegional, Ms4x!Invalidate
<1>1. ecu'.cells = ecu.cells
  BY <1>0 DEF Ms4x!Invalidate, Ms4x!Computers
<1>2. CASE Ms4x!ReadFails /\ UNCHANGED <<ecu, touched>>
  <2>1. s' = s /\ pc' \in {"handler", "lower"} /\ (pc' = "lower" => ~s.destructive_started)
    BY <1>2 DEF Ms4x!ReadFails, Ms4x!Raise
  <2>2. CASE pc' = "handler"
    BY <1>0, <1>1, <1>2, <2>1, <2>2, MsRaised
  <2>3. CASE pc' = "lower"
    <3>1. s.i = 1
      BY <1>0, <2>1, <2>3 DEF MsKept
    <3>2. MsKept'
      BY <1>0, <1>1, <1>2, <2>1, <2>3, <3>1, MsStays DEF MsFirst, MsPast, MsAfter, MsRegional
    <3> QED
      BY <1>0, <1>2, <2>1, <2>3, <3>2, MsGoesOn
  <2> QED
    BY <2>1, <2>2, <2>3
<1>3. CASE ~(Ms4x!ReadFails /\ UNCHANGED <<ecu, touched>>)
  <2>1. /\ touched' = (touched \/ ecu' # ecu)
        /\ s' \in {s, Ms4x!Begun} /\ (ecu' # ecu => s' = Ms4x!Begun)
        /\ pc' \in {"erase", "handler"}
    BY <1>3 DEF Ms4x!Invalidate, Ms4x!Raise
  <2>2. /\ s'.op = s.op /\ s'.i = s.i /\ s'.chunk = s.chunk /\ s'.route = s.route
        /\ (s.destructive_started => s'.destructive_started)
        /\ (s' = Ms4x!Begun => s'.destructive_started)
    BY <1>0, <2>1 DEF Ms4x!Writes, Ms4x!Begun
  <2>3. (touched => touched') /\ (touched' => s'.destructive_started)
    BY <1>0, <2>1, <2>2
  <2>4. MsKept'
    BY <1>0, <1>1, <2>1, <2>2, <2>3, MsStays DEF MsFirst, MsPast, MsAfter, MsRegional
  <2> QED
    BY <1>0, <2>1, <2>3, <2>4, MsGoesOn
<1> QED
  BY <1>2, <1>3

\* The sector at hand and no other.
LEMMA MsSector ==
    ASSUME ecu \in Ms4x!Computers, Ms4x!Region \in Ms4x!Regions,
           ecu' \in {Ms4x!SectorErased, Ms4x!SectorSpoilt}
    PROVE  \A r \in Ms4x!Regions : r # Ms4x!Region => ecu'.cells[r] = ecu.cells[r]
<1>1. ASSUME NEW c
      PROVE  \A r \in Ms4x!Regions : r # Ms4x!Region =>
                Ms4x!Marks([ecu EXCEPT !.cells[Ms4x!Region] = c]).cells[r] = ecu.cells[r]
  BY DEF Ms4x!Computers, Ms4x!Marks
<1> QED
  BY <1>1 DEF Ms4x!SectorErased, Ms4x!SectorSpoilt

LEMMA MsErasesOn ==
    ASSUME Ms4x!TypeOK, MsInv, MsKept, Ms4x!Erase \/ Ms4x!EraseCheck
    PROVE  MsDone
<1>0. /\ s \in Ms4x!Writes /\ ecu \in Ms4x!Computers /\ s.i <= Len(Ms4x!Order(s.op))
      /\ pc \in {"erase", "erase_check"} /\ outcome' = outcome /\ outcome = "running"
      /\ (touched => s.destructive_started) /\ (s.op = "boot" => s.route # "stock")
      /\ MsBefore
  BY DEF Ms4x!TypeOK, MsInv, MsKept, MsRegional, Ms4x!Erase, Ms4x!EraseCheck, Ms4x!Stays
<1>1. Ms4x!Region \in Ms4x!Regions
  BY <1>0, MsPlaces
<1>2. /\ s'.op = s.op /\ s'.i = s.i /\ s'.route = s.route
      /\ (s.destructive_started => s'.destructive_started)
      /\ (pc = "erase" => s'.destructive_started)
      /\ pc' \in {"program", "erase_check", "erase", "handler"}
      /\ (pc' = "program" => s'.chunk = 1)
  <2>1. CASE Ms4x!Erase
    <3>1. \/ s' = [Ms4x!Begun EXCEPT !.chunk = 1, !.tries = 1] /\ pc' = "program"
          \/ s' = Ms4x!Begun /\ pc' \in {"erase_check", "handler"}
      BY <2>1 DEF Ms4x!Erase, Ms4x!EraseDone, Ms4x!Raise
    <3>2. /\ Ms4x!Begun \in Ms4x!Writes /\ Ms4x!Begun.destructive_started
          /\ Ms4x!Begun.op = s.op /\ Ms4x!Begun.i = s.i /\ Ms4x!Begun.route = s.route
      BY <1>0, MsBegun DEF Ms4x!Writes, Ms4x!Begun
    <3> QED
      BY <3>1, <3>2 DEF Ms4x!Writes
  <2>2. CASE Ms4x!EraseCheck
    <3>1. /\ pc = "erase_check"
          /\ \/ s' = [s EXCEPT !.chunk = 1, !.tries = 1] /\ pc' = "program"
             \/ s' = [s EXCEPT !.tries = @ + 1] /\ pc' = "erase"
             \/ s' = s /\ pc' = "handler"
      BY <2>2 DEF Ms4x!EraseCheck, Ms4x!EraseDone, Ms4x!Raise
    <3> QED
      BY <1>0, <3>1 DEF Ms4x!Writes
  <2> QED
    BY <2>1, <2>2
<1>3. /\ touched => touched'
      /\ ~touched' => ecu' = ecu
      /\ ecu' = ecu \/ ecu' \in {Ms4x!SectorErased, Ms4x!SectorSpoilt}
      /\ touched' => s'.destructive_started
      /\ pc' = "program" => touched'
  <2>1. CASE Ms4x!Erase
    BY <1>2, <2>1 DEF Ms4x!Erase, Ms4x!EraseDone, Ms4x!Raise
  <2>2. CASE Ms4x!EraseCheck
    <3>1. ecu' = ecu /\ touched' = touched
      BY <2>2 DEF Ms4x!EraseCheck, Ms4x!Stays
    <3>2. ASSUME pc' = "program" PROVE touched
      <4>1. Ms4x!Holding(ecu, Ms4x!Region, {"blank"})
        BY <2>2, <3>2 DEF Ms4x!EraseCheck, Ms4x!Raise, Ms4x!SectorBlank
      <4>2. 1 \in 1 .. RegionChunks
        BY MsCounts
      <4>3. ASSUME ~touched PROVE FALSE
        <5>1. ecu.cells[Ms4x!Region][1] \in {"old", "bad"}
          BY <1>1, <4>2, <4>3 DEF MsKept, Ms4x!Holding
        <5> QED
          BY <4>1, <4>2, <5>1 DEF Ms4x!Holding
      <4> QED
        BY <4>3
    <3> QED
      BY <1>0, <1>2, <3>1, <3>2
  <2> QED
    BY <2>1, <2>2
<1>4. MsBefore'
  BY <1>0, <1>1, <1>2, <1>3, MsSector, MsElsewhere
<1>5. ~touched' => \A r \in Ms4x!Regions : Ms4x!Holding(ecu, r, {"old", "bad"})'
  BY <1>3 DEF MsKept, Ms4x!Holding
<1>6. pc' = "program" => \A k \in 1 .. RegionChunks : ~(k < s'.chunk)
  BY <1>2
<1>7. MsKept'
  BY <1>0, <1>2, <1>3, <1>4, <1>5, <1>6 DEF MsKept, MsPast, MsAfter, MsFirst, MsRegional
<1> QED
  BY <1>0, <1>2, <1>3, <1>7, MsGoesOn

LEMMA MsPackets ==
    ASSUME Ms4x!TypeOK, MsInv, MsKept, Ms4x!Program \/ Ms4x!Readback \/ Ms4x!RepairVerify
    PROVE  MsDone
<1>0. /\ s \in Ms4x!Writes /\ ecu \in Ms4x!Computers /\ s.i <= Len(Ms4x!Order(s.op))
      /\ pc \in {"program", "readback", "repair_verify"} /\ UNCHANGED <<outcome, touched>>
      /\ outcome = "running" /\ touched /\ s.destructive_started
      /\ (s.op = "boot" => s.route # "stock")
      /\ MsBefore /\ s.chunk \in 1 .. RegionChunks /\ RegionChunks \in Nat
  BY MsCounts DEF Ms4x!TypeOK, MsInv, MsKept, MsRegional, MsPast, Ms4x!Program, Ms4x!Readback,
                  Ms4x!RepairVerify, Ms4x!Stays, Ms4x!Writes
<1>1. Ms4x!Region \in Ms4x!Regions
  BY <1>0, MsPlaces
<1>2. CASE Ms4x!Program
  <2>1. pc = "program" /\ Ms4x!Cell \in Ms4x!Cells
    BY <1>0, <1>1, <1>2 DEF Ms4x!Program, Ms4x!Cell, Ms4x!Computers
  <2>2. PICK c \in Ms4x!Cells :
           /\ ecu' = ecu \/ ecu' = Ms4x!Programmed(c)
           /\ \/ c = "new" /\ ecu' = Ms4x!Programmed("new") /\ Ms4x!ChunkDone
              \/ s' = s /\ pc' \in {"readback", "handler"}
    <3>1. \A c \in Ms4x!Cut(Ms4x!Cell) : c \in Ms4x!Cells
      BY <2>1 DEF Ms4x!Cut, Ms4x!Cells
    <3>2. "new" \in Ms4x!Cells
      BY DEF Ms4x!Cells
    <3> QED
      BY <1>2, <3>1, <3>2 DEF Ms4x!Program, Ms4x!Goto, Ms4x!Raise
  <2>3. /\ \A r \in Ms4x!Regions : r # Ms4x!Region => ecu'.cells[r] = ecu.cells[r]
        /\ \A k \in 1 .. RegionChunks : k # s.chunk =>
              ecu'.cells[Ms4x!Region][k] = ecu.cells[Ms4x!Region][k]
        /\ ecu' = Ms4x!Programmed(c) => ecu'.cells[Ms4x!Region][s.chunk] = c
    <3>1. \A r \in Ms4x!Regions : r # Ms4x!Region =>
             Ms4x!Programmed(c).cells[r] = ecu.cells[r]
      BY <1>0, <1>1 DEF Ms4x!Programmed, Ms4x!Computers
    <3> QED
      BY <1>0, <1>1, <2>2, <3>1, MsPrograms
  <2>4. \A k \in 1 .. RegionChunks : k < s.chunk => ecu'.cells[Ms4x!Region][k] = "new"
    BY <1>0, <2>1, <2>3 DEF MsKept
  <2>5. CASE c = "new" /\ ecu' = Ms4x!Programmed("new") /\ Ms4x!ChunkDone
    <3>1. \A k \in 1 .. RegionChunks : k <= s.chunk => ecu'.cells[Ms4x!Region][k] = "new"
      BY <1>0, <2>3, <2>4, <2>5
    <3> QED
      BY <1>0, <2>1, <2>3, <2>5, <3>1, MsChunkKept
  <2>6. CASE s' = s /\ pc' \in {"readback", "handler"}
    <3>1. Ms4x!Region' = Ms4x!Region
      BY <2>6 DEF Ms4x!Region, Ms4x!Order
    <3>2. MsBefore'
      BY <1>0, <2>3, <2>6, MsElsewhere
    <3>3. MsKept'
      BY <1>0, <2>4, <2>6, <3>1, <3>2 DEF MsKept, MsPast, MsAfter, MsFirst, MsRegional
    <3> QED
      BY <1>0, <2>6, <3>3, MsGoesOn
  <2> QED
    BY <2>2, <2>5, <2>6
<1>3. CASE Ms4x!Readback
  <2>1. pc = "readback" /\ ecu' = ecu
    BY <1>3 DEF Ms4x!Readback
  <2>2. CASE Ms4x!Cell = "new" /\ Ms4x!ChunkDone
    <3>1. \A k \in 1 .. RegionChunks : k <= s.chunk => ecu'.cells[Ms4x!Region][k] = "new"
      BY <1>0, <2>1, <2>2 DEF MsKept, Ms4x!Cell
    <3> QED
      BY <1>0, <2>1, <2>2, <3>1, MsChunkKept
  <2>3. CASE \/ s' = [s EXCEPT !.tries = @ + 1] /\ pc' = "program"
             \/ /\ s' = [s EXCEPT !.repair_used = TRUE, !.repairing = TRUE, !.tries = 1]
                /\ pc' = "erase"
             \/ s' = s /\ pc' = "handler"
    <3>1. /\ s'.op = s.op /\ s'.i = s.i /\ s'.chunk = s.chunk /\ s'.route = s.route
          /\ s'.destructive_started /\ pc' \in {"program", "erase", "handler"}
      BY <1>0, <2>3 DEF Ms4x!Writes
    <3>2. MsKept'
      BY <1>0, <2>1, <3>1, MsStays DEF MsFirst, MsPast, MsAfter, MsRegional
    <3> QED
      BY <1>0, <3>1, <3>2, MsGoesOn
  <2> QED
    BY <1>3, <2>2, <2>3 DEF Ms4x!Readback, Ms4x!Raise
<1>4. CASE Ms4x!RepairVerify
  <2>1. CASE Ms4x!HoldsNew(Ms4x!Region) /\ Ms4x!RegionDone(s)
    <3>1. \A k \in 1 .. RegionChunks : ecu'.cells[Ms4x!Region][k] = "new"
      BY <1>4, <2>1 DEF Ms4x!RepairVerify, Ms4x!HoldsNew, Ms4x!Holding
    <3>2. ecu' = ecu
      BY <1>4 DEF Ms4x!RepairVerify
    <3> QED
      BY <1>0, <2>1, <3>1, <3>2, MsRegionKept
  <2>2. CASE Ms4x!Raise(s)
    <3>1. s' = s /\ pc' = "handler" /\ ecu' = ecu
      BY <1>4, <2>2 DEF Ms4x!RepairVerify, Ms4x!Raise
    <3> QED
      BY <1>0, <3>1, MsRaised
  <2> QED
    BY <1>4, <2>1, <2>2 DEF Ms4x!RepairVerify
<1> QED
  BY <1>2, <1>3, <1>4

LEMMA MsEndings ==
    ASSUME Ms4x!TypeOK, MsInv, MsKept,
           Ms4x!Verify \/ Ms4x!Boot \/ Ms4x!BootVerify \/ Ms4x!Leave \/ Ms4x!Finalize
    PROVE  MsDone
<1>0. /\ s \in Ms4x!Writes /\ ecu \in Ms4x!Computers
      /\ pc \in {"verify", "boot", "boot_verify", "leave", "finalize"}
      /\ UNCHANGED <<outcome, touched>>
      /\ outcome = "running" /\ touched /\ s.destructive_started
      /\ (s.op = "boot" => s.route # "stock") /\ MsMain
      /\ (pc \in {"leave", "finalize"} /\ s.op = "boot" => Ms4x!HoldsNew("boot"))
      /\ (pc = "verify" /\ s.route = "stock" => MsMarked)
  BY DEF Ms4x!TypeOK, MsKept, MsAfter, MsPast, Ms4x!Verify, Ms4x!Boot, Ms4x!BootVerify,
         Ms4x!Leave, Ms4x!Finalize, Ms4x!Stays
<1>1. ASSUME ecu'.cells = ecu.cells, s'.op = s.op, s'.i = s.i, s'.chunk = s.chunk,
             s'.destructive_started, s'.route = s.route, pc' \in MsAfter \cup {"handler"},
             pc' \in {"leave", "finalize", "conclude"} /\ s.op = "boot" =>
                Ms4x!HoldsNew("boot"),
             pc' = "conclude" \/ (pc' = "verify" /\ s.route = "stock") => MsMarked'
      PROVE  MsDone
  <2>1. MsKept'
    BY <1>0, <1>1, MsStays DEF MsFirst, MsPast, MsAfter, MsRegional
  <2> QED
    BY <1>0, <1>1, <2>1, MsGoesOn DEF MsAfter
<1>2. CASE Ms4x!Verify
  <2>1. /\ pc = "verify" /\ s' = s /\ ecu' = ecu
        /\ pc' \in {"handler", IF s.route = "stock" THEN "conclude" ELSE "boot"}
    BY <1>2 DEF Ms4x!Verify, Ms4x!Goto, Ms4x!Raise
  <2> QED
    BY <1>0, <1>1, <2>1 DEF MsAfter, MsMarked
<1>3. CASE Ms4x!Boot
  <2>1. CASE pc' # "erase"
    <3>1. /\ ecu' = ecu /\ s' = s /\ pc' \in {"leave", "finalize", "handler"}
          /\ pc' \in {"leave", "finalize"} /\ s.op = "boot" => Ms4x!HoldsNew("boot")
      BY <1>3, <2>1 DEF Ms4x!Boot, Ms4x!Goto, Ms4x!Raise, Ms4x!Finalizer
    <3> QED
      BY <1>0, <1>1, <2>1, <3>1 DEF MsAfter
  <2>2. CASE pc' = "erase"
    <3>1. /\ ecu' = ecu /\ s.op = "boot"
          /\ s' = [s EXCEPT !.i = 3, !.chunk = 1, !.tries = 1]
      BY <1>3, <2>2 DEF Ms4x!Boot, Ms4x!Goto, Ms4x!Raise, Ms4x!Finalizer
    <3>2. s'.op = "boot" /\ s'.i = 3 /\ s'.route = s.route /\ s'.destructive_started
      BY <1>0, <3>1 DEF Ms4x!Writes
    <3>3. MsBefore'
      BY <1>0, <3>1, <3>2 DEF MsBefore, MsMain, Ms4x!HoldsNew, Ms4x!Holding
    <3>4. MsKept'
      BY <1>0, <2>2, <3>1, <3>2, <3>3 DEF MsKept, MsPast, MsAfter, MsFirst, MsRegional
    <3> QED
      BY <1>0, <2>2, <3>1, <3>4, MsGoesOn
  <2> QED
    BY <2>1, <2>2
<1>4. CASE Ms4x!BootVerify
  <2>1. /\ s' = s /\ ecu' = ecu /\ pc' \in {"leave", "finalize", "handler"}
        /\ pc' # "handler" => Ms4x!HoldsNew("boot")
    BY <1>4 DEF Ms4x!BootVerify, Ms4x!Goto, Ms4x!Raise, Ms4x!Finalizer
  <2> QED
    BY <1>0, <1>1, <2>1 DEF MsAfter
<1>5. CASE Ms4x!Leave
  <2>1. ecu'.cells = ecu.cells /\ pc = "leave"
    BY <1>0, <1>5, MsRestartKeeps DEF Ms4x!Leave
  <2>2. \/ s' = [s EXCEPT !.active = FALSE, !.rate = TRUE] /\ pc' = "finalize"
        \/ s' = [s EXCEPT !.active = FALSE, !.rate = FALSE] /\ pc' = "handler"
    BY <1>5 DEF Ms4x!Leave, Ms4x!Raise
  <2>3. /\ s'.op = s.op /\ s'.i = s.i /\ s'.chunk = s.chunk /\ s'.route = s.route
        /\ s'.destructive_started
    BY <1>0, <2>2 DEF Ms4x!Writes
  <2> QED
    BY <1>0, <1>1, <2>1, <2>2, <2>3 DEF MsAfter
<1>6. CASE Ms4x!Finalize
  <2> DEFINE marked == [ecu EXCEPT !.marked = [r \in DOMAIN @ |-> TRUE]]
  <2>1. /\ marked.cells = ecu.cells
        /\ \A r \in DOMAIN marked.marked : marked.marked[r]
    BY <1>0 DEF Ms4x!Computers
  <2>2. /\ s' = s /\ pc = "finalize" /\ ecu' \in {ecu, marked}
        /\ pc' \in {"verify", "conclude", "handler"} /\ (pc' # "handler" => ecu' = marked)
    BY <1>6 DEF Ms4x!Finalize, Ms4x!Goto, Ms4x!Raise
  <2> HIDE DEF marked
  <2> QED
    BY <1>0, <1>1, <2>1, <2>2 DEF MsAfter, MsMarked
<1> QED
  BY <1>2, <1>3, <1>4, <1>5, <1>6

LEMMA MsPromised ==
    ASSUME Ms4x!TypeOK, MsInv, MsKept, Ms4x!Next PROVE MsDone
<1>0. s \in Ms4x!Writes /\ ecu \in Ms4x!Computers
  BY DEF Ms4x!TypeOK
<1>1. ASSUME NEW op \in {"tune", "full", "boot"}, NEW verify \in BOOLEAN, NEW ram \in BOOLEAN,
              NEW route \in Ms4x!Routes, Ms4x!Start(op, verify, ram, route)
      PROVE  MsDone
  <2>1. /\ pc = "idle" /\ pc' \in {"unlock", "enter"} /\ outcome' = "running"
        /\ touched' = FALSE /\ s'.i = 1 /\ s'.op = op /\ s'.route = route
        /\ (op = "boot" => route # "stock")
    BY <1>1 DEF Ms4x!Start, Ms4x!NewWrite
  <2>2. \A r \in Ms4x!Regions : Ms4x!Holding(ecu, r, {"old", "bad"})'
    <3>1. ecu'.cells = [r \in Ms4x!Regions |-> [k \in 1 .. RegionChunks |->
                          IF ecu.cells[r][k] \in {"old", "new"} THEN "old" ELSE "bad"]]
      BY <1>0, <1>1 DEF Ms4x!Start, Ms4x!Computers
    <3> QED
      BY <3>1 DEF Ms4x!Holding
  <2>3. MsKept'
    BY <2>1, <2>2 DEF MsKept, MsPast, MsAfter, MsRegional
  <2> QED
    BY <2>1, <2>3, MsContents DEF MsKept, MsDone, Moves
<1>2. CASE Ms4x!Conclude
  <2>1. /\ ecu'.cells = ecu.cells /\ ecu'.marked = ecu.marked
        /\ s'.op = s.op /\ touched' = touched /\ pc = "conclude" /\ pc' = "idle"
        /\ outcome' = "complete"
    BY <1>0, <1>2, MsRestartKeeps DEF Ms4x!Conclude, Ms4x!Report, Ms4x!NewWrite
  <2>2. Ms4x!Content' = Ms4x!Content
    BY <2>1, MsSame
  <2>3. MsKept'
    BY <2>1 DEF MsKept, MsPast, MsAfter, MsFirst, MsRegional, Ms4x!Holding
  <2> QED
    BY <2>1, <2>2, <2>3, MsContents DEF MsDone, Moves, MsKept
<1>3. CASE Ms4x!Handle \/ Ms4x!Exit
  <2>1. /\ ecu' = ecu /\ s'.op = s.op /\ touched' = touched /\ pc # "idle"
        /\ \/ /\ pc = "handler" /\ pc' = "held" /\ s' = s /\ s.destructive_started
              /\ outcome' = outcome
           \/ pc = "handler" /\ pc' = "idle" /\ outcome' = "not_started" /\ ~touched
           \/ pc' = "idle" /\ outcome' = "abandoned"
    BY <1>3 DEF Ms4x!Handle, Ms4x!Exit, Ms4x!Report, Ms4x!NewWrite, Ms4x!Goto, MsKept
  <2>2. Ms4x!Content' = Ms4x!Content
    BY <2>1, MsSame
  <2>3. MsKept'
    BY <2>1 DEF MsKept, MsPast, MsAfter, MsFirst, MsRegional, Ms4x!Holding
  <2> QED
    BY <2>1, <2>2, <2>3, MsContents DEF MsDone, Moves, MsKept
<1>4. CASE Ms4x!Retry
  <2>1. s' = [Ms4x!Begun EXCEPT !.i = 1, !.chunk = 1, !.tries = 1,
                                !.repair_used = FALSE, !.repairing = FALSE]
    BY <1>4 DEF Ms4x!Retry
  <2>2. s'.i = 1 /\ s'.op = s.op /\ s'.route = s.route /\ s'.destructive_started
    <3>1. /\ Ms4x!Begun \in Ms4x!Writes /\ Ms4x!Begun.destructive_started
          /\ Ms4x!Begun.op = s.op /\ Ms4x!Begun.route = s.route
      BY <1>0, MsBegun DEF Ms4x!Writes, Ms4x!Begun
    <3> QED
      BY <2>1, <3>1 DEF Ms4x!Writes
  <2>3. pc = "held" /\ pc' \in {"unlock", "enter"} /\ UNCHANGED <<ecu, outcome, touched>>
    BY <1>4 DEF Ms4x!Retry
  <2>4. Ms4x!Content' = Ms4x!Content
    BY <2>2, <2>3, MsSame
  <2>5. MsKept'
    BY <2>2, <2>3 DEF MsKept, MsPast, MsAfter, MsRegional, Ms4x!Holding
  <2> QED
    BY <2>3, <2>4, <2>5, MsContents DEF MsDone, Moves, MsKept
<1>5. CASE Ms4x!PowerOff
  <2>1. /\ ecu'.cells = ecu.cells /\ ecu'.marked = ecu.marked
        /\ UNCHANGED <<s, pc, outcome, touched>>
    BY <1>0, <1>5, MsRestartKeeps DEF Ms4x!PowerOff
  <2>2. Ms4x!Content' = Ms4x!Content
    BY <2>1, MsSame
  <2>3. MsMarked' = MsMarked
    BY <2>1 DEF MsMarked
  <2>4. MsKept'
    BY <2>1, <2>3, MsStays DEF MsKept
  <2> QED
    BY <2>1, <2>2, <2>4, MsContents DEF MsDone, Moves
<1> QED
  BY <1>1, <1>2, <1>3, <1>4, <1>5, MsEntries, MsInvalidates, MsErasesOn, MsPackets, MsEndings
     DEF Ms4x!Next, Ms4x!WorkerStep

\* What is retained has erased, and what is looked at has been programmed.
InstallErased == {"erase_boot", "program", "finalize", "verify", "retain", "held", "redeploy"}
InstallKept ==
    /\ pc = "idle" <=> outcome # "running"
    /\ pc \in InstallErased => touched
    /\ s.phase = "target" => touched
    /\ pc \in {"finalize", "verify"} => ecu.program = "target" /\ ecu.boot = "target"

LEMMA InstallEdits ==
    ASSUME Install!TypeOK
    PROVE  /\ Install!NewSession.phase = "bootstrap"
           /\ \A low \in BOOLEAN : [s EXCEPT !.low = low].phase = s.phase
           /\ \A only \in BOOLEAN : [s EXCEPT !.retry_only = only].phase = s.phase
           /\ \A mode \in {"normal", "armed", "waiting", "agent", "fast", "dead",
                           ecu.mode} :
                 /\ [ecu EXCEPT !.mode = mode].program = ecu.program
                 /\ [ecu EXCEPT !.mode = mode].boot = ecu.boot
           /\ Install!Rebooted(ecu).program = ecu.program
           /\ Install!Rebooted(ecu).boot = ecu.boot
<1>1. s \in Install!Sessions /\ ecu \in Install!Computers
  BY DEF Install!TypeOK
<1>2. /\ Install!Rebooted(ecu).program = ecu.program
      /\ Install!Rebooted(ecu).boot = ecu.boot
  BY <1>1 DEF Install!Computers, Install!Rebooted
<1> QED
  BY <1>1, <1>2 DEF Install!Sessions, Install!Computers, Install!NewSession

\* How a step of an installation goes on, or ends it.
InstallOn ==
    /\ pc \notin {"idle", "held"} /\ pc' \notin {"idle", "held"} /\ outcome' = outcome
    /\ (touched => touched') /\ (pc' \in InstallErased => touched')
    /\ s'.phase = "target" => touched'
    /\ pc' \in {"finalize", "verify"} => ecu'.program = "target" /\ ecu'.boot = "target"
InstallOver ==
    /\ pc # "idle" /\ pc' = "idle" /\ s'.phase = "bootstrap" /\ touched' = touched
    /\ ecu'.program = ecu.program /\ ecu'.boot = ecu.boot
    /\ \/ outcome' = IF touched THEN "abandoned" ELSE "not_started"
       \/ outcome' = "complete" /\ pc = "verify"
InstallDone ==
    InstallKept' /\ Moves(Install!Content, Install!Verdict, Install!Content', Install!Verdict')

LEMMA InstallContents ==
    ASSUME Install!TypeOK
    PROVE  /\ outcome \in {"none", "running", "not_started", "complete", "abandoned"}
           /\ Install!Content' \in {"kept", "torn", "target"}
           /\ (~touched => Install!Content = "kept") /\ (~touched' => Install!Content' = "kept")
           /\ (touched' => Install!Content' \in {"torn", "target"})
           /\ (touched /\ ecu.program = "target" /\ ecu.boot = "target" =>
                  Install!Content = "target")
           /\ (pc # "held" => Install!Verdict = outcome)
           /\ (pc' # "held" => Install!Verdict' = outcome')
           /\ (pc = "held" => Install!Verdict = "held")
           /\ (pc' = "held" => Install!Verdict' = "held")
           /\ ecu'.program = ecu.program /\ ecu'.boot = ecu.boot /\ touched' = touched
              => Install!Content' = Install!Content
<1>1. touched \in BOOLEAN /\ outcome \in {"none", "running", "not_started", "complete", "abandoned"}
  BY DEF Install!TypeOK
<1> QED
  BY <1>1 DEF Install!Verdict, Install!Content

LEMMA InstallGoesOn == ASSUME Install!TypeOK, InstallKept, InstallOn PROVE InstallDone
<1>1. InstallKept'
  BY DEF InstallOn, InstallKept
<1>2. Moves(Install!Content, Install!Verdict, Install!Content', Install!Verdict')
  BY InstallContents DEF InstallOn, InstallKept, Moves
<1> QED
  BY <1>1, <1>2 DEF InstallDone

LEMMA InstallEnds == ASSUME Install!TypeOK, InstallKept, InstallOver PROVE InstallDone
<1>1. InstallKept'
  BY DEF InstallOver, InstallKept, InstallErased
<1>2. Install!Content' = Install!Content
  BY InstallContents DEF InstallOver
<1>3. Moves(Install!Content, Install!Verdict, Install!Content', Install!Verdict')
  BY <1>2, InstallContents DEF InstallOver, InstallKept, InstallErased, Moves
<1> QED
  BY <1>1, <1>3 DEF InstallDone

LEMMA InstallStops ==
    ASSUME Install!TypeOK, InstallKept, Install!Stopped, pc # "idle", touched' = touched,
           ecu'.program = ecu.program, ecu'.boot = ecu.boot
    PROVE  InstallDone
<1>1. InstallOver
  BY InstallEdits DEF Install!Stopped, Install!Report, InstallOver
<1> QED
  BY <1>1, InstallEnds

\* What fails after an erase asks whether the installation is retained.
LEMMA InstallRetains ==
    ASSUME Install!TypeOK, InstallKept, NEW phase, NEW replay, Install!Retain(phase, replay),
           touched', pc \notin {"idle", "held"}
    PROVE  InstallDone
<1>1. InstallOn
  BY DEF Install!Retain, InstallOn
<1> QED
  BY <1>1, InstallGoesOn

LEMMA InstallPromised == ASSUME Install!TypeOK, InstallKept, Install!Next PROVE InstallDone
<1> DEFINE Labels == {"deploy", "reentry", "slow", "probe", "entry", "keycycle", "not_ready",
                      "entry_failed", "flash", "error"}
<1>1. ASSUME pc \notin {"idle", "held"}, pc' \in Labels, outcome' = outcome,
             touched => touched', s'.phase = s.phase
      PROVE  InstallDone
  <2>1. InstallOn
    BY <1>1 DEF InstallOn, InstallKept, InstallErased
  <2> QED
    BY <2>1, InstallGoesOn
<1>2. CASE Install!Start
  <2>1. pc = "idle" /\ s'.phase = "bootstrap" /\ pc' = "preflight" /\ outcome' = "running"
        /\ touched' = FALSE
    BY <1>2, InstallEdits DEF Install!Start
  <2>2. InstallKept'
    BY <2>1 DEF InstallKept, InstallErased
  <2> QED
    BY <2>1, <2>2, InstallContents DEF InstallKept, InstallDone, Moves
<1>3. CASE Install!Preflight
  BY <1>1, <1>3, InstallStops DEF Install!Preflight, Install!Goto
<1>4. CASE Install!DeployFast
  <2>1. CASE pc' \in {"keycycle", "error"} /\ UNCHANGED <<s, outcome>>
    BY <1>1, <1>4, <2>1 DEF Install!DeployFast
  <2>2. CASE \E replay \in Install!Replays : Install!Retain("bootstrap", replay)
    BY <1>4, <2>2, InstallRetains DEF Install!DeployFast
  <2> QED
    BY <1>4, <2>1, <2>2 DEF Install!DeployFast, Install!Goto
<1>5. CASE Install!DeployNotStarted
  <2>1. ecu'.program = ecu.program /\ ecu'.boot = ecu.boot /\ pc = "deploy" /\ touched' = touched
    BY <1>5, InstallEdits DEF Install!DeployNotStarted
  <2>2. CASE Install!Stopped
    BY <2>1, <2>2, InstallStops
  <2>3. CASE pc' \in {"reentry", "slow"} /\ UNCHANGED <<s, outcome>>
    BY <1>1, <2>1, <2>3
  <2> QED
    BY <1>5, <2>2, <2>3 DEF Install!DeployNotStarted, Install!Goto
<1>6. CASE Install!DeploySlow
  <2>1. CASE UNCHANGED <<ecu, touched>> /\ Install!Stopped
    BY <1>6, <2>1, InstallStops DEF Install!DeploySlow
  <2>2. CASE touched' = TRUE /\ pc' \in {"keycycle", "error"} /\ UNCHANGED <<s, outcome>>
    BY <1>1, <1>6, <2>2 DEF Install!DeploySlow
  <2> QED
    BY <1>6, <2>1, <2>2 DEF Install!DeploySlow, Install!Goto
<1>7. CASE Install!Redeploy
  <2>1. pc = "redeploy" /\ touched' = touched /\ touched
    BY <1>7 DEF Install!Redeploy, InstallKept, InstallErased
  <2>2. CASE pc' = "keycycle" /\ UNCHANGED <<s, outcome>>
    BY <1>1, <2>1, <2>2
  <2>3. CASE \E replay \in Install!Replays : Install!Retain("bootstrap", replay)
    BY <2>1, <2>3, InstallRetains
  <2> QED
    BY <1>7, <2>2, <2>3 DEF Install!Redeploy, Install!Goto
<1>8. CASE Install!Probe
  BY <1>1, <1>8, InstallStops DEF Install!Probe, Install!Goto
<1>9. CASE Install!Entry
  <2>1. pc = "entry" /\ UNCHANGED <<outcome, touched>> /\ pc' \in {"entry", "flash", "entry_failed"}
        /\ s'.phase = s.phase
    BY <1>9, InstallEdits DEF Install!Entry, Install!Goto, Install!Stays
  <2> QED
    BY <1>1, <2>1
<1>10. CASE Install!FlashNotStarted
  <2>1. ecu'.program = ecu.program /\ ecu'.boot = ecu.boot /\ pc = "flash"
        /\ touched' = touched /\ Install!Stopped
    BY <1>10, InstallEdits DEF Install!FlashNotStarted
  <2> QED
    BY <2>1, InstallStops
<1>11. CASE Install!EraseProgram
  <2>1. InstallOn
    BY <1>11 DEF Install!EraseProgram, InstallOn
  <2> QED
    BY <2>1, InstallGoesOn
<1>12. CASE Install!EraseBoot
  <2>1. InstallOn
    BY <1>12 DEF Install!EraseBoot, Install!Goto, Install!Stays, InstallOn, InstallKept,
                 InstallErased
  <2> QED
    BY <2>1, InstallGoesOn
<1>13. CASE Install!ProgramTarget
  <2>1. ecu'.program = "target" /\ ecu'.boot = "target"
    BY <1>13 DEF Install!ProgramTarget, Install!TypeOK, Install!Computers
  <2>2. InstallOn
    BY <1>13, <2>1 DEF Install!ProgramTarget, Install!Goto, Install!Stays, InstallOn,
                       InstallKept, InstallErased
  <2> QED
    BY <2>2, InstallGoesOn
<1>14. CASE Install!FlashFails
  <2>1. pc \in {"flash", "erase_boot", "program"} /\ touched
    BY <1>14 DEF Install!FlashFails, InstallKept, InstallErased
  <2>2. touched' = touched
        /\ \E replay : Install!Retain("target", replay)
    BY <1>14 DEF Install!FlashFails
  <2> QED
    BY <2>1, <2>2, InstallRetains
<1>15. CASE Install!Finalize
  <2>1. ecu'.program = ecu.program /\ ecu'.boot = ecu.boot
    BY <1>15, InstallEdits DEF Install!Finalize
  <2>2. InstallOn
    BY <1>15, <2>1 DEF Install!Finalize, Install!Goto, Install!Stays, InstallOn,
                       InstallKept, InstallErased
  <2> QED
    BY <2>2, InstallGoesOn
<1>16. CASE Install!VerifyInstall
  <2>1. CASE Install!Stopped
    BY <1>16, <2>1, InstallStops DEF Install!VerifyInstall
  <2>2. CASE Install!Report("complete")
    <3>1. InstallOver
      BY <1>16, <2>2, InstallEdits DEF Install!VerifyInstall, Install!Report, InstallOver
    <3> QED
      BY <3>1, InstallEnds
  <2> QED
    BY <1>16, <2>1, <2>2 DEF Install!VerifyInstall
<1>17. CASE Install!Handle
  <2>1. CASE pc = "error" /\ Install!Stopped
    BY <1>17, <2>1, InstallStops DEF Install!Handle
  <2>2. CASE pc = "retain" /\ pc' = "held" /\ UNCHANGED <<ecu, s, outcome, touched>>
    <3>1. InstallKept'
      BY <2>2 DEF InstallKept, InstallErased
    <3> QED
      BY <2>2, <3>1, InstallContents DEF InstallKept, InstallDone, Moves
  <2> QED
    BY <1>17, <2>1, <2>2 DEF Install!Handle, Install!Goto
<1>18. CASE Install!AnswerReentry
  <2>1. CASE Install!Stopped
    BY <1>18, <2>1, InstallStops DEF Install!AnswerReentry
  <2>2. CASE pc' = "deploy" /\ s'.phase = s.phase /\ outcome' = outcome
    BY <1>1, <1>18, <2>2 DEF Install!AnswerReentry
  <2> QED
    BY <1>18, <2>1, <2>2, InstallEdits DEF Install!AnswerReentry
<1>19. CASE Install!Continue
  BY <1>1, <1>19 DEF Install!Continue, Install!Goto, Install!Stays
<1>20. CASE Install!AnswerNotReady
  BY <1>1, <1>20, InstallStops DEF Install!AnswerNotReady, Install!Goto
<1>21. CASE Install!AnswerEntryFailed
  <2>1. CASE Install!Stopped
    BY <1>21, <2>1, InstallStops DEF Install!AnswerEntryFailed
  <2>2. CASE pc' = "keycycle" /\ s'.phase = s.phase /\ outcome' = outcome
    BY <1>1, <1>21, <2>2 DEF Install!AnswerEntryFailed
  <2> QED
    BY <1>21, <2>1, <2>2, InstallEdits DEF Install!AnswerEntryFailed, Install!AfterEntryFailure
<1>22. CASE Install!Retry
  <2>1. pc = "held" /\ pc' \in {"redeploy", "flash"} /\ UNCHANGED <<ecu, s, outcome, touched>>
    BY <1>22 DEF Install!Retry, Install!Goto, Install!Stays
  <2>2. InstallKept'
    BY <2>1 DEF InstallKept, InstallErased
  <2> QED
    BY <2>1, <2>2, InstallContents DEF InstallKept, InstallDone, Moves
<1>23. CASE Install!Exit
  <2>1. CASE pc # "held"
    BY <1>23, <2>1, InstallStops DEF Install!Exit
  <2>2. CASE pc = "held"
    BY <1>23, <2>2, InstallStops DEF Install!Exit
  <2> QED
    BY <2>1, <2>2
<1>24. CASE Install!Ignition
  <2>1. ecu'.program = ecu.program /\ ecu'.boot = ecu.boot
        /\ UNCHANGED <<s, pc, outcome, touched>>
    BY <1>24, InstallEdits DEF Install!Ignition
  <2>2. InstallKept'
    BY <2>1 DEF InstallKept
  <2>3. Install!Content' = Install!Content /\ Install!Verdict' = Install!Verdict
    BY <2>1, InstallContents DEF Install!Verdict
  <2> QED
    BY <2>2, <2>3 DEF InstallDone, Moves
<1> QED
  BY <1>2, <1>3, <1>4, <1>5, <1>6, <1>7, <1>8, <1>9, <1>10, <1>11, <1>12, <1>13, <1>14,
     <1>15, <1>16, <1>17, <1>18, <1>19, <1>20, <1>21, <1>22, <1>23, <1>24
     DEF Install!Next, Install!WorkerStep, Install!Phase1, Install!Phase2

\* What was got was read in this operation, and a result is all of it.
ReadKept ==
    /\ pc = "idle" <=> outcome # "running"
    /\ pc # "idle" /\ s.got # 0 => touched
    /\ pc = "result" => s.got = Read!Size
ReadDone ==
    ReadKept' /\ Moves(Read!Content, Read!Verdict, Read!Content', Read!Verdict')

LEMMA ReadContents ==
    ASSUME Read!TypeOK
    PROVE  /\ outcome \in {"none", "running", "not_started", "complete", "abandoned"}
           /\ Read!Content' \in {"kept", "torn", "target"}
           /\ (~touched => Read!Content = "kept") /\ (~touched' => Read!Content' = "kept")
           /\ (touched' => Read!Content' \in {"torn", "target"})
           /\ (touched /\ s.got = Read!Size => Read!Content = "target")
           /\ Read!Verdict = outcome /\ Read!Verdict' = outcome'
           /\ s'.got = s.got /\ s'.kind = s.kind => Read!Size' = Read!Size
           /\ s'.got = s.got /\ s'.kind = s.kind /\ touched' = touched
              => Read!Content' = Read!Content
<1>1. touched \in BOOLEAN /\ outcome \in {"none", "running", "not_started", "complete", "abandoned"}
  BY DEF Read!TypeOK
<1>2. s'.got = s.got /\ s'.kind = s.kind => Read!Size' = Read!Size
  BY DEF Read!Size
<1> QED
  BY <1>1, <1>2 DEF Read!Verdict, Read!Content

\* A step that reads nothing, and one that ends the operation.
LEMMA ReadGoesOn ==
    ASSUME Read!TypeOK, ReadKept, pc # "idle", pc' # "idle", outcome' = outcome,
           touched' = touched, s'.got = s.got, s'.kind = s.kind,
           pc' = "result" => s.got = Read!Size
    PROVE  ReadDone
<1>1. ReadKept'
  BY ReadContents DEF ReadKept
<1> QED
  BY <1>1, ReadContents DEF ReadKept, ReadDone, Moves

LEMMA ReadEnds ==
    ASSUME Read!TypeOK, ReadKept, pc # "idle", pc' = "idle",
           outcome' = IF touched THEN "abandoned" ELSE "not_started",
           touched' = touched, s'.got = s.got, s'.kind = s.kind
    PROVE  ReadDone
<1>1. ReadKept'
  BY DEF ReadKept
<1> QED
  BY <1>1, ReadContents DEF ReadKept, ReadDone, Moves

LEMMA ReadPromised == ASSUME Read!TypeOK, ReadInv, ReadKept, Read!Next PROVE ReadDone
<1>0. s \in Read!Sessions /\ Blocks \in Nat \ {0}
  BY BlocksCount DEF Read!TypeOK
<1>1. CASE Read!Start
  <2>1. pc = "idle" /\ pc' = "begin" /\ s'.got = 0 /\ outcome' = "running" /\ touched' = FALSE
    BY <1>1 DEF Read!Start, Read!NewSession
  <2>2. ReadKept'
    BY <2>1 DEF ReadKept
  <2> QED
    BY <2>1, <2>2, ReadContents DEF ReadKept, ReadDone, Moves
<1>2. CASE Read!Begin \/ Read!AwaitReentry \/ Read!SwitchUp \/ Read!Liveness
  <2>1. s'.got = s.got /\ s'.kind = s.kind
    <3>1. CASE Read!Begin
      BY <1>0, <3>1 DEF Read!Begin, Read!Raise, Read!Goto, Read!Sessions
    <3>2. CASE Read!AwaitReentry
      BY <1>0, <3>2 DEF Read!AwaitReentry, Read!Raise, Read!Goto, Read!Sessions
    <3>3. CASE Read!SwitchUp
      BY <1>0, <3>3 DEF Read!SwitchUp, Read!Sessions
    <3>4. CASE Read!Liveness
      BY <1>0, <3>4 DEF Read!Liveness, Read!Goto, Read!Sessions
    <3> QED
      BY <1>2, <3>1, <3>2, <3>3, <3>4
  <2>2. /\ pc \in {"begin", "reentry", "up", "liveness"} /\ UNCHANGED <<outcome, touched>>
        /\ pc' \in {"reentry", "up", "liveness", "read", "raise"}
    BY <1>2 DEF Read!Begin, Read!AwaitReentry, Read!SwitchUp, Read!Liveness, Read!Raise,
                Read!Goto, Read!Same
  <2> QED
    BY <2>1, <2>2, ReadGoesOn
<1>3. CASE Read!SelectLow \/ Read!BareBmw \/ Read!LowReady \/ Read!Recover \/ Read!Probe
           \/ Read!Close
  <2>1. s'.got = s.got /\ s'.kind = s.kind
    <3>1. CASE Read!SelectLow
      BY <1>0, <3>1 DEF Read!SelectLow, Read!Goto, Read!Sessions
    <3>2. CASE Read!BareBmw
      BY <1>0, <3>2 DEF Read!BareBmw, Read!Goto, Read!Sessions
    <3>3. CASE Read!LowReady
      BY <1>0, <3>3 DEF Read!LowReady, Read!Raise, Read!Goto, Read!Sessions
    <3>4. CASE Read!Recover
      BY <1>0, <3>4 DEF Read!Recover, Read!Sessions
    <3>5. CASE Read!Probe
      BY <1>0, <3>5 DEF Read!Probe, Read!Sessions
    <3>6. CASE Read!Close
      BY <1>0, <3>6 DEF Read!Close, Read!Sessions
    <3> QED
      BY <1>3, <3>1, <3>2, <3>3, <3>4, <3>5, <3>6
  <2>2. /\ pc \in {"select_low", "bare", "low_ready", "raise", "probe", "close"}
        /\ UNCHANGED <<outcome, touched>>
    BY <1>3 DEF Read!SelectLow, Read!BareBmw, Read!LowReady, Read!Recover, Read!Probe,
                Read!Close, Read!Raise, Read!Same
  <2>3. pc' \in {"bare", "raise", "low_ready", "close", "probe", "select_low", "reopen"}
    BY <1>3 DEF Read!SelectLow, Read!BareBmw, Read!LowReady, Read!Recover, Read!Probe,
                Read!Close, Read!Raise, Read!Goto
  <2> QED
    BY <2>1, <2>2, <2>3, ReadGoesOn
<1>4. CASE Read!ReadBlock
  <2>1. CASE Read!Raise
    BY <1>4, <2>1, ReadGoesOn DEF Read!ReadBlock, Read!Raise, Read!Goto, Read!Same
  <2>2. CASE ~Read!Raise
    <3>1. pc = "read" /\ pc' \in {"select_low", "read"} /\ touched' = TRUE /\ outcome' = outcome
      BY <1>4, <2>2 DEF Read!ReadBlock
    <3>2. ReadKept'
      BY <3>1 DEF ReadKept
    <3> QED
      BY <3>1, <3>2, ReadContents DEF ReadKept, ReadDone, Moves
  <2> QED
    BY <2>1, <2>2
<1>5. CASE Read!Reopen
  <2>1. CASE Read!Succeeded /\ Read!Goto("result") /\ UNCHANGED outcome
    BY <1>5, <2>1, ReadGoesOn DEF Read!Reopen, Read!Succeeded, Read!Goto
  <2>2. CASE s' = [s EXCEPT !.got = 0] /\ pc' = "slow" /\ UNCHANGED outcome
    <3>1. s'.got = 0 /\ pc = "reopen" /\ touched' = touched
      BY <1>0, <1>5, <2>2 DEF Read!Reopen, Read!Sessions
    <3>2. ReadKept'
      BY <2>2, <3>1 DEF ReadKept
    <3> QED
      BY <2>2, <3>1, <3>2, ReadContents DEF ReadKept, ReadDone, Moves
  <2>3. CASE outcome' = (IF touched THEN "abandoned" ELSE "not_started") /\ Read!Goto("idle")
    BY <1>5, <2>3, ReadEnds DEF Read!Reopen, Read!Goto
  <2> QED
    BY <1>5, <2>1, <2>2, <2>3 DEF Read!Reopen
<1>6. CASE Read!SlowBlock
  <2>1. CASE pc' = "idle"
    BY <1>6, <2>1, ReadEnds DEF Read!SlowBlock, Read!Goto
  <2>2. CASE pc' # "idle"
    <3>1. /\ pc = "slow" /\ pc' = IF s.got + 1 = Read!Size THEN "result" ELSE "slow"
          /\ touched' = TRUE /\ outcome' = outcome /\ s' = [s EXCEPT !.got = @ + 1]
      BY <1>6, <2>2 DEF Read!SlowBlock, Read!Goto
    <3>2. s'.got = s.got + 1 /\ s'.kind = s.kind
      BY <1>0, <3>1 DEF Read!Sessions
    <3>3. Read!Size' = Read!Size
      BY <3>2 DEF Read!Size
    <3>4. ReadKept'
      BY <3>1, <3>2, <3>3 DEF ReadKept
    <3> QED
      BY <3>1, <3>4, ReadContents DEF ReadKept, ReadDone, Moves
  <2> QED
    BY <2>1, <2>2
<1>7. CASE Read!Return
  <2>1. pc = "result" /\ pc' = "idle" /\ outcome' = "complete" /\ s' = s /\ touched' = touched
    BY <1>7 DEF Read!Return, Read!Goto
  <2>2. Read!Size \in Nat \ {0}
    BY <1>0 DEF Read!Size
  <2>3. touched /\ s.got = Read!Size
    BY <2>1, <2>2 DEF ReadKept
  <2>4. ReadKept'
    BY <2>1 DEF ReadKept
  <2> QED
    BY <2>1, <2>3, <2>4, ReadContents DEF ReadKept, ReadDone, Moves
<1>8. CASE Read!Exit
  <2>1. s'.got = s.got /\ s'.kind = s.kind /\ touched' = touched /\ pc' = "idle"
    BY <1>0, <1>8 DEF Read!Exit, Read!Sessions
  <2>2. CASE pc # "idle"
    BY <1>8, <2>1, <2>2, ReadEnds DEF Read!Exit
  <2>3. CASE pc = "idle"
    <3>1. ReadKept' /\ outcome' = outcome
      BY <1>8, <2>1, <2>3 DEF Read!Exit, ReadKept
    <3> QED
      BY <2>1, <3>1, ReadContents DEF ReadDone, Moves
  <2> QED
    BY <2>2, <2>3
<1>9. CASE Read!Ignition \/ Read!LatchReady
  <2>1. s'.got = s.got /\ s'.kind = s.kind /\ UNCHANGED <<pc, outcome, touched>>
    BY <1>0, <1>9 DEF Read!Ignition, Read!LatchReady, Read!Sessions
  <2>2. ReadKept'
    BY <2>1, ReadContents DEF ReadKept
  <2> QED
    BY <2>1, <2>2, ReadContents DEF ReadDone, Moves
<1> QED
  BY <1>1, <1>2, <1>3, <1>4, <1>5, <1>6, <1>7, <1>8, <1>9
     DEF Read!Next, Read!WorkerStep, Read!Session, Read!Lowering

\* Nothing is changed before the first write; a write that is left, or read back, has
\* written what it is for.
EepromKept ==
    /\ pc = "idle" <=> outcome # "running"
    /\ pc \in {"enter", "capture", "confirm"} => ~touched
    /\ pc = "readback" => touched
    /\ pc = "quit" /\ touched => ecu.image = s.target

LEMMA EepromKeepsOn == ASSUME Eeprom!TypeOK, EepromKept, Eeprom!Next PROVE EepromKept'
<1>1. CASE \E op \in Eeprom!Ops : Eeprom!Start(op)
  BY <1>1 DEF Eeprom!Start, EepromKept
<1>2. CASE Eeprom!Enter
  BY <1>2 DEF Eeprom!Enter, Eeprom!Goto, Eeprom!Report, EepromKept
<1>3. CASE Eeprom!Capture
  <2>1. pc = "capture" /\ ~touched /\ outcome = "running"
    BY <1>3 DEF Eeprom!Capture, EepromKept
  <2>2. ASSUME touched'
        PROVE  pc' = "quit" /\ outcome' = outcome /\ ecu'.image = s'.target
    <3>1. ecu' = ecu /\ s' = s /\ pc' = "quit" /\ outcome' = outcome
          /\ (s.op # "seed" => Eeprom!Plan(ecu.image, s.target) = <<>>)
          /\ s.op # "seed"
      BY <1>3, <2>1, <2>2 DEF Eeprom!Capture, Eeprom!Stays, Eeprom!Goto
    <3>2. ecu.image = s.target
      BY <3>1, EepromTyped, EepromPlans
    <3> QED
      BY <3>1, <3>2
  <2>3. \/ pc' = "confirm" /\ outcome' = outcome
        \/ pc' = "idle" /\ outcome' = "not_started"
        \/ pc' = "quit" /\ outcome' = outcome
    BY <1>3 DEF Eeprom!Capture, Eeprom!Fail, Eeprom!Goto, Eeprom!Report, Eeprom!Stays
  <2> QED
    BY <2>1, <2>2, <2>3 DEF EepromKept
<1>4. CASE Eeprom!Confirm
  BY <1>4 DEF Eeprom!Confirm, Eeprom!Fail, Eeprom!Goto, Eeprom!Report, EepromKept
<1>5. CASE Eeprom!WriteByte
  <2>1. /\ pc = "write" /\ outcome' = outcome
        /\ \/ pc' \in {"readback", "write"} /\ touched' = TRUE
           \/ pc' = "failed"
    BY <1>5 DEF Eeprom!WriteByte, Eeprom!Goto
  <2> QED
    BY <2>1 DEF EepromKept
<1>6. CASE Eeprom!Readback
  BY <1>6 DEF Eeprom!Readback, Eeprom!Succeed, Eeprom!Goto, Eeprom!Report, EepromKept
<1>7. CASE Eeprom!Failed
  BY <1>7 DEF Eeprom!Failed, Eeprom!Report, EepromKept
<1>8. CASE Eeprom!Quit
  BY <1>8 DEF Eeprom!Quit, Eeprom!Succeed, Eeprom!Report, EepromKept
<1>9. CASE Eeprom!Query
  BY <1>9 DEF Eeprom!Query, Eeprom!Goto, EepromKept
<1>10. CASE Eeprom!Resolve \/ Eeprom!Release \/ Eeprom!ReadChip
  BY <1>10 DEF Eeprom!Resolve, Eeprom!Release, Eeprom!ReadChip, Eeprom!Goto, Eeprom!Report,
               EepromKept
<1>11. CASE Eeprom!Exit
  BY <1>11 DEF Eeprom!Exit, Eeprom!Report, EepromKept
<1>12. CASE Eeprom!PowerOff
  <2>1. ecu'.image = ecu.image
    BY <1>12 DEF Eeprom!PowerOff, Eeprom!TypeOK, Eeprom!Computers
  <2> QED
    BY <1>12, <2>1 DEF Eeprom!PowerOff, EepromKept
<1> QED
  BY <1>1, <1>2, <1>3, <1>4, <1>5, <1>6, <1>7, <1>8, <1>9, <1>10, <1>11, <1>12
     DEF Eeprom!Next, Eeprom!WorkerStep

LEMMA EepromPromised ==
    ASSUME Eeprom!TypeOK, EepromInv, EepromKept, EepromKept', Eeprom!Next
    PROVE  Moves(Eeprom!Content, Eeprom!Verdict, Eeprom!Content', Eeprom!Verdict')
<1> DEFINE Still == ecu'.image = ecu.image /\ s'.target = s.target /\ touched' = touched
<1>0. /\ outcome \in {"none", "running", "not_started", "complete", "abandoned"}
      /\ Eeprom!Content' \in {"kept", "torn", "target"} /\ (~touched => Eeprom!Content = "kept")
      /\ (~touched' => Eeprom!Content' = "kept")
      /\ (touched' => Eeprom!Content' \in {"torn", "target"})
      /\ (touched /\ ecu.image = s.target => Eeprom!Content = "target")
      /\ (pc # "held" => Eeprom!Verdict = outcome) /\ (pc' # "held" => Eeprom!Verdict' = outcome')
      /\ (pc = "held" => Eeprom!Verdict = "held") /\ (pc' = "held" => Eeprom!Verdict' = "held")
  BY DEF Eeprom!TypeOK, Eeprom!Verdict, Eeprom!Content
<1>1. Still => Eeprom!Content' = Eeprom!Content
  BY DEF Eeprom!Content
<1>2. s \in Eeprom!Sessions /\ ecu \in Eeprom!Computers
  BY DEF Eeprom!TypeOK
<1>3. UNCHANGED ecu \/ (\E agent \in BOOLEAN : ecu' = [ecu EXCEPT !.agent = agent])
      => ecu'.image = ecu.image
  BY <1>2 DEF Eeprom!Computers
<1>4. ASSUME NEW what, NEW sess \in Eeprom!Sessions, sess.target = s.target,
             Eeprom!Report(what, sess)
      PROVE  s'.target = s.target /\ pc' = "idle" /\ outcome' = what
  BY <1>4 DEF Eeprom!Report, Eeprom!Sessions
<1> HIDE DEF Still
\* Steps of a running operation that does not rest.
<1>5. ASSUME pc \notin {"idle", "held"}, pc' # "held", outcome' = outcome, touched => touched'
      PROVE  Moves(Eeprom!Content, Eeprom!Verdict, Eeprom!Content', Eeprom!Verdict')
  BY <1>0, <1>5 DEF Moves, EepromKept
<1>6. CASE \E op \in Eeprom!Ops : Eeprom!Start(op)
  BY <1>0, <1>6 DEF Eeprom!Start, Moves, EepromKept
<1>7. ASSUME pc \notin {"idle", "held"}, ~touched, ~touched', pc' = "idle",
             outcome' = "not_started"
      PROVE  Moves(Eeprom!Content, Eeprom!Verdict, Eeprom!Content', Eeprom!Verdict')
  BY <1>0, <1>7 DEF Moves, EepromKept
<1>8. ASSUME pc \notin {"idle", "held"}, touched, ecu.image = s.target, Still, pc' = "idle",
             outcome' = "complete"
      PROVE  Moves(Eeprom!Content, Eeprom!Verdict, Eeprom!Content', Eeprom!Verdict')
  BY <1>0, <1>1, <1>8 DEF Moves, EepromKept
<1>9. ASSUME pc # "idle", Still, pc' = "idle", outcome' = "abandoned"
      PROVE  Moves(Eeprom!Content, Eeprom!Verdict, Eeprom!Content', Eeprom!Verdict')
  BY <1>0, <1>1, <1>9 DEF Moves, EepromKept
<1>10. CASE Eeprom!Enter
  BY <1>5, <1>7, <1>10 DEF Eeprom!Enter, Eeprom!Goto, Eeprom!Report, EepromKept
<1>11. CASE Eeprom!Capture \/ Eeprom!Confirm
  <2>1. pc \in {"capture", "confirm"} /\ ~touched /\ outcome = "running"
    BY <1>11 DEF Eeprom!Capture, Eeprom!Confirm, EepromKept
  <2>2. \/ pc' \in {"confirm", "write", "quit"} /\ outcome' = outcome
        \/ pc' = "idle" /\ outcome' = "not_started" /\ touched' = touched
    BY <1>11 DEF Eeprom!Capture, Eeprom!Confirm, Eeprom!Fail, Eeprom!Goto, Eeprom!Report,
                 Eeprom!Stays
  <2> QED
    BY <1>5, <1>7, <2>1, <2>2
<1>12. CASE Eeprom!WriteByte
  <2>1. /\ pc = "write" /\ outcome' = outcome /\ pc' \in {"readback", "write", "failed"}
        /\ touched => touched'
    BY <1>12 DEF Eeprom!WriteByte, Eeprom!Goto
  <2> QED
    BY <1>5, <2>1
<1>13. CASE Eeprom!Readback
  <2>1. \/ pc' \in {"quit", "failed"} /\ outcome' = outcome
        \/ ecu.image = s.target /\ Eeprom!Succeed
    BY <1>13 DEF Eeprom!Readback, Eeprom!Goto
  <2>2. pc = "readback" /\ touched /\ touched' = touched /\ ecu' = ecu
    BY <1>13 DEF Eeprom!Readback, EepromKept
  <2>3. ASSUME Eeprom!Succeed
        PROVE  s'.target = s.target /\ pc' = "idle" /\ outcome' = "complete"
    BY <2>3, EepromSucceeds
  <2> QED
    BY <1>5, <1>8, <2>1, <2>2, <2>3 DEF Still
<1>14. CASE Eeprom!Failed
  <2>1. pc = "failed" /\ ecu' = ecu /\ touched' = touched
    BY <1>14 DEF Eeprom!Failed
  <2>2. CASE pc' = "held" /\ UNCHANGED <<s, outcome>>
    BY <1>0, <1>1, <2>1, <2>2 DEF Moves, EepromKept, Still
  <2>3. CASE s'.target = s.target /\ pc' = "idle" /\ outcome' = "abandoned"
    BY <1>9, <2>1, <2>3 DEF Still
  <2>4. \/ pc' = "held" /\ UNCHANGED <<s, outcome>>
        \/ s'.target = s.target /\ pc' = "idle" /\ outcome' = "abandoned"
    BY <1>2, <1>14 DEF Eeprom!Failed, Eeprom!Report, Eeprom!Sessions
  <2> QED
    BY <2>2, <2>3, <2>4
<1>15. CASE Eeprom!Quit
  <2>1. pc = "quit" /\ touched' = touched /\ ecu'.image = ecu.image
    BY <1>3, <1>15 DEF Eeprom!Quit, Eeprom!Restarted
  <2>2. /\ s'.target = s.target /\ pc' = "idle"
        /\ outcome' = IF touched THEN "complete" ELSE "not_started"
    BY <1>2, <1>4, <1>15, EepromSucceeds DEF Eeprom!Quit
  <2> QED
    BY <1>7, <1>8, <2>1, <2>2 DEF Still, EepromKept
<1>16. CASE Eeprom!Query
  <2>1. pc = "query" /\ touched' = touched /\ outcome' = outcome
    BY <1>16 DEF Eeprom!Query
  <2>2. pc' \in {"quit", "write", "failed"}
    BY <1>16 DEF Eeprom!Query, Eeprom!Goto
  <2> QED
    BY <1>5, <2>1, <2>2
<1>17. CASE Eeprom!Resolve
  BY <1>0, <1>1, <1>17 DEF Eeprom!Resolve, Eeprom!Goto, Moves, EepromKept, Still
<1>18. CASE Eeprom!Release
  BY <1>2, <1>3, <1>4, <1>9, <1>18 DEF Eeprom!Release, Still
<1>19. CASE Eeprom!ReadChip
  <2>1. pc = "idle" /\ pc' = pc /\ outcome' = outcome /\ touched' = touched
        /\ ecu'.image = ecu.image
    BY <1>3, <1>19 DEF Eeprom!ReadChip, Eeprom!Chip
  <2>2. s'.target = s.target
    BY <1>2, <1>19 DEF Eeprom!ReadChip, Eeprom!Remember, Eeprom!Sessions
  <2> QED
    BY <1>0, <1>1, <2>1, <2>2 DEF Moves, Still
<1>20. CASE Eeprom!Exit
  <2>1. s'.target = s.target /\ ecu' = ecu /\ touched' = touched /\ pc' = "idle"
        /\ outcome' = IF outcome = "running" THEN "abandoned" ELSE outcome
    BY <1>2, <1>20 DEF Eeprom!Exit, Eeprom!Report, Eeprom!Sessions
  <2> QED
    BY <1>0, <1>1, <1>9, <2>1 DEF Moves, Still, EepromKept
<1>21. CASE Eeprom!PowerOff
  <2>1. ecu'.image = ecu.image /\ UNCHANGED <<s, pc, outcome, touched>>
    BY <1>3, <1>21 DEF Eeprom!PowerOff
  <2> QED
    BY <1>0, <1>1, <2>1 DEF Moves, Still
<1> QED
  BY <1>6, <1>10, <1>11, <1>12, <1>13, <1>14, <1>15, <1>16, <1>17, <1>18, <1>19, <1>20, <1>21
     DEF Eeprom!Next, Eeprom!WorkerStep

\* A write that began has not erased before its erase and has after it.
BslKept ==
    /\ pc = "idle" <=> outcome # "running"
    /\ pc \in {"start", "guard"} => ~touched
    /\ pc \in {"program", "verify"} => touched

LEMMA BslKeepsOn == ASSUME BslKept, Bsl!Next PROVE BslKept'
<1>1. CASE Bsl!Preview \/ Bsl!Rearm
  BY <1>1 DEF Bsl!Preview, Bsl!Rearm, Bsl!Goto, BslKept
<1>2. CASE Bsl!StartMonitor \/ Bsl!Guard
  BY <1>2 DEF Bsl!StartMonitor, Bsl!Guard, Bsl!Refuse, Bsl!Report, Bsl!Goto, BslKept
<1>3. CASE Bsl!Prepare
  BY <1>3 DEF Bsl!Prepare, Bsl!Stop, Bsl!Goto, BslKept
<1>4. CASE Bsl!Erase
  BY <1>4 DEF Bsl!Erase, Bsl!Stop, Bsl!Goto, BslKept
<1>5. CASE Bsl!ProgramRegion
  BY <1>5 DEF Bsl!ProgramRegion, Bsl!Stop, Bsl!Goto, BslKept
<1>6. CASE Bsl!Verify
  BY <1>6 DEF Bsl!Verify, Bsl!Stop, Bsl!Report, Bsl!Goto, BslKept
<1>7. CASE Bsl!Failed \/ Bsl!Exit
  BY <1>7 DEF Bsl!Failed, Bsl!Exit, Bsl!Report, BslKept
<1> QED
  BY <1>1, <1>2, <1>3, <1>4, <1>5, <1>6, <1>7 DEF Bsl!Next, Bsl!WorkerStep

LEMMA BslSame ==
    ASSUME s'.region = s.region, s'.fw = s.fw, UNCHANGED <<ecu, touched>>
    PROVE  Bsl!Content' = Bsl!Content
<1>1. Bsl!Written' = Bsl!Written
  BY DEF Bsl!Written, Bsl!Order
<1> QED
  BY <1>1 DEF Bsl!Content

LEMMA BslRested ==
    ASSUME Bsl!TypeOK, s' = [s EXCEPT !.i = 1], UNCHANGED <<ecu, touched>>
    PROVE  Bsl!Content' = Bsl!Content
<1>1. s \in Bsl!Plans
  BY DEF Bsl!TypeOK
<1>2. s'.region = s.region /\ s'.fw = s.fw
  BY <1>1 DEF Bsl!Plans
<1> QED
  BY <1>2, BslSame

\* A write that is complete has written what it is for.
LEMMA BslCompletes ==
    ASSUME Bsl!TypeOK, BslInv, BslKept, pc = "verify", ecu.flash[Bsl!Region] = Bsl!Of(s.fw),
           ~(s.i < Len(Bsl!Order(s.region)))
    PROVE  Bsl!Content = "target"
<1>1. CASE s.region # "all"
  <2>1. Bsl!Written = {s.region} /\ Bsl!Region = s.region
    BY <1>1, BslHere DEF Bsl!Written, Bsl!Order, Bsl!Range
  <2> QED
    BY <2>1 DEF Bsl!Content, BslKept
<1>2. CASE s.region = "all"
  <2>1. Bsl!Order(s.region) = ecu.map /\ Bsl!Written = Bsl!Range(ecu.map)
    BY <1>2 DEF Bsl!Written, Bsl!Order
  <2>2. s.i = Len(ecu.map) /\ Len(ecu.map) \in 3 .. 4
    BY <2>1, BslTyped, BslMap DEF BslInv
  <2>3. ASSUME NEW r \in Bsl!Written PROVE ecu.flash[r] = Bsl!Of(s.fw)
    <3>1. CASE r = Bsl!Region
      BY <3>1
    <3>2. CASE r # Bsl!Region
      BY <1>2, <2>1, <2>2, <2>3, <3>2, BslBootLast DEF Bsl!BootLast
    <3> QED
      BY <3>1, <3>2
  <2> QED
    BY <2>3 DEF Bsl!Content, BslKept
<1> QED
  BY <1>1, <1>2

LEMMA BslPromised ==
    ASSUME Bsl!TypeOK, BslInv, BslKept, BslKept', Bsl!Next
    PROVE  Moves(Bsl!Content, Bsl!Verdict, Bsl!Content', Bsl!Verdict')
<1>0. /\ outcome \in {"none", "running", "not_started", "complete", "abandoned"}
      /\ Bsl!Verdict = outcome /\ Bsl!Verdict' = outcome'
      /\ Bsl!Content' \in {"kept", "torn", "target"} /\ (~touched => Bsl!Content = "kept")
      /\ (~touched' => Bsl!Content' = "kept")
      /\ (touched' => Bsl!Content' \in {"torn", "target"})
  BY DEF Bsl!TypeOK, Bsl!Verdict, Bsl!Content
<1>1. CASE Bsl!Preview \/ Bsl!Rearm
  BY <1>0, <1>1 DEF Bsl!Preview, Bsl!Rearm, Moves, BslKept
<1>2. CASE UNCHANGED <<ecu, touched>> /\ Bsl!Report("abandoned") /\ pc # "idle"
  <2>1. Bsl!Content' = Bsl!Content
    BY <1>2, BslRested DEF Bsl!Report
  <2> QED
    BY <1>0, <1>2, <2>1 DEF Bsl!Report, Moves, BslKept
<1>3. CASE UNCHANGED <<ecu, touched>> /\ Bsl!Report("not_started") /\ ~touched /\ pc # "idle"
  BY <1>0, <1>3 DEF Bsl!Report, Moves, BslKept
<1>4. CASE Bsl!Verify /\ Bsl!Report("complete")
  <2>1. Bsl!Content' = Bsl!Content
    BY <1>4, BslRested DEF Bsl!Report, Bsl!Verify
  <2>2. Bsl!Content = "target"
    BY <1>4, BslCompletes DEF Bsl!Verify, Bsl!Report, Bsl!Stop, Bsl!Goto
  <2> QED
    BY <1>0, <1>4, <2>1, <2>2 DEF Bsl!Report, Bsl!Verify, Moves, BslKept
<1>5. CASE pc # "idle" /\ outcome' = outcome /\ (touched => touched')
  BY <1>0, <1>5 DEF Moves, BslKept
<1>6. CASE Bsl!StartMonitor \/ Bsl!Guard
  BY <1>3, <1>5, <1>6 DEF Bsl!StartMonitor, Bsl!Guard, Bsl!Refuse, Bsl!Goto, BslKept
<1>7. CASE Bsl!Prepare \/ Bsl!Erase \/ Bsl!ProgramRegion
  BY <1>5, <1>7 DEF Bsl!Prepare, Bsl!Erase, Bsl!ProgramRegion, Bsl!Stop, Bsl!Goto
<1>8. CASE Bsl!Verify
  BY <1>4, <1>5, <1>8 DEF Bsl!Verify, Bsl!Stop, Bsl!Goto
<1>9. CASE Bsl!Failed \/ Bsl!Exit
  BY <1>2, <1>3, <1>9 DEF Bsl!Failed, Bsl!Exit
<1> QED
  BY <1>1, <1>6, <1>7, <1>8, <1>9 DEF Bsl!Next, Bsl!WorkerStep

\* A change is known as one to the transaction until its target is verified.
DataKept ==
    /\ pc = "idle" <=> outcome # "running"
    /\ pc \notin {"idle", "reset"} /\ touched => s.destructive
    /\ s.destructive => touched
    /\ pc = "held" => s.destructive
    /\ pc = "reset" => touched /\ Data!Is(Data!PlacesOf(s.kind), {"new"})

LEMMA DataModes ==
    ASSUME Data!TypeOK, NEW mode, ecu' = [ecu EXCEPT !.mode = mode]
    PROVE  ecu'.cells = ecu.cells
  BY DEF Data!TypeOK, Data!Computers

LEMMA DataSame ==
    ASSUME ecu'.cells = ecu.cells, s'.kind = s.kind, touched' = touched
    PROVE  /\ Data!Content' = Data!Content
           /\ Data!Is(Data!PlacesOf(s.kind), {"new"})' = Data!Is(Data!PlacesOf(s.kind), {"new"})
<1>1. Data!Is(Data!PlacesOf(s.kind), {"new"})' = Data!Is(Data!PlacesOf(s.kind), {"new"})
  BY DEF Data!Is, Data!PlacesOf
<1> QED
  BY <1>1 DEF Data!Content

LEMMA DataKeepsOn == ASSUME Data!TypeOK, DataKept, Data!Next PROVE DataKept'
<1>1. s \in Data!Transactions
  BY DEF Data!TypeOK
<1>2. CASE Data!Start
  <2>1. ~s'.destructive /\ pc' = "enter" /\ outcome' = "running" /\ touched' = FALSE
    BY <1>2 DEF Data!Start, Data!NewTransaction
  <2> QED
    BY <2>1 DEF DataKept
<1>3. CASE Data!Enter
  <2>1. s'.destructive = s.destructive
    BY <1>1, <1>3 DEF Data!Enter, Data!Goto, Data!Transactions
  <2>2. pc = "enter" /\ pc' \in {"backup", "raise"} /\ UNCHANGED <<outcome, touched>>
    BY <1>3 DEF Data!Enter, Data!Goto, Data!Same
  <2> QED
    BY <2>1, <2>2 DEF DataKept
<1>4. CASE Data!Backup
  <2>1. s'.destructive = s.destructive
    BY <1>1, <1>4 DEF Data!Backup, Data!Goto, Data!Raise, Data!Transactions
  <2>2. pc = "backup" /\ pc' \in {"bank", "raise"} /\ UNCHANGED <<outcome, touched>>
    BY <1>4 DEF Data!Backup, Data!Goto, Data!Raise, Data!Same
  <2> QED
    BY <2>1, <2>2 DEF DataKept
<1>5. CASE Data!NextBank
  <2>1. s'.destructive = s.destructive
    BY <1>1, <1>5 DEF Data!NextBank, Data!Goto, Data!Transactions
  <2>2. /\ pc = "bank" /\ pc' \in {"bank", "verify", "erase", "program", "raise"}
        /\ UNCHANGED <<outcome, touched>>
    BY <1>5 DEF Data!NextBank, Data!Goto, Data!Same
  <2> QED
    BY <2>1, <2>2 DEF DataKept
<1>6. CASE Data!Erase
  <2>1. s'.destructive /\ touched'
    BY <1>1, <1>6 DEF Data!Erase, Data!Transactions
  <2>2. pc = "erase" /\ pc' \in {"program", "raise"} /\ UNCHANGED outcome
    BY <1>6 DEF Data!Erase
  <2> QED
    BY <2>1, <2>2 DEF DataKept
<1>7. CASE Data!Program
  <2>1. UNCHANGED <<s, touched>> \/ (s'.destructive /\ touched')
    BY <1>1, <1>7 DEF Data!Program, Data!Goto, Data!Transactions
  <2>2. pc = "program" /\ pc' \in {"program", "readback", "raise"} /\ UNCHANGED outcome
    BY <1>7 DEF Data!Program, Data!Goto
  <2> QED
    BY <2>1, <2>2 DEF DataKept
<1>8. CASE Data!Readback
  BY <1>8 DEF Data!Readback, Data!Goto, Data!Same, DataKept
<1>9. CASE Data!CommitWord
  <2>1. UNCHANGED <<s, touched>> \/ (s'.destructive /\ touched')
    BY <1>1, <1>9 DEF Data!CommitWord, Data!Goto, Data!Transactions
  <2>2. pc = "commit" /\ pc' \in {"verify", "raise"} /\ UNCHANGED outcome
    BY <1>9 DEF Data!CommitWord, Data!Goto
  <2> QED
    BY <2>1, <2>2 DEF DataKept
<1>10. CASE Data!Verify
  <2>1. CASE pc' = "raise"
    BY <1>10, <2>1 DEF Data!Verify, Data!Goto, DataKept
  <2>2. CASE pc' # "raise"
    <3>1. /\ Data!Is(Data!PlacesOf(s.kind), {"new"}) /\ pc' = "reset" /\ touched' = TRUE
          /\ s'.kind = s.kind /\ ecu' = ecu /\ outcome' = outcome /\ pc = "verify"
      BY <1>1, <1>10, <2>2 DEF Data!Verify, Data!Goto, Data!Transactions
    <3>2. Data!Is(Data!PlacesOf(s.kind), {"new"})' = Data!Is(Data!PlacesOf(s.kind), {"new"})
      BY <3>1 DEF Data!Is, Data!PlacesOf
    <3> QED
      BY <3>1, <3>2 DEF DataKept
  <2> QED
    BY <2>1, <2>2
<1>11. CASE Data!Reset
  BY <1>11 DEF Data!Reset, Data!Goto, DataKept
<1>12. CASE Data!Handle
  <2>1. s'.destructive = s.destructive /\ touched' = touched /\ pc = "raise"
    BY <1>1, <1>12 DEF Data!Handle, Data!Goto, Data!Transactions
  <2>2. \/ s.destructive /\ pc' = "held" /\ outcome' = outcome
        \/ pc' = "idle" /\ outcome' = "not_started"
    BY <1>12 DEF Data!Handle, Data!Goto
  <2> QED
    BY <2>1, <2>2 DEF DataKept
<1>13. CASE Data!Retry
  <2>1. s'.destructive = s.destructive
    BY <1>1, <1>13 DEF Data!Retry, Data!Transactions
  <2>2. pc = "held" /\ pc' \in {"bank", "raise"} /\ UNCHANGED <<outcome, touched>>
    BY <1>13 DEF Data!Retry, Data!Same
  <2> QED
    BY <2>1, <2>2 DEF DataKept
<1>14. CASE Data!Exit
  <2>1. ~s'.destructive /\ pc' = "idle" /\ touched' = touched /\ outcome' # "running"
    BY <1>14 DEF Data!Exit, Data!NewTransaction
  <2> QED
    BY <2>1 DEF DataKept
<1>15. CASE Data!Ignition
  <2>1. ecu'.cells = ecu.cells /\ s' = s /\ pc' = pc /\ outcome' = outcome /\ touched' = touched
    BY <1>15, DataModes DEF Data!Ignition
  <2> QED
    BY <2>1, DataSame DEF DataKept
<1> QED
  BY <1>2, <1>3, <1>4, <1>5, <1>6, <1>7, <1>8, <1>9, <1>10, <1>11, <1>12, <1>13, <1>14, <1>15
     DEF Data!Next, Data!WorkerStep, Data!Writing

LEMMA DataPromised ==
    ASSUME Data!TypeOK, DataKept, DataKept', Data!Next
    PROVE  Moves(Data!Content, Data!Verdict, Data!Content', Data!Verdict')
<1>0. /\ outcome \in {"none", "running", "not_started", "complete", "abandoned"}
      /\ Data!Content' \in {"kept", "torn", "target"} /\ (~touched => Data!Content = "kept")
      /\ (~touched' => Data!Content' = "kept")
      /\ (touched' => Data!Content' \in {"torn", "target"})
      /\ (touched /\ Data!Is(Data!PlacesOf(s.kind), {"new"}) => Data!Content = "target")
      /\ (pc # "held" => Data!Verdict = outcome) /\ (pc' # "held" => Data!Verdict' = outcome')
      /\ (pc = "held" => Data!Verdict = "held") /\ (pc' = "held" => Data!Verdict' = "held")
  BY DEF Data!TypeOK, Data!Verdict, Data!Content
<1>1. s \in Data!Transactions
  BY DEF Data!TypeOK
<1>2. ASSUME pc \notin {"idle", "held"}, pc' # "held", outcome' = outcome, touched => touched'
      PROVE  Moves(Data!Content, Data!Verdict, Data!Content', Data!Verdict')
  BY <1>0, <1>2 DEF Moves, DataKept
<1>3. CASE Data!Start
  BY <1>0, <1>3 DEF Data!Start, Moves, DataKept
<1>4. CASE Data!Enter \/ Data!Backup \/ Data!NextBank \/ Data!Readback
  <2>1. /\ pc \in {"enter", "backup", "bank", "readback"} /\ UNCHANGED <<outcome, touched>>
        /\ pc' \in {"backup", "raise", "bank", "verify", "erase", "program", "commit"}
    BY <1>4 DEF Data!Enter, Data!Backup, Data!NextBank, Data!Readback, Data!Goto, Data!Raise,
                Data!Same
  <2> QED
    BY <1>2, <2>1
<1>5. CASE Data!Erase \/ Data!Program \/ Data!CommitWord \/ Data!Verify
  <2>1. /\ pc \in {"erase", "program", "commit", "verify"} /\ outcome' = outcome
        /\ pc' \in {"raise", "program", "readback", "verify", "reset"}
        /\ touched => touched'
    BY <1>5 DEF Data!Erase, Data!Program, Data!CommitWord, Data!Verify, Data!Goto
  <2> QED
    BY <1>2, <2>1
<1>6. CASE Data!Reset
  <2>1. /\ pc = "reset" /\ pc' = "idle" /\ outcome' = "complete" /\ touched' = touched
        /\ ecu'.cells = ecu.cells /\ s' = s
    BY <1>6, DataModes DEF Data!Reset, Data!Goto
  <2>2. Data!Content' = Data!Content
    BY <2>1, DataSame
  <2> QED
    BY <1>0, <2>1, <2>2 DEF Moves, DataKept
<1>7. CASE Data!Handle
  <2>1. CASE pc' = "held"
    <3>1. pc = "raise" /\ UNCHANGED <<ecu, s, touched, outcome>>
      BY <1>7, <2>1 DEF Data!Handle, Data!Goto
    <3>2. Data!Content' = Data!Content
      BY <3>1, DataSame
    <3> QED
      BY <1>0, <2>1, <3>1, <3>2 DEF Moves, DataKept
  <2>2. CASE pc' # "held"
    <3>1. /\ pc = "raise" /\ ~s.destructive /\ pc' = "idle" /\ outcome' = "not_started"
          /\ touched' = touched
      BY <1>7, <2>2 DEF Data!Handle, Data!Goto
    <3> QED
      BY <1>0, <3>1 DEF Moves, DataKept
  <2> QED
    BY <2>1, <2>2
<1>8. CASE Data!Retry
  <2>1. /\ pc = "held" /\ pc' \in {"bank", "raise"} /\ UNCHANGED <<ecu, outcome, touched>>
        /\ s'.kind = s.kind
    BY <1>1, <1>8 DEF Data!Retry, Data!Same, Data!Transactions
  <2>2. Data!Content' = Data!Content
    BY <2>1, DataSame
  <2> QED
    BY <1>0, <2>1, <2>2 DEF Moves, DataKept
<1>9. CASE Data!Exit
  <2>1. /\ pc # "idle" /\ pc' = "idle" /\ UNCHANGED <<ecu, touched>> /\ s'.kind = s.kind
        /\ outcome' = IF touched THEN "abandoned" ELSE "not_started"
    BY <1>9 DEF Data!Exit, Data!NewTransaction
  <2>2. Data!Content' = Data!Content
    BY <2>1, DataSame
  <2> QED
    BY <1>0, <2>1, <2>2 DEF Moves, DataKept
<1>10. CASE Data!Ignition
  <2>1. ecu'.cells = ecu.cells /\ s' = s /\ pc' = pc /\ outcome' = outcome /\ touched' = touched
    BY <1>10, DataModes DEF Data!Ignition
  <2>2. Data!Content' = Data!Content
    BY <2>1, DataSame
  <2> QED
    BY <1>0, <2>1, <2>2 DEF Moves
<1> QED
  BY <1>3, <1>4, <1>5, <1>6, <1>7, <1>8, <1>9, <1>10
     DEF Data!Next, Data!WorkerStep, Data!Writing

---------------------------------------------------------------------------
(* The operation.                                                          *)

\* What every step of a writer keeps.
WriterInv ==
    /\ writer \in {"legacy", "softbsl", "ms4x", "eeprom", "bsl", "install", "read", "data"}
    /\ writer = "legacy" => Legacy!TypeOK /\ LegacyInv
    /\ writer = "softbsl" => Soft!TypeOK /\ SoftFresh /\ SoftFlash
    /\ writer = "ms4x" => Ms4x!TypeOK /\ MsInv
    /\ writer = "eeprom" => Eeprom!TypeOK /\ EepromInv
    /\ writer = "bsl" => Bsl!TypeOK /\ BslInv
    /\ writer = "install" => Install!TypeOK /\ Install!OneTrigger
    /\ writer = "read" => Read!TypeOK /\ ReadInv
    /\ writer = "data" => Data!TypeOK /\ DataInv

LEMMA WritersStart == Init => WriterInv
  BY LegacyStarts, SoftStarts, MsStarts, EepromStarts, BslStarts, InstallStarts, ReadStarts,
     DataStarts
     DEF Init, WriterInv

LEMMA LegacyStutters ==
    ASSUME UNCHANGED <<ecu, s, pc, outcome, touched>>, Legacy!TypeOK, LegacyInv
    PROVE  (Legacy!TypeOK)' /\ LegacyInv'
  BY DEF Legacy!TypeOK, LegacyInv

LEMMA SoftStutters ==
    ASSUME UNCHANGED <<ecu, s, pc, outcome, touched>>, Soft!TypeOK, SoftFresh, SoftFlash
    PROVE  (Soft!TypeOK)' /\ SoftFresh' /\ SoftFlash'
<1>1. (Soft!TypeOK)'
  BY DEF Soft!TypeOK
<1>2. SoftFresh'
  BY DEF SoftFresh, Soft!Order
<1>3. SoftFlash'
  <2>1. Soft!Sector' = Soft!Sector
    BY DEF Soft!Sector, Soft!Order
  <2>2. Soft!Cell' = Soft!Cell
    BY <2>1 DEF Soft!Cell
  <2>3. SoftBanked' <=> SoftBanked
    BY <2>1, <2>2 DEF SoftBanked, Soft!Holding
  <2>4. ecu' = ecu /\ s' = s /\ pc' = pc
    OBVIOUS
  <2> QED
    BY <2>1, <2>2, <2>3, <2>4 DEF SoftFlash
<1> QED
  BY <1>1, <1>2, <1>3

LEMMA MsStutters ==
    ASSUME UNCHANGED <<ecu, s, pc, outcome, touched>>, Ms4x!TypeOK, MsInv
    PROVE  (Ms4x!TypeOK)' /\ MsInv'
<1>1. (Ms4x!TypeOK)'
  BY DEF Ms4x!TypeOK
<1>2. MsInv'
  BY DEF MsInv, MsCells, Ms4x!Region, Ms4x!Cell, Ms4x!Order
<1> QED
  BY <1>1, <1>2

LEMMA ReadStutters ==
    ASSUME UNCHANGED <<ecu, s, pc, outcome, touched>>, Read!TypeOK, ReadInv
    PROVE  (Read!TypeOK)' /\ ReadInv'
<1>1. (Read!TypeOK)'
  BY DEF Read!TypeOK
<1>2. ReadInv'
  BY DEF ReadInv, ReadSafe, Read!Size
<1> QED
  BY <1>1, <1>2

LEMMA DataStutters ==
    ASSUME UNCHANGED <<ecu, s, pc, outcome, touched>>, Data!TypeOK, DataInv
    PROVE  (Data!TypeOK)' /\ DataInv'
<1>1. (Data!TypeOK)'
  BY DEF Data!TypeOK
<1>2. DataInv'
  BY DEF DataInv, Data!Body, Data!Vin, Data!Commit, Data!PlacesOf, Data!Bank, Data!Here
<1> QED
  BY <1>1, <1>2

LEMMA EepromStutters ==
    ASSUME UNCHANGED <<ecu, s, pc, outcome, touched>>, Eeprom!TypeOK, EepromInv
    PROVE  (Eeprom!TypeOK)' /\ EepromInv'
<1>1. (Eeprom!TypeOK)'
  BY DEF Eeprom!TypeOK
<1>2. EepromInv'
  BY DEF EepromInv
<1> QED
  BY <1>1, <1>2

LEMMA BslStutters ==
    ASSUME UNCHANGED <<ecu, s, pc, outcome, touched>>, Bsl!TypeOK, BslInv
    PROVE  (Bsl!TypeOK)' /\ BslInv'
<1>1. (Bsl!TypeOK)'
  BY DEF Bsl!TypeOK
<1>2. Bsl!Order(s.region)' = Bsl!Order(s.region)
  BY DEF Bsl!Order
<1>3. (Bsl!OneFirmware(ecu))' <=> Bsl!OneFirmware(ecu)
  BY DEF Bsl!OneFirmware
<1>4. BslInv'
  BY <1>2, <1>3 DEF BslInv
<1> QED
  BY <1>1, <1>4

LEMMA WritersKeep == ASSUME WriterInv, [Next]_vars PROVE WriterInv'
<1>1. CASE UNCHANGED vars
  <2>1. writer' = writer /\ UNCHANGED <<ecu, s, pc, outcome, touched>>
    BY <1>1 DEF vars
  <2>2. Install!TypeOK /\ Install!OneTrigger => (Install!TypeOK)' /\ (Install!OneTrigger)'
    BY <2>1 DEF Install!TypeOK, Install!OneTrigger
  <2> QED
    BY <2>1, <2>2, LegacyStutters, SoftStutters, MsStutters, EepromStutters, BslStutters,
       ReadStutters, DataStutters
       DEF WriterInv
<1>2. CASE LegacyStep
  BY <1>2, LegacySteps DEF LegacyStep, WriterInv
<1>3. CASE SoftStep
  BY <1>3, SoftSteps DEF SoftStep, WriterInv, SoftStepped
<1>4. CASE Ms4xStep
  BY <1>4, MsSteps DEF Ms4xStep, WriterInv
<1>5. CASE InstallStep
  BY <1>5, InstallTyped, InstallTriggers DEF InstallStep, WriterInv
<1>6. CASE ReadStep
  BY <1>6, ReadSteps DEF ReadStep, WriterInv
<1>7. CASE DataStep
  BY <1>7, DataSteps DEF DataStep, WriterInv
<1>8. CASE EepromStep
  BY <1>8, EepromSteps DEF EepromStep, WriterInv, EepromStepped
<1>9. CASE BslStep
  BY <1>9, BslSteps DEF BslStep, WriterInv, BslStepped
<1> QED
  BY <1>1, <1>2, <1>3, <1>4, <1>5, <1>6, <1>7, <1>8, <1>9 DEF Next

\* The variables of the operation have the types of whichever writer it uses, for every
\* number of packets, blocks, rates and repeats, and every width of a byte.
THEOREM WritersTyped == Spec => []TypeOK
<1>1. WriterInv => TypeOK
  BY DEF WriterInv, TypeOK
<1> QED
  BY <1>1, WritersStart, WritersKeep, PTL DEF Spec

\* What opens a session is sent only to a computer that is ready for it: the trigger
\* of an installation after the computer was seen in normal operation, the selector
\* of a read after the completion latch was seen, whatever was lost, cycled, closed
\* or answered in between, for every length of a read.
THEOREM EntryIsReady == Spec => []EntryReady
<1>1. WriterInv => EntryReady
  BY DEF WriterInv, ReadInv, EntryReady, Read!LatchObserved
<1> QED
  BY <1>1, WritersStart, WritersKeep, PTL DEF Spec

\* A packet is sent only onto flash it can be programmed into, by whichever writer,
\* for every number of packets, blocks, repeats, repairs and rates: a lost reply, a
\* torn block, a replay in the same session or a retry of a retained one never sends
\* it onto what an erase did not clear.
THEOREM PacketsOntoErased == Spec => []OnlyOntoErased
<1>1. WriterInv => OnlyOntoErased
  <2>1. Legacy!TypeOK /\ LegacyInv => Legacy!OnlyOntoErased
    <3>1. Legacy!TypeOK => s.pkt \in 1 .. Packets
      BY DEF Legacy!TypeOK, Legacy!Recoveries
    <3> QED
      BY <3>1 DEF LegacyInv, Legacy!OnlyOntoErased
  <2>2. SoftFlash => Soft!OnlyOntoErased
    BY DEF SoftFlash, Soft!OnlyOntoErased
  <2>3. MsInv => Ms4x!OnlyOntoErased
    BY DEF MsInv, MsCells, Ms4x!OnlyOntoErased
  <2>4. Data!TypeOK /\ DataInv => Data!OnlyOntoErased
    <3> SUFFICES ASSUME Data!TypeOK, DataInv PROVE Data!OnlyOntoErased
      OBVIOUS
    <3>1. ASSUME pc = "program", s.kind # "eeprom" PROVE Data!Is(Data!Missing, {"part", "blank"})
      BY <3>1 DEF DataInv, Data!Is, Data!Missing
    <3>2. ASSUME pc = "commit" PROVE ecu.cells[Data!Commit] \in {"part", "blank", "new"}
      BY <3>2 DEF DataInv
    <3> QED
      BY <3>1, <3>2 DEF Data!OnlyOntoErased
  <2> QED
    BY <2>1, <2>2, <2>3, <2>4 DEF WriterInv, OnlyOntoErased
<1> QED
  BY <1>1, WritersStart, WritersKeep, PTL DEF Spec

\* A Soft-BSL write that completes, one that ends before its erase, and an attempt that
\* is followed by another at a lower rate, leave flash mode; a native-fast read that
\* succeeds or is repeated at 9600 leaves the high rate.
THEOREM FlashModeIsLeft == Spec => NormalAgain
<1>1. ASSUME WriterInv, [Next]_vars
      PROVE  [ /\ writer = "softbsl" => Soft!LeavesNormal
               /\ writer = "read" => Read!LeavesNormal ]_vars
  <2>1. CASE UNCHANGED vars
    BY <2>1
  <2>2. CASE SoftStep
    BY <1>1, <2>2, SoftSteps DEF SoftStep, WriterInv, SoftStepped
  <2>3. CASE ReadStep
    <3>1. ReadInv /\ Read!Next
      BY <1>1, <2>3 DEF ReadStep, WriterInv
    <3>2. ASSUME pc = "reopen", pc' \in {"slow", "result"} PROVE Read!Reopen
      BY <3>1, <3>2
         DEF Read!Next, Read!WorkerStep, Read!Session, Read!Lowering, Read!Start,
             Read!Begin, Read!AwaitReentry, Read!SwitchUp, Read!Liveness, Read!ReadBlock,
             Read!SelectLow, Read!BareBmw, Read!LowReady, Read!Recover, Read!Probe,
             Read!Close, Read!SlowBlock, Read!Return, Read!Exit, Read!Ignition,
             Read!LatchReady
    <3>3. ASSUME Read!Reopen, pc' = "result" PROVE ecu.rate = "low" /\ ~ecu.staged
      BY <3>1, <3>3 DEF Read!Reopen, Read!Succeeded, Read!Goto, ReadInv
    <3>4. ASSUME Read!Reopen, pc' = "slow" PROVE ecu.rate = "low"
      BY <3>4 DEF Read!Reopen, Read!Goto
    <3> QED
      BY <2>3, <3>2, <3>3, <3>4 DEF Read!LeavesNormal, ReadStep
  <2>4. CASE LegacyStep \/ Ms4xStep \/ EepromStep \/ BslStep \/ InstallStep \/ DataStep
    BY <2>4 DEF LegacyStep, Ms4xStep, EepromStep, BslStep, InstallStep, DataStep
  <2> QED
    BY <1>1, <2>1, <2>2, <2>3, <2>4 DEF Next
<1> QED
  BY <1>1, WritersStart, WritersKeep, PTL DEF Spec, NormalAgain

\* Nothing is written where it does not belong, or too early: the bank of a Soft-BSL
\* write, what the computer starts from or goes by last, one firmware after an unforced
\* hardware recovery, and the marker alone in a seed of the EEPROM and in its undoing.
THEOREM NothingMisplaced == Spec => RightPlace
<1>1. ASSUME WriterInv, [Next]_vars
      PROVE  /\ [ /\ writer = "softbsl" => Soft!WritesRightBank
                  /\ writer = "bsl" => Bsl!BootLast
                  /\ writer = "data" => Data!InOrder ]_vars
             /\ [writer = "bsl" => Bsl!KeepsOneFirmware]_vars
             /\ [writer = "eeprom" => Eeprom!MarkerAlone]_vars
  <2>1. CASE UNCHANGED vars
    BY <2>1
  <2>2. CASE SoftStep
    BY <1>1, <2>2, SoftSteps DEF SoftStep, WriterInv, SoftStepped
  <2>3. CASE BslStep
    BY <1>1, <2>3, BslSteps DEF BslStep, WriterInv, BslStepped
  <2>4. CASE EepromStep
    BY <1>1, <2>4, EepromSteps DEF EepromStep, WriterInv, EepromStepped
  <2>5. CASE DataStep
    BY <1>1, <2>5, DataSteps DEF DataStep, WriterInv
  <2>6. CASE LegacyStep \/ Ms4xStep \/ InstallStep \/ ReadStep
    BY <2>6 DEF LegacyStep, Ms4xStep, InstallStep, ReadStep
  <2> QED
    BY <1>1, <2>1, <2>2, <2>3, <2>4, <2>5, <2>6 DEF Next
<1> QED
  BY <1>1, WritersStart, WritersKeep, PTL
     DEF Spec, RightPlace, RightBank, OneFirmware, MarkerAlone

---------------------------------------------------------------------------
(* What the operation promises.                                            *)

\* What every step keeps of how far the writer has come.
KeptInv ==
    /\ writer = "legacy" => LegacyKept
    /\ writer = "softbsl" => SoftKept
    /\ writer = "ms4x" => MsKept
    /\ writer = "eeprom" => EepromKept
    /\ writer = "bsl" => BslKept
    /\ writer = "install" => InstallKept
    /\ writer = "read" => ReadKept
    /\ writer = "data" => DataKept

LEMMA KeptStarts ==
    ASSUME Init PROVE KeptInv /\ Content = "kept" /\ Verdict = "none"
<1>1. ASSUME Legacy!Init PROVE LegacyKept /\ Legacy!Content = "kept" /\ Legacy!Verdict = "none"
  BY <1>1 DEF Legacy!Init, Legacy!NewRecovery, LegacyKept, Legacy!Content, Legacy!Verdict
<1>2. ASSUME Soft!Init PROVE SoftKept /\ Soft!Content = "kept" /\ Soft!Verdict = "none"
  BY <1>2
     DEF Soft!Init, Soft!NewSession, SoftKept, SoftRest, SoftEntering, SoftFilling, Soft!Content,
         Soft!Verdict
<1>3. ASSUME Ms4x!Init PROVE MsKept /\ Ms4x!Content = "kept" /\ Ms4x!Verdict = "none"
  BY <1>3
     DEF Ms4x!Init, MsKept, MsFirst, MsRegional, MsAfter, MsPast, Ms4x!Holding, Ms4x!Content,
         Ms4x!Verdict
<1>4. ASSUME Eeprom!Init PROVE EepromKept /\ Eeprom!Content = "kept" /\ Eeprom!Verdict = "none"
  BY <1>4 DEF Eeprom!Init, EepromKept, Eeprom!Content, Eeprom!Verdict
<1>5. ASSUME Bsl!Init PROVE BslKept /\ Bsl!Content = "kept" /\ Bsl!Verdict = "none"
  BY <1>5 DEF Bsl!Init, BslKept, Bsl!Content, Bsl!Verdict
<1>6. ASSUME Install!Init PROVE InstallKept /\ Install!Content = "kept" /\ Install!Verdict = "none"
  BY <1>6
     DEF Install!Init, Install!NewSession, InstallKept, InstallErased, Install!Content,
         Install!Verdict
<1>7. ASSUME Read!Init PROVE ReadKept /\ Read!Content = "kept" /\ Read!Verdict = "none"
  BY <1>7 DEF Read!Init, ReadKept, Read!Content, Read!Verdict
<1>8. ASSUME Data!Init PROVE DataKept /\ Data!Content = "kept" /\ Data!Verdict = "none"
  BY <1>8 DEF Data!Init, Data!NewTransaction, DataKept, Data!Content, Data!Verdict
<1> QED
  BY <1>1, <1>2, <1>3, <1>4, <1>5, <1>6, <1>7, <1>8 DEF Init, KeptInv, Content, Verdict

LEMMA KeptStutters ==
    ASSUME UNCHANGED <<ecu, s, pc, outcome, touched>>
    PROVE  /\ LegacyKept => LegacyKept'
           /\ Legacy!Content' = Legacy!Content /\ Legacy!Verdict' = Legacy!Verdict
           /\ SoftKept => SoftKept'
           /\ Soft!Content' = Soft!Content /\ Soft!Verdict' = Soft!Verdict
           /\ MsKept => MsKept'
           /\ Ms4x!Content' = Ms4x!Content /\ Ms4x!Verdict' = Ms4x!Verdict
           /\ EepromKept => EepromKept'
           /\ Eeprom!Content' = Eeprom!Content /\ Eeprom!Verdict' = Eeprom!Verdict
           /\ BslKept => BslKept'
           /\ Bsl!Content' = Bsl!Content /\ Bsl!Verdict' = Bsl!Verdict
           /\ InstallKept => InstallKept'
           /\ Install!Content' = Install!Content /\ Install!Verdict' = Install!Verdict
           /\ ReadKept => ReadKept'
           /\ Read!Content' = Read!Content /\ Read!Verdict' = Read!Verdict
           /\ DataKept => DataKept'
           /\ Data!Content' = Data!Content /\ Data!Verdict' = Data!Verdict
<1>1. /\ (LegacyKept => LegacyKept') /\ Legacy!Content' = Legacy!Content
     /\ Legacy!Verdict' = Legacy!Verdict
  BY DEF LegacyKept, Legacy!HoldsNew, Legacy!Affected, Legacy!Content, Legacy!Verdict
<1>2. (SoftKept => SoftKept') /\ Soft!Content' = Soft!Content /\ Soft!Verdict' = Soft!Verdict
  BY SoftSame DEF SoftKept, Soft!Content, Soft!Verdict
<1>3. (MsKept => MsKept') /\ Ms4x!Content' = Ms4x!Content /\ Ms4x!Verdict' = Ms4x!Verdict
  <2>1. /\ Ms4x!HoldsNew("program")' = Ms4x!HoldsNew("program")
        /\ Ms4x!HoldsNew("tune")' = Ms4x!HoldsNew("tune")
        /\ Ms4x!HoldsNew("boot")' = Ms4x!HoldsNew("boot")
        /\ \A r : Ms4x!Holding(ecu, r, {"old", "bad"})' = Ms4x!Holding(ecu, r, {"old", "bad"})
    BY DEF Ms4x!HoldsNew, Ms4x!Holding
  <2>2. Ms4x!Region' = Ms4x!Region
    BY DEF Ms4x!Region, Ms4x!Order
  <2>3. MsBefore' = MsBefore /\ MsMain' = MsMain /\ MsMarked' = MsMarked
    BY <2>1, <2>2 DEF MsBefore, MsMain, MsMarked
  <2>4. MsKept => MsKept'
    BY <2>1, <2>2, <2>3 DEF MsKept
  <2>5. Ms4x!Verdict' = Ms4x!Verdict
    BY DEF Ms4x!Verdict
  <2> QED
    BY <2>4, <2>5, MsSame
<1>4. /\ (EepromKept => EepromKept') /\ Eeprom!Content' = Eeprom!Content
     /\ Eeprom!Verdict' = Eeprom!Verdict
  BY DEF EepromKept, Eeprom!Content, Eeprom!Verdict
<1>5. (BslKept => BslKept') /\ Bsl!Content' = Bsl!Content /\ Bsl!Verdict' = Bsl!Verdict
  BY BslSame DEF BslKept, Bsl!Verdict
<1>6. /\ (InstallKept => InstallKept') /\ Install!Content' = Install!Content
     /\ Install!Verdict' = Install!Verdict
  BY DEF InstallKept, Install!Content, Install!Verdict
<1>7. (ReadKept => ReadKept') /\ Read!Content' = Read!Content /\ Read!Verdict' = Read!Verdict
  BY DEF ReadKept, Read!Size, Read!Content, Read!Verdict
<1>8. (DataKept => DataKept') /\ Data!Content' = Data!Content /\ Data!Verdict' = Data!Verdict
  BY DataSame DEF DataKept, Data!Verdict
<1> QED
  BY <1>1, <1>2, <1>3, <1>4, <1>5, <1>6, <1>7, <1>8

\* A step keeps how far the writer has come, and moves as the promise lets it.
LEMMA WritersMove ==
    ASSUME WriterInv, KeptInv, [Next]_vars
    PROVE  KeptInv' /\ Moves(Content, Verdict, Content', Verdict')
<1>0. writer' = writer
  BY DEF Next, vars, LegacyStep, SoftStep, Ms4xStep, EepromStep, BslStep, InstallStep,
         ReadStep, DataStep
<1>1. CASE UNCHANGED vars
  <2>1. UNCHANGED <<ecu, s, pc, outcome, touched>>
    BY <1>1 DEF vars
  <2>2. KeptInv'
    BY <1>0, <2>1, KeptStutters DEF KeptInv
  <2>3. Content' = Content /\ Verdict' = Verdict
    BY <1>0, <2>1, KeptStutters DEF WriterInv, Content, Verdict
  <2> QED
    BY <2>2, <2>3 DEF Moves
<1>2. CASE LegacyStep
  <2>1. writer = "legacy" /\ Legacy!Next /\ Legacy!TypeOK /\ LegacyInv /\ LegacyKept
    BY <1>2 DEF LegacyStep, WriterInv, KeptInv
  <2>2. LegacyKept' /\ Moves(Legacy!Content, Legacy!Verdict, Legacy!Content', Legacy!Verdict')
    BY <2>1, LegacyPromised DEF LegacyDone
  <2>3. KeptInv'
    BY <1>0, <2>1, <2>2 DEF KeptInv
  <2>4. /\ Content = Legacy!Content /\ Verdict = Legacy!Verdict
        /\ Content' = Legacy!Content' /\ Verdict' = Legacy!Verdict'
    BY <1>0, <2>1 DEF Content, Verdict
  <2> QED
    BY <2>2, <2>3, <2>4
<1>3. CASE SoftStep
  <2>1. writer = "softbsl" /\ Soft!Next /\ Soft!TypeOK /\ SoftFresh /\ SoftFlash /\ SoftKept
    BY <1>3 DEF SoftStep, WriterInv, KeptInv
  <2>2. SoftKept' /\ Moves(Soft!Content, Soft!Verdict, Soft!Content', Soft!Verdict')
    BY <2>1, SoftPromised DEF SoftDone
  <2>3. KeptInv'
    BY <1>0, <2>1, <2>2 DEF KeptInv
  <2>4. /\ Content = Soft!Content /\ Verdict = Soft!Verdict
        /\ Content' = Soft!Content' /\ Verdict' = Soft!Verdict'
    BY <1>0, <2>1 DEF Content, Verdict
  <2> QED
    BY <2>2, <2>3, <2>4
<1>4. CASE Ms4xStep
  <2>1. writer = "ms4x" /\ Ms4x!Next /\ Ms4x!TypeOK /\ MsInv /\ MsKept
    BY <1>4 DEF Ms4xStep, WriterInv, KeptInv
  <2>2. MsKept' /\ Moves(Ms4x!Content, Ms4x!Verdict, Ms4x!Content', Ms4x!Verdict')
    BY <2>1, MsPromised DEF MsDone
  <2>3. KeptInv'
    BY <1>0, <2>1, <2>2 DEF KeptInv
  <2>4. /\ Content = Ms4x!Content /\ Verdict = Ms4x!Verdict
        /\ Content' = Ms4x!Content' /\ Verdict' = Ms4x!Verdict'
    BY <1>0, <2>1 DEF Content, Verdict
  <2> QED
    BY <2>2, <2>3, <2>4
<1>5. CASE EepromStep
  <2>1. writer = "eeprom" /\ Eeprom!Next /\ Eeprom!TypeOK /\ EepromInv /\ EepromKept
    BY <1>5 DEF EepromStep, WriterInv, KeptInv
  <2>2. EepromKept' /\ Moves(Eeprom!Content, Eeprom!Verdict, Eeprom!Content', Eeprom!Verdict')
    BY <2>1, EepromKeepsOn, EepromPromised
  <2>3. KeptInv'
    BY <1>0, <2>1, <2>2 DEF KeptInv
  <2>4. /\ Content = Eeprom!Content /\ Verdict = Eeprom!Verdict
        /\ Content' = Eeprom!Content' /\ Verdict' = Eeprom!Verdict'
    BY <1>0, <2>1 DEF Content, Verdict
  <2> QED
    BY <2>2, <2>3, <2>4
<1>6. CASE BslStep
  <2>1. writer = "bsl" /\ Bsl!Next /\ Bsl!TypeOK /\ BslInv /\ BslKept
    BY <1>6 DEF BslStep, WriterInv, KeptInv
  <2>2. BslKept' /\ Moves(Bsl!Content, Bsl!Verdict, Bsl!Content', Bsl!Verdict')
    BY <2>1, BslKeepsOn, BslPromised
  <2>3. KeptInv'
    BY <1>0, <2>1, <2>2 DEF KeptInv
  <2>4. /\ Content = Bsl!Content /\ Verdict = Bsl!Verdict
        /\ Content' = Bsl!Content' /\ Verdict' = Bsl!Verdict'
    BY <1>0, <2>1 DEF Content, Verdict
  <2> QED
    BY <2>2, <2>3, <2>4
<1>7. CASE InstallStep
  <2>1. writer = "install" /\ Install!Next /\ Install!TypeOK /\ InstallKept
    BY <1>7 DEF InstallStep, WriterInv, KeptInv
  <2>2. InstallKept' /\ Moves(Install!Content, Install!Verdict, Install!Content', Install!Verdict')
    BY <2>1, InstallPromised DEF InstallDone
  <2>3. KeptInv'
    BY <1>0, <2>1, <2>2 DEF KeptInv
  <2>4. /\ Content = Install!Content /\ Verdict = Install!Verdict
        /\ Content' = Install!Content' /\ Verdict' = Install!Verdict'
    BY <1>0, <2>1 DEF Content, Verdict
  <2> QED
    BY <2>2, <2>3, <2>4
<1>8. CASE ReadStep
  <2>1. writer = "read" /\ Read!Next /\ Read!TypeOK /\ ReadInv /\ ReadKept
    BY <1>8 DEF ReadStep, WriterInv, KeptInv
  <2>2. ReadKept' /\ Moves(Read!Content, Read!Verdict, Read!Content', Read!Verdict')
    BY <2>1, ReadPromised DEF ReadDone
  <2>3. KeptInv'
    BY <1>0, <2>1, <2>2 DEF KeptInv
  <2>4. /\ Content = Read!Content /\ Verdict = Read!Verdict
        /\ Content' = Read!Content' /\ Verdict' = Read!Verdict'
    BY <1>0, <2>1 DEF Content, Verdict
  <2> QED
    BY <2>2, <2>3, <2>4
<1>9. CASE DataStep
  <2>1. writer = "data" /\ Data!Next /\ Data!TypeOK /\ DataKept
    BY <1>9 DEF DataStep, WriterInv, KeptInv
  <2>2. DataKept' /\ Moves(Data!Content, Data!Verdict, Data!Content', Data!Verdict')
    BY <2>1, DataKeepsOn, DataPromised
  <2>3. KeptInv'
    BY <1>0, <2>1, <2>2 DEF KeptInv
  <2>4. /\ Content = Data!Content /\ Verdict = Data!Verdict
        /\ Content' = Data!Content' /\ Verdict' = Data!Verdict'
    BY <1>0, <2>1 DEF Content, Verdict
  <2> QED
    BY <2>2, <2>3, <2>4
<1> QED
  BY <1>1, <1>2, <1>3, <1>4, <1>5, <1>6, <1>7, <1>8, <1>9 DEF Next

\* Whichever writer does it, an operation keeps what the application promises its user:
\* not started leaves the flash alone, complete reached what was asked for, and what
\* failed in between stays held until it is retried or given up, for every number of
\* packets, blocks, repeats, repairs, rates and firmwares.
THEOREM WritersKeepPromise == Spec => ImplementsPromise
<1>1. Init => Promise!Init
  BY KeptStarts DEF Promise!Init
<1>2. Init => KeptInv
  BY KeptStarts
<1>3. WriterInv /\ KeptInv /\ [Next]_vars => KeptInv'
  BY WritersMove
<1>4. WriterInv /\ KeptInv /\ [Next]_vars => [Promise!Next]_<<Content, Verdict>>
  <2> SUFFICES ASSUME WriterInv, KeptInv, [Next]_vars
               PROVE  [Promise!Next]_<<Content, Verdict>>
    OBVIOUS
  <2>1. Moves(Content, Verdict, Content', Verdict')
    BY WritersMove
  <2> QED
    BY <2>1 DEF Moves, Promise!Next, Promise!Begin, Promise!Change,
                Promise!ReportNotStarted, Promise!ReportComplete, Promise!Hold,
                Promise!Resume, Promise!Abandon
<1> QED
  BY <1>1, <1>2, <1>3, <1>4, WritersStart, WritersKeep, PTL
     DEF Spec, ImplementsPromise, Promise!Spec

===============================================================================
