------------------------- MODULE SessionWritersProofs -------------------------
(***************************************************************************)
(* The writers of the program flash that send packets and send them again: *)
(* the slow DS2 writer, the Soft-BSL writers and the MS42/MS43 writer, for *)
(* every number of packets, sectors, rates and repeats.  Each is taken     *)
(* under its own steps; FlashWritersProofs puts them behind one operation. *)
(***************************************************************************)
EXTENDS FlashWriters, Sequences, WellFoundedInduction, TLAPS

---------------------------------------------------------------------------
(* The slow DS2 writer.                                                    *)

\* The packets of a phase that were not sent yet are erased.
LegacyInv ==
    /\ pc \in {"unlock", "poll", "erase", "program", "readback", "confirm"} =>
          s.phase \in Legacy!Arrays
    /\ pc = "program" =>
          \A p \in 1 .. Packets : p >= s.pkt => ecu.cells[s.phase][p] = "blank"
    /\ pc = "readback" =>
          \A p \in 1 .. Packets : p > s.pkt => ecu.cells[s.phase][p] = "blank"

LEMMA PacketsCount == Packets \in Nat \ {0} /\ WriteRetries \in Nat \ {0}
  BY WritersAssumption

LEMMA LegacyStarts == ASSUME Legacy!Init PROVE Legacy!TypeOK /\ LegacyInv
<1>1. ecu \in Legacy!Computers
  BY DEF Legacy!Init, Legacy!Computers, Legacy!Cells
<1>2. s \in Legacy!Recoveries
  BY PacketsCount DEF Legacy!Init, Legacy!Recoveries, Legacy!NewRecovery
<1>3. pc = "idle" /\ outcome = "none" /\ touched = FALSE
  BY DEF Legacy!Init
<1> QED
  BY <1>1, <1>2, <1>3 DEF Legacy!TypeOK, Legacy!Pcs, LegacyInv

LEMMA LegacyRetargeted ==
    ASSUME NEW e \in Legacy!Computers PROVE Legacy!Retargeted(e) \in Legacy!Computers
<1> DEFINE f == [a \in Legacy!Arrays |-> [p \in 1 .. Packets |->
                    IF e.cells[a][p] = "new" THEN "old" ELSE e.cells[a][p]]]
<1>1. f \in [Legacy!Arrays -> [1 .. Packets -> Legacy!Cells]]
  BY DEF Legacy!Computers, Legacy!Cells
<1>2. Legacy!Retargeted(e) = [e EXCEPT !.cells = f]
  BY DEF Legacy!Retargeted, Legacy!Computers
<1> HIDE DEF f
<1> QED
  BY <1>1, <1>2 DEF Legacy!Computers

EraseRuns(e, a) == [Legacy!Erased(e, a) EXCEPT !.resident = TRUE]
LEMMA LegacyErases ==
    ASSUME NEW e \in Legacy!Computers, NEW a \in Legacy!Arrays
    PROVE  /\ EraseRuns(e, a) \in Legacy!Computers
           /\ \A p \in 1 .. Packets : EraseRuns(e, a).cells[a][p] = "blank"
<1>1. Legacy!Erased(e, a) \in Legacy!Computers
  BY DEF Legacy!Erased, Legacy!Computers, Legacy!Cells
<1>2. \A p \in 1 .. Packets : Legacy!Erased(e, a).cells[a][p] = "blank"
  BY DEF Legacy!Erased, Legacy!Computers, Legacy!Cells
<1> QED
  BY <1>1, <1>2 DEF Legacy!Computers, EraseRuns

LEMMA LegacyProgrammed ==
    ASSUME NEW e \in Legacy!Computers, NEW a \in Legacy!Arrays, NEW p \in 1 .. Packets,
           NEW c \in Legacy!Cells
    PROVE  /\ Legacy!Programmed(e, a, p, c) \in Legacy!Computers
           /\ \A q \in 1 .. Packets : q # p =>
                 Legacy!Programmed(e, a, p, c).cells[a][q] = e.cells[a][q]
  BY DEF Legacy!Programmed, Legacy!Computers

LEMMA LegacyFails ==
    ASSUME NEW r \in Legacy!Recoveries, Legacy!Failed(r)
    PROVE  s' \in Legacy!Recoveries /\ pc' = "handler"
  BY DEF Legacy!Failed, Legacy!Raise, Legacy!Recoveries

LEMMA LegacyPacketDone ==
    ASSUME s \in Legacy!Recoveries, s.phase \in Legacy!Arrays, Legacy!PacketDone
    PROVE  /\ s' \in Legacy!Recoveries
           /\ \/ pc' = "program" /\ s'.phase = s.phase /\ s'.pkt = s.pkt + 1
              \/ pc' = "poll" /\ s'.phase = "tune"
              \/ pc' = "finalize"
<1>0. /\ s.pkt \in 1 .. Packets /\ Packets \in Nat
      /\ 1 \in 1 .. WriteRetries
  BY PacketsCount DEF Legacy!Recoveries
<1>1. CASE s.pkt < Packets
  <2>1. s' = [s EXCEPT !.pkt = s.pkt + 1, !.tries = 1] /\ pc' = "program"
    BY <1>0, <1>1 DEF Legacy!PacketDone
  <2>2. s.pkt + 1 \in 1 .. Packets
    BY <1>0, <1>1
  <2>3. s' \in Legacy!Recoveries
    BY <1>0, <2>1, <2>2 DEF Legacy!Recoveries
  <2>4. s'.phase = s.phase /\ s'.pkt = s.pkt + 1
    BY <2>1 DEF Legacy!Recoveries
  <2> QED
    BY <2>1, <2>3, <2>4
<1>2. CASE ~(s.pkt < Packets)
  <2>1. s.pkt = Packets
    BY <1>2, PacketsCount DEF Legacy!Recoveries
  <2>2. \/ s' = [s EXCEPT !.phase = "tune"] /\ pc' = "poll"
        \/ s' = [s EXCEPT !.phase = "finalize"] /\ pc' = "finalize"
    BY <1>2, <2>1 DEF Legacy!PacketDone
  <2> QED
    BY <2>2 DEF Legacy!Recoveries
<1> QED
  BY <1>1, <1>2

LEMMA LegacyBeforeErase ==
    ASSUME s \in Legacy!Recoveries
    PROVE  /\ Legacy!BeforeErase \in Legacy!Recoveries
           /\ Legacy!BeforeErase.phase = s.phase /\ Legacy!BeforeErase.pkt = 1
<1>1. 1 \in 1 .. Packets /\ 1 \in 1 .. WriteRetries
  BY PacketsCount
<1> QED
  BY <1>1 DEF Legacy!BeforeErase, Legacy!Recoveries

LEMMA LegacySteps ==
    ASSUME Legacy!TypeOK, LegacyInv, Legacy!Next PROVE (Legacy!TypeOK)' /\ LegacyInv'
<1>1. ASSUME NEW operation \in {"tune", "full"}, NEW verify \in BOOLEAN,
             Legacy!Start(operation, verify)
      PROVE (Legacy!TypeOK)' /\ LegacyInv'
  <2>1. ecu' \in Legacy!Computers
    BY <1>1, LegacyRetargeted DEF Legacy!Start, Legacy!TypeOK
  <2>2. s' \in Legacy!Recoveries
    BY <1>1, PacketsCount
       DEF Legacy!Start, Legacy!NewRecovery, Legacy!TypeOK, Legacy!Raise, Legacy!Failed,
           Legacy!Arrays, Legacy!Recoveries
  <2>3. pc' \in Legacy!Pcs
    BY <1>1
       DEF Legacy!Start, Legacy!NewRecovery, Legacy!TypeOK, Legacy!Raise, Legacy!Failed,
           Legacy!Arrays, Legacy!Pcs
  <2>4. /\ outcome' \in {"none", "running", "not_started", "complete", "abandoned"}
        /\ touched' \in BOOLEAN
    BY <1>1
       DEF Legacy!Start, Legacy!NewRecovery, Legacy!TypeOK, Legacy!Raise, Legacy!Failed,
           Legacy!Arrays
  <2>5. LegacyInv'
    BY <1>1, PacketsCount
       DEF Legacy!Start, Legacy!NewRecovery, Legacy!TypeOK, Legacy!Raise, Legacy!Failed,
           Legacy!Arrays, LegacyInv, Legacy!Computers, Legacy!Recoveries
  <2> QED BY <2>1, <2>2, <2>3, <2>4, <2>5 DEF Legacy!TypeOK
<1>2. CASE Legacy!Unlock
  <2>1. ecu' \in Legacy!Computers
    BY <1>2
       DEF Legacy!Unlock, Legacy!TypeOK, Legacy!Raise, Legacy!Failed, Legacy!Arrays,
           Legacy!Computers
  <2>2. s' \in Legacy!Recoveries
    BY <1>2, PacketsCount
       DEF Legacy!Unlock, Legacy!TypeOK, Legacy!Raise, Legacy!Failed, Legacy!Arrays,
           Legacy!Recoveries
  <2>3. pc' \in Legacy!Pcs
    BY <1>2
       DEF Legacy!Unlock, Legacy!TypeOK, Legacy!Raise, Legacy!Failed, Legacy!Arrays,
           Legacy!Pcs
  <2>4. /\ outcome' \in {"none", "running", "not_started", "complete", "abandoned"}
        /\ touched' \in BOOLEAN
    BY <1>2 DEF Legacy!Unlock, Legacy!TypeOK, Legacy!Raise, Legacy!Failed, Legacy!Arrays
  <2>5. LegacyInv'
    <3>1. CASE pc' = "poll" /\ s' = s
      BY <1>2, <3>1 DEF Legacy!Unlock, LegacyInv
    <3>2. CASE Legacy!Failed(s)
      BY <3>2, LegacyFails DEF Legacy!TypeOK, LegacyInv
    <3> QED
      BY <1>2, <3>1, <3>2 DEF Legacy!Unlock
  <2> QED BY <2>1, <2>2, <2>3, <2>4, <2>5 DEF Legacy!TypeOK
<1>3. CASE Legacy!Poll
  <2>1. ecu' \in Legacy!Computers
    BY <1>3
       DEF Legacy!Poll, Legacy!TypeOK, Legacy!Raise, Legacy!Failed, Legacy!Arrays,
           Legacy!Computers
  <2>2. s' \in Legacy!Recoveries
    BY <1>3, PacketsCount
       DEF Legacy!Poll, Legacy!TypeOK, Legacy!Raise, Legacy!Failed, Legacy!Arrays,
           Legacy!Recoveries
  <2>3. pc' \in Legacy!Pcs
    BY <1>3
       DEF Legacy!Poll, Legacy!TypeOK, Legacy!Raise, Legacy!Failed, Legacy!Arrays, Legacy!Pcs
  <2>4. /\ outcome' \in {"none", "running", "not_started", "complete", "abandoned"}
        /\ touched' \in BOOLEAN
    BY <1>3 DEF Legacy!Poll, Legacy!TypeOK, Legacy!Raise, Legacy!Failed, Legacy!Arrays
  <2>5. LegacyInv'
    BY <1>3, PacketsCount
       DEF Legacy!Poll, Legacy!TypeOK, Legacy!Raise, Legacy!Failed, Legacy!Arrays, LegacyInv,
           Legacy!Computers, Legacy!Recoveries
  <2> QED BY <2>1, <2>2, <2>3, <2>4, <2>5 DEF Legacy!TypeOK
<1>4. CASE Legacy!Erase
  <2>1. ecu' \in Legacy!Computers
    <3>1. s.phase \in Legacy!Arrays
      BY <1>4 DEF Legacy!Erase, LegacyInv
    <3>2. ecu' = ecu \/ ecu' = EraseRuns(ecu, s.phase)
      BY <1>4 DEF Legacy!Erase, EraseRuns
    <3> QED
      BY <3>1, <3>2, LegacyErases DEF Legacy!TypeOK
  <2>2. s' \in Legacy!Recoveries
    BY <1>4, LegacyBeforeErase, LegacyFails DEF Legacy!Erase, Legacy!TypeOK
  <2>3. pc' \in Legacy!Pcs
    BY <1>4
       DEF Legacy!Erase, Legacy!BeforeErase, Legacy!TypeOK, Legacy!Raise, Legacy!Failed,
           Legacy!Arrays, Legacy!Pcs
  <2>4. /\ outcome' \in {"none", "running", "not_started", "complete", "abandoned"}
        /\ touched' \in BOOLEAN
    BY <1>4
       DEF Legacy!Erase, Legacy!BeforeErase, Legacy!TypeOK, Legacy!Raise, Legacy!Failed,
           Legacy!Arrays
  <2>5. LegacyInv'
    <3>1. s.phase \in Legacy!Arrays
      BY <1>4 DEF Legacy!Erase, LegacyInv
    <3>2. CASE Legacy!Failed(Legacy!BeforeErase)
      BY <3>2, LegacyBeforeErase, LegacyFails DEF Legacy!TypeOK, LegacyInv
    <3>3. CASE /\ pc' = "program" /\ s' = Legacy!BeforeErase
               /\ ecu' = EraseRuns(ecu, s.phase)
      BY <3>1, <3>3, LegacyBeforeErase, LegacyErases DEF Legacy!TypeOK, LegacyInv
    <3> QED
      BY <1>4, <3>2, <3>3 DEF Legacy!Erase, EraseRuns
  <2> QED BY <2>1, <2>2, <2>3, <2>4, <2>5 DEF Legacy!TypeOK
<1>5. CASE Legacy!Program
  <2>1. ecu' \in Legacy!Computers
    <3>1. s.phase \in Legacy!Arrays /\ s.pkt \in 1 .. Packets
      BY <1>5 DEF Legacy!Program, LegacyInv, Legacy!TypeOK, Legacy!Recoveries
    <3>2. ecu.cells[s.phase][s.pkt] \in Legacy!Cells
      BY <3>1 DEF Legacy!TypeOK, Legacy!Computers
    <3>3. \E c \in Legacy!Cells :
             ecu' = ecu \/ ecu' = Legacy!Programmed(ecu, s.phase, s.pkt, c)
      BY <1>5, <3>2 DEF Legacy!Program, Legacy!Interrupted, Legacy!Cells
    <3> QED
      BY <3>1, <3>3, LegacyProgrammed DEF Legacy!TypeOK
  <2>2. s' \in Legacy!Recoveries
    BY <1>5, LegacyPacketDone, LegacyFails DEF Legacy!Program, Legacy!TypeOK, LegacyInv
  <2>3. pc' \in Legacy!Pcs
    BY <1>5
       DEF Legacy!Program, Legacy!PacketDone, Legacy!TypeOK, Legacy!Raise, Legacy!Failed,
           Legacy!Arrays, Legacy!Pcs
  <2>4. /\ outcome' \in {"none", "running", "not_started", "complete", "abandoned"}
        /\ touched' \in BOOLEAN
    BY <1>5
       DEF Legacy!Program, Legacy!PacketDone, Legacy!TypeOK, Legacy!Raise, Legacy!Failed,
           Legacy!Arrays
  <2>5. LegacyInv'
    <3>1. s.phase \in Legacy!Arrays /\ s.pkt \in 1 .. Packets
      BY <1>5 DEF Legacy!Program, LegacyInv, Legacy!TypeOK, Legacy!Recoveries
    <3>2. ecu.cells[s.phase][s.pkt] \in Legacy!Cells
      BY <3>1 DEF Legacy!TypeOK, Legacy!Computers
    <3>3. \E c \in Legacy!Cells :
             ecu' = ecu \/ ecu' = Legacy!Programmed(ecu, s.phase, s.pkt, c)
      BY <1>5, <3>2 DEF Legacy!Program, Legacy!Interrupted, Legacy!Cells
    <3>4. \A p \in 1 .. Packets : p > s.pkt => ecu'.cells[s.phase][p] = "blank"
      <4>1. \A p \in 1 .. Packets : p > s.pkt => ecu.cells[s.phase][p] = "blank" /\ p # s.pkt
        BY <1>5, <3>1 DEF Legacy!Program, LegacyInv
      <4> QED
        BY <3>1, <3>3, <4>1, LegacyProgrammed DEF Legacy!TypeOK
    <3>5. CASE Legacy!PacketDone
      BY <3>1, <3>4, <3>5, LegacyPacketDone DEF Legacy!TypeOK, LegacyInv, Legacy!Arrays
    <3>6. CASE pc' = "readback" /\ s' = s
      BY <3>1, <3>4, <3>6 DEF LegacyInv
    <3>7. CASE Legacy!Failed(s)
      BY <3>7, LegacyFails DEF Legacy!TypeOK, LegacyInv
    <3> QED
      BY <1>5, <3>5, <3>6, <3>7 DEF Legacy!Program
  <2> QED BY <2>1, <2>2, <2>3, <2>4, <2>5 DEF Legacy!TypeOK
<1>6. CASE Legacy!Readback
  <2>1. ecu' \in Legacy!Computers
    BY <1>6
       DEF Legacy!Readback, Legacy!PacketDone, Legacy!Resendable, Legacy!TypeOK,
           Legacy!Raise, Legacy!Failed, Legacy!Arrays, Legacy!Computers
  <2>2. s' \in Legacy!Recoveries
    <3>1. CASE Legacy!PacketDone
      BY <1>6, <3>1, LegacyPacketDone DEF Legacy!Readback, Legacy!TypeOK, LegacyInv
    <3>2. CASE s.tries < WriteRetries /\ s' = [s EXCEPT !.tries = s.tries + 1]
      BY <3>2, PacketsCount DEF Legacy!TypeOK, Legacy!Recoveries
    <3>3. CASE Legacy!Failed(s) \/ Legacy!Raise(s, FALSE)
      BY <3>3, LegacyFails DEF Legacy!TypeOK, Legacy!Failed
    <3>4. CASE s' = [s EXCEPT !.automatic_replay_attempted = TRUE]
      BY <3>4 DEF Legacy!TypeOK, Legacy!Recoveries
    <3> QED
      BY <1>6, <3>1, <3>2, <3>3, <3>4 DEF Legacy!Readback
  <2>3. pc' \in Legacy!Pcs
    BY <1>6
       DEF Legacy!Readback, Legacy!PacketDone, Legacy!Resendable, Legacy!TypeOK,
           Legacy!Raise, Legacy!Failed, Legacy!Arrays, Legacy!Pcs
  <2>4. /\ outcome' \in {"none", "running", "not_started", "complete", "abandoned"}
        /\ touched' \in BOOLEAN
    BY <1>6
       DEF Legacy!Readback, Legacy!PacketDone, Legacy!Resendable, Legacy!TypeOK,
           Legacy!Raise, Legacy!Failed, Legacy!Arrays
  <2>5. LegacyInv'
    <3>1. /\ s.phase \in Legacy!Arrays /\ s.pkt \in 1 .. Packets /\ ecu' = ecu
          /\ \A p \in 1 .. Packets : p > s.pkt => ecu.cells[s.phase][p] = "blank"
      BY <1>6 DEF Legacy!Readback, LegacyInv, Legacy!TypeOK, Legacy!Recoveries
    <3>2. CASE Legacy!PacketDone
      BY <3>1, <3>2, LegacyPacketDone DEF Legacy!TypeOK, LegacyInv, Legacy!Arrays
    <3>3. CASE /\ ecu.cells[s.phase][s.pkt] = "blank"
               /\ s' = [s EXCEPT !.tries = s.tries + 1] /\ pc' = "program"
      <4>1. s'.phase = s.phase /\ s'.pkt = s.pkt
        BY <3>3 DEF Legacy!TypeOK, Legacy!Recoveries
      <4> QED
        BY <3>1, <3>3, <4>1 DEF LegacyInv
    <3>4. CASE Legacy!Failed(s) \/ Legacy!Raise(s, FALSE)
      BY <3>4, LegacyFails DEF Legacy!TypeOK, LegacyInv, Legacy!Failed
    <3>5. CASE s' = [s EXCEPT !.automatic_replay_attempted = TRUE] /\ pc' = "confirm"
      BY <3>1, <3>5 DEF Legacy!TypeOK, Legacy!Recoveries, LegacyInv
    <3> QED
      BY <1>6, <3>2, <3>3, <3>4, <3>5 DEF Legacy!Readback, Legacy!Resendable
  <2> QED BY <2>1, <2>2, <2>3, <2>4, <2>5 DEF Legacy!TypeOK
<1>7. CASE Legacy!Confirm
  <2>1. ecu' \in Legacy!Computers
    BY <1>7
       DEF Legacy!Confirm, Legacy!TypeOK, Legacy!Raise, Legacy!Failed, Legacy!Arrays,
           Legacy!Computers
  <2>2. s' \in Legacy!Recoveries
    BY <1>7, PacketsCount
       DEF Legacy!Confirm, Legacy!TypeOK, Legacy!Raise, Legacy!Failed, Legacy!Arrays,
           Legacy!Recoveries
  <2>3. pc' \in Legacy!Pcs
    BY <1>7
       DEF Legacy!Confirm, Legacy!TypeOK, Legacy!Raise, Legacy!Failed, Legacy!Arrays,
           Legacy!Pcs
  <2>4. /\ outcome' \in {"none", "running", "not_started", "complete", "abandoned"}
        /\ touched' \in BOOLEAN
    BY <1>7 DEF Legacy!Confirm, Legacy!TypeOK, Legacy!Raise, Legacy!Failed, Legacy!Arrays
  <2>5. LegacyInv'
    BY <1>7, PacketsCount
       DEF Legacy!Confirm, Legacy!TypeOK, Legacy!Raise, Legacy!Failed, Legacy!Arrays,
           LegacyInv, Legacy!Computers, Legacy!Recoveries
  <2> QED BY <2>1, <2>2, <2>3, <2>4, <2>5 DEF Legacy!TypeOK
<1>8. CASE Legacy!Finalize
  <2>1. ecu' \in Legacy!Computers
    BY <1>8
       DEF Legacy!Finalize, Legacy!Succeed, Legacy!TypeOK, Legacy!Raise, Legacy!Failed,
           Legacy!Arrays, Legacy!Computers
  <2>2. s' \in Legacy!Recoveries
    BY <1>8, PacketsCount
       DEF Legacy!Finalize, Legacy!Succeed, Legacy!TypeOK, Legacy!Raise, Legacy!Failed,
           Legacy!Arrays, Legacy!Recoveries
  <2>3. pc' \in Legacy!Pcs
    BY <1>8
       DEF Legacy!Finalize, Legacy!Succeed, Legacy!TypeOK, Legacy!Raise, Legacy!Failed,
           Legacy!Arrays, Legacy!Pcs
  <2>4. /\ outcome' \in {"none", "running", "not_started", "complete", "abandoned"}
        /\ touched' \in BOOLEAN
    BY <1>8
       DEF Legacy!Finalize, Legacy!Succeed, Legacy!TypeOK, Legacy!Raise, Legacy!Failed,
           Legacy!Arrays
  <2>5. LegacyInv'
    BY <1>8, PacketsCount
       DEF Legacy!Finalize, Legacy!Succeed, Legacy!TypeOK, Legacy!Raise, Legacy!Failed,
           Legacy!Arrays, LegacyInv, Legacy!Computers, Legacy!Recoveries
  <2> QED BY <2>1, <2>2, <2>3, <2>4, <2>5 DEF Legacy!TypeOK
<1>9. CASE Legacy!Verify
  <2>1. ecu' \in Legacy!Computers
    BY <1>9
       DEF Legacy!Verify, Legacy!Succeed, Legacy!TypeOK, Legacy!Raise, Legacy!Failed,
           Legacy!Arrays, Legacy!Computers
  <2>2. s' \in Legacy!Recoveries
    BY <1>9, PacketsCount
       DEF Legacy!Verify, Legacy!Succeed, Legacy!TypeOK, Legacy!Raise, Legacy!Failed,
           Legacy!Arrays, Legacy!Recoveries
  <2>3. pc' \in Legacy!Pcs
    BY <1>9
       DEF Legacy!Verify, Legacy!Succeed, Legacy!TypeOK, Legacy!Raise, Legacy!Failed,
           Legacy!Arrays, Legacy!Pcs
  <2>4. /\ outcome' \in {"none", "running", "not_started", "complete", "abandoned"}
        /\ touched' \in BOOLEAN
    BY <1>9
       DEF Legacy!Verify, Legacy!Succeed, Legacy!TypeOK, Legacy!Raise, Legacy!Failed,
           Legacy!Arrays
  <2>5. LegacyInv'
    BY <1>9, PacketsCount
       DEF Legacy!Verify, Legacy!Succeed, Legacy!TypeOK, Legacy!Raise, Legacy!Failed,
           Legacy!Arrays, LegacyInv, Legacy!Computers, Legacy!Recoveries
  <2> QED BY <2>1, <2>2, <2>3, <2>4, <2>5 DEF Legacy!TypeOK
<1>10. CASE Legacy!Handle
  <2>1. ecu' \in Legacy!Computers
    BY <1>10
       DEF Legacy!Handle, Legacy!TypeOK, Legacy!Raise, Legacy!Failed, Legacy!Arrays,
           Legacy!Computers
  <2>2. s' \in Legacy!Recoveries
    BY <1>10, PacketsCount
       DEF Legacy!Handle, Legacy!TypeOK, Legacy!Raise, Legacy!Failed, Legacy!Arrays,
           Legacy!Recoveries
  <2>3. pc' \in Legacy!Pcs
    BY <1>10
       DEF Legacy!Handle, Legacy!TypeOK, Legacy!Raise, Legacy!Failed, Legacy!Arrays,
           Legacy!Pcs
  <2>4. /\ outcome' \in {"none", "running", "not_started", "complete", "abandoned"}
        /\ touched' \in BOOLEAN
    BY <1>10 DEF Legacy!Handle, Legacy!TypeOK, Legacy!Raise, Legacy!Failed, Legacy!Arrays
  <2>5. LegacyInv'
    BY <1>10, PacketsCount
       DEF Legacy!Handle, Legacy!TypeOK, Legacy!Raise, Legacy!Failed, Legacy!Arrays,
           LegacyInv, Legacy!Computers, Legacy!Recoveries
  <2> QED BY <2>1, <2>2, <2>3, <2>4, <2>5 DEF Legacy!TypeOK
<1>11. CASE Legacy!Retry
  <2>1. ecu' \in Legacy!Computers
    BY <1>11
       DEF Legacy!Retry, Legacy!RetrySupported, Legacy!PowerCycleRequired, Legacy!TypeOK,
           Legacy!Raise, Legacy!Failed, Legacy!Arrays, Legacy!Computers
  <2>2. s' \in Legacy!Recoveries
    BY <1>11, PacketsCount
       DEF Legacy!Retry, Legacy!RetrySupported, Legacy!PowerCycleRequired, Legacy!TypeOK,
           Legacy!Raise, Legacy!Failed, Legacy!Arrays, Legacy!Recoveries
  <2>3. pc' \in Legacy!Pcs
    BY <1>11
       DEF Legacy!Retry, Legacy!RetrySupported, Legacy!PowerCycleRequired, Legacy!TypeOK,
           Legacy!Raise, Legacy!Failed, Legacy!Arrays, Legacy!Pcs
  <2>4. /\ outcome' \in {"none", "running", "not_started", "complete", "abandoned"}
        /\ touched' \in BOOLEAN
    BY <1>11
       DEF Legacy!Retry, Legacy!RetrySupported, Legacy!PowerCycleRequired, Legacy!TypeOK,
           Legacy!Raise, Legacy!Failed, Legacy!Arrays
  <2>5. LegacyInv'
    BY <1>11, PacketsCount
       DEF Legacy!Retry, Legacy!RetrySupported, Legacy!PowerCycleRequired, Legacy!TypeOK,
           Legacy!Raise, Legacy!Failed, Legacy!Arrays, LegacyInv, Legacy!Computers,
           Legacy!Recoveries
  <2> QED BY <2>1, <2>2, <2>3, <2>4, <2>5 DEF Legacy!TypeOK
<1>12. CASE Legacy!Release
  <2>1. ecu' \in Legacy!Computers
    BY <1>12
       DEF Legacy!Release, Legacy!TypeOK, Legacy!Raise, Legacy!Failed, Legacy!Arrays,
           Legacy!Computers
  <2>2. s' \in Legacy!Recoveries
    BY <1>12, PacketsCount
       DEF Legacy!Release, Legacy!TypeOK, Legacy!Raise, Legacy!Failed, Legacy!Arrays,
           Legacy!Recoveries
  <2>3. pc' \in Legacy!Pcs
    BY <1>12
       DEF Legacy!Release, Legacy!TypeOK, Legacy!Raise, Legacy!Failed, Legacy!Arrays,
           Legacy!Pcs
  <2>4. /\ outcome' \in {"none", "running", "not_started", "complete", "abandoned"}
        /\ touched' \in BOOLEAN
    BY <1>12 DEF Legacy!Release, Legacy!TypeOK, Legacy!Raise, Legacy!Failed, Legacy!Arrays
  <2>5. LegacyInv'
    BY <1>12, PacketsCount
       DEF Legacy!Release, Legacy!TypeOK, Legacy!Raise, Legacy!Failed, Legacy!Arrays,
           LegacyInv, Legacy!Computers, Legacy!Recoveries
  <2> QED BY <2>1, <2>2, <2>3, <2>4, <2>5 DEF Legacy!TypeOK
<1>13. CASE Legacy!Exit
  <2>1. ecu' \in Legacy!Computers
    BY <1>13
       DEF Legacy!Exit, Legacy!TypeOK, Legacy!Raise, Legacy!Failed, Legacy!Arrays,
           Legacy!Computers
  <2>2. s' \in Legacy!Recoveries
    BY <1>13, PacketsCount
       DEF Legacy!Exit, Legacy!TypeOK, Legacy!Raise, Legacy!Failed, Legacy!Arrays,
           Legacy!Recoveries
  <2>3. pc' \in Legacy!Pcs
    BY <1>13
       DEF Legacy!Exit, Legacy!TypeOK, Legacy!Raise, Legacy!Failed, Legacy!Arrays, Legacy!Pcs
  <2>4. /\ outcome' \in {"none", "running", "not_started", "complete", "abandoned"}
        /\ touched' \in BOOLEAN
    BY <1>13 DEF Legacy!Exit, Legacy!TypeOK, Legacy!Raise, Legacy!Failed, Legacy!Arrays
  <2>5. LegacyInv'
    BY <1>13, PacketsCount
       DEF Legacy!Exit, Legacy!TypeOK, Legacy!Raise, Legacy!Failed, Legacy!Arrays, LegacyInv,
           Legacy!Computers, Legacy!Recoveries
  <2> QED BY <2>1, <2>2, <2>3, <2>4, <2>5 DEF Legacy!TypeOK
<1>14. CASE Legacy!PowerOff
  <2>1. ecu' \in Legacy!Computers
    <3>1. ecu' = [ecu EXCEPT !.auth = 0, !.resident = FALSE] /\ ecu \in Legacy!Computers
      BY <1>14 DEF Legacy!PowerOff, Legacy!TypeOK
    <3>2. /\ ecu' = [auth |-> 0, resident |-> FALSE, cells |-> ecu.cells]
          /\ ecu.cells \in [Legacy!Arrays -> [1 .. Packets -> Legacy!Cells]]
      BY <3>1 DEF Legacy!Computers
    <3> QED
      BY <3>2 DEF Legacy!Computers
  <2>2. s' \in Legacy!Recoveries
    BY <1>14, PacketsCount
       DEF Legacy!PowerOff, Legacy!TypeOK, Legacy!Raise, Legacy!Failed, Legacy!Arrays,
           Legacy!Recoveries
  <2>3. pc' \in Legacy!Pcs
    BY <1>14
       DEF Legacy!PowerOff, Legacy!TypeOK, Legacy!Raise, Legacy!Failed, Legacy!Arrays,
           Legacy!Pcs
  <2>4. /\ outcome' \in {"none", "running", "not_started", "complete", "abandoned"}
        /\ touched' \in BOOLEAN
    BY <1>14 DEF Legacy!PowerOff, Legacy!TypeOK, Legacy!Raise, Legacy!Failed, Legacy!Arrays
  <2>5. LegacyInv'
    BY <1>14, PacketsCount
       DEF Legacy!PowerOff, Legacy!TypeOK, Legacy!Raise, Legacy!Failed, Legacy!Arrays,
           LegacyInv, Legacy!Computers, Legacy!Recoveries
  <2> QED BY <2>1, <2>2, <2>3, <2>4, <2>5 DEF Legacy!TypeOK
<1> QED
  BY <1>1, <1>2, <1>3, <1>4, <1>5, <1>6, <1>7, <1>8, <1>9, <1>10, <1>11, <1>12, <1>13, <1>14
     DEF Legacy!Next, Legacy!WorkerStep

---------------------------------------------------------------------------
(* The Soft-BSL writers.                                                   *)

SoftEarly == {"open", "flash_mode", "stage", "unstage", "preflight", "bank"}
SoftFilling == {"program", "inspect", "repair", "repair_verify"}
SoftWriting == SoftFilling \cup {"erase", "verify"}

\* A write begins with its first sector; what it is for, and how far it came.
SoftFresh ==
    /\ s.i <= Len(Soft!Order(s.op))
    /\ pc \in SoftEarly \/ ~s.destructive_started => s.i = 1 /\ ~s.verifying
    /\ pc \in SoftFilling \cup {"verify"} => s.destructive_started
    /\ pc = "finalize" /\ ~s.write_complete => ~s.destructive_started
    /\ pc \in SoftFilling \cup {"erase"} => ~s.verifying
    /\ pc = "verify" => s.verifying
    /\ pc \in {"idle", "booted"} => outcome # "running"
    /\ s.op \in {"top", "cross"} => s.bank = "T"
    /\ pc = "bank" => s.op # "tune"
    /\ pc = "return" => s.op = "cross"
    /\ s.op = "tune" /\ pc \notin {"idle", "booted"} => ecu.sw = s.bank

\* The bank the switch selects is the one the write is for, or has lost its
\* marker, or holds all there is to write to its boot sector.
SoftBanked ==
    \/ ecu.sw = s.bank
    \/ ~Soft!Holding(ecu, ecu.sw, "boot", {"old", "new"})
    \/ pc = "verify"
    \/ Soft!Sector = "boot" /\ pc = "repair_verify"
    \/ Soft!Sector = "boot" /\ pc \in {"program", "inspect"} /\ Soft!Cell = "new"

\* Erase and program go through the sectors in order: before the one at hand they are
\* done, after it they are still to be programmed, and so are its chunks.
SoftFlash ==
    /\ pc = "erase" => \A j \in 1 .. Len(Soft!Order(s.op)) : j < s.i =>
          Soft!Holding(ecu, ecu.sw, Soft!Order(s.op)[j],
                       IF s.op = "cross" THEN {"new"} ELSE {"blank"})
    /\ pc \in SoftFilling => \A j \in 1 .. Len(Soft!Order(s.op)) :
          /\ j < s.i => Soft!Holding(ecu, ecu.sw, Soft!Order(s.op)[j], {"new"})
          /\ j > s.i /\ s.op # "cross" =>
                Soft!Holding(ecu, ecu.sw, Soft!Order(s.op)[j], {"blank"})
    /\ pc \in {"program", "inspect"} => \A k \in 1 .. Chunks :
          /\ k < s.chunk => ecu.cells[ecu.sw][Soft!Sector][k] = "new"
          /\ k > s.chunk => ecu.cells[ecu.sw][Soft!Sector][k] = "blank"
    /\ pc \in {"program", "inspect"} => Soft!Cell # "old"
    /\ pc = "program" /\ s.tries = 0 => Soft!Cell = "blank"
    /\ pc = "verify" => \A j \in 1 .. Len(Soft!Order(s.op)) :
          Soft!Holding(ecu, ecu.sw, Soft!Order(s.op)[j], {"new"})
    /\ pc \in SoftWriting => SoftBanked

LEMMA SoftCounts == /\ Chunks \in Nat \ {0} /\ LastTier \in Nat \ {0} /\ Retries \in Nat
                    /\ 1 \in 1 .. Chunks /\ 0 \in 0 .. Retries /\ 1 \in 1 .. 3
                    /\ 1 \in 1 .. LastTier /\ LastTier \in 1 .. LastTier
<1>1. Chunks \in Nat \ {0} /\ LastTier \in Nat \ {0} /\ Retries \in Nat
  BY WritersAssumption
<1> QED
  BY <1>1

LEMMA SoftOrders ==
    ASSUME NEW op \in Soft!Ops
    PROVE  /\ Len(Soft!Order(op)) \in 1 .. 3
           /\ \A j \in 1 .. Len(Soft!Order(op)) :
                 /\ Soft!Order(op)[j] \in Soft!Sectors
                 /\ Soft!Order(op)[j] = "boot" => j = Len(Soft!Order(op))
                 /\ \A k \in 1 .. Len(Soft!Order(op)) :
                       Soft!Order(op)[j] = Soft!Order(op)[k] => j = k
           /\ op = "cross" => Soft!Order(op) = <<"tune", "program", "boot">>
<1>1. CASE op = "tune"
  BY <1>1 DEF Soft!Order, Soft!Sectors
<1>2. CASE op = "full"
  <2>1. Soft!Order(op) = <<"tune", "program">>
    BY <1>2 DEF Soft!Order
  <2> QED
    BY <1>2, <2>1 DEF Soft!Sectors
<1>3. CASE op = "identity"
  BY <1>3 DEF Soft!Order, Soft!Sectors
<1>4. CASE op \notin {"tune", "full", "identity"}
  <2>1. Soft!Order(op) = <<"tune", "program", "boot">>
    BY <1>4 DEF Soft!Order
  <2> QED
    BY <1>4, <2>1 DEF Soft!Sectors
<1> QED
  BY <1>1, <1>2, <1>3, <1>4

LEMMA SoftSector ==
    ASSUME s \in Soft!Sessions, s.i <= Len(Soft!Order(s.op))
    PROVE  /\ s.op \in Soft!Ops /\ s.i \in 1 .. Len(Soft!Order(s.op)) /\ s.i \in Nat
           /\ Len(Soft!Order(s.op)) \in 1 .. 3
           /\ Soft!Sector \in Soft!Sectors
           /\ Soft!Sector = "boot" => s.i = Len(Soft!Order(s.op))
           /\ \A j \in 1 .. Len(Soft!Order(s.op)) :
                 /\ Soft!Order(s.op)[j] \in Soft!Sectors
                 /\ j # s.i => Soft!Order(s.op)[j] # Soft!Sector
<1>1. s.op \in Soft!Ops /\ s.i \in 1 .. 3
  BY DEF Soft!Sessions
<1>2. Len(Soft!Order(s.op)) \in 1 .. 3
  BY <1>1, SoftOrders
<1>3. s.i \in 1 .. Len(Soft!Order(s.op)) /\ s.i \in Nat
  BY <1>1, <1>2
<1> QED
  BY <1>1, <1>2, <1>3, SoftOrders DEF Soft!Sector

\* What a step keeps of a session, and what a new one is.
SoftAlike(w, v) ==
    /\ v.op = w.op /\ v.bank = w.bank /\ v.i = w.i
    /\ v.verifying = w.verifying /\ v.destructive_started = w.destructive_started
SoftAnew(w, v) ==
    /\ v.op = w.op /\ v.bank = w.bank /\ v.i = 1
    /\ ~v.verifying

LEMMA SoftNew ==
    ASSUME NEW op \in Soft!Ops, NEW verify \in BOOLEAN, NEW boot \in BOOLEAN,
           NEW bank \in Soft!Banks
    PROVE  LET w == Soft!NewSession(op, verify, boot, bank)
           IN  /\ w \in Soft!Sessions
               /\ w.op = op /\ w.bank = bank /\ w.i = 1
               /\ ~w.verifying /\ ~w.destructive_started
  BY SoftCounts DEF Soft!NewSession, Soft!Sessions, Soft!Tiers

LEMMA SoftDropped ==
    ASSUME s \in Soft!Sessions
    PROVE  /\ Soft!Dropped \in Soft!Sessions /\ SoftAnew(s, Soft!Dropped)
           /\ ~Soft!Dropped.destructive_started
<1>1. s.op \in Soft!Ops /\ s.bank \in Soft!Banks
  BY DEF Soft!Sessions
<1> QED
  BY <1>1, SoftNew DEF Soft!Dropped, SoftAnew

\* What the steps of a write assign to its session keeps it one.
LEMMA SoftEdits ==
    ASSUME NEW w \in Soft!Sessions
    PROVE  /\ [w EXCEPT !.tier = LastTier] \in Soft!Sessions
           /\ SoftAlike(w, [w EXCEPT !.tier = LastTier])
           /\ \A t \in Soft!Tiers :
              [w EXCEPT !.tier = t] \in Soft!Sessions /\ SoftAlike(w, [w EXCEPT !.tier = t])
           /\ \A b \in BOOLEAN :
              [w EXCEPT !.ladder = b] \in Soft!Sessions /\ SoftAlike(w, [w EXCEPT !.ladder = b])
           /\ \A n \in 0 .. Retries :
              [w EXCEPT !.tries = n] \in Soft!Sessions /\ SoftAlike(w, [w EXCEPT !.tries = n])
           /\ \A c \in 1 .. Chunks :
              [w EXCEPT !.chunk = c, !.tries = 0] \in Soft!Sessions
              /\ SoftAlike(w, [w EXCEPT !.chunk = c, !.tries = 0])
           /\ [w EXCEPT !.replay = "running"] \in Soft!Sessions
              /\ SoftAlike(w, [w EXCEPT !.replay = "running"])
           /\ [w EXCEPT !.replay = "used"] \in Soft!Sessions
              /\ SoftAlike(w, [w EXCEPT !.replay = "used"])
           /\ [w EXCEPT !.write_complete = TRUE] \in Soft!Sessions
              /\ SoftAlike(w, [w EXCEPT !.write_complete = TRUE])
           /\ [w EXCEPT !.sent = TRUE, !.write_complete = TRUE] \in Soft!Sessions
              /\ SoftAlike(w, [w EXCEPT !.sent = TRUE, !.write_complete = TRUE])
           /\ [w EXCEPT !.i = 1, !.verifying = TRUE] \in Soft!Sessions
           /\ [w EXCEPT !.replay = "used", !.verifying = FALSE, !.i = 1, !.chunk = 1,
               !.tries = 0] \in Soft!Sessions
           /\ SoftAnew(w, [w EXCEPT !.replay = "used", !.verifying = FALSE, !.i = 1, !.chunk = 1,
               !.tries = 0])
           /\ [w EXCEPT !.replay_attempted = TRUE, !.replay = "used", !.i = 1, !.chunk = 1,
               !.tries = 0,
            !.verifying = FALSE] \in Soft!Sessions
           /\ SoftAnew(w, [w EXCEPT !.replay_attempted = TRUE, !.replay = "used", !.i = 1,
               !.chunk = 1, !.tries = 0,
            !.verifying = FALSE])
           /\ [w EXCEPT !.destructive_started = TRUE, !.tier = LastTier] \in Soft!Sessions
<1>1. [w EXCEPT !.tier = LastTier] \in Soft!Sessions /\ SoftAlike(w, [w EXCEPT !.tier = LastTier])
  BY SoftCounts DEF Soft!Sessions, Soft!Tiers, SoftAlike, SoftAnew
<1>2. \A t \in Soft!Tiers :
              [w EXCEPT !.tier = t] \in Soft!Sessions /\ SoftAlike(w, [w EXCEPT !.tier = t])
  BY SoftCounts DEF Soft!Sessions, Soft!Tiers, SoftAlike, SoftAnew
<1>3. \A b \in BOOLEAN :
              [w EXCEPT !.ladder = b] \in Soft!Sessions /\ SoftAlike(w, [w EXCEPT !.ladder = b])
  BY SoftCounts DEF Soft!Sessions, Soft!Tiers, SoftAlike, SoftAnew
<1>4. \A n \in 0 .. Retries :
              [w EXCEPT !.tries = n] \in Soft!Sessions /\ SoftAlike(w, [w EXCEPT !.tries = n])
  BY SoftCounts DEF Soft!Sessions, Soft!Tiers, SoftAlike, SoftAnew
<1>5. \A c \in 1 .. Chunks :
              [w EXCEPT !.chunk = c, !.tries = 0] \in Soft!Sessions
              /\ SoftAlike(w, [w EXCEPT !.chunk = c, !.tries = 0])
  BY SoftCounts DEF Soft!Sessions, Soft!Tiers, SoftAlike, SoftAnew
<1>6. [w EXCEPT !.replay = "running"] \in Soft!Sessions
      /\ SoftAlike(w, [w EXCEPT !.replay = "running"])
  BY SoftCounts DEF Soft!Sessions, Soft!Tiers, SoftAlike, SoftAnew
<1>7. [w EXCEPT !.replay = "used"] \in Soft!Sessions /\ SoftAlike(w, [w EXCEPT !.replay = "used"])
  BY SoftCounts DEF Soft!Sessions, Soft!Tiers, SoftAlike, SoftAnew
<1>8. [w EXCEPT !.write_complete = TRUE] \in Soft!Sessions
      /\ SoftAlike(w, [w EXCEPT !.write_complete = TRUE])
  BY SoftCounts DEF Soft!Sessions, Soft!Tiers, SoftAlike, SoftAnew
<1>9. [w EXCEPT !.sent = TRUE, !.write_complete = TRUE] \in Soft!Sessions
      /\ SoftAlike(w, [w EXCEPT !.sent = TRUE, !.write_complete = TRUE])
  BY SoftCounts DEF Soft!Sessions, Soft!Tiers, SoftAlike, SoftAnew
<1>10. [w EXCEPT !.i = 1, !.verifying = TRUE] \in Soft!Sessions
  BY SoftCounts DEF Soft!Sessions, Soft!Tiers, SoftAlike, SoftAnew
<1>11. [w EXCEPT !.replay = "used", !.verifying = FALSE, !.i = 1, !.chunk = 1,
           !.tries = 0] \in Soft!Sessions
           /\ SoftAnew(w, [w EXCEPT !.replay = "used", !.verifying = FALSE, !.i = 1, !.chunk = 1,
               !.tries = 0])
  BY SoftCounts DEF Soft!Sessions, Soft!Tiers, SoftAlike, SoftAnew
<1>12. [w EXCEPT !.replay_attempted = TRUE, !.replay = "used", !.i = 1, !.chunk = 1, !.tries = 0,
            !.verifying = FALSE] \in Soft!Sessions
           /\ SoftAnew(w, [w EXCEPT !.replay_attempted = TRUE, !.replay = "used", !.i = 1,
               !.chunk = 1, !.tries = 0,
            !.verifying = FALSE])
  BY SoftCounts DEF Soft!Sessions, Soft!Tiers, SoftAlike, SoftAnew
<1>13. [w EXCEPT !.destructive_started = TRUE, !.tier = LastTier] \in Soft!Sessions
  BY SoftCounts DEF Soft!Sessions, Soft!Tiers, SoftAlike, SoftAnew
<1> QED
  BY <1>1, <1>2, <1>3, <1>4, <1>5, <1>6, <1>7, <1>8, <1>9, <1>10, <1>11, <1>12, <1>13

LEMMA SoftBoundary ==
    ASSUME s \in Soft!Sessions
    PROVE  /\ Soft!Boundary \in Soft!Sessions
           /\ Soft!Boundary.op = s.op /\ Soft!Boundary.bank = s.bank /\ Soft!Boundary.i = s.i
           /\ Soft!Boundary.verifying = s.verifying /\ Soft!Boundary.destructive_started
           /\ Soft!Boundary.tries = s.tries
<1>1. Soft!Boundary \in Soft!Sessions
  BY SoftEdits DEF Soft!Boundary
<1> QED
  BY <1>1 DEF Soft!Boundary, Soft!Sessions

LEMMA SoftStarts == ASSUME Soft!Init PROVE Soft!TypeOK /\ SoftFresh /\ SoftFlash
<1>1. ecu \in Soft!Computers /\ ecu.sw = "B"
  BY DEF Soft!Init, Soft!Computers, Soft!Cells, Soft!Sectors, Soft!Banks
<1>2. s \in Soft!Sessions /\ s.i = 1 /\ s.op = "tune" /\ ~s.verifying /\ ~s.destructive_started
  <2>1. "tune" \in Soft!Ops /\ "B" \in Soft!Banks /\ FALSE \in BOOLEAN
    BY DEF Soft!Ops, Soft!Banks
  <2>2. s = Soft!NewSession("tune", FALSE, FALSE, "B")
    BY DEF Soft!Init
  <2> QED
    BY <2>1, <2>2, SoftNew
<1>3. pc = "idle" /\ outcome = "none" /\ touched = FALSE
  BY DEF Soft!Init
<1>4. s.i <= Len(Soft!Order(s.op))
  <2>1. s.op \in Soft!Ops /\ s.i = 1
    BY <1>2 DEF Soft!Ops
  <2>2. Len(Soft!Order(s.op)) \in 1 .. 3
    BY <2>1, SoftOrders
  <2>3. ASSUME NEW n \in 1 .. 3 PROVE 1 <= n
    OBVIOUS
  <2> QED
    BY <2>1, <2>2, <2>3, Zenon
<1>5. SoftFresh
  BY <1>2, <1>3, <1>4 DEF SoftFresh, SoftFilling
<1>6. SoftFlash
  BY <1>3 DEF SoftFlash, SoftFilling, SoftWriting
<1> QED
  BY <1>1, <1>2, <1>3, <1>5, <1>6 DEF Soft!TypeOK, Soft!Pcs

\* The flash under erase and program.
LEMMA SoftErases ==
    ASSUME ecu \in Soft!Computers, Soft!Sector \in Soft!Sectors,
           NEW c \in {"blank", "bad"}
    PROVE  LET e == [ecu EXCEPT !.cells[ecu.sw][Soft!Sector] = [k \in 1 .. Chunks |-> c]]
           IN  /\ e \in Soft!Computers /\ e.sw = ecu.sw
               /\ \A k \in 1 .. Chunks : e.cells[ecu.sw][Soft!Sector][k] = c
               /\ \A x \in Soft!Sectors : x # Soft!Sector =>
                     e.cells[ecu.sw][x] = ecu.cells[ecu.sw][x]
               /\ \A b \in Soft!Banks : b # ecu.sw => e.cells[b] = ecu.cells[b]
<1> DEFINE f == [ecu.cells[ecu.sw] EXCEPT ![Soft!Sector] = [k \in 1 .. Chunks |-> c]]
           e == [ecu EXCEPT !.cells[ecu.sw] = f]
<1>1. /\ f \in [Soft!Sectors -> [1 .. Chunks -> Soft!Cells]]
      /\ \A k \in 1 .. Chunks : f[Soft!Sector][k] = c
      /\ \A x \in Soft!Sectors : x # Soft!Sector => f[x] = ecu.cells[ecu.sw][x]
  BY DEF Soft!Computers, Soft!Cells
<1>2. [ecu EXCEPT !.cells[ecu.sw][Soft!Sector] = [k \in 1 .. Chunks |-> c]] = e
  OBVIOUS
<1> HIDE DEF f
<1>3. e \in Soft!Computers /\ e.sw = ecu.sw /\ e.cells[ecu.sw] = f
      /\ \A b \in Soft!Banks : b # ecu.sw => e.cells[b] = ecu.cells[b]
  BY <1>1 DEF Soft!Computers
<1> HIDE DEF e
<1> QED
  BY <1>1, <1>2, <1>3

LEMMA SoftPrograms ==
    ASSUME ecu \in Soft!Computers, Soft!Sector \in Soft!Sectors, s.chunk \in 1 .. Chunks,
           NEW c \in Soft!Cells
    PROVE  LET e == Soft!Programmed(c)
           IN  /\ e \in Soft!Computers /\ e.sw = ecu.sw
               /\ e.cells[ecu.sw][Soft!Sector][s.chunk] = c
               /\ \A k \in 1 .. Chunks : k # s.chunk =>
                     e.cells[ecu.sw][Soft!Sector][k] = ecu.cells[ecu.sw][Soft!Sector][k]
               /\ \A x \in Soft!Sectors : x # Soft!Sector =>
                     e.cells[ecu.sw][x] = ecu.cells[ecu.sw][x]
               /\ \A b \in Soft!Banks : b # ecu.sw => e.cells[b] = ecu.cells[b]
<1> DEFINE g == [ecu.cells[ecu.sw][Soft!Sector] EXCEPT ![s.chunk] = c]
           f == [ecu.cells[ecu.sw] EXCEPT ![Soft!Sector] = g]
           e == [ecu EXCEPT !.cells[ecu.sw] = f]
<1>1. /\ g \in [1 .. Chunks -> Soft!Cells] /\ g[s.chunk] = c
      /\ \A k \in 1 .. Chunks : k # s.chunk => g[k] = ecu.cells[ecu.sw][Soft!Sector][k]
  <2>1. ecu.cells[ecu.sw][Soft!Sector] \in [1 .. Chunks -> Soft!Cells]
    BY DEF Soft!Computers
  <2> QED
    BY <2>1
<1>2. Soft!Programmed(c) = e
  BY DEF Soft!Programmed
<1> HIDE DEF g
<1>3. /\ f \in [Soft!Sectors -> [1 .. Chunks -> Soft!Cells]] /\ f[Soft!Sector] = g
      /\ \A x \in Soft!Sectors : x # Soft!Sector => f[x] = ecu.cells[ecu.sw][x]
  BY <1>1 DEF Soft!Computers
<1> HIDE DEF f
<1>4. e \in Soft!Computers /\ e.sw = ecu.sw /\ e.cells[ecu.sw] = f
      /\ \A b \in Soft!Banks : b # ecu.sw => e.cells[b] = ecu.cells[b]
  BY <1>3 DEF Soft!Computers
<1> HIDE DEF e
<1> QED
  BY <1>1, <1>2, <1>3, <1>4

LEMMA SoftOne == ASSUME NEW op \in Soft!Ops PROVE 1 <= Len(Soft!Order(op))
<1>1. Len(Soft!Order(op)) \in 1 .. 3
  BY SoftOrders
<1>2. ASSUME NEW n \in 1 .. 3 PROVE 1 <= n
  OBVIOUS
<1> QED
  BY <1>1, <1>2, Zenon

\* Where the pass over the sectors goes on.
SoftAdvance ==
    /\ s' \in Soft!Sessions /\ s'.op = s.op /\ s'.bank = s.bank
    /\ s'.destructive_started = s.destructive_started
    /\ \/ /\ s.i < Len(Soft!Order(s.op)) /\ s'.i = s.i + 1 /\ s'.chunk = 1 /\ s'.tries = 0
          /\ s'.verifying = s.verifying
          /\ pc' = IF s.verifying THEN "verify"
                   ELSE IF s.op = "cross" THEN "erase" ELSE "program"
       \/ /\ s.i = Len(Soft!Order(s.op)) /\ ~s.verifying
          /\ s'.i = 1 /\ s'.verifying = TRUE /\ pc' = "verify"
       \/ /\ s.i = Len(Soft!Order(s.op)) /\ s'.i = s.i /\ s'.verifying = s.verifying
          /\ pc' \in {"return", "reset", "finalize"}
          /\ pc' = "return" => s.op = "cross"
          /\ pc' = "finalize" => s'.write_complete

LEMMA SoftWrites ==
    ASSUME s \in Soft!Sessions, NEW w \in Soft!Sessions, SoftAlike(s, w), Soft!Written(w)
    PROVE  /\ s' \in Soft!Sessions /\ SoftAlike(s, s')
           /\ pc' \in {"return", "reset", "finalize"}
           /\ pc' = "return" => s.op = "cross"
           /\ pc' = "finalize" => s'.write_complete
<1>1. \/ s' = w /\ pc' = "return" /\ s.op = "cross"
      \/ s' = w /\ pc' = "reset"
      \/ s' = [w EXCEPT !.write_complete = TRUE] /\ pc' = "finalize"
  BY DEF Soft!Written
<1>2. s' = [w EXCEPT !.write_complete = TRUE] =>
         s' \in Soft!Sessions /\ SoftAlike(w, s') /\ s'.write_complete = TRUE
  <2>1. [w EXCEPT !.write_complete = TRUE].write_complete = TRUE
    BY DEF Soft!Sessions
  <2> QED
    BY <2>1, SoftEdits
<1> QED
  BY <1>1, <1>2 DEF SoftAlike

LEMMA SoftNextSectors ==
    ASSUME s \in Soft!Sessions, s.i <= Len(Soft!Order(s.op)),
           NEW w \in Soft!Sessions, SoftAlike(s, w), Soft!NextSector(w)
    PROVE  SoftAdvance
<1>1. s.i \in 1 .. Len(Soft!Order(s.op)) /\ Len(Soft!Order(s.op)) \in 1 .. 3 /\ s.i \in Nat
  BY SoftSector
<1>2. CASE s.i < Len(Soft!Order(s.op))
  <2>1. /\ s' = [w EXCEPT !.i = w.i + 1, !.chunk = 1, !.tries = 0]
        /\ pc' = IF s.verifying THEN "verify"
                 ELSE IF s.op = "cross" THEN "erase" ELSE "program"
    BY <1>2 DEF Soft!NextSector
  <2>2. w.i = s.i /\ s.i + 1 \in 1 .. 3
    <3>1. ASSUME NEW n \in 1 .. 3, NEW i \in 1 .. n, i < n PROVE i + 1 \in 1 .. 3
      BY <3>1
    <3>2. w.i = s.i
      BY DEF SoftAlike
    <3> QED
      BY <1>1, <1>2, <3>1, <3>2, Zenon
  <2>3. s' \in Soft!Sessions
    BY <2>1, <2>2, SoftCounts DEF Soft!Sessions
  <2>4. /\ s'.op = s.op /\ s'.bank = s.bank /\ s'.i = s.i + 1 /\ s'.chunk = 1 /\ s'.tries = 0
        /\ s'.destructive_started = s.destructive_started /\ s'.verifying = s.verifying
    BY <2>1, <2>2 DEF Soft!Sessions, SoftAlike
  <2> QED
    BY <1>2, <2>1, <2>3, <2>4 DEF SoftAdvance
<1>3. CASE ~(s.i < Len(Soft!Order(s.op)))
  <2>1. s.i = Len(Soft!Order(s.op))
    BY <1>1, <1>3
  <2>2. Soft!Written(w) \/ (~s.verifying /\ Soft!AfterProgramming(w))
    BY <1>3 DEF Soft!NextSector
  <2>3. CASE Soft!Written(w)
    BY <2>1, <2>3, SoftWrites DEF SoftAdvance, SoftAlike
  <2>4. CASE /\ s' = [w EXCEPT !.i = 1, !.verifying = TRUE] /\ pc' = "verify"
             /\ ~s.verifying
    <3>1. /\ s' \in Soft!Sessions /\ s'.i = 1 /\ s'.verifying = TRUE /\ s'.op = s.op
          /\ s'.bank = s.bank /\ s'.destructive_started = s.destructive_started
      <4>1. [w EXCEPT !.i = 1, !.verifying = TRUE] \in Soft!Sessions
        BY SoftEdits
      <4> QED
        BY <2>4, <4>1 DEF Soft!Sessions, SoftAlike
    <3> QED
      BY <2>1, <2>4, <3>1 DEF SoftAdvance
  <2> QED
    BY <2>2, <2>3, <2>4 DEF Soft!AfterProgramming
<1> QED
  BY <1>2, <1>3

LEMMA SoftChunks ==
    ASSUME s \in Soft!Sessions, s.i <= Len(Soft!Order(s.op)), Soft!ChunkDone
    PROVE  \/ /\ s.chunk < Chunks /\ s' \in Soft!Sessions /\ SoftAlike(s, s')
              /\ s'.chunk = s.chunk + 1 /\ s.chunk + 1 \in 1 .. Chunks
              /\ s'.tries = 0 /\ pc' = "program"
           \/ s.chunk = Chunks /\ s' = s /\ pc' = "repair_verify"
           \/ s.chunk = Chunks /\ SoftAdvance
<1>1. s.chunk \in 1 .. Chunks
  BY DEF Soft!Sessions
<1>2. CASE s.chunk < Chunks
  <2>1. s' = [s EXCEPT !.chunk = s.chunk + 1, !.tries = 0] /\ pc' = "program"
    BY <1>1, <1>2 DEF Soft!ChunkDone
  <2>2. s.chunk + 1 \in 1 .. Chunks
    BY <1>1, <1>2, SoftCounts
  <2>3. s' \in Soft!Sessions /\ SoftAlike(s, s')
    BY <2>1, <2>2, SoftEdits
  <2>4. s'.chunk = s.chunk + 1 /\ s'.tries = 0
    BY <2>1 DEF Soft!Sessions
  <2> QED
    BY <1>2, <2>1, <2>2, <2>3, <2>4
<1>3. CASE s.chunk = Chunks /\ s.replay = "running"
  BY <1>3, SoftCounts DEF Soft!ChunkDone, Soft!Goto
<1>4. CASE s.chunk = Chunks /\ s.replay # "running"
  <2>1. Soft!NextSector(s)
    BY <1>4, SoftCounts DEF Soft!ChunkDone
  <2>2. SoftAlike(s, s)
    BY DEF SoftAlike
  <2> QED
    BY <1>4, <2>1, <2>2, SoftNextSectors
<1> QED
  BY <1>1, <1>2, <1>3, <1>4, SoftCounts

\* A sector that holds the image leads on to the next one in order.
LEMMA SoftFilled ==
    ASSUME Soft!TypeOK, SoftFresh, SoftFlash, pc \in SoftFilling,
           ecu' \in Soft!Computers, ecu'.sw = ecu.sw,
           \A x \in Soft!Sectors : x # Soft!Sector =>
              ecu'.cells[ecu.sw][x] = ecu.cells[ecu.sw][x],
           \A k \in 1 .. Chunks : ecu'.cells[ecu.sw][Soft!Sector][k] = "new",
           SoftAdvance
    PROVE  SoftFresh' /\ SoftFlash'
<1> DEFINE len == Len(Soft!Order(s.op))
<1>1. /\ s.op \in Soft!Ops /\ s.i \in 1 .. len /\ len \in 1 .. 3 /\ s.i \in Nat
      /\ Soft!Sector \in Soft!Sectors /\ (Soft!Sector = "boot" => s.i = len)
      /\ \A j \in 1 .. len : /\ Soft!Order(s.op)[j] \in Soft!Sectors
                             /\ j # s.i => Soft!Order(s.op)[j] # Soft!Sector
  BY SoftSector DEF Soft!TypeOK, SoftFresh
<1>2. \A j \in 1 .. len : j < s.i \/ j = s.i =>
         \A k \in 1 .. Chunks : ecu'.cells[ecu.sw][Soft!Order(s.op)[j]][k] = "new"
  <2>1. ASSUME NEW j \in 1 .. len, j < s.i
        PROVE  \A k \in 1 .. Chunks : ecu'.cells[ecu.sw][Soft!Order(s.op)[j]][k] = "new"
    <3>1. j # s.i
      BY <1>1, <2>1
    <3>2. Soft!Holding(ecu, ecu.sw, Soft!Order(s.op)[j], {"new"})
      BY <2>1 DEF SoftFlash
    <3> QED
      BY <1>1, <3>1, <3>2 DEF Soft!Holding
  <2> QED
    BY <2>1 DEF Soft!Sector
<1>3. s.destructive_started /\ ~s.verifying /\ pc \notin {"idle", "booted"}
  BY DEF SoftFresh, SoftFilling
<1>4. CASE /\ s.i < len /\ s'.i = s.i + 1 /\ s'.chunk = 1 /\ s'.tries = 0
           /\ ~s'.verifying /\ pc' = IF s.op = "cross" THEN "erase" ELSE "program"
  <2>1. s'.op = s.op /\ s'.bank = s.bank /\ s'.destructive_started
    BY <1>3 DEF SoftAdvance
  <2>2. SoftFresh'
    <3>1. s'.i <= Len(Soft!Order(s'.op))
      BY <1>1, <1>4, <2>1
    <3> QED
      BY <1>3, <1>4, <2>1, <3>1 DEF SoftFresh, SoftFilling, SoftEarly
  <2>3. SoftBanked'
    <3>1. Soft!Sector # "boot" /\ "boot" \in Soft!Sectors
      BY <1>1, <1>4 DEF Soft!Sectors
    <3>2. ecu.sw = s.bank \/ ~Soft!Holding(ecu, ecu.sw, "boot", {"old", "new"})
      BY <3>1 DEF SoftFlash, SoftBanked, SoftFilling, SoftWriting
    <3> QED
      BY <2>1, <3>1, <3>2 DEF SoftBanked, Soft!Holding
  <2>4. \A j \in 1 .. len : j < s.i + 1 => j < s.i \/ j = s.i
    BY <1>1
  <2>5. CASE s.op = "cross"
    <3>1. \A j \in 1 .. Len(Soft!Order(s'.op)) : j < s'.i =>
             Soft!Holding(ecu', ecu'.sw, Soft!Order(s'.op)[j], {"new"})
      BY <1>2, <1>4, <2>1, <2>4 DEF Soft!Holding
    <3>2. pc' = "erase" /\ s'.op = "cross"
      BY <1>4, <2>1, <2>5
    <3> QED
      BY <2>2, <2>3, <3>1, <3>2 DEF SoftFlash, SoftFilling
  <2>6. CASE s.op # "cross"
    <3>1. ASSUME NEW j \in 1 .. len, j > s.i
          PROVE  \A k \in 1 .. Chunks : ecu'.cells[ecu.sw][Soft!Order(s.op)[j]][k] = "blank"
      <4>1. j # s.i
        BY <1>1, <3>1
      <4>2. Soft!Holding(ecu, ecu.sw, Soft!Order(s.op)[j], {"blank"})
        BY <2>6, <3>1 DEF SoftFlash
      <4> QED
        BY <1>1, <4>1, <4>2 DEF Soft!Holding
    <3>2. s.i + 1 \in 1 .. len /\ s.i + 1 > s.i /\ \A j \in 1 .. len : j > s.i + 1 => j > s.i
      BY <1>1, <1>4
    <3>3. Soft!Sector' = Soft!Order(s.op)[s.i + 1]
      BY <1>4, <2>1 DEF Soft!Sector
    <3>4. \A k \in 1 .. Chunks : ecu'.cells[ecu'.sw][Soft!Sector'][k] = "blank"
      BY <3>1, <3>2, <3>3
    <3>5. Soft!Cell' = "blank"
      BY <1>4, <3>4, SoftCounts DEF Soft!Cell
    <3>6. \A k \in 1 .. Chunks : ~(k < 1)
      BY SoftCounts
    <3>7. pc' = "program"
      BY <1>4, <2>6
    <3>8. \A j \in 1 .. Len(Soft!Order(s'.op)) :
             /\ j < s'.i => Soft!Holding(ecu', ecu'.sw, Soft!Order(s'.op)[j], {"new"})
             /\ j > s'.i /\ s'.op # "cross" =>
                   Soft!Holding(ecu', ecu'.sw, Soft!Order(s'.op)[j], {"blank"})
      BY <1>2, <1>4, <2>1, <2>4, <3>1, <3>2 DEF Soft!Holding
    <3> QED
      BY <1>4, <2>2, <2>3, <3>4, <3>5, <3>6, <3>7, <3>8 DEF SoftFlash
  <2> QED
    BY <2>2, <2>5, <2>6
<1>5. CASE s.i = len /\ s'.i = 1 /\ s'.verifying = TRUE /\ pc' = "verify"
  <2>1. s'.op = s.op /\ s'.bank = s.bank /\ s'.destructive_started
    BY <1>3 DEF SoftAdvance
  <2>2. SoftFresh'
    <3>1. 1 <= Len(Soft!Order(s'.op))
      BY <1>1, <2>1, SoftOne
    <3> QED
      BY <1>3, <1>5, <2>1, <3>1 DEF SoftFresh, SoftFilling, SoftEarly
  <2>3. \A j \in 1 .. len : j < s.i \/ j = s.i
    BY <1>1, <1>5
  <2> QED
    BY <1>2, <1>5, <2>1, <2>2, <2>3 DEF SoftFlash, SoftBanked, SoftFilling, Soft!Holding
<1>6. CASE /\ s'.i = s.i /\ s'.verifying = s.verifying
           /\ pc' \in {"return", "reset", "finalize"}
           /\ pc' = "return" => s.op = "cross"
           /\ pc' = "finalize" => s'.write_complete
  <2>1. s'.op = s.op /\ s'.bank = s.bank /\ s'.destructive_started
    BY <1>3 DEF SoftAdvance
  <2>2. SoftFresh'
    BY <1>3, <1>6, <2>1 DEF SoftFresh, SoftFilling, SoftEarly
  <2> QED
    BY <1>6, <2>2 DEF SoftFlash, SoftFilling, SoftWriting
<1> QED
  BY <1>3, <1>4, <1>5, <1>6 DEF SoftAdvance

LEMMA SoftTyped ==
    ASSUME Soft!TypeOK, SoftFresh
    PROVE  /\ s \in Soft!Sessions /\ ecu \in Soft!Computers /\ s.chunk \in 1 .. Chunks
           /\ s.op \in Soft!Ops /\ s.bank \in Soft!Banks /\ ecu.sw \in Soft!Banks
           /\ s.tries \in Nat
           /\ s.i \in 1 .. Len(Soft!Order(s.op)) /\ s.i \in Nat
           /\ Len(Soft!Order(s.op)) \in 1 .. 3
           /\ Soft!Sector \in Soft!Sectors
           /\ Soft!Sector = "boot" => s.i = Len(Soft!Order(s.op))
           /\ \A j \in 1 .. Len(Soft!Order(s.op)) :
                 /\ Soft!Order(s.op)[j] \in Soft!Sectors
                 /\ j # s.i => Soft!Order(s.op)[j] # Soft!Sector
           /\ ecu.cells[ecu.sw] \in [Soft!Sectors -> [1 .. Chunks -> Soft!Cells]]
           /\ Soft!Cell \in Soft!Cells
<1>1. /\ s \in Soft!Sessions /\ ecu \in Soft!Computers /\ s.chunk \in 1 .. Chunks
      /\ s.op \in Soft!Ops /\ s.bank \in Soft!Banks /\ ecu.sw \in Soft!Banks
      /\ ecu.cells[ecu.sw] \in [Soft!Sectors -> [1 .. Chunks -> Soft!Cells]]
  BY DEF Soft!TypeOK, Soft!Sessions, Soft!Computers
<1>2. s.tries \in Nat
  BY SoftCounts DEF Soft!TypeOK, Soft!Sessions
<1>3. /\ s.i \in 1 .. Len(Soft!Order(s.op)) /\ s.i \in Nat
      /\ Len(Soft!Order(s.op)) \in 1 .. 3
      /\ Soft!Sector \in Soft!Sectors
      /\ Soft!Sector = "boot" => s.i = Len(Soft!Order(s.op))
      /\ \A j \in 1 .. Len(Soft!Order(s.op)) :
            /\ Soft!Order(s.op)[j] \in Soft!Sectors
            /\ j # s.i => Soft!Order(s.op)[j] # Soft!Sector
  BY <1>1, SoftSector DEF SoftFresh
<1>4. Soft!Cell \in Soft!Cells
  BY <1>1, <1>3 DEF Soft!Cell
<1> QED
  BY <1>1, <1>2, <1>3, <1>4

\* The operation at hand stays at its sector: what it keeps.
LEMMA SoftStaysHere ==
    ASSUME Soft!TypeOK, SoftFresh, SoftFlash, pc \in SoftFilling, s' \in Soft!Sessions,
           SoftAlike(s, s'), pc' \in SoftFilling, ecu'.sw = ecu.sw,
           \A x \in Soft!Sectors : x # Soft!Sector =>
              ecu'.cells[ecu.sw][x] = ecu.cells[ecu.sw][x]
    PROVE  /\ SoftFresh' /\ Soft!Sector' = Soft!Sector
           /\ \A j \in 1 .. Len(Soft!Order(s'.op)) :
                 /\ j < s'.i => Soft!Holding(ecu', ecu'.sw, Soft!Order(s'.op)[j], {"new"})
                 /\ j > s'.i /\ s'.op # "cross" =>
                       Soft!Holding(ecu', ecu'.sw, Soft!Order(s'.op)[j], {"blank"})
           /\ Soft!Sector # "boot" => SoftBanked'
           /\ ecu.sw = s.bank => SoftBanked'
<1>1. s'.op = s.op /\ s'.i = s.i /\ s'.bank = s.bank
  BY DEF SoftAlike
<1>2. s'.destructive_started /\ ~s'.verifying /\ pc \notin {"idle", "booted"}
  BY DEF SoftAlike, SoftFresh, SoftFilling
<1>3. SoftFresh'
  BY <1>1, <1>2 DEF SoftFresh, SoftFilling, SoftEarly
<1>4. Soft!Sector' = Soft!Sector
  BY <1>1 DEF Soft!Sector
<1>5. ASSUME NEW j \in 1 .. Len(Soft!Order(s.op))
      PROVE  /\ j < s.i => Soft!Holding(ecu', ecu'.sw, Soft!Order(s.op)[j], {"new"})
             /\ j > s.i /\ s.op # "cross" =>
                   Soft!Holding(ecu', ecu'.sw, Soft!Order(s.op)[j], {"blank"})
  <2>1. /\ j < s.i => Soft!Holding(ecu, ecu.sw, Soft!Order(s.op)[j], {"new"})
        /\ j > s.i /\ s.op # "cross" =>
              Soft!Holding(ecu, ecu.sw, Soft!Order(s.op)[j], {"blank"})
    BY DEF SoftFlash
  <2>2. j < s.i \/ j > s.i =>
           ecu'.cells[ecu.sw][Soft!Order(s.op)[j]] = ecu.cells[ecu.sw][Soft!Order(s.op)[j]]
    <3>1. j < s.i \/ j > s.i => j # s.i
      BY SoftTyped
    <3> QED
      BY <3>1, SoftTyped
  <2> QED
    BY <2>1, <2>2 DEF Soft!Holding
<1>6. Soft!Sector # "boot" => SoftBanked'
  <2>1. SoftBanked /\ pc # "verify" /\ "boot" \in Soft!Sectors
    BY DEF SoftFlash, SoftFilling, SoftWriting, Soft!Sectors
  <2> QED
    BY <1>1, <2>1 DEF SoftBanked, Soft!Holding
<1>7. ecu.sw = s.bank => SoftBanked'
  BY <1>1 DEF SoftBanked
<1> QED
  BY <1>1, <1>3, <1>4, <1>5, <1>6, <1>7

LEMMA SoftChunked ==
    ASSUME Soft!TypeOK, SoftFresh, SoftFlash, pc \in {"program", "inspect"},
           ecu' \in Soft!Computers, ecu'.sw = ecu.sw,
           \A x \in Soft!Sectors : x # Soft!Sector =>
              ecu'.cells[ecu.sw][x] = ecu.cells[ecu.sw][x],
           \A k \in 1 .. Chunks : k # s.chunk =>
              ecu'.cells[ecu.sw][Soft!Sector][k] = ecu.cells[ecu.sw][Soft!Sector][k],
           ecu'.cells[ecu.sw][Soft!Sector][s.chunk] = "new",
           Soft!ChunkDone
    PROVE  /\ s' \in Soft!Sessions /\ SoftFresh' /\ SoftFlash'
           /\ pc' \in Soft!Pcs \ {"open", "idle", "booted"}
<1>1. pc \in SoftFilling
  BY DEF SoftFilling
<1>2. \/ /\ s.chunk < Chunks /\ s' \in Soft!Sessions /\ SoftAlike(s, s')
         /\ s'.chunk = s.chunk + 1 /\ s.chunk + 1 \in 1 .. Chunks
         /\ s'.tries = 0 /\ pc' = "program"
      \/ s.chunk = Chunks /\ s' = s /\ pc' = "repair_verify"
      \/ s.chunk = Chunks /\ SoftAdvance
  BY SoftTyped, SoftChunks DEF SoftFresh
<1>3. \A k \in 1 .. Chunks :
         /\ k < s.chunk => ecu.cells[ecu.sw][Soft!Sector][k] = "new"
         /\ k > s.chunk => ecu.cells[ecu.sw][Soft!Sector][k] = "blank"
  BY DEF SoftFlash
<1>4. \A k \in 1 .. Chunks :
         /\ k < s.chunk + 1 => ecu'.cells[ecu.sw][Soft!Sector][k] = "new"
         /\ k > s.chunk => ecu'.cells[ecu.sw][Soft!Sector][k] = "blank"
  <2>1. ASSUME NEW k \in 1 .. Chunks
        PROVE  /\ k < s.chunk + 1 => k < s.chunk \/ k = s.chunk
               /\ k < s.chunk \/ k > s.chunk => k # s.chunk
    BY SoftTyped, SoftCounts
  <2> QED
    BY <1>3, <2>1
<1>5. CASE /\ s.chunk < Chunks /\ s' \in Soft!Sessions /\ SoftAlike(s, s')
           /\ s'.chunk = s.chunk + 1 /\ s.chunk + 1 \in 1 .. Chunks
           /\ s'.tries = 0 /\ pc' = "program"
  <2>1. /\ SoftFresh' /\ Soft!Sector' = Soft!Sector
        /\ \A j \in 1 .. Len(Soft!Order(s'.op)) :
              /\ j < s'.i => Soft!Holding(ecu', ecu'.sw, Soft!Order(s'.op)[j], {"new"})
              /\ j > s'.i /\ s'.op # "cross" =>
                    Soft!Holding(ecu', ecu'.sw, Soft!Order(s'.op)[j], {"blank"})
        /\ Soft!Sector # "boot" => SoftBanked'
    BY <1>1, <1>5, SoftStaysHere DEF SoftFilling
  <2>2. s.chunk + 1 > s.chunk /\ \A k \in 1 .. Chunks : k > s.chunk + 1 => k > s.chunk
    BY SoftTyped, SoftCounts
  <2>3. Soft!Cell' = "blank"
    BY <1>4, <1>5, <2>1, <2>2 DEF Soft!Cell
  <2>4. SoftBanked'
    <3>1. CASE Soft!Sector = "boot"
      <4>1. ecu'.cells[ecu'.sw]["boot"][s.chunk + 1] = "blank"
        BY <1>4, <1>5, <2>2, <3>1
      <4> QED
        BY <1>5, <4>1 DEF SoftBanked, Soft!Holding
    <3> QED
      BY <2>1, <3>1
  <2>5. \A k \in 1 .. Chunks :
           /\ k < s'.chunk => ecu'.cells[ecu'.sw][Soft!Sector'][k] = "new"
           /\ k > s'.chunk => ecu'.cells[ecu'.sw][Soft!Sector'][k] = "blank"
    BY <1>4, <1>5, <2>1, <2>2
  <2> QED
    BY <1>5, <2>1, <2>3, <2>4, <2>5 DEF SoftFlash, Soft!Pcs
<1>6. CASE s.chunk = Chunks
  <2>1. \A k \in 1 .. Chunks : k < s.chunk + 1
    BY <1>6, SoftCounts
  <2>2. \A k \in 1 .. Chunks : ecu'.cells[ecu.sw][Soft!Sector][k] = "new"
    BY <1>4, <2>1
  <2>3. CASE s' = s /\ pc' = "repair_verify"
    <3>1. s \in Soft!Sessions /\ SoftAlike(s, s')
      BY <2>3 DEF SoftAlike, Soft!TypeOK
    <3>2. /\ SoftFresh' /\ Soft!Sector' = Soft!Sector
          /\ \A j \in 1 .. Len(Soft!Order(s'.op)) :
                /\ j < s'.i => Soft!Holding(ecu', ecu'.sw, Soft!Order(s'.op)[j], {"new"})
                /\ j > s'.i /\ s'.op # "cross" =>
                      Soft!Holding(ecu', ecu'.sw, Soft!Order(s'.op)[j], {"blank"})
          /\ Soft!Sector # "boot" => SoftBanked'
      BY <1>1, <2>3, <3>1, SoftStaysHere DEF SoftFilling
    <3>3. SoftBanked'
      BY <2>3, <3>2 DEF SoftBanked
    <3> QED
      BY <2>3, <3>1, <3>2, <3>3 DEF SoftFlash, Soft!Pcs
  <2>4. CASE SoftAdvance
    <3>1. SoftFresh' /\ SoftFlash'
      BY <1>1, <2>2, <2>4, SoftFilled
    <3> QED
      BY <2>4, <3>1 DEF SoftAdvance, Soft!Pcs
  <2> QED
    BY <1>2, <1>6, <2>3, <2>4, SoftCounts
<1> QED
  BY <1>2, <1>5, <1>6

\* A chunk that holds something else: the sector repair, or the end of the attempt.
LEMMA SoftMismatches ==
    ASSUME Soft!TypeOK, SoftFresh, SoftFlash, pc \in {"program", "inspect"},
           ecu'.sw = ecu.sw,
           \A x \in Soft!Sectors : x # Soft!Sector =>
              ecu'.cells[ecu.sw][x] = ecu.cells[ecu.sw][x],
           ecu'.cells[ecu.sw][Soft!Sector][s.chunk] \notin {"old", "new"},
           Soft!Mismatch
    PROVE  /\ s' \in Soft!Sessions /\ SoftFresh' /\ SoftFlash'
           /\ pc' \in Soft!Pcs \ {"open", "idle", "booted"}
<1>1. pc \in SoftFilling /\ s.destructive_started /\ pc \notin {"idle", "booted"} /\ ~s.verifying
  BY DEF SoftFilling, SoftFresh
<1>2. \/ s' = [s EXCEPT !.ladder = TRUE] /\ pc' = "handler"
      \/ /\ s' = [s EXCEPT !.replay = "used", !.verifying = FALSE, !.i = 1,
                           !.chunk = 1, !.tries = 0]
         /\ pc' = "erase" /\ s.op = "tune"
      \/ s' = [s EXCEPT !.replay = "running"] /\ pc' = "repair"
  BY DEF Soft!Mismatch, Soft!Raise
<1>3. CASE s' = [s EXCEPT !.ladder = TRUE] /\ pc' = "handler"
  <2>1. s' \in Soft!Sessions /\ SoftAlike(s, s')
    BY <1>3, SoftTyped, SoftEdits
  <2>2. SoftFresh'
    BY <1>1, <1>3, <2>1 DEF SoftFresh, SoftAlike, SoftFilling, SoftEarly
  <2> QED
    BY <1>3, <2>1, <2>2 DEF SoftFlash, SoftFilling, SoftWriting, Soft!Pcs
<1>4. CASE /\ s' = [s EXCEPT !.replay = "used", !.verifying = FALSE, !.i = 1,
                             !.chunk = 1, !.tries = 0]
           /\ pc' = "erase" /\ s.op = "tune"
  <2>1. s' \in Soft!Sessions /\ SoftAnew(s, s')
    BY <1>4, SoftTyped, SoftEdits
  <2>2. 1 <= Len(Soft!Order(s'.op)) /\ s'.i = 1 /\ \A j \in 1 .. Len(Soft!Order(s'.op)) : ~(j < 1)
    BY <2>1, SoftTyped, SoftOne DEF SoftAnew
  <2>3. SoftFresh'
    BY <1>1, <1>4, <2>1, <2>2 DEF SoftFresh, SoftAnew, SoftFilling, SoftEarly
  <2>4. ecu'.sw = s'.bank
    BY <1>1, <1>4, <2>1 DEF SoftFresh, SoftAnew
  <2> QED
    BY <1>4, <2>1, <2>2, <2>3, <2>4 DEF SoftFlash, SoftBanked, SoftFilling, Soft!Pcs
<1>5. CASE s' = [s EXCEPT !.replay = "running"] /\ pc' = "repair"
  <2>1. s' \in Soft!Sessions /\ SoftAlike(s, s')
    BY <1>5, SoftTyped, SoftEdits
  <2>2. /\ SoftFresh' /\ Soft!Sector' = Soft!Sector
        /\ \A j \in 1 .. Len(Soft!Order(s'.op)) :
              /\ j < s'.i => Soft!Holding(ecu', ecu'.sw, Soft!Order(s'.op)[j], {"new"})
              /\ j > s'.i /\ s'.op # "cross" =>
                    Soft!Holding(ecu', ecu'.sw, Soft!Order(s'.op)[j], {"blank"})
        /\ Soft!Sector # "boot" => SoftBanked'
    BY <1>1, <1>5, <2>1, SoftStaysHere DEF SoftFilling
  <2>3. Soft!Sector = "boot" => SoftBanked'
    BY SoftTyped DEF SoftBanked, Soft!Holding
  <2> QED
    BY <1>5, <2>1, <2>2, <2>3 DEF SoftFlash, Soft!Pcs
<1> QED
  BY <1>2, <1>3, <1>4, <1>5

LEMMA SoftRaises ==
    ASSUME s \in Soft!Sessions, SoftFresh, NEW w \in Soft!Sessions,
           NEW b \in BOOLEAN, Soft!Raise(w, b), w.op = s.op, w.bank = s.bank, w.i = s.i,
           w.verifying = s.verifying,
           w.destructive_started \/ SoftAlike(s, w), pc \notin {"idle", "booted"},
           s.op = "tune" => ecu'.sw = ecu.sw
    PROVE  s' \in Soft!Sessions /\ SoftFresh' /\ SoftFlash' /\ pc' = "handler"
<1>1. s' = [w EXCEPT !.ladder = b] /\ pc' = "handler"
  BY DEF Soft!Raise
<1>2. s' \in Soft!Sessions /\ SoftAlike(w, s')
  BY <1>1, SoftEdits
<1>3. SoftFresh'
  <2>1. s'.op = s.op /\ s'.bank = s.bank /\ s'.i = s.i /\ s'.verifying = s.verifying
    BY <1>2 DEF SoftAlike
  <2>2. s'.destructive_started \/ s'.destructive_started = s.destructive_started
    BY <1>2 DEF SoftAlike
  <2> QED
    BY <1>1, <2>1, <2>2 DEF SoftFresh, SoftFilling, SoftEarly
<1> QED
  BY <1>1, <1>2, <1>3 DEF SoftFlash, SoftFilling, SoftWriting

LEMMA SoftUnchanged ==
    ASSUME Soft!TypeOK, SoftFresh
    PROVE  Soft!Programmed(Soft!Cell).cells = ecu.cells
<1> DEFINE g == [ecu.cells[ecu.sw][Soft!Sector] EXCEPT ![s.chunk] = Soft!Cell]
           f == [ecu.cells[ecu.sw] EXCEPT ![Soft!Sector] = g]
           h == [ecu.cells EXCEPT ![ecu.sw] = f]
<1>1. ecu.cells[ecu.sw][Soft!Sector] \in [1 .. Chunks -> Soft!Cells] /\ s.chunk \in 1 .. Chunks
  BY SoftTyped
<1>2. g = ecu.cells[ecu.sw][Soft!Sector]
  BY <1>1 DEF Soft!Cell
<1> HIDE DEF g
<1>3. f = ecu.cells[ecu.sw]
  BY <1>2, SoftTyped
<1> HIDE DEF f
<1>4. h = ecu.cells
  BY <1>3, SoftTyped DEF Soft!Computers
<1>5. Soft!Programmed(Soft!Cell) = [ecu EXCEPT !.cells = h]
  BY DEF Soft!Programmed, f, g
<1> HIDE DEF h
<1> QED
  BY <1>4, <1>5, SoftTyped DEF Soft!Computers

LEMMA SoftRightBank ==
    ASSUME Soft!TypeOK, SoftFresh, SoftFlash, pc \in {"erase", "program", "repair"},
           \A b \in Soft!Banks : b # ecu.sw => ecu'.cells[b] = ecu.cells[b],
           \A x \in Soft!Sectors : x # Soft!Sector =>
              ecu'.cells[ecu.sw][x] = ecu.cells[ecu.sw][x],
           pc = "program" /\ Soft!Cell = "new" => ecu'.cells = ecu.cells
    PROVE  Soft!WritesRightBank
<1> SUFFICES ASSUME NEW b \in Soft!Banks, ecu'.cells[b] # ecu.cells[b]
             PROVE  /\ b = s.bank \/ ~Soft!Marked(b)
                    /\ s.op = "cross" /\ ecu'.cells[b]["boot"] # ecu.cells[b]["boot"] =>
                          \A x \in {"program", "tune"} : Soft!Holding(ecu, b, x, {"new"})
  BY DEF Soft!WritesRightBank
<1>1. b = ecu.sw /\ ecu'.cells # ecu.cells
  OBVIOUS
<1>2. b = s.bank \/ ~Soft!Marked(b)
  BY <1>1 DEF SoftFlash, SoftBanked, SoftWriting, SoftFilling, Soft!Marked
<1>3. ASSUME s.op = "cross", ecu'.cells[b]["boot"] # ecu.cells[b]["boot"]
      PROVE  \A x \in {"program", "tune"} : Soft!Holding(ecu, b, x, {"new"})
  <2>1. Soft!Sector = "boot"
    BY <1>1, <1>3 DEF Soft!Sectors
  <2>2. Soft!Order(s.op) = <<"tune", "program", "boot">>
    BY <1>3, SoftTyped, SoftOrders
  <2>3. s.i = 3 /\ Len(Soft!Order(s.op)) = 3
    BY <2>1, <2>2, SoftTyped
  <2>4. \A j \in 1 .. Len(Soft!Order(s.op)) : j < s.i =>
           Soft!Holding(ecu, ecu.sw, Soft!Order(s.op)[j], {"new"})
    BY <1>3 DEF SoftFlash, SoftFilling
  <2>5. Soft!Order(s.op)[1] = "tune" /\ Soft!Order(s.op)[2] = "program"
    BY <2>2
  <2>6. \A j \in 1 .. 3 : j < 3 => Soft!Holding(ecu, ecu.sw, Soft!Order(s.op)[j], {"new"})
    BY <2>3, <2>4
  <2>7. /\ Soft!Holding(ecu, ecu.sw, Soft!Order(s.op)[1], {"new"})
        /\ Soft!Holding(ecu, ecu.sw, Soft!Order(s.op)[2], {"new"})
    BY <2>6
  <2> QED
    BY <1>1, <2>5, <2>7
<1> QED
  BY <1>2, <1>3

SoftStepped ==
    /\ (Soft!TypeOK)' /\ SoftFresh' /\ SoftFlash'
    /\ Soft!WritesRightBank /\ Soft!LeavesNormal

LEMMA SoftInspects ==
    ASSUME Soft!TypeOK, SoftFresh, SoftFlash, Soft!Inspect
    PROVE  SoftStepped
<1>0. pc = "inspect" /\ pc \in SoftFilling /\ ecu' = ecu /\ UNCHANGED <<outcome, touched>>
  BY DEF Soft!Inspect, Soft!Stays, SoftFilling
<1>1. /\ s' \in Soft!Sessions /\ SoftFresh' /\ SoftFlash'
      /\ pc' \in Soft!Pcs \ {"open", "idle", "booted"}
  <2>1. CASE Soft!Cell = "new" /\ Soft!ChunkDone
    BY <1>0, <2>1, SoftTyped, SoftChunked DEF Soft!Cell
  <2>2. CASE Soft!Cell \notin {"blank", "part", "new"} /\ Soft!Mismatch
    <3>1. Soft!Cell \notin {"old", "new"}
      BY <1>0, <2>2 DEF SoftFlash
    <3> QED
      BY <1>0, <2>2, <3>1, SoftMismatches DEF Soft!Cell
  <2>3. CASE Soft!Raise(s, TRUE)
    <3>1. SoftAlike(s, s)
      BY DEF SoftAlike
    <3> QED
      BY <1>0, <2>3, <3>1, SoftTyped, SoftRaises DEF Soft!Pcs
  <2> QED
    BY <2>1, <2>2, <2>3 DEF Soft!Inspect
<1> QED
  BY <1>0, <1>1 DEF SoftStepped, Soft!TypeOK, Soft!WritesRightBank, Soft!LeavesNormal

LEMMA SoftPrograming ==
    ASSUME Soft!TypeOK, SoftFresh, SoftFlash, Soft!Program
    PROVE  SoftStepped
<1>0. /\ pc = "program" /\ pc \in SoftFilling /\ UNCHANGED <<outcome, touched>>
      /\ pc \notin {"idle", "booted"} /\ SoftAlike(s, s)
  BY DEF Soft!Program, Soft!Stays, SoftFilling, SoftAlike
<1>1. CASE UNCHANGED ecu /\ Soft!Raise(s, TRUE)
  <2>1. s' \in Soft!Sessions /\ SoftFresh' /\ SoftFlash' /\ pc' = "handler"
    BY <1>0, <1>1, SoftTyped, SoftRaises
  <2> QED
    BY <1>0, <1>1, <2>1
       DEF SoftStepped, Soft!TypeOK, Soft!Pcs, Soft!WritesRightBank, Soft!LeavesNormal
<1>2. ASSUME NEW c \in Soft!Cells \ {"old"}, ecu' = Soft!Programmed(c),
             Soft!Cell = "new" => c = "new",
             \/ c = "new" /\ Soft!ChunkDone
             \/ c \notin {"blank", "part", "new"} /\ Soft!Mismatch
             \/ /\ s.tries < Retries
                /\ s' = [s EXCEPT !.tries = s.tries + 1] /\ UNCHANGED pc
             \/ Soft!Goto("inspect")
             \/ Soft!Raise(s, TRUE)
      PROVE  SoftStepped
  <2>1. /\ ecu' \in Soft!Computers /\ ecu'.sw = ecu.sw
        /\ ecu'.cells[ecu.sw][Soft!Sector][s.chunk] = c
        /\ \A k \in 1 .. Chunks : k # s.chunk =>
              ecu'.cells[ecu.sw][Soft!Sector][k] = ecu.cells[ecu.sw][Soft!Sector][k]
        /\ \A x \in Soft!Sectors : x # Soft!Sector =>
              ecu'.cells[ecu.sw][x] = ecu.cells[ecu.sw][x]
        /\ \A b \in Soft!Banks : b # ecu.sw => ecu'.cells[b] = ecu.cells[b]
    BY <1>2, SoftTyped, SoftPrograms
  <2>2. Soft!WritesRightBank
    <3>1. Soft!Cell = "new" => ecu'.cells = ecu.cells
      BY <1>2, SoftUnchanged
    <3> QED
      BY <1>0, <2>1, <3>1, SoftRightBank
  <2>3. /\ s' \in Soft!Sessions /\ SoftFresh' /\ SoftFlash'
        /\ pc' \in Soft!Pcs \ {"open", "idle", "booted"}
    <3>1. CASE c = "new" /\ Soft!ChunkDone
      BY <1>0, <2>1, <3>1, SoftChunked
    <3>2. CASE c \notin {"blank", "part", "new"} /\ Soft!Mismatch
      BY <1>0, <1>2, <2>1, <3>2, SoftMismatches
    <3>3. CASE Soft!Raise(s, TRUE)
      BY <1>0, <2>1, <3>3, SoftTyped, SoftRaises DEF Soft!Pcs
    <3>4. CASE \/ /\ s' = [s EXCEPT !.tries = s.tries + 1] /\ pc' = pc
                  /\ s.tries < Retries
               \/ s' = s /\ pc' = "inspect"
      <4>1. /\ s' \in Soft!Sessions /\ SoftAlike(s, s') /\ s'.chunk = s.chunk
            /\ pc' = "program" => s'.tries # 0
        <5>1. CASE s' = s /\ pc' = "inspect"
          BY <1>0, <5>1, SoftTyped
        <5>2. CASE /\ s' = [s EXCEPT !.tries = s.tries + 1] /\ pc' = pc
                   /\ s.tries < Retries
          <6>1. s.tries + 1 \in 0 .. Retries /\ s.tries + 1 # 0
            BY <5>2, SoftTyped, SoftCounts
          <6>2. s' \in Soft!Sessions /\ SoftAlike(s, s')
            BY <5>2, <6>1, SoftTyped, SoftEdits
          <6>3. s'.chunk = s.chunk /\ s'.tries = s.tries + 1
            BY <5>2, SoftTyped DEF Soft!Sessions
          <6> QED
            BY <6>1, <6>2, <6>3
        <5> QED
          BY <3>4, <5>1, <5>2
      <4>2. /\ SoftFresh' /\ Soft!Sector' = Soft!Sector
            /\ \A j \in 1 .. Len(Soft!Order(s'.op)) :
                  /\ j < s'.i => Soft!Holding(ecu', ecu'.sw, Soft!Order(s'.op)[j], {"new"})
                  /\ j > s'.i /\ s'.op # "cross" =>
                        Soft!Holding(ecu', ecu'.sw, Soft!Order(s'.op)[j], {"blank"})
            /\ Soft!Sector # "boot" => SoftBanked'
        BY <1>0, <2>1, <3>4, <4>1, SoftStaysHere DEF SoftFilling
      <4>3. Soft!Cell' = c
        BY <2>1, <4>1, <4>2 DEF Soft!Cell
      <4>4. Soft!Sector = "boot" => SoftBanked'
        <5>1. CASE c = "new"
          BY <1>0, <3>4, <4>2, <4>3, <5>1 DEF SoftBanked
        <5>2. CASE c # "new"
          BY <1>2, <2>1, <5>2, SoftTyped DEF SoftBanked, Soft!Holding
        <5> QED
          BY <5>1, <5>2
      <4>5. \A k \in 1 .. Chunks :
               /\ k < s'.chunk => ecu'.cells[ecu'.sw][Soft!Sector'][k] = "new"
               /\ k > s'.chunk => ecu'.cells[ecu'.sw][Soft!Sector'][k] = "blank"
        <5>1. \A k \in 1 .. Chunks : k < s.chunk \/ k > s.chunk => k # s.chunk
          BY SoftTyped, SoftCounts
        <5> QED
          BY <1>0, <2>1, <4>1, <4>2, <5>1 DEF SoftFlash
      <4> QED
        BY <1>0, <1>2, <3>4, <4>1, <4>2, <4>3, <4>4, <4>5 DEF SoftFlash, Soft!Pcs
    <3> QED
      BY <1>2, <3>1, <3>2, <3>3, <3>4 DEF Soft!Goto
  <2> QED
    BY <1>0, <2>1, <2>2, <2>3 DEF SoftStepped, Soft!TypeOK, Soft!LeavesNormal
<1>3. Soft!Cell # "old" /\ Soft!Cell \in Soft!Cells
  BY <1>0, SoftTyped DEF SoftFlash
<1>4. CASE Soft!Onto(Soft!Cell) = "new" /\ ecu' = Soft!Programmed("new") /\ Soft!ChunkDone
  BY <1>2, <1>4 DEF Soft!Cells
<1>5. ASSUME NEW c \in Soft!Cut(Soft!Cell), ecu' = Soft!Programmed(c),
             \/ c = "new" /\ Soft!ChunkDone
             \/ c \notin {"blank", "part", "new"} /\ Soft!Mismatch
             \/ IF s.tries < Retries
                THEN s' = [s EXCEPT !.tries = s.tries + 1] /\ UNCHANGED pc
                ELSE IF s.op = "cross" THEN Soft!Raise(s, TRUE) ELSE Soft!Goto("inspect")
             \/ Soft!Raise(s, TRUE)
      PROVE  SoftStepped
  <2>1. c \in Soft!Cells \ {"old"} /\ (Soft!Cell = "new" => c = "new")
    BY <1>3 DEF Soft!Cut, Soft!Cells
  <2> QED
    BY <1>2, <1>5, <2>1
<1> QED
  BY <1>1, <1>4, <1>5 DEF Soft!Program

\* An erase, whole or spoilt, leaves the other sectors and the other bank.
LEMMA SoftErasing ==
    ASSUME Soft!TypeOK, SoftFresh, SoftFlash, pc \in {"erase", "repair"},
           ecu' \in {ecu, Soft!SectorErased, Soft!SectorSpoilt}
    PROVE  /\ ecu' \in Soft!Computers /\ ecu'.sw = ecu.sw
           /\ \A x \in Soft!Sectors : x # Soft!Sector =>
                 ecu'.cells[ecu.sw][x] = ecu.cells[ecu.sw][x]
           /\ ecu' = Soft!SectorErased => \A k \in 1 .. Chunks :
                 ecu'.cells[ecu.sw][Soft!Sector][k] = "blank"
           /\ Soft!WritesRightBank
           /\ ecu'.sw = s.bank \/ ~Soft!Holding(ecu', ecu'.sw, "boot", {"old", "new"})
<1>1. CASE ecu' = ecu
  <2>1. Soft!WritesRightBank
    BY <1>1 DEF Soft!WritesRightBank
  <2>2. ecu.sw = s.bank \/ ~Soft!Holding(ecu, ecu.sw, "boot", {"old", "new"})
    BY DEF SoftFlash, SoftBanked, SoftWriting, SoftFilling
  <2>3. ecu' = Soft!SectorErased => \A k \in 1 .. Chunks :
           ecu'.cells[ecu.sw][Soft!Sector][k] = "blank"
    BY SoftTyped, SoftErases DEF Soft!SectorErased
  <2> QED
    BY <1>1, <2>1, <2>2, <2>3, SoftTyped
<1>2. ASSUME NEW c \in {"blank", "bad"},
             ecu' = [ecu EXCEPT !.cells[ecu.sw][Soft!Sector] = [k \in 1 .. Chunks |-> c]]
      PROVE  /\ ecu' \in Soft!Computers /\ ecu'.sw = ecu.sw
             /\ \A x \in Soft!Sectors : x # Soft!Sector =>
                   ecu'.cells[ecu.sw][x] = ecu.cells[ecu.sw][x]
             /\ Soft!WritesRightBank
             /\ ecu'.sw = s.bank \/ ~Soft!Holding(ecu', ecu'.sw, "boot", {"old", "new"})
  <2>1. /\ ecu' \in Soft!Computers /\ ecu'.sw = ecu.sw
        /\ \A k \in 1 .. Chunks : ecu'.cells[ecu.sw][Soft!Sector][k] = c
        /\ \A x \in Soft!Sectors : x # Soft!Sector =>
              ecu'.cells[ecu.sw][x] = ecu.cells[ecu.sw][x]
        /\ \A b \in Soft!Banks : b # ecu.sw => ecu'.cells[b] = ecu.cells[b]
    BY <1>2, SoftTyped, SoftErases
  <2>2. Soft!WritesRightBank
    BY <2>1, SoftRightBank
  <2>3. ecu.sw = s.bank \/ ~Soft!Holding(ecu, ecu.sw, "boot", {"old", "new"})
    BY DEF SoftFlash, SoftBanked, SoftWriting, SoftFilling
  <2>4. CASE Soft!Sector = "boot"
    <3>1. ecu'.cells[ecu'.sw]["boot"][1] \notin {"old", "new"}
      BY <2>1, <2>4, SoftCounts
    <3> QED
      BY <2>1, <2>2, <3>1, SoftCounts DEF Soft!Holding
  <2>5. CASE Soft!Sector # "boot"
    BY <2>1, <2>2, <2>3, <2>5 DEF Soft!Holding, Soft!Sectors
  <2> QED
    BY <2>4, <2>5
<1>3. CASE ecu' = Soft!SectorErased
  <2>1. \A k \in 1 .. Chunks : ecu'.cells[ecu.sw][Soft!Sector][k] = "blank"
    BY <1>3, SoftTyped, SoftErases DEF Soft!SectorErased
  <2> QED
    BY <1>2, <1>3, <2>1 DEF Soft!SectorErased
<1>4. CASE ecu' = Soft!SectorSpoilt /\ ecu' # Soft!SectorErased
  BY <1>2, <1>4 DEF Soft!SectorSpoilt
<1> QED
  BY <1>1, <1>3, <1>4

LEMMA SoftRepairs ==
    ASSUME Soft!TypeOK, SoftFresh, SoftFlash, Soft!Repair
    PROVE  SoftStepped
<1>0. /\ pc = "repair" /\ pc \in SoftFilling /\ UNCHANGED outcome
      /\ pc \notin {"idle", "booted"} /\ SoftAlike(s, s)
      /\ ecu' \in {ecu, Soft!SectorErased, Soft!SectorSpoilt} /\ touched' \in BOOLEAN
  BY DEF Soft!Repair, SoftFilling, SoftAlike, Soft!TypeOK
<1>1. /\ ecu' \in Soft!Computers /\ ecu'.sw = ecu.sw
      /\ \A x \in Soft!Sectors : x # Soft!Sector =>
            ecu'.cells[ecu.sw][x] = ecu.cells[ecu.sw][x]
      /\ ecu' = Soft!SectorErased => \A k \in 1 .. Chunks :
            ecu'.cells[ecu.sw][Soft!Sector][k] = "blank"
      /\ Soft!WritesRightBank
      /\ ecu'.sw = s.bank \/ ~Soft!Holding(ecu', ecu'.sw, "boot", {"old", "new"})
  BY <1>0, SoftErasing
<1>2. /\ s' \in Soft!Sessions /\ SoftFresh' /\ SoftFlash'
      /\ pc' \in Soft!Pcs \ {"open", "idle", "booted"}
  <2>1. CASE Soft!Raise(s, TRUE)
    BY <1>0, <1>1, <2>1, SoftTyped, SoftRaises DEF Soft!Pcs
  <2>2. CASE /\ ecu' = Soft!SectorErased /\ pc' = "program"
             /\ s' = [s EXCEPT !.chunk = 1, !.tries = 0]
    <3>1. s' \in Soft!Sessions /\ SoftAlike(s, s') /\ s'.chunk = 1
      <4>1. s'.chunk = 1
        BY <2>2, SoftTyped DEF Soft!Sessions
      <4> QED
        BY <2>2, <4>1, SoftTyped, SoftCounts, SoftEdits
    <3>2. /\ SoftFresh' /\ Soft!Sector' = Soft!Sector
          /\ \A j \in 1 .. Len(Soft!Order(s'.op)) :
                /\ j < s'.i => Soft!Holding(ecu', ecu'.sw, Soft!Order(s'.op)[j], {"new"})
                /\ j > s'.i /\ s'.op # "cross" =>
                      Soft!Holding(ecu', ecu'.sw, Soft!Order(s'.op)[j], {"blank"})
      BY <1>0, <1>1, <2>2, <3>1, SoftStaysHere DEF SoftFilling
    <3>3. SoftBanked'
      BY <1>1, <3>1 DEF SoftBanked, SoftAlike
    <3>4. Soft!Cell' = "blank"
      BY <1>1, <2>2, <3>1, <3>2, SoftCounts DEF Soft!Cell
    <3>5. \A k \in 1 .. Chunks :
             /\ k < s'.chunk => ecu'.cells[ecu'.sw][Soft!Sector'][k] = "new"
             /\ k > s'.chunk => ecu'.cells[ecu'.sw][Soft!Sector'][k] = "blank"
      <4>1. \A k \in 1 .. Chunks : ~(k < 1)
        BY SoftCounts
      <4> QED
        BY <1>1, <2>2, <3>1, <3>2, <4>1
    <3> QED
      BY <2>2, <3>1, <3>2, <3>3, <3>4, <3>5 DEF SoftFlash, Soft!Pcs
  <2> QED
    BY <2>1, <2>2 DEF Soft!Repair
<1> QED
  BY <1>0, <1>1, <1>2 DEF SoftStepped, Soft!TypeOK, Soft!LeavesNormal

LEMMA SoftEraseStep ==
    ASSUME Soft!TypeOK, SoftFresh, SoftFlash, Soft!Erase
    PROVE  SoftStepped
<1> DEFINE len == Len(Soft!Order(s.op))
<1>0. /\ pc = "erase" /\ UNCHANGED outcome /\ pc \notin {"idle", "booted"} /\ ~s.verifying
      /\ ecu' \in {ecu, Soft!SectorErased, Soft!SectorSpoilt} /\ touched' \in BOOLEAN
  BY DEF Soft!Erase, Soft!TypeOK, SoftFresh
<1>1. /\ ecu' \in Soft!Computers /\ ecu'.sw = ecu.sw
      /\ \A x \in Soft!Sectors : x # Soft!Sector =>
            ecu'.cells[ecu.sw][x] = ecu.cells[ecu.sw][x]
      /\ ecu' = Soft!SectorErased => \A k \in 1 .. Chunks :
            ecu'.cells[ecu.sw][Soft!Sector][k] = "blank"
      /\ Soft!WritesRightBank
      /\ ecu'.sw = s.bank \/ ~Soft!Holding(ecu', ecu'.sw, "boot", {"old", "new"})
  BY <1>0, SoftErasing
<1>2. /\ Soft!Boundary \in Soft!Sessions
      /\ Soft!Boundary.op = s.op /\ Soft!Boundary.bank = s.bank /\ Soft!Boundary.i = s.i
      /\ Soft!Boundary.verifying = s.verifying /\ Soft!Boundary.destructive_started
      /\ Soft!Boundary.tries = s.tries
  BY SoftTyped, SoftBoundary
<1>3. s.op = "tune" => ecu.sw = s.bank
  BY <1>0 DEF SoftFresh
<1>4. ASSUME NEW j \in 1 .. len, j < s.i
      PROVE  Soft!Holding(ecu', ecu'.sw, Soft!Order(s.op)[j],
                          IF s.op = "cross" THEN {"new"} ELSE {"blank"})
  <2>1. Soft!Holding(ecu, ecu.sw, Soft!Order(s.op)[j],
                     IF s.op = "cross" THEN {"new"} ELSE {"blank"})
    BY <1>0, <1>4 DEF SoftFlash
  <2>2. j # s.i
    BY <1>4, SoftTyped
  <2>3. ecu'.cells[ecu.sw][Soft!Order(s.op)[j]] = ecu.cells[ecu.sw][Soft!Order(s.op)[j]]
    BY <1>1, <2>2, SoftTyped
  <2> QED
    BY <1>1, <2>1, <2>3 DEF Soft!Holding
<1>5. /\ s' \in Soft!Sessions /\ SoftFresh' /\ SoftFlash'
      /\ pc' \in Soft!Pcs \ {"open", "idle", "booted"}
  <2>1. CASE Soft!Raise(Soft!Boundary, TRUE)
    BY <1>0, <1>1, <1>2, <2>1, SoftTyped, SoftRaises DEF Soft!Pcs
  <2>2. CASE /\ s.tries < Retries /\ UNCHANGED pc
             /\ s' = [Soft!Boundary EXCEPT !.tries = s.tries + 1]
    <3>1. s.tries + 1 \in 0 .. Retries
      BY <2>2, SoftTyped, SoftCounts
    <3>2. s' \in Soft!Sessions /\ SoftAlike(Soft!Boundary, s')
      BY <1>2, <2>2, <3>1, SoftEdits
    <3>3. /\ s'.op = s.op /\ s'.bank = s.bank /\ s'.i = s.i /\ ~s'.verifying
          /\ s'.destructive_started
      BY <1>0, <1>2, <3>2 DEF SoftAlike
    <3>4. SoftFresh'
      BY <1>0, <1>1, <2>2, <3>3 DEF SoftFresh, SoftFilling, SoftEarly
    <3>5. SoftFlash'
      BY <1>0, <1>1, <1>4, <2>2, <3>3 DEF SoftFlash, SoftFilling, SoftBanked
    <3> QED
      BY <1>0, <2>2, <3>2, <3>4, <3>5 DEF Soft!Pcs
  <2>3. CASE /\ ecu' = Soft!SectorErased /\ s.op # "cross" /\ s.i < len /\ pc' = "erase"
             /\ s' = [Soft!Boundary EXCEPT !.i = s.i + 1, !.tries = 0]
    <3>1. s.i + 1 \in 1 .. 3 /\ s.i + 1 <= len
          /\ \A j \in 1 .. len : j < s.i + 1 => j < s.i \/ j = s.i
      BY <2>3, SoftTyped
    <3>2. s' \in Soft!Sessions
      BY <1>2, <2>3, <3>1, SoftCounts DEF Soft!Sessions
    <3>3. /\ s'.op = s.op /\ s'.bank = s.bank /\ s'.i = s.i + 1 /\ ~s'.verifying
          /\ s'.destructive_started
      BY <1>0, <1>2, <2>3 DEF Soft!Sessions
    <3>4. SoftFresh'
      BY <1>0, <1>1, <1>3, <2>3, <3>1, <3>3 DEF SoftFresh, SoftFilling, SoftEarly
    <3>5. \A j \in 1 .. Len(Soft!Order(s'.op)) : j < s'.i =>
             Soft!Holding(ecu', ecu'.sw, Soft!Order(s'.op)[j], {"blank"})
      BY <1>1, <1>4, <2>3, <3>1, <3>3 DEF Soft!Holding, Soft!Sector
    <3>6. SoftFlash'
      BY <1>1, <2>3, <3>3, <3>5 DEF SoftFlash, SoftFilling, SoftBanked
    <3> QED
      BY <2>3, <3>2, <3>4, <3>6 DEF Soft!Pcs
  <2>4. CASE /\ ecu' = Soft!SectorErased /\ pc' = "program"
             /\ \/ s.op = "cross"
                   /\ s' = [Soft!Boundary EXCEPT !.i = s.i, !.chunk = 1, !.tries = 0]
                \/ s.op # "cross" /\ s.i = len
                   /\ s' = [Soft!Boundary EXCEPT !.i = 1, !.chunk = 1, !.tries = 0]
    <3>1. s.i \in 1 .. 3
      BY SoftTyped DEF Soft!Sessions
    <3>2. s' \in Soft!Sessions
      <4>1. \A n \in 1 .. 3 :
               [Soft!Boundary EXCEPT !.i = n, !.chunk = 1, !.tries = 0] \in Soft!Sessions
        BY <1>2, SoftCounts DEF Soft!Sessions
      <4> QED
        BY <2>4, <3>1, <4>1, SoftCounts
    <3>3. /\ s'.op = s.op /\ s'.bank = s.bank /\ ~s'.verifying /\ s'.destructive_started
          /\ s'.chunk = 1 /\ s'.i = IF s.op = "cross" THEN s.i ELSE 1
      BY <1>0, <1>2, <2>4 DEF Soft!Sessions
    <3>4. 1 <= len /\ 1 \in 1 .. len /\ \A j \in 1 .. len : ~(j < 1)
      BY SoftTyped
    <3>5. SoftFresh'
      BY <1>0, <1>1, <1>3, <2>4, <3>3, <3>4 DEF SoftFresh, SoftFilling, SoftEarly
    <3>6. s.op # "cross" => \A j \in 1 .. len : \A k \in 1 .. Chunks :
             ecu'.cells[ecu.sw][Soft!Order(s.op)[j]][k] = "blank"
      <4>1. s.op # "cross" => \A j \in 1 .. len : j < s.i \/ j = s.i
        BY <2>4, SoftTyped
      <4> QED
        BY <1>1, <1>4, <2>4, <4>1 DEF Soft!Holding, Soft!Sector
    <3>7. \A k \in 1 .. Chunks : ecu'.cells[ecu'.sw][Soft!Sector'][k] = "blank"
      <4>1. CASE s.op = "cross"
        <5>1. Soft!Sector' = Soft!Sector
          BY <3>3, <4>1 DEF Soft!Sector
        <5> QED
          BY <1>1, <2>4, <5>1
      <4>2. CASE s.op # "cross"
        <5>1. Soft!Sector' = Soft!Order(s.op)[1]
          BY <3>3, <4>2 DEF Soft!Sector
        <5> QED
          BY <1>1, <3>4, <3>6, <4>2, <5>1
      <4> QED
        BY <4>1, <4>2
    <3>8. Soft!Cell' = "blank"
      BY <3>3, <3>7, SoftCounts DEF Soft!Cell
    <3>9. \A j \in 1 .. Len(Soft!Order(s'.op)) :
             /\ j < s'.i => Soft!Holding(ecu', ecu'.sw, Soft!Order(s'.op)[j], {"new"})
             /\ j > s'.i /\ s'.op # "cross" =>
                   Soft!Holding(ecu', ecu'.sw, Soft!Order(s'.op)[j], {"blank"})
      <4>1. CASE s.op = "cross"
        BY <1>4, <3>3, <4>1
      <4>2. CASE s.op # "cross"
        BY <1>1, <3>3, <3>4, <3>6, <4>2 DEF Soft!Holding
      <4> QED
        BY <4>1, <4>2
    <3>10. \A k \in 1 .. Chunks : ~(k < s'.chunk)
      BY <3>3, SoftCounts
    <3>11. SoftBanked'
      BY <1>1, <3>3 DEF SoftBanked
    <3>12. SoftFlash'
      BY <2>4, <3>7, <3>8, <3>9, <3>10, <3>11 DEF SoftFlash
    <3> QED
      BY <2>4, <3>2, <3>5, <3>12 DEF Soft!Pcs
  <2>5. Soft!EraseDone(Soft!Boundary) =>
           \/ /\ s.op # "cross" /\ s.i < len /\ pc' = "erase"
              /\ s' = [Soft!Boundary EXCEPT !.i = s.i + 1, !.tries = 0]
           \/ /\ pc' = "program"
              /\ \/ s.op = "cross"
                    /\ s' = [Soft!Boundary EXCEPT !.i = s.i, !.chunk = 1, !.tries = 0]
                 \/ s.op # "cross" /\ s.i = len
                    /\ s' = [Soft!Boundary EXCEPT !.i = 1, !.chunk = 1, !.tries = 0]
    <3>1. s.i < len \/ s.i = len
      BY SoftTyped
    <3> QED
      BY <1>2, <3>1 DEF Soft!EraseDone
  <2>6. [Soft!Boundary EXCEPT !.tries = @ + 1] = [Soft!Boundary EXCEPT !.tries = s.tries + 1]
    BY <1>2
  <2> QED
    BY <2>1, <2>2, <2>3, <2>4, <2>5, <2>6 DEF Soft!Erase
<1> QED
  BY <1>0, <1>1, <1>5 DEF SoftStepped, Soft!TypeOK, Soft!LeavesNormal

LEMMA SoftRepairVerifies ==
    ASSUME Soft!TypeOK, SoftFresh, SoftFlash, Soft!RepairVerify
    PROVE  SoftStepped
<1>0. /\ pc = "repair_verify" /\ pc \in SoftFilling /\ ecu' = ecu
      /\ UNCHANGED <<outcome, touched>> /\ SoftAlike(s, s)
  BY DEF Soft!RepairVerify, Soft!Stays, SoftFilling, SoftAlike
<1>1. /\ s' \in Soft!Sessions /\ SoftFresh' /\ SoftFlash'
      /\ pc' \in Soft!Pcs \ {"open", "idle", "booted"}
  <2>1. CASE Soft!Raise(s, TRUE)
    BY <1>0, <2>1, SoftTyped, SoftRaises DEF Soft!Pcs
  <2>2. CASE Soft!HoldsNew(Soft!Sector) /\ Soft!NextSector([s EXCEPT !.replay = "used"])
    <3>1. SoftAdvance
      BY <2>2, SoftTyped, SoftEdits, SoftNextSectors DEF SoftFresh
    <3>2. \A k \in 1 .. Chunks : ecu.cells[ecu.sw][Soft!Sector][k] = "new"
      BY <2>2 DEF Soft!HoldsNew, Soft!Holding
    <3>3. SoftFresh' /\ SoftFlash'
      BY <1>0, <3>1, <3>2, SoftTyped, SoftFilled
    <3> QED
      BY <3>1, <3>3 DEF SoftAdvance, Soft!Pcs
  <2> QED
    BY <2>1, <2>2 DEF Soft!RepairVerify
<1> QED
  BY <1>0, <1>1 DEF SoftStepped, Soft!TypeOK, Soft!WritesRightBank, Soft!LeavesNormal

LEMMA SoftVerifies ==
    ASSUME Soft!TypeOK, SoftFresh, SoftFlash, Soft!Verify
    PROVE  SoftStepped
<1>0. /\ pc = "verify" /\ ecu' = ecu /\ s.verifying /\ s.destructive_started
      /\ UNCHANGED <<outcome, touched>> /\ SoftAlike(s, s)
  BY DEF Soft!Verify, Soft!Stays, SoftFresh, SoftAlike
<1>1. \A j \in 1 .. Len(Soft!Order(s.op)) :
         Soft!Holding(ecu, ecu.sw, Soft!Order(s.op)[j], {"new"})
  BY <1>0 DEF SoftFlash
<1>2. Soft!HoldsNew(Soft!Sector)
  BY <1>1, SoftTyped DEF Soft!HoldsNew, Soft!Sector
<1>3. /\ s' \in Soft!Sessions /\ SoftFresh' /\ SoftFlash'
      /\ pc' \in Soft!Pcs \ {"open", "idle", "booted"}
  <2>1. CASE Soft!Raise(s, TRUE)
    BY <1>0, <2>1, SoftTyped, SoftRaises DEF Soft!Pcs
  <2>2. CASE Soft!NextSector(s)
    <3>1. SoftAdvance
      BY <1>0, <2>2, SoftTyped, SoftNextSectors DEF SoftFresh
    <3>2. s'.op = s.op /\ s'.bank = s.bank /\ s'.destructive_started /\ s' \in Soft!Sessions
      BY <1>0, <3>1 DEF SoftAdvance
    <3>3. CASE s.i < Len(Soft!Order(s.op)) /\ s'.i = s.i + 1 /\ s'.verifying /\ pc' = "verify"
      <4>1. s.i + 1 <= Len(Soft!Order(s.op))
        BY <3>3, SoftTyped
      <4>2. SoftFresh'
        BY <1>0, <3>2, <3>3, <4>1 DEF SoftFresh, SoftFilling, SoftEarly
      <4>3. SoftFlash'
        BY <1>0, <1>1, <3>2, <3>3 DEF SoftFlash, SoftFilling, SoftBanked
      <4> QED
        BY <3>2, <3>3, <4>2, <4>3 DEF Soft!Pcs
    <3>4. CASE /\ s'.i = s.i /\ s'.verifying
               /\ pc' \in {"return", "reset", "finalize"}
               /\ pc' = "return" => s.op = "cross"
               /\ pc' = "finalize" => s'.write_complete
      <4>1. SoftFresh'
        BY <1>0, <3>2, <3>4 DEF SoftFresh, SoftFilling, SoftEarly
      <4> QED
        BY <3>2, <3>4, <4>1 DEF SoftFlash, SoftFilling, SoftWriting, Soft!Pcs
    <3> QED
      BY <1>0, <3>1, <3>3, <3>4 DEF SoftAdvance
  <2> QED
    BY <1>2, <2>1, <2>2 DEF Soft!Verify
<1> QED
  BY <1>0, <1>3 DEF SoftStepped, Soft!TypeOK, Soft!WritesRightBank, Soft!LeavesNormal

LEMMA SoftSteps ==
    ASSUME Soft!TypeOK, SoftFresh, SoftFlash, Soft!Next PROVE SoftStepped
<1>1. ASSUME NEW op \in Soft!Ops, NEW verify \in BOOLEAN, NEW bank \in Soft!Banks,
             Soft!Start(op, verify, bank)
      PROVE SoftStepped
  <2>1. ecu' \in Soft!Computers /\ ecu'.sw = ecu.sw
    <3> DEFINE f == [b \in Soft!Banks |-> [x \in Soft!Sectors |-> [k \in 1 .. Chunks |->
                       IF ecu.cells[b][x][k] \in {"old", "new"} THEN "old" ELSE "bad"]]]
    <3>1. ecu' = [ecu EXCEPT !.cells = f]
      BY <1>1, SoftTyped DEF Soft!Start, Soft!Computers
    <3>2. f \in [Soft!Banks -> [Soft!Sectors -> [1 .. Chunks -> Soft!Cells]]]
      BY DEF Soft!Cells
    <3> HIDE DEF f
    <3>3. ecu' \in Soft!Computers /\ ecu'.sw = ecu.sw
      BY <3>1, <3>2, SoftTyped DEF Soft!Computers
    <3> QED
      BY <3>3
  <2>2. s' \in Soft!Sessions /\ s'.op = op /\ s'.bank = bank /\ s'.i = 1 /\ ~s'.verifying
        /\ ~s'.destructive_started
    <3> DEFINE b == pc = "booted"
    <3>1. s' = Soft!NewSession(op, verify, b, bank)
      BY <1>1 DEF Soft!Start
    <3>2. b \in BOOLEAN
      OBVIOUS
    <3> HIDE DEF b
    <3>3. LET w == Soft!NewSession(op, verify, b, bank)
          IN  /\ w \in Soft!Sessions /\ w.op = op /\ w.bank = bank /\ w.i = 1
              /\ ~w.verifying /\ ~w.destructive_started
      BY <3>2, SoftNew
    <3> QED
      BY <3>1, <3>3
  <2>3. pc' \in Soft!Pcs
    BY <1>1 DEF Soft!Start, Soft!Pcs
  <2>4. /\ outcome' \in {"none", "running", "not_started", "complete", "abandoned", "unconfirmed"}
        /\ touched' \in BOOLEAN
    BY <1>1 DEF Soft!Start
  <2>5. SoftFresh'
    <3>1. s'.i <= Len(Soft!Order(s'.op))
      BY <1>1, <2>2, SoftOne
    <3>2. op \in {"top", "cross"} => bank = "T"
      BY <1>1 DEF Soft!Start, Soft!Banks
    <3> QED
      BY <1>1, <2>1, <2>2, <3>1, <3>2 DEF Soft!Start, SoftFresh, SoftEarly, SoftFilling
  <2>6. SoftFlash'
    <3>1. pc' \notin SoftWriting
      BY <1>1 DEF Soft!Start, SoftWriting, SoftFilling
    <3> QED
      BY <3>1 DEF SoftFlash, SoftWriting, SoftFilling
  <2>7. Soft!WritesRightBank
    BY <1>1 DEF Soft!Start, SoftFresh, Soft!WritesRightBank
  <2>8. Soft!LeavesNormal
    BY <1>1 DEF Soft!Start, SoftFresh, Soft!LeavesNormal
  <2> QED BY <2>1, <2>2, <2>3, <2>4, <2>5, <2>6, <2>7, <2>8 DEF SoftStepped, Soft!TypeOK
<1>2. CASE Soft!Open
  <2>1. ecu' \in Soft!Computers
    BY <1>2, SoftTyped
       DEF Soft!Open, Soft!Report, Soft!Goto, Soft!Stays, Soft!Restarted, Soft!Checked,
           Soft!Prompted, Soft!Computers
  <2>2. s' \in Soft!Sessions /\ (SoftAlike(s, s') \/ SoftAnew(s, s'))
    <3>1. s' = s \/ s' = [s EXCEPT !.tier = LastTier] \/ s' = Soft!Dropped
      BY <1>2 DEF Soft!Open, Soft!Report, Soft!Goto, Soft!Stays
    <3>3. s \in Soft!Sessions /\ SoftAlike(s, s)
      BY SoftTyped DEF SoftAlike
    <3>4. [s EXCEPT !.tier = LastTier] \in Soft!Sessions
             /\ SoftAlike(s, [s EXCEPT !.tier = LastTier])
      BY SoftTyped, SoftEdits
    <3>8. Soft!Dropped \in Soft!Sessions /\ SoftAnew(s, Soft!Dropped)
      BY SoftTyped, SoftDropped
    <3> QED
      BY <3>1, <3>3, <3>4, <3>8
  <2>3. pc' \in Soft!Pcs
    BY <1>2 DEF Soft!Open, Soft!Report, Soft!Goto, Soft!Stays, Soft!TypeOK, Soft!Pcs
  <2>4. /\ outcome' \in {"none", "running", "not_started", "complete", "abandoned", "unconfirmed"}
        /\ touched' \in BOOLEAN
    BY <1>2 DEF Soft!Open, Soft!Report, Soft!Goto, Soft!Stays, Soft!TypeOK
  <2>5. SoftFresh'
    <3>1. s'.i <= Len(Soft!Order(s'.op))
      BY <2>2, SoftTyped, SoftOne DEF SoftFresh, SoftAlike, SoftAnew
    <3>2. ~Soft!Dropped.destructive_started
      BY SoftTyped, SoftDropped
    <3>3. ecu'.sw = ecu.sw
      BY <1>2, SoftTyped DEF Soft!Open, Soft!Report, Soft!Goto, Soft!Stays, Soft!Restarted,
         Soft!Checked, Soft!Computers
    <3> QED
      BY <1>2, <2>2, <3>1, <3>2, <3>3
         DEF Soft!Open, Soft!Report, Soft!Goto, Soft!Stays, SoftFresh, SoftAlike, SoftAnew,
             SoftEarly, SoftFilling
  <2>6. SoftFlash'
    <3>1. pc' \notin SoftWriting
      BY <1>2 DEF Soft!Open, Soft!Report, Soft!Goto, Soft!Stays, SoftWriting, SoftFilling
    <3> QED
      BY <3>1 DEF SoftFlash, SoftWriting, SoftFilling
  <2>7. Soft!WritesRightBank
    <3>1. ecu'.cells = ecu.cells
      BY <1>2, SoftTyped DEF Soft!Open, Soft!Report, Soft!Goto, Soft!Stays, Soft!Restarted,
         Soft!Checked, Soft!Prompted, Soft!Computers
    <3> QED
      BY <3>1 DEF Soft!WritesRightBank
  <2>8. Soft!LeavesNormal
    BY <1>2 DEF Soft!Open, Soft!Report, Soft!Goto, Soft!Stays, Soft!LeavesNormal
  <2> QED BY <2>1, <2>2, <2>3, <2>4, <2>5, <2>6, <2>7, <2>8 DEF SoftStepped, Soft!TypeOK
<1>3. CASE Soft!FlashMode
  <2>1. ecu' \in Soft!Computers
    BY <1>3, SoftTyped
       DEF Soft!FlashMode, Soft!Goto, Soft!Stays, Soft!Restarted, Soft!Checked,
           Soft!Prompted, Soft!Computers
  <2>2. s' \in Soft!Sessions /\ SoftAlike(s, s')
    <3>1. s' = s \/ \E b \in BOOLEAN : s' = [s EXCEPT !.ladder = b]
      BY <1>3 DEF Soft!FlashMode, Soft!Goto, Soft!Stays
    <3>3. s \in Soft!Sessions /\ SoftAlike(s, s)
      BY SoftTyped DEF SoftAlike
    <3>6. \A b \in BOOLEAN : [s EXCEPT !.ladder = b] \in Soft!Sessions
             /\ SoftAlike(s, [s EXCEPT !.ladder = b])
      BY SoftTyped, SoftEdits
    <3> QED
      BY <3>1, <3>3, <3>6
  <2>3. pc' \in Soft!Pcs
    BY <1>3 DEF Soft!FlashMode, Soft!Goto, Soft!Stays, Soft!TypeOK, Soft!Pcs
  <2>4. /\ outcome' \in {"none", "running", "not_started", "complete", "abandoned", "unconfirmed"}
        /\ touched' \in BOOLEAN
    BY <1>3 DEF Soft!FlashMode, Soft!Goto, Soft!Stays, Soft!TypeOK
  <2>5. SoftFresh'
    <3>1. s'.i <= Len(Soft!Order(s'.op))
      BY <2>2, SoftTyped, SoftOne DEF SoftFresh, SoftAlike, SoftAnew
    <3>3. ecu'.sw = ecu.sw
      BY <1>3, SoftTyped DEF Soft!FlashMode, Soft!Goto, Soft!Stays, Soft!Restarted,
         Soft!Checked, Soft!Computers
    <3> QED
      BY <1>3, <2>2, <3>1, <3>3 DEF Soft!FlashMode, Soft!Goto, Soft!Stays, SoftFresh,
         SoftAlike, SoftAnew, SoftEarly, SoftFilling
  <2>6. SoftFlash'
    <3>1. pc' \notin SoftWriting
      BY <1>3 DEF Soft!FlashMode, Soft!Goto, Soft!Stays, SoftWriting, SoftFilling
    <3> QED
      BY <3>1 DEF SoftFlash, SoftWriting, SoftFilling
  <2>7. Soft!WritesRightBank
    <3>1. ecu'.cells = ecu.cells
      BY <1>3, SoftTyped DEF Soft!FlashMode, Soft!Goto, Soft!Stays, Soft!Restarted,
         Soft!Checked, Soft!Prompted, Soft!Computers
    <3> QED
      BY <3>1 DEF Soft!WritesRightBank
  <2>8. Soft!LeavesNormal
    BY <1>3 DEF Soft!FlashMode, Soft!Goto, Soft!Stays, Soft!LeavesNormal
  <2> QED BY <2>1, <2>2, <2>3, <2>4, <2>5, <2>6, <2>7, <2>8 DEF SoftStepped, Soft!TypeOK
<1>4. CASE Soft!Stage
  <2>1. ecu' \in Soft!Computers
    BY <1>4, SoftTyped
       DEF Soft!Stage, Soft!Goto, Soft!Stays, Soft!Restarted, Soft!Checked, Soft!Prompted,
           Soft!Computers
  <2>2. s' \in Soft!Sessions /\ SoftAlike(s, s')
    <3>1. s' = s \/ \E b \in BOOLEAN : s' = [s EXCEPT !.ladder = b]
      BY <1>4 DEF Soft!Stage, Soft!Goto, Soft!Stays
    <3>3. s \in Soft!Sessions /\ SoftAlike(s, s)
      BY SoftTyped DEF SoftAlike
    <3>6. \A b \in BOOLEAN : [s EXCEPT !.ladder = b] \in Soft!Sessions
             /\ SoftAlike(s, [s EXCEPT !.ladder = b])
      BY SoftTyped, SoftEdits
    <3> QED
      BY <3>1, <3>3, <3>6
  <2>3. pc' \in Soft!Pcs
    BY <1>4 DEF Soft!Stage, Soft!Goto, Soft!Stays, Soft!TypeOK, Soft!Pcs
  <2>4. /\ outcome' \in {"none", "running", "not_started", "complete", "abandoned", "unconfirmed"}
        /\ touched' \in BOOLEAN
    BY <1>4 DEF Soft!Stage, Soft!Goto, Soft!Stays, Soft!TypeOK
  <2>5. SoftFresh'
    <3>1. s'.i <= Len(Soft!Order(s'.op))
      BY <2>2, SoftTyped, SoftOne DEF SoftFresh, SoftAlike, SoftAnew
    <3>3. ecu'.sw = ecu.sw
      BY <1>4, SoftTyped DEF Soft!Stage, Soft!Goto, Soft!Stays, Soft!Restarted,
         Soft!Checked, Soft!Computers
    <3> QED
      BY <1>4, <2>2, <3>1, <3>3 DEF Soft!Stage, Soft!Goto, Soft!Stays, SoftFresh,
         SoftAlike, SoftAnew, SoftEarly, SoftFilling
  <2>6. SoftFlash'
    <3>1. pc' \notin SoftWriting
      BY <1>4 DEF Soft!Stage, Soft!Goto, Soft!Stays, SoftWriting, SoftFilling
    <3> QED
      BY <3>1 DEF SoftFlash, SoftWriting, SoftFilling
  <2>7. Soft!WritesRightBank
    <3>1. ecu'.cells = ecu.cells
      BY <1>4, SoftTyped DEF Soft!Stage, Soft!Goto, Soft!Stays, Soft!Restarted,
         Soft!Checked, Soft!Prompted, Soft!Computers
    <3> QED
      BY <3>1 DEF Soft!WritesRightBank
  <2>8. Soft!LeavesNormal
    BY <1>4 DEF Soft!Stage, Soft!Goto, Soft!Stays, Soft!LeavesNormal
  <2> QED BY <2>1, <2>2, <2>3, <2>4, <2>5, <2>6, <2>7, <2>8 DEF SoftStepped, Soft!TypeOK
<1>5. CASE Soft!Unstage
  <2>1. ecu' \in Soft!Computers
    BY <1>5, SoftTyped
       DEF Soft!Unstage, Soft!NextTier, Soft!Report, Soft!Goto, Soft!Stays, Soft!Restarted,
           Soft!Checked, Soft!Prompted, Soft!Computers
  <2>2. s' \in Soft!Sessions /\ (SoftAlike(s, s') \/ SoftAnew(s, s'))
    <3>1. (s.tier < LastTier /\ s' = [s EXCEPT !.tier = s.tier + 1]) \/ s' = Soft!Dropped
      BY <1>5 DEF Soft!Unstage, Soft!NextTier, Soft!Report, Soft!Goto, Soft!Stays
    <3>2. s.tier < LastTier => s.tier + 1 \in Soft!Tiers
      <4>1. s.tier \in 1 .. LastTier
        BY SoftTyped DEF Soft!Sessions, Soft!Tiers
      <4> QED
        BY <4>1, SoftCounts DEF Soft!Tiers
    <3>5. \A t \in Soft!Tiers : [s EXCEPT !.tier = t] \in Soft!Sessions
             /\ SoftAlike(s, [s EXCEPT !.tier = t])
      BY SoftTyped, SoftEdits
    <3>8. Soft!Dropped \in Soft!Sessions /\ SoftAnew(s, Soft!Dropped)
      BY SoftTyped, SoftDropped
    <3> QED
      BY <3>1, <3>2, <3>5, <3>8
  <2>3. pc' \in Soft!Pcs
    BY <1>5
       DEF Soft!Unstage, Soft!NextTier, Soft!Report, Soft!Goto, Soft!Stays, Soft!TypeOK,
           Soft!Pcs
  <2>4. /\ outcome' \in {"none", "running", "not_started", "complete", "abandoned", "unconfirmed"}
        /\ touched' \in BOOLEAN
    BY <1>5 DEF Soft!Unstage, Soft!NextTier, Soft!Report, Soft!Goto, Soft!Stays, Soft!TypeOK
  <2>5. SoftFresh'
    <3>1. s'.i <= Len(Soft!Order(s'.op))
      BY <2>2, SoftTyped, SoftOne DEF SoftFresh, SoftAlike, SoftAnew
    <3>2. ~Soft!Dropped.destructive_started
      BY SoftTyped, SoftDropped
    <3>3. ecu'.sw = ecu.sw
      BY <1>5, SoftTyped
         DEF Soft!Unstage, Soft!NextTier, Soft!Report, Soft!Goto, Soft!Stays, Soft!Restarted,
             Soft!Checked, Soft!Computers
    <3> QED
      BY <1>5, <2>2, <3>1, <3>2, <3>3
         DEF Soft!Unstage, Soft!NextTier, Soft!Report, Soft!Goto, Soft!Stays, SoftFresh,
             SoftAlike, SoftAnew, SoftEarly, SoftFilling
  <2>6. SoftFlash'
    <3>1. pc' \notin SoftWriting
      BY <1>5
         DEF Soft!Unstage, Soft!NextTier, Soft!Report, Soft!Goto, Soft!Stays, SoftWriting,
             SoftFilling
    <3> QED
      BY <3>1 DEF SoftFlash, SoftWriting, SoftFilling
  <2>7. Soft!WritesRightBank
    <3>1. ecu'.cells = ecu.cells
      BY <1>5, SoftTyped
         DEF Soft!Unstage, Soft!NextTier, Soft!Report, Soft!Goto, Soft!Stays, Soft!Restarted,
             Soft!Checked, Soft!Prompted, Soft!Computers
    <3> QED
      BY <3>1 DEF Soft!WritesRightBank
  <2>8. Soft!LeavesNormal
    BY <1>5
       DEF Soft!Unstage, Soft!NextTier, Soft!Report, Soft!Goto, Soft!Stays, Soft!LeavesNormal
  <2> QED BY <2>1, <2>2, <2>3, <2>4, <2>5, <2>6, <2>7, <2>8 DEF SoftStepped, Soft!TypeOK
<1>6. CASE Soft!Preflight
  <2>1. ecu' \in Soft!Computers
    BY <1>6, SoftTyped
       DEF Soft!Preflight, Soft!Raise, Soft!Goto, Soft!Stays, Soft!Restarted, Soft!Checked,
           Soft!Prompted, Soft!Computers
  <2>2. s' \in Soft!Sessions /\ SoftAlike(s, s')
    <3>1. s' = s \/ \E b \in BOOLEAN : s' = [s EXCEPT !.ladder = b]
      BY <1>6 DEF Soft!Preflight, Soft!Raise, Soft!Goto, Soft!Stays
    <3>3. s \in Soft!Sessions /\ SoftAlike(s, s)
      BY SoftTyped DEF SoftAlike
    <3>6. \A b \in BOOLEAN : [s EXCEPT !.ladder = b] \in Soft!Sessions
             /\ SoftAlike(s, [s EXCEPT !.ladder = b])
      BY SoftTyped, SoftEdits
    <3> QED
      BY <3>1, <3>3, <3>6
  <2>3. pc' \in Soft!Pcs
    BY <1>6 DEF Soft!Preflight, Soft!Raise, Soft!Goto, Soft!Stays, Soft!TypeOK, Soft!Pcs
  <2>4. /\ outcome' \in {"none", "running", "not_started", "complete", "abandoned", "unconfirmed"}
        /\ touched' \in BOOLEAN
    BY <1>6 DEF Soft!Preflight, Soft!Raise, Soft!Goto, Soft!Stays, Soft!TypeOK
  <2>5. SoftFresh'
    <3>1. s'.i <= Len(Soft!Order(s'.op))
      BY <2>2, SoftTyped, SoftOne DEF SoftFresh, SoftAlike, SoftAnew
    <3>3. ecu'.sw = ecu.sw
      BY <1>6, SoftTyped DEF Soft!Preflight, Soft!Raise, Soft!Goto, Soft!Stays, Soft!Restarted,
         Soft!Checked, Soft!Computers
    <3> QED
      BY <1>6, <2>2, <3>1, <3>3
         DEF Soft!Preflight, Soft!Raise, Soft!Goto, Soft!Stays, SoftFresh, SoftAlike,
             SoftAnew, SoftEarly, SoftFilling
  <2>6. SoftFlash'
    <3>1. CASE pc' \notin SoftWriting
      BY <3>1 DEF SoftFlash, SoftWriting, SoftFilling
    <3>2. CASE pc' = "erase" /\ s' = s /\ ecu' = ecu /\ s.op = "tune"
      <4>1. s.i = 1 /\ ecu.sw = s.bank
        BY <1>6, <3>2 DEF Soft!Preflight, SoftFresh, SoftEarly
      <4>2. \A j \in 1 .. Len(Soft!Order(s.op)) : ~(j < 1)
        BY SoftTyped
      <4> QED
        BY <3>2, <4>1, <4>2 DEF SoftFlash, SoftFilling, SoftBanked
    <3> QED
      BY <1>6, <3>1, <3>2 DEF Soft!Preflight, Soft!Goto, Soft!Raise, SoftWriting, SoftFilling
  <2>7. Soft!WritesRightBank
    <3>1. ecu'.cells = ecu.cells
      BY <1>6, SoftTyped DEF Soft!Preflight, Soft!Raise, Soft!Goto, Soft!Stays, Soft!Restarted,
         Soft!Checked, Soft!Prompted, Soft!Computers
    <3> QED
      BY <3>1 DEF Soft!WritesRightBank
  <2>8. Soft!LeavesNormal
    BY <1>6 DEF Soft!Preflight, Soft!Raise, Soft!Goto, Soft!Stays, Soft!LeavesNormal
  <2> QED BY <2>1, <2>2, <2>3, <2>4, <2>5, <2>6, <2>7, <2>8 DEF SoftStepped, Soft!TypeOK
<1>7. CASE Soft!SelectBank
  <2>1. ecu' \in Soft!Computers
    <3>1. \E b \in Soft!Banks : ecu' \in {ecu, [ecu EXCEPT !.sw = b]}
      BY <1>7, SoftTyped
         DEF Soft!SelectBank, Soft!Raise, Soft!Goto, Soft!Stays, Soft!Prompted, Soft!Banks
    <3> QED
      BY <3>1, SoftTyped DEF Soft!Computers
  <2>2. s' \in Soft!Sessions /\ SoftAlike(s, s')
    <3>1. s' = s \/ \E b \in BOOLEAN : s' = [s EXCEPT !.ladder = b]
      BY <1>7 DEF Soft!SelectBank, Soft!Raise, Soft!Goto, Soft!Stays
    <3>3. s \in Soft!Sessions /\ SoftAlike(s, s)
      BY SoftTyped DEF SoftAlike
    <3>6. \A b \in BOOLEAN : [s EXCEPT !.ladder = b] \in Soft!Sessions
             /\ SoftAlike(s, [s EXCEPT !.ladder = b])
      BY SoftTyped, SoftEdits
    <3> QED
      BY <3>1, <3>3, <3>6
  <2>3. pc' \in Soft!Pcs
    BY <1>7 DEF Soft!SelectBank, Soft!Raise, Soft!Goto, Soft!Stays, Soft!TypeOK, Soft!Pcs
  <2>4. /\ outcome' \in {"none", "running", "not_started", "complete", "abandoned", "unconfirmed"}
        /\ touched' \in BOOLEAN
    BY <1>7 DEF Soft!SelectBank, Soft!Raise, Soft!Goto, Soft!Stays, Soft!TypeOK
  <2>5. SoftFresh'
    <3>1. s'.i <= Len(Soft!Order(s'.op))
      BY <2>2, SoftTyped, SoftOne DEF SoftFresh, SoftAlike, SoftAnew
    <3>3. pc \in {"bank", "return", "idle", "booted", "held"}
      BY <1>7, SoftTyped DEF Soft!SelectBank, Soft!Raise, Soft!Goto, Soft!Stays, Soft!Restarted,
         Soft!Checked, Soft!Computers
    <3> QED
      BY <1>7, <2>2, <3>1, <3>3
         DEF Soft!SelectBank, Soft!Raise, Soft!Goto, Soft!Stays, SoftFresh, SoftAlike,
             SoftAnew, SoftEarly, SoftFilling
  <2>6. SoftFlash'
    <3>1. CASE pc' \notin SoftWriting
      BY <3>1 DEF SoftFlash, SoftWriting, SoftFilling
    <3>2. CASE pc' \in SoftWriting
      <4>1. pc' = "erase" /\ s' = s /\ s.i = 1 /\ (s.op \in {"top", "cross"} => s.bank = "T")
        BY <1>7, <3>2 DEF Soft!SelectBank, Soft!Goto, Soft!Raise, SoftWriting, SoftFilling,
           SoftFresh, SoftEarly
      <4>2. \A j \in 1 .. Len(Soft!Order(s.op)) : ~(j < 1)
        BY SoftTyped
      <4>3. \A b \in Soft!Banks : ecu' \in Soft!Prompted(b) =>
               ecu'.cells = ecu.cells /\ ecu'.sw \in {ecu.sw, b}
        BY SoftTyped DEF Soft!Prompted, Soft!Computers
      <4>4. ecu'.sw = s.bank \/ ~Soft!Holding(ecu', ecu'.sw, "boot", {"old", "new"})
        <5>1. CASE s.op = "top"
          BY <1>7, <4>1, <5>1, SoftTyped DEF Soft!SelectBank, Soft!Goto, Soft!Raise,
             Soft!TopConfirmed, Soft!Identified, Soft!Marked, Soft!Banks
        <5>2. CASE s.op = "cross"
          <6>1. ecu' \in Soft!Prompted("T") /\ ecu'.sw # ecu.sw
            BY <1>7, <4>1, <5>2 DEF Soft!SelectBank, Soft!Goto, Soft!Raise, Soft!FlipSeen
          <6> QED
            BY <4>1, <4>3, <5>2, <6>1 DEF Soft!Banks
        <5>3. CASE s.op \notin {"top", "cross"}
          <6>1. (ecu' = ecu \/ ecu' \in Soft!Prompted(s.bank)) /\ Soft!Identified' = s.bank
            BY <1>7, <4>1, <5>3 DEF Soft!SelectBank, Soft!Goto, Soft!Raise, Soft!Identified,
               Soft!Marked
          <6>2. ecu'.sw \in Soft!Banks
            BY <4>3, <6>1, SoftTyped
          <6> QED
            BY <6>1, <6>2 DEF Soft!Identified, Soft!Marked, Soft!Banks
        <5> QED
          BY <5>1, <5>2, <5>3
      <4> QED
        BY <4>1, <4>2, <4>4 DEF SoftFlash, SoftFilling, SoftBanked
    <3> QED
      BY <3>1, <3>2
  <2>7. Soft!WritesRightBank
    <3>1. ecu'.cells = ecu.cells
      BY <1>7, SoftTyped DEF Soft!SelectBank, Soft!Raise, Soft!Goto, Soft!Stays, Soft!Restarted,
         Soft!Checked, Soft!Prompted, Soft!Computers
    <3> QED
      BY <3>1 DEF Soft!WritesRightBank
  <2>8. Soft!LeavesNormal
    BY <1>7 DEF Soft!SelectBank, Soft!Raise, Soft!Goto, Soft!Stays, Soft!LeavesNormal
  <2> QED BY <2>1, <2>2, <2>3, <2>4, <2>5, <2>6, <2>7, <2>8 DEF SoftStepped, Soft!TypeOK
<1>8. CASE Soft!Erase
  BY <1>8, SoftEraseStep
<1>9. CASE Soft!Program
  BY <1>9, SoftPrograming
<1>10. CASE Soft!Inspect
  BY <1>10, SoftInspects
<1>11. CASE Soft!Repair
  BY <1>11, SoftRepairs
<1>12. CASE Soft!RepairVerify
  BY <1>12, SoftRepairVerifies
<1>13. CASE Soft!Verify
  BY <1>13, SoftVerifies
<1>14. CASE Soft!ReturnSwitch
  <2>1. ecu' \in Soft!Computers
    <3>1. \E b \in Soft!Banks : ecu' \in {ecu, [ecu EXCEPT !.sw = b]}
      BY <1>14, SoftTyped
         DEF Soft!ReturnSwitch, Soft!Goto, Soft!Stays, Soft!Prompted, Soft!Banks
    <3> QED
      BY <3>1, SoftTyped DEF Soft!Computers
  <2>2. s' \in Soft!Sessions /\ SoftAlike(s, s')
    <3>1. s' = s
      BY <1>14 DEF Soft!ReturnSwitch, Soft!Goto, Soft!Stays
    <3>3. s \in Soft!Sessions /\ SoftAlike(s, s)
      BY SoftTyped DEF SoftAlike
    <3> QED
      BY <3>1, <3>3
  <2>3. pc' \in Soft!Pcs
    BY <1>14 DEF Soft!ReturnSwitch, Soft!Goto, Soft!Stays, Soft!TypeOK, Soft!Pcs
  <2>4. /\ outcome' \in {"none", "running", "not_started", "complete", "abandoned", "unconfirmed"}
        /\ touched' \in BOOLEAN
    BY <1>14 DEF Soft!ReturnSwitch, Soft!Goto, Soft!Stays, Soft!TypeOK
  <2>5. SoftFresh'
    <3>1. s'.i <= Len(Soft!Order(s'.op))
      BY <2>2, SoftTyped, SoftOne DEF SoftFresh, SoftAlike, SoftAnew
    <3>3. pc \in {"bank", "return", "idle", "booted", "held"}
      BY <1>14, SoftTyped DEF Soft!ReturnSwitch, Soft!Goto, Soft!Stays, Soft!Restarted,
         Soft!Checked, Soft!Computers
    <3> QED
      BY <1>14, <2>2, <3>1, <3>3 DEF Soft!ReturnSwitch, Soft!Goto, Soft!Stays, SoftFresh,
         SoftAlike, SoftAnew, SoftEarly, SoftFilling
  <2>6. SoftFlash'
    <3>1. pc' \notin SoftWriting
      BY <1>14 DEF Soft!ReturnSwitch, Soft!Goto, Soft!Stays, SoftWriting, SoftFilling
    <3> QED
      BY <3>1 DEF SoftFlash, SoftWriting, SoftFilling
  <2>7. Soft!WritesRightBank
    <3>1. ecu'.cells = ecu.cells
      BY <1>14, SoftTyped DEF Soft!ReturnSwitch, Soft!Goto, Soft!Stays, Soft!Restarted,
         Soft!Checked, Soft!Prompted, Soft!Computers
    <3> QED
      BY <3>1 DEF Soft!WritesRightBank
  <2>8. Soft!LeavesNormal
    BY <1>14 DEF Soft!ReturnSwitch, Soft!Goto, Soft!Stays, Soft!LeavesNormal
  <2> QED BY <2>1, <2>2, <2>3, <2>4, <2>5, <2>6, <2>7, <2>8 DEF SoftStepped, Soft!TypeOK
<1>15. CASE Soft!Reset
  <2>1. ecu' \in Soft!Computers
    BY <1>15, SoftTyped
       DEF Soft!Reset, Soft!Report, Soft!Raise, Soft!Goto, Soft!Stays, Soft!Restarted,
           Soft!Checked, Soft!Prompted, Soft!Computers
  <2>2. s' \in Soft!Sessions /\ (SoftAlike(s, s') \/ SoftAnew(s, s'))
        /\ (pc' = "finalize" => s'.write_complete = TRUE)
    <3>1. \/ s' = Soft!Dropped /\ pc' = "idle"
          \/ s' = [s EXCEPT !.sent = TRUE, !.write_complete = TRUE]
          \/ s' = [s EXCEPT !.ladder = TRUE] /\ pc' = "handler"
      BY <1>15 DEF Soft!Reset, Soft!Report, Soft!Raise, Soft!Goto, Soft!Stays
    <3>6. \A b \in BOOLEAN : [s EXCEPT !.ladder = b] \in Soft!Sessions
             /\ SoftAlike(s, [s EXCEPT !.ladder = b])
      BY SoftTyped, SoftEdits
    <3>7. [s EXCEPT !.sent = TRUE, !.write_complete = TRUE] \in Soft!Sessions
             /\ SoftAlike(s, [s EXCEPT !.sent = TRUE, !.write_complete = TRUE])
      BY SoftTyped, SoftEdits
    <3>8. Soft!Dropped \in Soft!Sessions /\ SoftAnew(s, Soft!Dropped)
      BY SoftTyped, SoftDropped
    <3>10. [s EXCEPT !.sent = TRUE, !.write_complete = TRUE].write_complete = TRUE
      BY SoftTyped DEF Soft!Sessions
    <3> QED
      BY <3>1, <3>6, <3>7, <3>8, <3>10
  <2>3. pc' \in Soft!Pcs
    BY <1>15
       DEF Soft!Reset, Soft!Report, Soft!Raise, Soft!Goto, Soft!Stays, Soft!TypeOK, Soft!Pcs
  <2>4. /\ outcome' \in {"none", "running", "not_started", "complete", "abandoned", "unconfirmed"}
        /\ touched' \in BOOLEAN
    BY <1>15 DEF Soft!Reset, Soft!Report, Soft!Raise, Soft!Goto, Soft!Stays, Soft!TypeOK
  <2>5. SoftFresh'
    <3>1. s'.i <= Len(Soft!Order(s'.op))
      BY <2>2, SoftTyped, SoftOne DEF SoftFresh, SoftAlike, SoftAnew
    <3>2. ~Soft!Dropped.destructive_started
      BY SoftTyped, SoftDropped
    <3>3. ecu'.sw = ecu.sw
      BY <1>15, SoftTyped
         DEF Soft!Reset, Soft!Report, Soft!Raise, Soft!Goto, Soft!Stays, Soft!Restarted,
             Soft!Checked, Soft!Computers
    <3> QED
      BY <1>15, <2>2, <3>1, <3>2, <3>3
         DEF Soft!Reset, Soft!Report, Soft!Raise, Soft!Goto, Soft!Stays, SoftFresh,
             SoftAlike, SoftAnew, SoftEarly, SoftFilling
  <2>6. SoftFlash'
    <3>1. pc' \notin SoftWriting
      BY <1>15
         DEF Soft!Reset, Soft!Report, Soft!Raise, Soft!Goto, Soft!Stays, SoftWriting,
             SoftFilling
    <3> QED
      BY <3>1 DEF SoftFlash, SoftWriting, SoftFilling
  <2>7. Soft!WritesRightBank
    <3>1. ecu'.cells = ecu.cells
      BY <1>15, SoftTyped
         DEF Soft!Reset, Soft!Report, Soft!Raise, Soft!Goto, Soft!Stays, Soft!Restarted,
             Soft!Checked, Soft!Prompted, Soft!Computers
    <3> QED
      BY <3>1 DEF Soft!WritesRightBank
  <2>8. Soft!LeavesNormal
    BY <1>15 DEF Soft!Reset, Soft!Report, Soft!Raise, Soft!Goto, Soft!Stays, Soft!LeavesNormal
  <2> QED BY <2>1, <2>2, <2>3, <2>4, <2>5, <2>6, <2>7, <2>8 DEF SoftStepped, Soft!TypeOK
<1>16. CASE Soft!Finalize
  <2>1. ecu' \in Soft!Computers
    BY <1>16, SoftTyped
       DEF Soft!Finalize, Soft!NextTier, Soft!Report, Soft!Goto, Soft!Stays, Soft!Restarted,
           Soft!Checked, Soft!Prompted, Soft!Computers
  <2>2. s' \in Soft!Sessions /\ (SoftAlike(s, s') \/ SoftAnew(s, s'))
    <3>1. (s.tier < LastTier /\ s' = [s EXCEPT !.tier = s.tier + 1]) \/ s' = Soft!Dropped
      BY <1>16 DEF Soft!Finalize, Soft!NextTier, Soft!Report, Soft!Goto, Soft!Stays
    <3>2. s.tier < LastTier => s.tier + 1 \in Soft!Tiers
      <4>1. s.tier \in 1 .. LastTier
        BY SoftTyped DEF Soft!Sessions, Soft!Tiers
      <4> QED
        BY <4>1, SoftCounts DEF Soft!Tiers
    <3>5. \A t \in Soft!Tiers : [s EXCEPT !.tier = t] \in Soft!Sessions
             /\ SoftAlike(s, [s EXCEPT !.tier = t])
      BY SoftTyped, SoftEdits
    <3>8. Soft!Dropped \in Soft!Sessions /\ SoftAnew(s, Soft!Dropped)
      BY SoftTyped, SoftDropped
    <3> QED
      BY <3>1, <3>2, <3>5, <3>8
  <2>3. pc' \in Soft!Pcs
    BY <1>16
       DEF Soft!Finalize, Soft!NextTier, Soft!Report, Soft!Goto, Soft!Stays, Soft!TypeOK,
           Soft!Pcs
  <2>4. /\ outcome' \in {"none", "running", "not_started", "complete", "abandoned", "unconfirmed"}
        /\ touched' \in BOOLEAN
    BY <1>16 DEF Soft!Finalize, Soft!NextTier, Soft!Report, Soft!Goto, Soft!Stays, Soft!TypeOK
  <2>5. SoftFresh'
    <3>1. s'.i <= Len(Soft!Order(s'.op))
      BY <2>2, SoftTyped, SoftOne DEF SoftFresh, SoftAlike, SoftAnew
    <3>2. ~Soft!Dropped.destructive_started
      BY SoftTyped, SoftDropped
    <3>3. ecu'.sw = ecu.sw
      BY <1>16, SoftTyped
         DEF Soft!Finalize, Soft!NextTier, Soft!Report, Soft!Goto, Soft!Stays,
             Soft!Restarted, Soft!Checked, Soft!Computers
    <3> QED
      BY <1>16, <2>2, <3>1, <3>2, <3>3
         DEF Soft!Finalize, Soft!NextTier, Soft!Report, Soft!Goto, Soft!Stays, SoftFresh,
             SoftAlike, SoftAnew, SoftEarly, SoftFilling
  <2>6. SoftFlash'
    <3>1. pc' \notin SoftWriting
      BY <1>16
         DEF Soft!Finalize, Soft!NextTier, Soft!Report, Soft!Goto, Soft!Stays, SoftWriting,
             SoftFilling
    <3> QED
      BY <3>1 DEF SoftFlash, SoftWriting, SoftFilling
  <2>7. Soft!WritesRightBank
    <3>1. ecu'.cells = ecu.cells
      BY <1>16, SoftTyped
         DEF Soft!Finalize, Soft!NextTier, Soft!Report, Soft!Goto, Soft!Stays,
             Soft!Restarted, Soft!Checked, Soft!Prompted, Soft!Computers
    <3> QED
      BY <3>1 DEF Soft!WritesRightBank
  <2>8. Soft!LeavesNormal
    BY <1>16 DEF Soft!Finalize, Soft!NextTier, Soft!Report, Soft!Confirmed, Soft!LeavesNormal
  <2> QED BY <2>1, <2>2, <2>3, <2>4, <2>5, <2>6, <2>7, <2>8 DEF SoftStepped, Soft!TypeOK
<1>17. CASE Soft!Handle
  <2>1. ecu' \in Soft!Computers
    BY <1>17, SoftTyped
       DEF Soft!Handle, Soft!Report, Soft!Goto, Soft!Stays, Soft!Restarted, Soft!Checked,
           Soft!Prompted, Soft!Computers
  <2>2. s' \in Soft!Sessions /\ (SoftAlike(s, s') \/ SoftAnew(s, s'))
    <3>1. s' = s \/ s' = Soft!Dropped
      BY <1>17 DEF Soft!Handle, Soft!Report, Soft!Goto, Soft!Stays
    <3>3. s \in Soft!Sessions /\ SoftAlike(s, s)
      BY SoftTyped DEF SoftAlike
    <3>8. Soft!Dropped \in Soft!Sessions /\ SoftAnew(s, Soft!Dropped)
      BY SoftTyped, SoftDropped
    <3> QED
      BY <3>1, <3>3, <3>8
  <2>3. pc' \in Soft!Pcs
    BY <1>17 DEF Soft!Handle, Soft!Report, Soft!Goto, Soft!Stays, Soft!TypeOK, Soft!Pcs
  <2>4. /\ outcome' \in {"none", "running", "not_started", "complete", "abandoned", "unconfirmed"}
        /\ touched' \in BOOLEAN
    BY <1>17 DEF Soft!Handle, Soft!Report, Soft!Goto, Soft!Stays, Soft!TypeOK
  <2>5. SoftFresh'
    <3>1. s'.i <= Len(Soft!Order(s'.op))
      BY <2>2, SoftTyped, SoftOne DEF SoftFresh, SoftAlike, SoftAnew
    <3>2. ~Soft!Dropped.destructive_started
      BY SoftTyped, SoftDropped
    <3>3. ecu'.sw = ecu.sw
      BY <1>17, SoftTyped DEF Soft!Handle, Soft!Report, Soft!Goto, Soft!Stays, Soft!Restarted,
         Soft!Checked, Soft!Computers
    <3> QED
      BY <1>17, <2>2, <3>1, <3>2, <3>3
         DEF Soft!Handle, Soft!Report, Soft!Goto, Soft!Stays, SoftFresh, SoftAlike, SoftAnew,
             SoftEarly, SoftFilling
  <2>6. SoftFlash'
    <3>1. pc' \notin SoftWriting
      BY <1>17 DEF Soft!Handle, Soft!Report, Soft!Goto, Soft!Stays, SoftWriting, SoftFilling
    <3> QED
      BY <3>1 DEF SoftFlash, SoftWriting, SoftFilling
  <2>7. Soft!WritesRightBank
    <3>1. ecu'.cells = ecu.cells
      BY <1>17, SoftTyped DEF Soft!Handle, Soft!Report, Soft!Goto, Soft!Stays, Soft!Restarted,
         Soft!Checked, Soft!Prompted, Soft!Computers
    <3> QED
      BY <3>1 DEF Soft!WritesRightBank
  <2>8. Soft!LeavesNormal
    BY <1>17 DEF Soft!Handle, Soft!Report, Soft!Goto, Soft!Stays, Soft!LeavesNormal
  <2> QED BY <2>1, <2>2, <2>3, <2>4, <2>5, <2>6, <2>7, <2>8 DEF SoftStepped, Soft!TypeOK
<1>18. CASE Soft!Retry
  <2>1. ecu' \in Soft!Computers
    BY <1>18, SoftTyped
       DEF Soft!Retry, Soft!RetrySupported, Soft!Goto, Soft!Stays, Soft!Restarted,
           Soft!Checked, Soft!Prompted, Soft!Computers
  <2>2. s' \in Soft!Sessions /\ SoftAnew(s, s')
    <3>1. s' = Soft!Resumed
      BY <1>18 DEF Soft!Retry, Soft!RetrySupported, Soft!Goto, Soft!Stays
    <3>9. Soft!Resumed \in Soft!Sessions /\ SoftAnew(s, Soft!Resumed)
      BY SoftTyped, SoftEdits DEF Soft!Resumed
    <3> QED
      BY <3>1, <3>9
  <2>3. pc' \in Soft!Pcs
    BY <1>18 DEF Soft!Retry, Soft!RetrySupported, Soft!Goto, Soft!Stays, Soft!TypeOK, Soft!Pcs
  <2>4. /\ outcome' \in {"none", "running", "not_started", "complete", "abandoned", "unconfirmed"}
        /\ touched' \in BOOLEAN
    BY <1>18 DEF Soft!Retry, Soft!RetrySupported, Soft!Goto, Soft!Stays, Soft!TypeOK
  <2>5. SoftFresh'
    <3>1. s'.i <= Len(Soft!Order(s'.op))
      BY <2>2, SoftTyped, SoftOne DEF SoftFresh, SoftAlike, SoftAnew
    <3>3. ecu'.sw = ecu.sw
      BY <1>18, SoftTyped
         DEF Soft!Retry, Soft!RetrySupported, Soft!Goto, Soft!Stays, Soft!Restarted,
             Soft!Checked, Soft!Computers
    <3> QED
      BY <1>18, <2>2, <3>1, <3>3
         DEF Soft!Retry, Soft!RetrySupported, Soft!Goto, Soft!Stays, SoftFresh, SoftAlike,
             SoftAnew, SoftEarly, SoftFilling
  <2>6. SoftFlash'
    <3>1. pc' \notin SoftWriting
      BY <1>18
         DEF Soft!Retry, Soft!RetrySupported, Soft!Goto, Soft!Stays, SoftWriting, SoftFilling
    <3> QED
      BY <3>1 DEF SoftFlash, SoftWriting, SoftFilling
  <2>7. Soft!WritesRightBank
    <3>1. ecu'.cells = ecu.cells
      BY <1>18, SoftTyped
         DEF Soft!Retry, Soft!RetrySupported, Soft!Goto, Soft!Stays, Soft!Restarted,
             Soft!Checked, Soft!Prompted, Soft!Computers
    <3> QED
      BY <3>1 DEF Soft!WritesRightBank
  <2>8. Soft!LeavesNormal
    BY <1>18 DEF Soft!Retry, Soft!RetrySupported, Soft!Goto, Soft!Stays, Soft!LeavesNormal
  <2> QED BY <2>1, <2>2, <2>3, <2>4, <2>5, <2>6, <2>7, <2>8 DEF SoftStepped, Soft!TypeOK
<1>19. CASE Soft!OpenBoot
  <2>1. ecu' \in Soft!Computers
    BY <1>19, SoftTyped
       DEF Soft!OpenBoot, Soft!Goto, Soft!Stays, Soft!Restarted, Soft!Checked, Soft!Prompted,
           Soft!Computers
  <2>2. s' \in Soft!Sessions /\ SoftAlike(s, s')
    <3>1. s' = s
      BY <1>19 DEF Soft!OpenBoot, Soft!Goto, Soft!Stays
    <3>3. s \in Soft!Sessions /\ SoftAlike(s, s)
      BY SoftTyped DEF SoftAlike
    <3> QED
      BY <3>1, <3>3
  <2>3. pc' \in Soft!Pcs
    BY <1>19 DEF Soft!OpenBoot, Soft!Goto, Soft!Stays, Soft!TypeOK, Soft!Pcs
  <2>4. /\ outcome' \in {"none", "running", "not_started", "complete", "abandoned", "unconfirmed"}
        /\ touched' \in BOOLEAN
    BY <1>19 DEF Soft!OpenBoot, Soft!Goto, Soft!Stays, Soft!TypeOK
  <2>5. SoftFresh'
    <3>1. s'.i <= Len(Soft!Order(s'.op))
      BY <2>2, SoftTyped, SoftOne DEF SoftFresh, SoftAlike, SoftAnew
    <3>3. ecu'.sw = ecu.sw
      BY <1>19, SoftTyped DEF Soft!OpenBoot, Soft!Goto, Soft!Stays, Soft!Restarted,
         Soft!Checked, Soft!Computers
    <3> QED
      BY <1>19, <2>2, <3>1, <3>3 DEF Soft!OpenBoot, Soft!Goto, Soft!Stays, SoftFresh,
         SoftAlike, SoftAnew, SoftEarly, SoftFilling
  <2>6. SoftFlash'
    <3>1. pc' \notin SoftWriting
      BY <1>19 DEF Soft!OpenBoot, Soft!Goto, Soft!Stays, SoftWriting, SoftFilling
    <3> QED
      BY <3>1 DEF SoftFlash, SoftWriting, SoftFilling
  <2>7. Soft!WritesRightBank
    <3>1. ecu'.cells = ecu.cells
      BY <1>19, SoftTyped DEF Soft!OpenBoot, Soft!Goto, Soft!Stays, Soft!Restarted,
         Soft!Checked, Soft!Prompted, Soft!Computers
    <3> QED
      BY <3>1 DEF Soft!WritesRightBank
  <2>8. Soft!LeavesNormal
    BY <1>19 DEF Soft!OpenBoot, Soft!Goto, Soft!Stays, Soft!LeavesNormal
  <2> QED BY <2>1, <2>2, <2>3, <2>4, <2>5, <2>6, <2>7, <2>8 DEF SoftStepped, Soft!TypeOK
<1>20. CASE Soft!CloseBoot
  <2>1. ecu' \in Soft!Computers
    BY <1>20, SoftTyped
       DEF Soft!CloseBoot, Soft!Goto, Soft!Stays, Soft!Restarted, Soft!Checked,
           Soft!Prompted, Soft!Computers
  <2>2. s' \in Soft!Sessions /\ SoftAlike(s, s')
    <3>1. s' = s
      BY <1>20 DEF Soft!CloseBoot, Soft!Goto, Soft!Stays
    <3>3. s \in Soft!Sessions /\ SoftAlike(s, s)
      BY SoftTyped DEF SoftAlike
    <3> QED
      BY <3>1, <3>3
  <2>3. pc' \in Soft!Pcs
    BY <1>20 DEF Soft!CloseBoot, Soft!Goto, Soft!Stays, Soft!TypeOK, Soft!Pcs
  <2>4. /\ outcome' \in {"none", "running", "not_started", "complete", "abandoned", "unconfirmed"}
        /\ touched' \in BOOLEAN
    BY <1>20 DEF Soft!CloseBoot, Soft!Goto, Soft!Stays, Soft!TypeOK
  <2>5. SoftFresh'
    <3>1. s'.i <= Len(Soft!Order(s'.op))
      BY <2>2, SoftTyped, SoftOne DEF SoftFresh, SoftAlike, SoftAnew
    <3>3. ecu'.sw = ecu.sw
      BY <1>20, SoftTyped DEF Soft!CloseBoot, Soft!Goto, Soft!Stays, Soft!Restarted,
         Soft!Checked, Soft!Computers
    <3> QED
      BY <1>20, <2>2, <3>1, <3>3 DEF Soft!CloseBoot, Soft!Goto, Soft!Stays, SoftFresh,
         SoftAlike, SoftAnew, SoftEarly, SoftFilling
  <2>6. SoftFlash'
    <3>1. pc' \notin SoftWriting
      BY <1>20 DEF Soft!CloseBoot, Soft!Goto, Soft!Stays, SoftWriting, SoftFilling
    <3> QED
      BY <3>1 DEF SoftFlash, SoftWriting, SoftFilling
  <2>7. Soft!WritesRightBank
    <3>1. ecu'.cells = ecu.cells
      BY <1>20, SoftTyped DEF Soft!CloseBoot, Soft!Goto, Soft!Stays, Soft!Restarted,
         Soft!Checked, Soft!Prompted, Soft!Computers
    <3> QED
      BY <3>1 DEF Soft!WritesRightBank
  <2>8. Soft!LeavesNormal
    BY <1>20 DEF Soft!CloseBoot, Soft!Goto, Soft!Stays, Soft!LeavesNormal
  <2> QED BY <2>1, <2>2, <2>3, <2>4, <2>5, <2>6, <2>7, <2>8 DEF SoftStepped, Soft!TypeOK
<1>21. CASE Soft!Exit
  <2>1. ecu' \in Soft!Computers
    BY <1>21, SoftTyped
       DEF Soft!Exit, Soft!Report, Soft!Goto, Soft!Stays, Soft!Restarted, Soft!Checked,
           Soft!Prompted, Soft!Computers
  <2>2. s' \in Soft!Sessions /\ SoftAnew(s, s')
    <3>1. s' = Soft!Dropped
      BY <1>21 DEF Soft!Exit, Soft!Report, Soft!Goto, Soft!Stays
    <3>8. Soft!Dropped \in Soft!Sessions /\ SoftAnew(s, Soft!Dropped)
      BY SoftTyped, SoftDropped
    <3> QED
      BY <3>1, <3>8
  <2>3. pc' \in Soft!Pcs
    BY <1>21 DEF Soft!Exit, Soft!Report, Soft!Goto, Soft!Stays, Soft!TypeOK, Soft!Pcs
  <2>4. /\ outcome' \in {"none", "running", "not_started", "complete", "abandoned", "unconfirmed"}
        /\ touched' \in BOOLEAN
    BY <1>21 DEF Soft!Exit, Soft!Report, Soft!Goto, Soft!Stays, Soft!TypeOK
  <2>5. SoftFresh'
    <3>1. s'.i <= Len(Soft!Order(s'.op))
      BY <2>2, SoftTyped, SoftOne DEF SoftFresh, SoftAlike, SoftAnew
    <3>2. ~Soft!Dropped.destructive_started
      BY SoftTyped, SoftDropped
    <3>3. ecu'.sw = ecu.sw
      BY <1>21, SoftTyped DEF Soft!Exit, Soft!Report, Soft!Goto, Soft!Stays, Soft!Restarted,
         Soft!Checked, Soft!Computers
    <3> QED
      BY <1>21, <2>2, <3>1, <3>2, <3>3
         DEF Soft!Exit, Soft!Report, Soft!Goto, Soft!Stays, SoftFresh, SoftAlike, SoftAnew,
             SoftEarly, SoftFilling
  <2>6. SoftFlash'
    <3>1. pc' \notin SoftWriting
      BY <1>21 DEF Soft!Exit, Soft!Report, Soft!Goto, Soft!Stays, SoftWriting, SoftFilling
    <3> QED
      BY <3>1 DEF SoftFlash, SoftWriting, SoftFilling
  <2>7. Soft!WritesRightBank
    <3>1. ecu'.cells = ecu.cells
      BY <1>21, SoftTyped DEF Soft!Exit, Soft!Report, Soft!Goto, Soft!Stays, Soft!Restarted,
         Soft!Checked, Soft!Prompted, Soft!Computers
    <3> QED
      BY <3>1 DEF Soft!WritesRightBank
  <2>8. Soft!LeavesNormal
    BY <1>21 DEF Soft!Exit, Soft!Report, Soft!Goto, Soft!Stays, Soft!LeavesNormal
  <2> QED BY <2>1, <2>2, <2>3, <2>4, <2>5, <2>6, <2>7, <2>8 DEF SoftStepped, Soft!TypeOK
<1>22. CASE Soft!PowerOff
  <2>1. ecu' \in Soft!Computers
    BY <1>22, SoftTyped
       DEF Soft!PowerOff, Soft!Goto, Soft!Stays, Soft!Restarted, Soft!Checked, Soft!Prompted,
           Soft!Computers
  <2>2. s' \in Soft!Sessions /\ SoftAlike(s, s')
    <3>1. s' = s
      BY <1>22 DEF Soft!PowerOff, Soft!Goto, Soft!Stays
    <3>3. s \in Soft!Sessions /\ SoftAlike(s, s)
      BY SoftTyped DEF SoftAlike
    <3> QED
      BY <3>1, <3>3
  <2>3. pc' \in Soft!Pcs
    BY <1>22 DEF Soft!PowerOff, Soft!Goto, Soft!Stays, Soft!TypeOK, Soft!Pcs
  <2>4. /\ outcome' \in {"none", "running", "not_started", "complete", "abandoned", "unconfirmed"}
        /\ touched' \in BOOLEAN
    BY <1>22 DEF Soft!PowerOff, Soft!Goto, Soft!Stays, Soft!TypeOK
  <2>5. SoftFresh'
    <3>1. s'.i <= Len(Soft!Order(s'.op))
      BY <2>2, SoftTyped, SoftOne DEF SoftFresh, SoftAlike, SoftAnew
    <3>3. ecu'.sw = ecu.sw
      BY <1>22, SoftTyped DEF Soft!PowerOff, Soft!Goto, Soft!Stays, Soft!Restarted,
         Soft!Checked, Soft!Computers
    <3> QED
      BY <1>22, <2>2, <3>1, <3>3 DEF Soft!PowerOff, Soft!Goto, Soft!Stays, SoftFresh,
         SoftAlike, SoftAnew, SoftEarly, SoftFilling
  <2>6. SoftFlash'
    <3>1. ecu'.cells = ecu.cells /\ ecu'.sw = ecu.sw /\ UNCHANGED <<s, pc>>
      BY <1>22, SoftTyped DEF Soft!PowerOff, Soft!Computers
    <3>2. Soft!Sector' = Soft!Sector /\ Soft!Cell' = Soft!Cell
      BY <3>1 DEF Soft!Sector, Soft!Cell
    <3>3. \A x, v : Soft!Holding(ecu', ecu'.sw, x, v) = Soft!Holding(ecu, ecu.sw, x, v)
      BY <3>1 DEF Soft!Holding
    <3>4. SoftBanked' = SoftBanked
      BY <3>1, <3>2, <3>3 DEF SoftBanked
    <3> QED
      BY <3>1, <3>2, <3>3, <3>4 DEF SoftFlash
  <2>7. Soft!WritesRightBank
    <3>1. ecu'.cells = ecu.cells
      BY <1>22, SoftTyped DEF Soft!PowerOff, Soft!Goto, Soft!Stays, Soft!Restarted,
         Soft!Checked, Soft!Prompted, Soft!Computers
    <3> QED
      BY <3>1 DEF Soft!WritesRightBank
  <2>8. Soft!LeavesNormal
    BY <1>22 DEF Soft!PowerOff, Soft!Goto, Soft!Stays, Soft!LeavesNormal
  <2> QED BY <2>1, <2>2, <2>3, <2>4, <2>5, <2>6, <2>7, <2>8 DEF SoftStepped, Soft!TypeOK
<1>23. CASE Soft!MoveSwitch
  <2>1. ecu' \in Soft!Computers
    BY <1>23, SoftTyped
       DEF Soft!MoveSwitch, Soft!Goto, Soft!Stays, Soft!Restarted, Soft!Checked,
           Soft!Prompted, Soft!Computers
  <2>2. s' \in Soft!Sessions /\ SoftAlike(s, s')
    <3>1. s' = s
      BY <1>23 DEF Soft!MoveSwitch, Soft!Goto, Soft!Stays
    <3>3. s \in Soft!Sessions /\ SoftAlike(s, s)
      BY SoftTyped DEF SoftAlike
    <3> QED
      BY <3>1, <3>3
  <2>3. pc' \in Soft!Pcs
    BY <1>23 DEF Soft!MoveSwitch, Soft!Goto, Soft!Stays, Soft!TypeOK, Soft!Pcs
  <2>4. /\ outcome' \in {"none", "running", "not_started", "complete", "abandoned", "unconfirmed"}
        /\ touched' \in BOOLEAN
    BY <1>23 DEF Soft!MoveSwitch, Soft!Goto, Soft!Stays, Soft!TypeOK
  <2>5. SoftFresh'
    <3>1. s'.i <= Len(Soft!Order(s'.op))
      BY <2>2, SoftTyped, SoftOne DEF SoftFresh, SoftAlike, SoftAnew
    <3>3. pc \in {"bank", "return", "idle", "booted", "held"}
      BY <1>23, SoftTyped DEF Soft!MoveSwitch, Soft!Goto, Soft!Stays, Soft!Restarted,
         Soft!Checked, Soft!Computers
    <3> QED
      BY <1>23, <2>2, <3>1, <3>3 DEF Soft!MoveSwitch, Soft!Goto, Soft!Stays, SoftFresh,
         SoftAlike, SoftAnew, SoftEarly, SoftFilling
  <2>6. SoftFlash'
    <3>1. pc' \notin SoftWriting
      BY <1>23 DEF Soft!MoveSwitch, Soft!Goto, Soft!Stays, SoftWriting, SoftFilling
    <3> QED
      BY <3>1 DEF SoftFlash, SoftWriting, SoftFilling
  <2>7. Soft!WritesRightBank
    <3>1. ecu'.cells = ecu.cells
      BY <1>23, SoftTyped DEF Soft!MoveSwitch, Soft!Goto, Soft!Stays, Soft!Restarted,
         Soft!Checked, Soft!Prompted, Soft!Computers
    <3> QED
      BY <3>1 DEF Soft!WritesRightBank
  <2>8. Soft!LeavesNormal
    BY <1>23 DEF Soft!MoveSwitch, Soft!Goto, Soft!Stays, Soft!LeavesNormal
  <2> QED BY <2>1, <2>2, <2>3, <2>4, <2>5, <2>6, <2>7, <2>8 DEF SoftStepped, Soft!TypeOK
<1> QED
  BY <1>1, <1>2, <1>3, <1>4, <1>5, <1>6, <1>7, <1>8, <1>9, <1>10, <1>11, <1>12, <1>13, <1>14,
     <1>15, <1>16, <1>17, <1>18, <1>19, <1>20, <1>21, <1>22, <1>23
     DEF Soft!Next, Soft!WorkerStep

---------------------------------------------------------------------------
(* The MS42/MS43 writer.                                                   *)

\* The packets of a region that were not sent yet are erased, and so is the one at
\* hand before its first transmission.
MsCells ==
    /\ pc \in {"program", "readback"} =>
          \A k \in 1 .. RegionChunks : k > s.chunk => ecu.cells[Ms4x!Region][k] = "blank"
    /\ pc = "program" =>
          Ms4x!Cell \in {"blank", "part"} /\ (s.tries = 1 => Ms4x!Cell = "blank")
MsInv ==
    /\ s.i <= Len(Ms4x!Order(s.op))
    /\ pc = "lower" => s.tier < LastRate
    /\ MsCells

LEMMA MsCounts == /\ RegionChunks \in Nat \ {0} /\ Attempts \in Nat \ {0}
                  /\ LastRate \in Nat \ {0}
                  /\ 1 \in 1 .. RegionChunks /\ 1 \in 1 .. Attempts
                  /\ 1 \in 1 .. LastRate /\ LastRate \in 1 .. LastRate
<1>1. RegionChunks \in Nat \ {0} /\ Attempts \in Nat \ {0} /\ LastRate \in Nat \ {0}
  BY WritersAssumption
<1> QED
  BY <1>1

LEMMA MsOrders ==
    /\ \A op \in {"tune", "full", "boot"} : Len(Ms4x!Order(op)) \in 1 .. 3
    /\ Len(Ms4x!Order("boot")) = 3
  BY DEF Ms4x!Order

LEMMA MsRegion ==
    ASSUME s \in Ms4x!Writes, s.i <= Len(Ms4x!Order(s.op))
    PROVE  /\ Ms4x!Region \in Ms4x!Regions
           /\ Ms4x!Region = "program" => s.i = 1 /\ 2 <= Len(Ms4x!Order(s.op))
<1>1. s.i \in 1 .. 3 /\ s.op \in {"tune", "full", "boot"}
  BY DEF Ms4x!Writes
<1>2. CASE s.op = "tune"
  BY <1>1, <1>2 DEF Ms4x!Region, Ms4x!Order, Ms4x!Regions
<1>3. CASE s.op = "full"
  BY <1>1, <1>3 DEF Ms4x!Region, Ms4x!Order, Ms4x!Regions
<1>4. CASE s.op = "boot"
  BY <1>1, <1>4 DEF Ms4x!Region, Ms4x!Order, Ms4x!Regions
<1> QED
  BY <1>1, <1>2, <1>3, <1>4

LEMMA MsNew ==
    ASSUME NEW op \in {"tune", "full", "boot"}, NEW verify \in BOOLEAN, NEW ram \in BOOLEAN,
           NEW route \in Ms4x!Routes
    PROVE  /\ Ms4x!NewWrite(op, verify, ram, route) \in Ms4x!Writes
           /\ Ms4x!NewWrite(op, verify, ram, route).i = 1
           /\ Ms4x!NewWrite(op, verify, ram, route).op = op
  BY MsCounts DEF Ms4x!NewWrite, Ms4x!Writes

LEMMA MsStarts == ASSUME Ms4x!Init PROVE Ms4x!TypeOK /\ MsInv
<1>1. ecu \in Ms4x!Computers
  BY DEF Ms4x!Init, Ms4x!Computers, Ms4x!Cells, Ms4x!Regions, Ms4x!Routes
<1>2. s \in Ms4x!Writes /\ s.i = 1 /\ s.op = "tune"
  BY MsNew DEF Ms4x!Init, Ms4x!Routes
<1>3. pc = "idle" /\ outcome = "none" /\ touched = FALSE
  BY DEF Ms4x!Init
<1>4. s.i <= Len(Ms4x!Order(s.op))
  <2>1. Len(Ms4x!Order("tune")) \in 1 .. 3
    BY MsOrders
  <2> QED
    BY <1>2, <2>1
<1> QED
  BY <1>1, <1>2, <1>3, <1>4 DEF Ms4x!TypeOK, Ms4x!Pcs, MsInv, MsCells

LEMMA MsBegun ==
    ASSUME s \in Ms4x!Writes
    PROVE  /\ Ms4x!Begun \in Ms4x!Writes
           /\ Ms4x!Begun.op = s.op /\ Ms4x!Begun.i = s.i
  BY MsCounts DEF Ms4x!Begun, Ms4x!Writes

\* The flash under erase and program.
LEMMA MsErases ==
    ASSUME ecu \in Ms4x!Computers, Ms4x!Region \in Ms4x!Regions
    PROVE  /\ Ms4x!SectorErased \in Ms4x!Computers /\ Ms4x!SectorSpoilt \in Ms4x!Computers
           /\ \A k \in 1 .. RegionChunks : Ms4x!SectorErased.cells[Ms4x!Region][k] = "blank"
<1>1. ASSUME NEW e \in Ms4x!Computers
      PROVE  Ms4x!Marks(e) \in Ms4x!Computers /\ Ms4x!Marks(e).cells = e.cells
  <2> DEFINE m == [r \in {"program", "tune"} |-> e.marked[r] /\ r # Ms4x!Region]
  <2>1. m \in [{"program", "tune"} -> BOOLEAN]
    OBVIOUS
  <2>2. Ms4x!Marks(e) = [e EXCEPT !.marked = m]
    BY DEF Ms4x!Marks, Ms4x!Computers
  <2> HIDE DEF m
  <2> QED
    BY <2>1, <2>2 DEF Ms4x!Computers
<1>2. ASSUME NEW c \in {"blank", "bad"}
      PROVE  LET e == [ecu EXCEPT !.cells[Ms4x!Region] = [k \in 1 .. RegionChunks |-> c]]
             IN  e \in Ms4x!Computers
                    /\ \A k \in 1 .. RegionChunks : e.cells[Ms4x!Region][k] = c
  BY DEF Ms4x!Computers, Ms4x!Cells
<1> QED
  BY <1>1, <1>2 DEF Ms4x!SectorErased, Ms4x!SectorSpoilt

LEMMA MsPrograms ==
    ASSUME ecu \in Ms4x!Computers, Ms4x!Region \in Ms4x!Regions, s.chunk \in 1 .. RegionChunks,
           NEW c \in Ms4x!Cells
    PROVE  /\ Ms4x!Programmed(c) \in Ms4x!Computers
           /\ Ms4x!Programmed(c).cells[Ms4x!Region][s.chunk] = c
           /\ \A k \in 1 .. RegionChunks : k # s.chunk =>
                 Ms4x!Programmed(c).cells[Ms4x!Region][k] = ecu.cells[Ms4x!Region][k]
  BY DEF Ms4x!Programmed, Ms4x!Computers

LEMMA MsRestarts ==
    ASSUME NEW e \in Ms4x!Computers
    PROVE  Ms4x!Restarted(e) \in Ms4x!Computers /\ Ms4x!Restarted(e).cells = e.cells
  BY DEF Ms4x!Restarted, Ms4x!Computers, Ms4x!Routes

LEMMA MsRegionDone ==
    ASSUME s \in Ms4x!Writes, s.i <= Len(Ms4x!Order(s.op)), Ms4x!RegionDone(s)
    PROVE  /\ s' \in Ms4x!Writes /\ s'.op = s.op /\ s'.i <= Len(Ms4x!Order(s.op))
           /\ pc' \in {"erase", "invalidate", "finalize", "verify", "boot", "boot_verify"}
<1>1. CASE Ms4x!Region = "program"
  <2>1. s' = [[s EXCEPT !.repairing = FALSE] EXCEPT !.i = s.i + 1, !.chunk = 1, !.tries = 1]
    BY <1>1 DEF Ms4x!RegionDone, Ms4x!Writes
  <2>3. pc' \in {"erase", "invalidate"}
    BY <1>1 DEF Ms4x!RegionDone
  <2>2. s.i = 1 /\ 2 <= Len(Ms4x!Order(s.op)) /\ s.i + 1 = 2
    BY <1>1, MsRegion
  <2> QED
    <3>1. [s EXCEPT !.repairing = FALSE] \in Ms4x!Writes
      BY DEF Ms4x!Writes
    <3>2. s' \in Ms4x!Writes
      <4>1. s.i + 1 \in 1 .. 3
        BY <2>2
      <4> QED
        BY <2>1, <3>1, <4>1, MsCounts DEF Ms4x!Writes
    <3>3. s'.op = s.op /\ s'.i = s.i + 1
      BY <2>1 DEF Ms4x!Writes
    <3> QED
      BY <2>2, <2>3, <3>2, <3>3
<1>2. CASE Ms4x!Region # "program"
  <2>1. s' = [s EXCEPT !.repairing = FALSE]
    BY <1>2 DEF Ms4x!RegionDone
  <2> QED
    BY <1>2, <2>1 DEF Ms4x!RegionDone, Ms4x!Writes
<1> QED
  BY <1>1, <1>2

LEMMA MsChunkDone ==
    ASSUME s \in Ms4x!Writes, s.i <= Len(Ms4x!Order(s.op)), Ms4x!ChunkDone
    PROVE  /\ s' \in Ms4x!Writes /\ s'.op = s.op /\ s'.i <= Len(Ms4x!Order(s.op))
           /\ \/ /\ pc' = "program" /\ s'.i = s.i /\ s'.chunk = s.chunk + 1
                 /\ s'.chunk \in 1 .. RegionChunks
              \/ pc' \in {"erase", "invalidate", "finalize", "verify", "boot", "boot_verify",
                          "repair_verify"}
<1>1. s.chunk \in 1 .. RegionChunks
  BY DEF Ms4x!Writes
<1>2. CASE s.chunk < RegionChunks
  <2>1. s' = [s EXCEPT !.chunk = s.chunk + 1, !.tries = 1] /\ pc' = "program"
    BY <1>1, <1>2 DEF Ms4x!ChunkDone
  <2>2. s.chunk + 1 \in 1 .. RegionChunks
    BY <1>1, <1>2, MsCounts
  <2>3. s' \in Ms4x!Writes
    BY <2>1, <2>2, MsCounts DEF Ms4x!Writes
  <2>4. s'.op = s.op /\ s'.i = s.i /\ s'.chunk = s.chunk + 1
    BY <2>1 DEF Ms4x!Writes
  <2> QED
    BY <2>1, <2>2, <2>3, <2>4
<1>3. CASE s.chunk = RegionChunks /\ s.repairing
  BY <1>3, MsCounts DEF Ms4x!ChunkDone, Ms4x!Goto
<1>4. CASE s.chunk = RegionChunks /\ ~s.repairing
  BY <1>4, MsRegionDone, MsCounts DEF Ms4x!ChunkDone
<1> QED
  BY <1>1, <1>2, <1>3, <1>4, MsCounts

\* What the steps of a write assign to its record keeps it one.
LEMMA MsEdits ==
    ASSUME NEW w \in Ms4x!Writes
    PROVE  /\ [w EXCEPT !.active = TRUE] \in Ms4x!Writes
           /\ \A b \in BOOLEAN : [w EXCEPT !.rate = b] \in Ms4x!Writes
           /\ \A b \in BOOLEAN : [w EXCEPT !.active = FALSE, !.rate = b] \in Ms4x!Writes
           /\ [w EXCEPT !.route = "stock", !.rate = TRUE] \in Ms4x!Writes
           /\ \A t \in 1 .. LastRate :
                 [w EXCEPT !.active = FALSE, !.rate = TRUE, !.tier = t] \in Ms4x!Writes
           /\ [w EXCEPT !.chunk = 1, !.tries = 1] \in Ms4x!Writes
           /\ \A n \in 1 .. Attempts : [w EXCEPT !.tries = n] \in Ms4x!Writes
           /\ [w EXCEPT !.repair_used = TRUE, !.repairing = TRUE, !.tries = 1] \in Ms4x!Writes
           /\ [w EXCEPT !.i = 3, !.chunk = 1, !.tries = 1] \in Ms4x!Writes
           /\ [w EXCEPT !.i = 1, !.chunk = 1, !.tries = 1,
                        !.repair_used = FALSE, !.repairing = FALSE] \in Ms4x!Writes
           /\ w.tries \in Nat /\ w.tier \in Nat
<1>1. [w EXCEPT !.active = TRUE] \in Ms4x!Writes
  BY DEF Ms4x!Writes
<1>2. \A b \in BOOLEAN : [w EXCEPT !.rate = b] \in Ms4x!Writes
  BY DEF Ms4x!Writes
<1>3. \A b \in BOOLEAN : [w EXCEPT !.active = FALSE, !.rate = b] \in Ms4x!Writes
  BY DEF Ms4x!Writes
<1>4. [w EXCEPT !.route = "stock", !.rate = TRUE] \in Ms4x!Writes
  BY DEF Ms4x!Writes, Ms4x!Routes
<1>5. \A t \in 1 .. LastRate :
         [w EXCEPT !.active = FALSE, !.rate = TRUE, !.tier = t] \in Ms4x!Writes
  BY DEF Ms4x!Writes
<1>6. [w EXCEPT !.chunk = 1, !.tries = 1] \in Ms4x!Writes
  BY MsCounts DEF Ms4x!Writes
<1>7. \A n \in 1 .. Attempts : [w EXCEPT !.tries = n] \in Ms4x!Writes
  BY DEF Ms4x!Writes
<1>8. [w EXCEPT !.repair_used = TRUE, !.repairing = TRUE, !.tries = 1] \in Ms4x!Writes
  BY MsCounts DEF Ms4x!Writes
<1>9. 1 \in 1 .. 3 /\ 3 \in 1 .. 3
  OBVIOUS
<1>10. [w EXCEPT !.i = 3, !.chunk = 1, !.tries = 1] \in Ms4x!Writes
  BY <1>9, MsCounts DEF Ms4x!Writes
<1>11. [w EXCEPT !.i = 1, !.chunk = 1, !.tries = 1,
                 !.repair_used = FALSE, !.repairing = FALSE] \in Ms4x!Writes
  BY <1>9, MsCounts DEF Ms4x!Writes
<1>12. w.tries \in Nat /\ w.tier \in Nat
  BY MsCounts DEF Ms4x!Writes
<1> QED
  BY <1>1, <1>2, <1>3, <1>4, <1>5, <1>6, <1>7, <1>8, <1>10, <1>11, <1>12

LEMMA MsOne == ASSUME NEW op \in {"tune", "full", "boot"} PROVE 1 <= Len(Ms4x!Order(op))
<1>1. Len(Ms4x!Order(op)) \in 1 .. 3
  BY MsOrders
<1> QED
  BY <1>1

LEMMA MsSteps ==
    ASSUME Ms4x!TypeOK, MsInv, Ms4x!Next PROVE (Ms4x!TypeOK)' /\ MsInv'
<1>1. ASSUME NEW op \in {"tune", "full", "boot"}, NEW verify \in BOOLEAN, NEW ram \in BOOLEAN,
              NEW route \in Ms4x!Routes, Ms4x!Start(op, verify, ram, route)
      PROVE (Ms4x!TypeOK)' /\ MsInv'
  <2>1. ecu' \in Ms4x!Computers
    <3> DEFINE f == [r \in Ms4x!Regions |-> [k \in 1 .. RegionChunks |->
                       IF ecu.cells[r][k] \in {"old", "new"} THEN "old" ELSE "bad"]]
    <3>1. ecu' = [ecu EXCEPT !.cells = f]
      BY <1>1 DEF Ms4x!Start, Ms4x!TypeOK, Ms4x!Computers
    <3>2. f \in [Ms4x!Regions -> [1 .. RegionChunks -> Ms4x!Cells]]
      BY DEF Ms4x!Cells
    <3> HIDE DEF f
    <3> QED
      BY <3>1, <3>2 DEF Ms4x!TypeOK, Ms4x!Computers
  <2>2. s' \in Ms4x!Writes
    BY <1>1, MsNew DEF Ms4x!Start
  <2>3. pc' \in Ms4x!Pcs
    BY <1>1 DEF Ms4x!Start, Ms4x!TypeOK, Ms4x!Goto, Ms4x!Raise, Ms4x!Stays, Ms4x!Pcs
  <2>4. /\ outcome' \in {"none", "running", "not_started", "complete", "abandoned"}
        /\ touched' \in BOOLEAN
    BY <1>1 DEF Ms4x!Start, Ms4x!TypeOK, Ms4x!Goto, Ms4x!Raise, Ms4x!Stays
  <2>5. s'.i <= Len(Ms4x!Order(s'.op))
    BY <1>1, MsNew, MsOne DEF Ms4x!Start
  <2>6. pc' = "lower" => s'.tier < LastRate
    BY <1>1 DEF Ms4x!Start, Ms4x!TypeOK, Ms4x!Goto, Ms4x!Raise, Ms4x!Stays
  <2>7. MsCells'
    <3>1. pc' \notin {"program", "readback"}
      BY <1>1 DEF Ms4x!Start, Ms4x!Goto, Ms4x!Raise, Ms4x!Stays
    <3> QED
      BY <3>1 DEF MsCells
  <2> QED BY <2>1, <2>2, <2>3, <2>4, <2>5, <2>6, <2>7 DEF Ms4x!TypeOK, MsInv
<1>2. CASE Ms4x!Enter
  <2>1. ecu' \in Ms4x!Computers
    <3>1. s.route \in Ms4x!Routes
      BY DEF Ms4x!TypeOK, Ms4x!Writes
    <3>2. \E r \in Ms4x!Routes : ecu' = ecu \/ ecu' = [ecu EXCEPT !.runs = r]
      BY <1>2, <3>1 DEF Ms4x!Enter, Ms4x!Routes
    <3> QED
      BY <3>2 DEF Ms4x!TypeOK, Ms4x!Computers
  <2>2. s' \in Ms4x!Writes
    <3>1. \/ s' = s \/ s' = [s EXCEPT !.active = TRUE]
          \/ s' = [s EXCEPT !.rate = FALSE] \/ s' = [s EXCEPT !.rate = s.rate]
      BY <1>2 DEF Ms4x!Enter, Ms4x!Goto, Ms4x!Raise, Ms4x!Stays, Ms4x!Again
    <3>2. s.rate \in BOOLEAN
      BY DEF Ms4x!TypeOK, Ms4x!Writes
    <3> QED
      BY <3>1, <3>2, MsEdits, MsCounts DEF Ms4x!TypeOK
  <2>3. pc' \in Ms4x!Pcs
    BY <1>2 DEF Ms4x!Enter, Ms4x!TypeOK, Ms4x!Goto, Ms4x!Raise, Ms4x!Stays, Ms4x!Pcs
  <2>4. /\ outcome' \in {"none", "running", "not_started", "complete", "abandoned"}
        /\ touched' \in BOOLEAN
    BY <1>2 DEF Ms4x!Enter, Ms4x!TypeOK, Ms4x!Goto, Ms4x!Raise, Ms4x!Stays
  <2>5. s'.i <= Len(Ms4x!Order(s'.op))
    BY <1>2 DEF Ms4x!Enter, Ms4x!TypeOK, Ms4x!Goto, Ms4x!Raise, Ms4x!Stays, MsInv, Ms4x!Writes
  <2>6. pc' = "lower" => s'.tier < LastRate
    BY <1>2 DEF Ms4x!Enter, Ms4x!TypeOK, Ms4x!Goto, Ms4x!Raise, Ms4x!Stays
  <2>7. MsCells'
    <3>1. pc' \notin {"program", "readback"}
      BY <1>2 DEF Ms4x!Enter, Ms4x!Goto, Ms4x!Raise, Ms4x!Stays
    <3> QED
      BY <3>1 DEF MsCells
  <2> QED BY <2>1, <2>2, <2>3, <2>4, <2>5, <2>6, <2>7 DEF Ms4x!TypeOK, MsInv
<1>3. CASE Ms4x!Fallback
  <2>1. ecu' \in Ms4x!Computers
    BY <1>3, MsRestarts DEF Ms4x!Fallback, Ms4x!Goto, Ms4x!Raise, Ms4x!Stays, Ms4x!TypeOK
  <2>2. s' \in Ms4x!Writes
    <3>1. \/ s' = [s EXCEPT !.route = "stock", !.rate = TRUE]
          \/ s' = [s EXCEPT !.rate = FALSE]
      BY <1>3 DEF Ms4x!Fallback, Ms4x!Goto, Ms4x!Raise, Ms4x!Stays, Ms4x!Again
    <3> QED
      BY <3>1, MsEdits, MsCounts DEF Ms4x!TypeOK
  <2>3. pc' \in Ms4x!Pcs
    BY <1>3 DEF Ms4x!Fallback, Ms4x!TypeOK, Ms4x!Goto, Ms4x!Raise, Ms4x!Stays, Ms4x!Pcs
  <2>4. /\ outcome' \in {"none", "running", "not_started", "complete", "abandoned"}
        /\ touched' \in BOOLEAN
    BY <1>3 DEF Ms4x!Fallback, Ms4x!TypeOK, Ms4x!Goto, Ms4x!Raise, Ms4x!Stays
  <2>5. s'.i <= Len(Ms4x!Order(s'.op))
    BY <1>3
       DEF Ms4x!Fallback, Ms4x!TypeOK, Ms4x!Goto, Ms4x!Raise, Ms4x!Stays, MsInv, Ms4x!Writes
  <2>6. pc' = "lower" => s'.tier < LastRate
    BY <1>3 DEF Ms4x!Fallback, Ms4x!TypeOK, Ms4x!Goto, Ms4x!Raise, Ms4x!Stays
  <2>7. MsCells'
    <3>1. pc' \notin {"program", "readback"}
      BY <1>3 DEF Ms4x!Fallback, Ms4x!Goto, Ms4x!Raise, Ms4x!Stays
    <3> QED
      BY <3>1 DEF MsCells
  <2> QED BY <2>1, <2>2, <2>3, <2>4, <2>5, <2>6, <2>7 DEF Ms4x!TypeOK, MsInv
<1>4. CASE Ms4x!Lower
  <2>1. ecu' \in Ms4x!Computers
    BY <1>4, MsRestarts DEF Ms4x!Lower, Ms4x!Goto, Ms4x!Raise, Ms4x!Stays, Ms4x!TypeOK
  <2>2. s' \in Ms4x!Writes
    <3>1. \/ s' = [s EXCEPT !.active = FALSE, !.rate = TRUE, !.tier = s.tier + 1]
          \/ s' = [s EXCEPT !.active = FALSE, !.rate = FALSE]
      BY <1>4 DEF Ms4x!Lower, Ms4x!Goto, Ms4x!Raise, Ms4x!Stays, Ms4x!Again
    <3>2. s.tier + 1 \in 1 .. LastRate
      <4>1. s.tier \in 1 .. LastRate /\ s.tier < LastRate
        BY <1>4 DEF Ms4x!Lower, Ms4x!TypeOK, Ms4x!Writes, MsInv
      <4> QED
        BY <4>1, MsCounts
    <3> QED
      BY <3>1, <3>2, MsEdits, MsCounts DEF Ms4x!TypeOK
  <2>3. pc' \in Ms4x!Pcs
    BY <1>4 DEF Ms4x!Lower, Ms4x!TypeOK, Ms4x!Goto, Ms4x!Raise, Ms4x!Stays, Ms4x!Pcs
  <2>4. /\ outcome' \in {"none", "running", "not_started", "complete", "abandoned"}
        /\ touched' \in BOOLEAN
    BY <1>4 DEF Ms4x!Lower, Ms4x!TypeOK, Ms4x!Goto, Ms4x!Raise, Ms4x!Stays
  <2>5. s'.i <= Len(Ms4x!Order(s'.op))
    BY <1>4 DEF Ms4x!Lower, Ms4x!TypeOK, Ms4x!Goto, Ms4x!Raise, Ms4x!Stays, MsInv, Ms4x!Writes
  <2>6. pc' = "lower" => s'.tier < LastRate
    BY <1>4 DEF Ms4x!Lower, Ms4x!TypeOK, Ms4x!Goto, Ms4x!Raise, Ms4x!Stays
  <2>7. MsCells'
    <3>1. pc' \notin {"program", "readback"}
      BY <1>4 DEF Ms4x!Lower, Ms4x!Goto, Ms4x!Raise, Ms4x!Stays
    <3> QED
      BY <3>1 DEF MsCells
  <2> QED BY <2>1, <2>2, <2>3, <2>4, <2>5, <2>6, <2>7 DEF Ms4x!TypeOK, MsInv
<1>5. CASE Ms4x!Identity
  <2>1. ecu' \in Ms4x!Computers
    <3>1. ecu' = ecu \/ ecu' = Ms4x!Restarted(ecu)
      BY <1>5 DEF Ms4x!Identity, Ms4x!ReadFails, Ms4x!Goto, Ms4x!Raise, Ms4x!Stays
    <3> QED
      BY <3>1, MsRestarts DEF Ms4x!TypeOK
  <2>2. s' \in Ms4x!Writes
    <3>1. Ms4x!Begun \in Ms4x!Writes /\ Ms4x!Begun.op = s.op /\ Ms4x!Begun.i = s.i
      BY MsBegun DEF Ms4x!TypeOK
    <3>2. \/ s' = s \/ s' = Ms4x!Begun
          \/ \E rate \in BOOLEAN : s' = [s EXCEPT !.active = FALSE, !.rate = rate]
      BY <1>5 DEF Ms4x!Identity, Ms4x!ReadFails, Ms4x!Goto, Ms4x!Raise, Ms4x!Stays
    <3> QED
      BY <3>1, <3>2 DEF Ms4x!TypeOK, Ms4x!Writes
  <2>3. pc' \in Ms4x!Pcs
    BY <1>5
       DEF Ms4x!Identity, Ms4x!ReadFails, Ms4x!TypeOK, Ms4x!Goto, Ms4x!Raise, Ms4x!Stays,
           Ms4x!Pcs
  <2>4. /\ outcome' \in {"none", "running", "not_started", "complete", "abandoned"}
        /\ touched' \in BOOLEAN
    BY <1>5 DEF Ms4x!Identity, Ms4x!ReadFails, Ms4x!TypeOK, Ms4x!Goto, Ms4x!Raise, Ms4x!Stays
  <2>5. s'.i <= Len(Ms4x!Order(s'.op))
    <3>1. Ms4x!Begun \in Ms4x!Writes /\ Ms4x!Begun.op = s.op /\ Ms4x!Begun.i = s.i
      BY MsBegun DEF Ms4x!TypeOK
    <3>2. s' = s \/ s' = Ms4x!Begun \/ (s'.op = s.op /\ s'.i = s.i)
      BY <1>5
         DEF Ms4x!Identity, Ms4x!ReadFails, Ms4x!Goto, Ms4x!Raise, Ms4x!Stays, Ms4x!TypeOK,
             Ms4x!Writes
    <3> QED
      BY <3>1, <3>2 DEF MsInv
  <2>6. pc' = "lower" => s'.tier < LastRate
    BY <1>5 DEF Ms4x!Identity, Ms4x!ReadFails, Ms4x!TypeOK, Ms4x!Goto, Ms4x!Raise, Ms4x!Stays
  <2>7. MsCells'
    <3>1. pc' \notin {"program", "readback"}
      BY <1>5 DEF Ms4x!Identity, Ms4x!ReadFails, Ms4x!Goto, Ms4x!Raise, Ms4x!Stays
    <3> QED
      BY <3>1 DEF MsCells
  <2> QED BY <2>1, <2>2, <2>3, <2>4, <2>5, <2>6, <2>7 DEF Ms4x!TypeOK, MsInv
<1>6. CASE Ms4x!Invalidate
  <2>1. ecu' \in Ms4x!Computers
    <3> DEFINE m == [ecu.marked EXCEPT ![Ms4x!Region] = FALSE]
    <3>1. ecu' = ecu \/ ecu' = [ecu EXCEPT !.marked = m]
      <4>1. ecu' = ecu \/ ecu' = [ecu EXCEPT !.marked[Ms4x!Region] = FALSE]
        BY <1>6 DEF Ms4x!Invalidate, Ms4x!ReadFails
      <4> QED
        BY <4>1
    <3>2. m \in [{"program", "tune"} -> BOOLEAN]
      BY DEF Ms4x!TypeOK, Ms4x!Computers
    <3> HIDE DEF m
    <3> QED
      BY <3>1, <3>2 DEF Ms4x!TypeOK, Ms4x!Computers
  <2>2. s' \in Ms4x!Writes
    <3>1. Ms4x!Begun \in Ms4x!Writes /\ Ms4x!Begun.op = s.op /\ Ms4x!Begun.i = s.i
      BY MsBegun DEF Ms4x!TypeOK
    <3>2. s' = s \/ s' = Ms4x!Begun
      BY <1>6 DEF Ms4x!Invalidate, Ms4x!ReadFails, Ms4x!Goto, Ms4x!Raise, Ms4x!Stays
    <3> QED
      BY <3>1, <3>2 DEF Ms4x!TypeOK
  <2>3. pc' \in Ms4x!Pcs
    BY <1>6
       DEF Ms4x!Invalidate, Ms4x!ReadFails, Ms4x!TypeOK, Ms4x!Goto, Ms4x!Raise, Ms4x!Stays,
           Ms4x!Pcs
  <2>4. /\ outcome' \in {"none", "running", "not_started", "complete", "abandoned"}
        /\ touched' \in BOOLEAN
    BY <1>6 DEF Ms4x!Invalidate, Ms4x!ReadFails, Ms4x!TypeOK, Ms4x!Goto, Ms4x!Raise, Ms4x!Stays
  <2>5. s'.i <= Len(Ms4x!Order(s'.op))
    <3>1. Ms4x!Begun \in Ms4x!Writes /\ Ms4x!Begun.op = s.op /\ Ms4x!Begun.i = s.i
      BY MsBegun DEF Ms4x!TypeOK
    <3>2. s' = s \/ s' = Ms4x!Begun
      BY <1>6 DEF Ms4x!Invalidate, Ms4x!ReadFails, Ms4x!Goto, Ms4x!Raise, Ms4x!Stays
    <3> QED
      BY <3>1, <3>2 DEF MsInv
  <2>6. pc' = "lower" => s'.tier < LastRate
    BY <1>6 DEF Ms4x!Invalidate, Ms4x!ReadFails, Ms4x!TypeOK, Ms4x!Goto, Ms4x!Raise, Ms4x!Stays
  <2>7. MsCells'
    <3>1. pc' \notin {"program", "readback"}
      BY <1>6 DEF Ms4x!Invalidate, Ms4x!ReadFails, Ms4x!Goto, Ms4x!Raise, Ms4x!Stays
    <3> QED
      BY <3>1 DEF MsCells
  <2> QED BY <2>1, <2>2, <2>3, <2>4, <2>5, <2>6, <2>7 DEF Ms4x!TypeOK, MsInv
<1>7. CASE Ms4x!Unlock
  <2>1. ecu' \in Ms4x!Computers
    BY <1>7 DEF Ms4x!Unlock, Ms4x!TypeOK, Ms4x!Goto, Ms4x!Raise, Ms4x!Stays, Ms4x!Computers
  <2>2. s' \in Ms4x!Writes
    BY <1>7, MsCounts
       DEF Ms4x!Unlock, Ms4x!TypeOK, Ms4x!Goto, Ms4x!Raise, Ms4x!Stays, Ms4x!Writes
  <2>3. pc' \in Ms4x!Pcs
    BY <1>7 DEF Ms4x!Unlock, Ms4x!TypeOK, Ms4x!Goto, Ms4x!Raise, Ms4x!Stays, Ms4x!Pcs
  <2>4. /\ outcome' \in {"none", "running", "not_started", "complete", "abandoned"}
        /\ touched' \in BOOLEAN
    BY <1>7 DEF Ms4x!Unlock, Ms4x!TypeOK, Ms4x!Goto, Ms4x!Raise, Ms4x!Stays
  <2>5. s'.i <= Len(Ms4x!Order(s'.op))
    BY <1>7 DEF Ms4x!Unlock, Ms4x!TypeOK, Ms4x!Goto, Ms4x!Raise, Ms4x!Stays, MsInv, Ms4x!Writes
  <2>6. pc' = "lower" => s'.tier < LastRate
    BY <1>7 DEF Ms4x!Unlock, Ms4x!TypeOK, Ms4x!Goto, Ms4x!Raise, Ms4x!Stays
  <2>7. MsCells'
    <3>1. pc' \notin {"program", "readback"}
      BY <1>7 DEF Ms4x!Unlock, Ms4x!Goto, Ms4x!Raise, Ms4x!Stays
    <3> QED
      BY <3>1 DEF MsCells
  <2> QED BY <2>1, <2>2, <2>3, <2>4, <2>5, <2>6, <2>7 DEF Ms4x!TypeOK, MsInv
<1>8. CASE Ms4x!Erase
  <2>1. ecu' \in Ms4x!Computers
    <3>0. ecu \in Ms4x!Computers /\ Ms4x!Region \in Ms4x!Regions /\ s.chunk \in 1 .. RegionChunks
      BY MsRegion DEF Ms4x!TypeOK, MsInv, Ms4x!Writes
    <3>1. ecu' = ecu \/ ecu' = Ms4x!SectorErased \/ ecu' = Ms4x!SectorSpoilt
      BY <1>8 DEF Ms4x!Erase
    <3> QED
      BY <3>0, <3>1, MsErases
  <2>2. s' \in Ms4x!Writes
    <3>1. Ms4x!Begun \in Ms4x!Writes /\ Ms4x!Begun.op = s.op /\ Ms4x!Begun.i = s.i
      BY MsBegun DEF Ms4x!TypeOK
    <3>2. s' = Ms4x!Begun \/ s' = [Ms4x!Begun EXCEPT !.chunk = 1, !.tries = 1]
      BY <1>8 DEF Ms4x!Erase, Ms4x!EraseDone, Ms4x!Goto, Ms4x!Raise, Ms4x!Stays
    <3>3. [Ms4x!Begun EXCEPT !.chunk = 1, !.tries = 1] \in Ms4x!Writes
      BY <3>1, MsCounts DEF Ms4x!Writes
    <3> QED
      BY <3>1, <3>2, <3>3
  <2>3. pc' \in Ms4x!Pcs
    BY <1>8
       DEF Ms4x!Erase, Ms4x!EraseDone, Ms4x!TypeOK, Ms4x!Goto, Ms4x!Raise, Ms4x!Stays,
           Ms4x!Pcs
  <2>4. /\ outcome' \in {"none", "running", "not_started", "complete", "abandoned"}
        /\ touched' \in BOOLEAN
    BY <1>8 DEF Ms4x!Erase, Ms4x!EraseDone, Ms4x!TypeOK, Ms4x!Goto, Ms4x!Raise, Ms4x!Stays
  <2>5. s'.i <= Len(Ms4x!Order(s'.op))
    <3>1. Ms4x!Begun \in Ms4x!Writes /\ Ms4x!Begun.op = s.op /\ Ms4x!Begun.i = s.i
      BY MsBegun DEF Ms4x!TypeOK
    <3>2. s' = Ms4x!Begun \/ s' = [Ms4x!Begun EXCEPT !.chunk = 1, !.tries = 1]
      BY <1>8 DEF Ms4x!Erase, Ms4x!EraseDone, Ms4x!Goto, Ms4x!Raise, Ms4x!Stays
    <3>3. s'.op = s.op /\ s'.i = s.i
      BY <3>1, <3>2 DEF Ms4x!Writes
    <3> QED
      BY <3>3 DEF MsInv
  <2>6. pc' = "lower" => s'.tier < LastRate
    BY <1>8 DEF Ms4x!Erase, Ms4x!EraseDone, Ms4x!TypeOK, Ms4x!Goto, Ms4x!Raise, Ms4x!Stays
  <2>7. MsCells'
    <3>0. ecu \in Ms4x!Computers /\ Ms4x!Region \in Ms4x!Regions /\ s.chunk \in 1 .. RegionChunks
      BY MsRegion DEF Ms4x!TypeOK, MsInv, Ms4x!Writes
    <3>1. Ms4x!Begun \in Ms4x!Writes /\ Ms4x!Begun.op = s.op /\ Ms4x!Begun.i = s.i
      BY MsBegun DEF Ms4x!TypeOK
    <3>2. CASE pc' # "program" /\ pc' # "readback"
      BY <3>2 DEF MsCells
    <3>3. CASE ecu' = Ms4x!SectorErased /\ s' = [Ms4x!Begun EXCEPT !.chunk = 1, !.tries = 1]
               /\ pc' = "program"
      <4>1. s'.op = s.op /\ s'.i = s.i /\ s'.chunk = 1
        BY <3>1, <3>3 DEF Ms4x!Writes
      <4>2. Ms4x!Region' = Ms4x!Region
        BY <4>1 DEF Ms4x!Region
      <4>3. \A k \in 1 .. RegionChunks : ecu'.cells[Ms4x!Region][k] = "blank"
        BY <3>0, <3>3, MsErases
      <4> QED
        BY <3>3, <4>1, <4>2, <4>3, MsCounts DEF MsCells, Ms4x!Cell
    <3> QED
      BY <1>8, <3>2, <3>3 DEF Ms4x!Erase, Ms4x!EraseDone, Ms4x!Raise
  <2> QED BY <2>1, <2>2, <2>3, <2>4, <2>5, <2>6, <2>7 DEF Ms4x!TypeOK, MsInv
<1>9. CASE Ms4x!EraseCheck
  <2>1. ecu' \in Ms4x!Computers
    BY <1>9
       DEF Ms4x!EraseCheck, Ms4x!EraseDone, Ms4x!TypeOK, Ms4x!Goto, Ms4x!Raise, Ms4x!Stays,
           Ms4x!Computers
  <2>2. s' \in Ms4x!Writes
    <3>1. \/ s' = s \/ s' = [s EXCEPT !.chunk = 1, !.tries = 1]
          \/ s.tries < Attempts /\ s' = [s EXCEPT !.tries = s.tries + 1]
      BY <1>9 DEF Ms4x!EraseCheck, Ms4x!EraseDone, Ms4x!Goto, Ms4x!Raise, Ms4x!Stays, Ms4x!Again
    <3>2. s.tries < Attempts => s.tries + 1 \in 1 .. Attempts
      <4>1. s.tries \in 1 .. Attempts
        BY DEF Ms4x!TypeOK, Ms4x!Writes
      <4> QED
        BY <4>1, MsCounts
    <3> QED
      BY <3>1, <3>2, MsEdits, MsCounts DEF Ms4x!TypeOK
  <2>3. pc' \in Ms4x!Pcs
    BY <1>9
       DEF Ms4x!EraseCheck, Ms4x!EraseDone, Ms4x!TypeOK, Ms4x!Goto, Ms4x!Raise, Ms4x!Stays,
           Ms4x!Pcs
  <2>4. /\ outcome' \in {"none", "running", "not_started", "complete", "abandoned"}
        /\ touched' \in BOOLEAN
    BY <1>9 DEF Ms4x!EraseCheck, Ms4x!EraseDone, Ms4x!TypeOK, Ms4x!Goto, Ms4x!Raise, Ms4x!Stays
  <2>5. s'.i <= Len(Ms4x!Order(s'.op))
    BY <1>9
       DEF Ms4x!EraseCheck, Ms4x!EraseDone, Ms4x!TypeOK, Ms4x!Goto, Ms4x!Raise, Ms4x!Stays,
           MsInv, Ms4x!Writes
  <2>6. pc' = "lower" => s'.tier < LastRate
    BY <1>9 DEF Ms4x!EraseCheck, Ms4x!EraseDone, Ms4x!TypeOK, Ms4x!Goto, Ms4x!Raise, Ms4x!Stays
  <2>7. MsCells'
    <3>1. CASE pc' # "program" /\ pc' # "readback"
      BY <3>1 DEF MsCells
    <3>2. CASE Ms4x!SectorBlank /\ s' = [s EXCEPT !.chunk = 1, !.tries = 1] /\ ecu' = ecu
               /\ pc' = "program"
      <4>1. s'.op = s.op /\ s'.i = s.i /\ s'.chunk = 1
        BY <3>2 DEF Ms4x!TypeOK, Ms4x!Writes
      <4>2. Ms4x!Region' = Ms4x!Region
        BY <4>1 DEF Ms4x!Region
      <4>3. \A k \in 1 .. RegionChunks : ecu'.cells[Ms4x!Region][k] = "blank"
        BY <3>2 DEF Ms4x!SectorBlank, Ms4x!Holding
      <4> QED
        BY <3>2, <4>1, <4>2, <4>3, MsCounts DEF MsCells, Ms4x!Cell
    <3> QED
      BY <1>9, <3>1, <3>2 DEF Ms4x!EraseCheck, Ms4x!EraseDone, Ms4x!Raise
  <2> QED BY <2>1, <2>2, <2>3, <2>4, <2>5, <2>6, <2>7 DEF Ms4x!TypeOK, MsInv
<1>10. CASE Ms4x!Program
  <2>1. ecu' \in Ms4x!Computers
    <3>0. ecu \in Ms4x!Computers /\ Ms4x!Region \in Ms4x!Regions /\ s.chunk \in 1 .. RegionChunks
      BY MsRegion DEF Ms4x!TypeOK, MsInv, Ms4x!Writes
    <3>1. \E c \in Ms4x!Cells : ecu' = ecu \/ ecu' = Ms4x!Programmed(c)
      <4>1. Ms4x!Cell \in Ms4x!Cells
        BY <3>0 DEF Ms4x!Cell, Ms4x!Computers
      <4> QED
        BY <1>10, <4>1 DEF Ms4x!Program, Ms4x!Cut, Ms4x!Cells
    <3> QED
      BY <3>0, <3>1, MsPrograms
  <2>2. s' \in Ms4x!Writes
    <3>0. s \in Ms4x!Writes /\ s.i <= Len(Ms4x!Order(s.op)) /\ s.op \in {"tune", "full", "boot"}
      BY DEF Ms4x!TypeOK, MsInv, Ms4x!Writes
    <3>1. Ms4x!ChunkDone \/ Ms4x!RegionDone(s) => s' \in Ms4x!Writes /\ s'.op = s.op
                 /\ s'.i <= Len(Ms4x!Order(s.op)) /\ pc' \in Ms4x!Pcs /\ pc' # "lower"
      BY MsChunkDone, MsRegionDone DEF Ms4x!TypeOK, MsInv, Ms4x!Pcs
    <3>2. Ms4x!ChunkDone \/ Ms4x!RegionDone(s) \/ s' = s
      BY <1>10 DEF Ms4x!Program, Ms4x!Goto, Ms4x!Raise, Ms4x!Stays, Ms4x!Again
    <3>3. s.tries < Attempts => s.tries + 1 \in 1 .. Attempts
      <4>1. s.tries \in 1 .. Attempts
        BY <3>0 DEF Ms4x!Writes
      <4> QED
        BY <4>1, MsCounts
    <3> QED
      BY <3>0, <3>1, <3>2, <3>3, MsEdits
  <2>3. pc' \in Ms4x!Pcs
    <3>1. Ms4x!ChunkDone \/ Ms4x!RegionDone(s) => s' \in Ms4x!Writes /\ s'.op = s.op
                 /\ s'.i <= Len(Ms4x!Order(s.op)) /\ pc' \in Ms4x!Pcs /\ pc' # "lower"
      BY MsChunkDone, MsRegionDone DEF Ms4x!TypeOK, MsInv, Ms4x!Pcs
    <3>2. Ms4x!ChunkDone \/ Ms4x!RegionDone(s) \/ pc' \in {"readback", "handler"}
      BY <1>10 DEF Ms4x!Program, Ms4x!Goto, Ms4x!Raise, Ms4x!Stays
    <3> QED
      BY <3>1, <3>2 DEF Ms4x!Pcs
  <2>4. /\ outcome' \in {"none", "running", "not_started", "complete", "abandoned"}
        /\ touched' \in BOOLEAN
    BY <1>10 DEF Ms4x!Program, Ms4x!TypeOK, Ms4x!Goto, Ms4x!Raise, Ms4x!Stays
  <2>5. s'.i <= Len(Ms4x!Order(s'.op))
    <3>0. s \in Ms4x!Writes /\ s.i <= Len(Ms4x!Order(s.op)) /\ s.op \in {"tune", "full", "boot"}
      BY DEF Ms4x!TypeOK, MsInv, Ms4x!Writes
    <3>1. Ms4x!ChunkDone \/ Ms4x!RegionDone(s) => s' \in Ms4x!Writes /\ s'.op = s.op
                 /\ s'.i <= Len(Ms4x!Order(s.op)) /\ pc' \in Ms4x!Pcs /\ pc' # "lower"
      BY MsChunkDone, MsRegionDone DEF Ms4x!TypeOK, MsInv, Ms4x!Pcs
    <3>2. Ms4x!ChunkDone \/ Ms4x!RegionDone(s) \/ s' = s
      BY <1>10 DEF Ms4x!Program, Ms4x!Goto, Ms4x!Raise, Ms4x!Stays, Ms4x!Again
    <3>3. Ms4x!ChunkDone \/ Ms4x!RegionDone(s) \/ (s'.op = s.op /\ s'.i = s.i)
      BY <3>0, <3>2 DEF Ms4x!Writes
    <3> QED
      BY <3>0, <3>1, <3>3
  <2>6. pc' = "lower" => s'.tier < LastRate
    <3>1. Ms4x!ChunkDone \/ Ms4x!RegionDone(s) => s' \in Ms4x!Writes /\ s'.op = s.op
                 /\ s'.i <= Len(Ms4x!Order(s.op)) /\ pc' \in Ms4x!Pcs /\ pc' # "lower"
      BY MsChunkDone, MsRegionDone DEF Ms4x!TypeOK, MsInv, Ms4x!Pcs
    <3>2. Ms4x!ChunkDone \/ Ms4x!RegionDone(s) \/ pc' \in {"readback", "handler"}
      BY <1>10 DEF Ms4x!Program, Ms4x!Goto, Ms4x!Raise, Ms4x!Stays
    <3> QED
      BY <3>1, <3>2
  <2>7. MsCells'
    <3>0. ecu \in Ms4x!Computers /\ Ms4x!Region \in Ms4x!Regions /\ s.chunk \in 1 .. RegionChunks
      BY MsRegion DEF Ms4x!TypeOK, MsInv, Ms4x!Writes
    <3>1. \E c \in Ms4x!Cells : ecu' = ecu \/ ecu' = Ms4x!Programmed(c)
      <4>1. Ms4x!Cell \in Ms4x!Cells
        BY <3>0 DEF Ms4x!Cell, Ms4x!Computers
      <4> QED
        BY <1>10, <4>1 DEF Ms4x!Program, Ms4x!Cut, Ms4x!Cells
    <3>2. \A k \in 1 .. RegionChunks : k > s.chunk => ecu'.cells[Ms4x!Region][k] = "blank"
      <4>1. \A k \in 1 .. RegionChunks :
               k > s.chunk => ecu.cells[Ms4x!Region][k] = "blank" /\ k # s.chunk
        BY <1>10, <3>0 DEF Ms4x!Program, MsInv, MsCells
      <4> QED
        BY <3>0, <3>1, <4>1, MsPrograms
    <3>3. CASE pc' \in {"readback", "handler"} /\ s' = s
      BY <3>2, <3>3 DEF MsCells, Ms4x!Region
    <3>4. CASE Ms4x!ChunkDone
      <4>1. CASE pc' = "program"
        <5>1. /\ s'.op = s.op /\ s'.i = s.i /\ s'.chunk = s.chunk + 1
              /\ s'.chunk \in 1 .. RegionChunks
          BY <3>4, <4>1, MsChunkDone DEF Ms4x!TypeOK, MsInv
        <5>2. Ms4x!Region' = Ms4x!Region
          BY <5>1 DEF Ms4x!Region
        <5> QED
          BY <3>0, <3>2, <4>1, <5>1, <5>2 DEF MsCells, Ms4x!Cell
      <4>2. CASE pc' # "program"
        <5>1. pc' # "readback"
          BY <3>4, <4>2, MsChunkDone DEF Ms4x!TypeOK, MsInv
        <5> QED
          BY <4>2, <5>1 DEF MsCells
      <4> QED
        BY <4>1, <4>2
    <3> QED
      BY <1>10, <3>3, <3>4 DEF Ms4x!Program, Ms4x!Goto, Ms4x!Raise
  <2> QED BY <2>1, <2>2, <2>3, <2>4, <2>5, <2>6, <2>7 DEF Ms4x!TypeOK, MsInv
<1>11. CASE Ms4x!Readback
  <2>1. ecu' \in Ms4x!Computers
    BY <1>11 DEF Ms4x!Readback, Ms4x!TypeOK, Ms4x!Goto, Ms4x!Raise, Ms4x!Stays, Ms4x!Computers
  <2>2. s' \in Ms4x!Writes
    <3>0. s \in Ms4x!Writes /\ s.i <= Len(Ms4x!Order(s.op)) /\ s.op \in {"tune", "full", "boot"}
      BY DEF Ms4x!TypeOK, MsInv, Ms4x!Writes
    <3>1. Ms4x!ChunkDone \/ Ms4x!RegionDone(s) => s' \in Ms4x!Writes /\ s'.op = s.op
                 /\ s'.i <= Len(Ms4x!Order(s.op)) /\ pc' \in Ms4x!Pcs /\ pc' # "lower"
      BY MsChunkDone, MsRegionDone DEF Ms4x!TypeOK, MsInv, Ms4x!Pcs
    <3>2. Ms4x!ChunkDone \/ Ms4x!RegionDone(s) \/ s' = s
                 \/ (s.tries < Attempts /\ s' = [s EXCEPT !.tries = s.tries + 1])
                 \/ s' = [s EXCEPT !.repair_used = TRUE, !.repairing = TRUE, !.tries = 1]
      BY <1>11 DEF Ms4x!Readback, Ms4x!Goto, Ms4x!Raise, Ms4x!Stays, Ms4x!Again
    <3>3. s.tries < Attempts => s.tries + 1 \in 1 .. Attempts
      <4>1. s.tries \in 1 .. Attempts
        BY <3>0 DEF Ms4x!Writes
      <4> QED
        BY <4>1, MsCounts
    <3> QED
      BY <3>0, <3>1, <3>2, <3>3, MsEdits
  <2>3. pc' \in Ms4x!Pcs
    <3>1. Ms4x!ChunkDone \/ Ms4x!RegionDone(s) => s' \in Ms4x!Writes /\ s'.op = s.op
                 /\ s'.i <= Len(Ms4x!Order(s.op)) /\ pc' \in Ms4x!Pcs /\ pc' # "lower"
      BY MsChunkDone, MsRegionDone DEF Ms4x!TypeOK, MsInv, Ms4x!Pcs
    <3>2. Ms4x!ChunkDone \/ Ms4x!RegionDone(s) \/ pc' \in {"program", "erase", "handler"}
      BY <1>11 DEF Ms4x!Readback, Ms4x!Goto, Ms4x!Raise, Ms4x!Stays
    <3> QED
      BY <3>1, <3>2 DEF Ms4x!Pcs
  <2>4. /\ outcome' \in {"none", "running", "not_started", "complete", "abandoned"}
        /\ touched' \in BOOLEAN
    BY <1>11 DEF Ms4x!Readback, Ms4x!TypeOK, Ms4x!Goto, Ms4x!Raise, Ms4x!Stays
  <2>5. s'.i <= Len(Ms4x!Order(s'.op))
    <3>0. s \in Ms4x!Writes /\ s.i <= Len(Ms4x!Order(s.op)) /\ s.op \in {"tune", "full", "boot"}
      BY DEF Ms4x!TypeOK, MsInv, Ms4x!Writes
    <3>1. Ms4x!ChunkDone \/ Ms4x!RegionDone(s) => s' \in Ms4x!Writes /\ s'.op = s.op
                 /\ s'.i <= Len(Ms4x!Order(s.op)) /\ pc' \in Ms4x!Pcs /\ pc' # "lower"
      BY MsChunkDone, MsRegionDone DEF Ms4x!TypeOK, MsInv, Ms4x!Pcs
    <3>2. Ms4x!ChunkDone \/ Ms4x!RegionDone(s) \/ s' = s
                 \/ (s.tries < Attempts /\ s' = [s EXCEPT !.tries = s.tries + 1])
                 \/ s' = [s EXCEPT !.repair_used = TRUE, !.repairing = TRUE, !.tries = 1]
      BY <1>11 DEF Ms4x!Readback, Ms4x!Goto, Ms4x!Raise, Ms4x!Stays, Ms4x!Again
    <3>3. Ms4x!ChunkDone \/ Ms4x!RegionDone(s) \/ (s'.op = s.op /\ s'.i = s.i)
      BY <3>0, <3>2 DEF Ms4x!Writes
    <3> QED
      BY <3>0, <3>1, <3>3
  <2>6. pc' = "lower" => s'.tier < LastRate
    <3>1. Ms4x!ChunkDone \/ Ms4x!RegionDone(s) => s' \in Ms4x!Writes /\ s'.op = s.op
                 /\ s'.i <= Len(Ms4x!Order(s.op)) /\ pc' \in Ms4x!Pcs /\ pc' # "lower"
      BY MsChunkDone, MsRegionDone DEF Ms4x!TypeOK, MsInv, Ms4x!Pcs
    <3>2. Ms4x!ChunkDone \/ Ms4x!RegionDone(s) \/ pc' \in {"program", "erase", "handler"}
      BY <1>11 DEF Ms4x!Readback, Ms4x!Goto, Ms4x!Raise, Ms4x!Stays
    <3> QED
      BY <3>1, <3>2
  <2>7. MsCells'
    <3>0. ecu \in Ms4x!Computers /\ Ms4x!Region \in Ms4x!Regions /\ s.chunk \in 1 .. RegionChunks
      BY MsRegion DEF Ms4x!TypeOK, MsInv, Ms4x!Writes
    <3>2. \A k \in 1 .. RegionChunks : k > s.chunk => ecu'.cells[Ms4x!Region][k] = "blank"
      BY <1>11 DEF Ms4x!Readback, MsInv, MsCells
    <3>3. CASE pc' \in {"erase", "handler"}
      BY <3>3 DEF MsCells
    <3>4. CASE Ms4x!ChunkDone
      <4>1. CASE pc' = "program"
        <5>1. /\ s'.op = s.op /\ s'.i = s.i /\ s'.chunk = s.chunk + 1
              /\ s'.chunk \in 1 .. RegionChunks
          BY <3>4, <4>1, MsChunkDone DEF Ms4x!TypeOK, MsInv
        <5>2. Ms4x!Region' = Ms4x!Region
          BY <5>1 DEF Ms4x!Region
        <5> QED
          BY <3>0, <3>2, <4>1, <5>1, <5>2 DEF MsCells, Ms4x!Cell
      <4>2. CASE pc' # "program"
        <5>1. pc' # "readback"
          BY <3>4, <4>2, MsChunkDone DEF Ms4x!TypeOK, MsInv
        <5> QED
          BY <4>2, <5>1 DEF MsCells
      <4> QED
        BY <4>1, <4>2
    <3>5. CASE /\ s' = [s EXCEPT !.tries = s.tries + 1] /\ pc' = "program" /\ ecu' = ecu
               /\ Ms4x!Cell \in {"blank", "part"}
      <4>1. /\ s'.op = s.op /\ s'.i = s.i /\ s'.chunk = s.chunk
            /\ s'.tries = s.tries + 1 /\ s.tries \in Nat \ {0}
        BY <3>5, MsCounts DEF Ms4x!TypeOK, Ms4x!Writes
      <4>2. Ms4x!Region' = Ms4x!Region /\ Ms4x!Cell' = Ms4x!Cell
        BY <3>5, <4>1 DEF Ms4x!Region, Ms4x!Cell
      <4> QED
        BY <3>2, <3>5, <4>1, <4>2 DEF MsCells
    <3> QED
      BY <1>11, <3>3, <3>4, <3>5 DEF Ms4x!Readback, Ms4x!Resendable, Ms4x!Raise
  <2> QED BY <2>1, <2>2, <2>3, <2>4, <2>5, <2>6, <2>7 DEF Ms4x!TypeOK, MsInv
<1>12. CASE Ms4x!RepairVerify
  <2>1. ecu' \in Ms4x!Computers
    BY <1>12
       DEF Ms4x!RepairVerify, Ms4x!TypeOK, Ms4x!Goto, Ms4x!Raise, Ms4x!Stays, Ms4x!Computers
  <2>2. s' \in Ms4x!Writes
    <3>0. s \in Ms4x!Writes /\ s.i <= Len(Ms4x!Order(s.op)) /\ s.op \in {"tune", "full", "boot"}
      BY DEF Ms4x!TypeOK, MsInv, Ms4x!Writes
    <3>1. Ms4x!ChunkDone \/ Ms4x!RegionDone(s) => s' \in Ms4x!Writes /\ s'.op = s.op
                 /\ s'.i <= Len(Ms4x!Order(s.op)) /\ pc' \in Ms4x!Pcs /\ pc' # "lower"
      BY MsChunkDone, MsRegionDone DEF Ms4x!TypeOK, MsInv, Ms4x!Pcs
    <3>2. Ms4x!ChunkDone \/ Ms4x!RegionDone(s) \/ s' = s
      BY <1>12 DEF Ms4x!RepairVerify, Ms4x!Goto, Ms4x!Raise, Ms4x!Stays, Ms4x!Again
    <3>3. s.tries < Attempts => s.tries + 1 \in 1 .. Attempts
      <4>1. s.tries \in 1 .. Attempts
        BY <3>0 DEF Ms4x!Writes
      <4> QED
        BY <4>1, MsCounts
    <3> QED
      BY <3>0, <3>1, <3>2, <3>3, MsEdits
  <2>3. pc' \in Ms4x!Pcs
    <3>1. Ms4x!ChunkDone \/ Ms4x!RegionDone(s) => s' \in Ms4x!Writes /\ s'.op = s.op
                 /\ s'.i <= Len(Ms4x!Order(s.op)) /\ pc' \in Ms4x!Pcs /\ pc' # "lower"
      BY MsChunkDone, MsRegionDone DEF Ms4x!TypeOK, MsInv, Ms4x!Pcs
    <3>2. Ms4x!ChunkDone \/ Ms4x!RegionDone(s) \/ pc' \in {"handler"}
      BY <1>12 DEF Ms4x!RepairVerify, Ms4x!Goto, Ms4x!Raise, Ms4x!Stays
    <3> QED
      BY <3>1, <3>2 DEF Ms4x!Pcs
  <2>4. /\ outcome' \in {"none", "running", "not_started", "complete", "abandoned"}
        /\ touched' \in BOOLEAN
    BY <1>12 DEF Ms4x!RepairVerify, Ms4x!TypeOK, Ms4x!Goto, Ms4x!Raise, Ms4x!Stays
  <2>5. s'.i <= Len(Ms4x!Order(s'.op))
    <3>0. s \in Ms4x!Writes /\ s.i <= Len(Ms4x!Order(s.op)) /\ s.op \in {"tune", "full", "boot"}
      BY DEF Ms4x!TypeOK, MsInv, Ms4x!Writes
    <3>1. Ms4x!ChunkDone \/ Ms4x!RegionDone(s) => s' \in Ms4x!Writes /\ s'.op = s.op
                 /\ s'.i <= Len(Ms4x!Order(s.op)) /\ pc' \in Ms4x!Pcs /\ pc' # "lower"
      BY MsChunkDone, MsRegionDone DEF Ms4x!TypeOK, MsInv, Ms4x!Pcs
    <3>2. Ms4x!ChunkDone \/ Ms4x!RegionDone(s) \/ s' = s
      BY <1>12 DEF Ms4x!RepairVerify, Ms4x!Goto, Ms4x!Raise, Ms4x!Stays, Ms4x!Again
    <3>3. Ms4x!ChunkDone \/ Ms4x!RegionDone(s) \/ (s'.op = s.op /\ s'.i = s.i)
      BY <3>0, <3>2 DEF Ms4x!Writes
    <3> QED
      BY <3>0, <3>1, <3>3
  <2>6. pc' = "lower" => s'.tier < LastRate
    <3>1. Ms4x!ChunkDone \/ Ms4x!RegionDone(s) => s' \in Ms4x!Writes /\ s'.op = s.op
                 /\ s'.i <= Len(Ms4x!Order(s.op)) /\ pc' \in Ms4x!Pcs /\ pc' # "lower"
      BY MsChunkDone, MsRegionDone DEF Ms4x!TypeOK, MsInv, Ms4x!Pcs
    <3>2. Ms4x!ChunkDone \/ Ms4x!RegionDone(s) \/ pc' \in {"handler"}
      BY <1>12 DEF Ms4x!RepairVerify, Ms4x!Goto, Ms4x!Raise, Ms4x!Stays
    <3> QED
      BY <3>1, <3>2
  <2>7. MsCells'
    <3>1. pc' \notin {"program", "readback"}
      <4>1. Ms4x!RegionDone(s) => pc' \notin {"program", "readback"}
        BY MsRegionDone DEF Ms4x!TypeOK, MsInv
      <4> QED
        BY <1>12, <4>1 DEF Ms4x!RepairVerify, Ms4x!Goto, Ms4x!Raise, Ms4x!Stays
    <3> QED
      BY <3>1 DEF MsCells
  <2> QED BY <2>1, <2>2, <2>3, <2>4, <2>5, <2>6, <2>7 DEF Ms4x!TypeOK, MsInv
<1>13. CASE Ms4x!Verify
  <2>1. ecu' \in Ms4x!Computers
    BY <1>13 DEF Ms4x!Verify, Ms4x!TypeOK, Ms4x!Goto, Ms4x!Raise, Ms4x!Stays, Ms4x!Computers
  <2>2. s' \in Ms4x!Writes
    BY <1>13, MsCounts
       DEF Ms4x!Verify, Ms4x!TypeOK, Ms4x!Goto, Ms4x!Raise, Ms4x!Stays, Ms4x!Writes
  <2>3. pc' \in Ms4x!Pcs
    BY <1>13 DEF Ms4x!Verify, Ms4x!TypeOK, Ms4x!Goto, Ms4x!Raise, Ms4x!Stays, Ms4x!Pcs
  <2>4. /\ outcome' \in {"none", "running", "not_started", "complete", "abandoned"}
        /\ touched' \in BOOLEAN
    BY <1>13 DEF Ms4x!Verify, Ms4x!TypeOK, Ms4x!Goto, Ms4x!Raise, Ms4x!Stays
  <2>5. s'.i <= Len(Ms4x!Order(s'.op))
    BY <1>13 DEF Ms4x!Verify, Ms4x!TypeOK, Ms4x!Goto, Ms4x!Raise, Ms4x!Stays, MsInv, Ms4x!Writes
  <2>6. pc' = "lower" => s'.tier < LastRate
    BY <1>13 DEF Ms4x!Verify, Ms4x!TypeOK, Ms4x!Goto, Ms4x!Raise, Ms4x!Stays
  <2>7. MsCells'
    <3>1. pc' \notin {"program", "readback"}
      BY <1>13 DEF Ms4x!Verify, Ms4x!Goto, Ms4x!Raise, Ms4x!Stays
    <3> QED
      BY <3>1 DEF MsCells
  <2> QED BY <2>1, <2>2, <2>3, <2>4, <2>5, <2>6, <2>7 DEF Ms4x!TypeOK, MsInv
<1>14. CASE Ms4x!Boot
  <2>1. ecu' \in Ms4x!Computers
    BY <1>14
       DEF Ms4x!Boot, Ms4x!Finalizer, Ms4x!TypeOK, Ms4x!Goto, Ms4x!Raise, Ms4x!Stays,
           Ms4x!Computers
  <2>2. s' \in Ms4x!Writes
    <3>1. s' = s \/ s' = [s EXCEPT !.i = 3, !.chunk = 1, !.tries = 1]
      BY <1>14 DEF Ms4x!Boot, Ms4x!Finalizer, Ms4x!Goto, Ms4x!Raise, Ms4x!Stays, Ms4x!Again
    <3> QED
      BY <3>1, MsEdits, MsCounts DEF Ms4x!TypeOK
  <2>3. pc' \in Ms4x!Pcs
    BY <1>14
       DEF Ms4x!Boot, Ms4x!Finalizer, Ms4x!TypeOK, Ms4x!Goto, Ms4x!Raise, Ms4x!Stays,
           Ms4x!Pcs
  <2>4. /\ outcome' \in {"none", "running", "not_started", "complete", "abandoned"}
        /\ touched' \in BOOLEAN
    BY <1>14 DEF Ms4x!Boot, Ms4x!Finalizer, Ms4x!TypeOK, Ms4x!Goto, Ms4x!Raise, Ms4x!Stays
  <2>5. s'.i <= Len(Ms4x!Order(s'.op))
    <3>0. s \in Ms4x!Writes /\ s.i <= Len(Ms4x!Order(s.op)) /\ s.op \in {"tune", "full", "boot"}
      BY DEF Ms4x!TypeOK, MsInv, Ms4x!Writes
    <3>1. s' = s \/ (s.op = "boot" /\ s'.op = "boot" /\ s'.i = 3)
      BY <1>14
         DEF Ms4x!Boot, Ms4x!Finalizer, Ms4x!Goto, Ms4x!Raise, Ms4x!Stays, Ms4x!TypeOK,
             Ms4x!Writes
    <3> QED
      BY <3>0, <3>1, MsOrders
  <2>6. pc' = "lower" => s'.tier < LastRate
    BY <1>14 DEF Ms4x!Boot, Ms4x!Finalizer, Ms4x!TypeOK, Ms4x!Goto, Ms4x!Raise, Ms4x!Stays
  <2>7. MsCells'
    <3>1. pc' \notin {"program", "readback"}
      BY <1>14 DEF Ms4x!Boot, Ms4x!Finalizer, Ms4x!Goto, Ms4x!Raise, Ms4x!Stays
    <3> QED
      BY <3>1 DEF MsCells
  <2> QED BY <2>1, <2>2, <2>3, <2>4, <2>5, <2>6, <2>7 DEF Ms4x!TypeOK, MsInv
<1>15. CASE Ms4x!BootVerify
  <2>1. ecu' \in Ms4x!Computers
    BY <1>15
       DEF Ms4x!BootVerify, Ms4x!Finalizer, Ms4x!TypeOK, Ms4x!Goto, Ms4x!Raise, Ms4x!Stays,
           Ms4x!Computers
  <2>2. s' \in Ms4x!Writes
    BY <1>15, MsCounts
       DEF Ms4x!BootVerify, Ms4x!Finalizer, Ms4x!TypeOK, Ms4x!Goto, Ms4x!Raise, Ms4x!Stays,
           Ms4x!Writes
  <2>3. pc' \in Ms4x!Pcs
    BY <1>15
       DEF Ms4x!BootVerify, Ms4x!Finalizer, Ms4x!TypeOK, Ms4x!Goto, Ms4x!Raise, Ms4x!Stays,
           Ms4x!Pcs
  <2>4. /\ outcome' \in {"none", "running", "not_started", "complete", "abandoned"}
        /\ touched' \in BOOLEAN
    BY <1>15 DEF Ms4x!BootVerify, Ms4x!Finalizer, Ms4x!TypeOK, Ms4x!Goto, Ms4x!Raise, Ms4x!Stays
  <2>5. s'.i <= Len(Ms4x!Order(s'.op))
    BY <1>15
       DEF Ms4x!BootVerify, Ms4x!Finalizer, Ms4x!TypeOK, Ms4x!Goto, Ms4x!Raise, Ms4x!Stays,
           MsInv, Ms4x!Writes
  <2>6. pc' = "lower" => s'.tier < LastRate
    BY <1>15 DEF Ms4x!BootVerify, Ms4x!Finalizer, Ms4x!TypeOK, Ms4x!Goto, Ms4x!Raise, Ms4x!Stays
  <2>7. MsCells'
    <3>1. pc' \notin {"program", "readback"}
      BY <1>15 DEF Ms4x!BootVerify, Ms4x!Finalizer, Ms4x!Goto, Ms4x!Raise, Ms4x!Stays
    <3> QED
      BY <3>1 DEF MsCells
  <2> QED BY <2>1, <2>2, <2>3, <2>4, <2>5, <2>6, <2>7 DEF Ms4x!TypeOK, MsInv
<1>16. CASE Ms4x!Leave
  <2>1. ecu' \in Ms4x!Computers
    BY <1>16, MsRestarts DEF Ms4x!Leave, Ms4x!Goto, Ms4x!Raise, Ms4x!Stays, Ms4x!TypeOK
  <2>2. s' \in Ms4x!Writes
    BY <1>16, MsCounts
       DEF Ms4x!Leave, Ms4x!TypeOK, Ms4x!Goto, Ms4x!Raise, Ms4x!Stays, Ms4x!Writes
  <2>3. pc' \in Ms4x!Pcs
    BY <1>16 DEF Ms4x!Leave, Ms4x!TypeOK, Ms4x!Goto, Ms4x!Raise, Ms4x!Stays, Ms4x!Pcs
  <2>4. /\ outcome' \in {"none", "running", "not_started", "complete", "abandoned"}
        /\ touched' \in BOOLEAN
    BY <1>16 DEF Ms4x!Leave, Ms4x!TypeOK, Ms4x!Goto, Ms4x!Raise, Ms4x!Stays
  <2>5. s'.i <= Len(Ms4x!Order(s'.op))
    BY <1>16 DEF Ms4x!Leave, Ms4x!TypeOK, Ms4x!Goto, Ms4x!Raise, Ms4x!Stays, MsInv, Ms4x!Writes
  <2>6. pc' = "lower" => s'.tier < LastRate
    BY <1>16 DEF Ms4x!Leave, Ms4x!TypeOK, Ms4x!Goto, Ms4x!Raise, Ms4x!Stays
  <2>7. MsCells'
    <3>1. pc' \notin {"program", "readback"}
      BY <1>16 DEF Ms4x!Leave, Ms4x!Goto, Ms4x!Raise, Ms4x!Stays
    <3> QED
      BY <3>1 DEF MsCells
  <2> QED BY <2>1, <2>2, <2>3, <2>4, <2>5, <2>6, <2>7 DEF Ms4x!TypeOK, MsInv
<1>17. CASE Ms4x!Finalize
  <2>1. ecu' \in Ms4x!Computers
    <3> DEFINE m == [r \in {"program", "tune"} |-> TRUE]
    <3>1. ecu' = ecu \/ ecu' = [ecu EXCEPT !.marked = m]
      BY <1>17 DEF Ms4x!Finalize, Ms4x!TypeOK, Ms4x!Computers
    <3>2. m \in [{"program", "tune"} -> BOOLEAN]
      OBVIOUS
    <3> HIDE DEF m
    <3> QED
      BY <3>1, <3>2 DEF Ms4x!TypeOK, Ms4x!Computers
  <2>2. s' \in Ms4x!Writes
    BY <1>17, MsCounts
       DEF Ms4x!Finalize, Ms4x!TypeOK, Ms4x!Goto, Ms4x!Raise, Ms4x!Stays, Ms4x!Writes
  <2>3. pc' \in Ms4x!Pcs
    BY <1>17 DEF Ms4x!Finalize, Ms4x!TypeOK, Ms4x!Goto, Ms4x!Raise, Ms4x!Stays, Ms4x!Pcs
  <2>4. /\ outcome' \in {"none", "running", "not_started", "complete", "abandoned"}
        /\ touched' \in BOOLEAN
    BY <1>17 DEF Ms4x!Finalize, Ms4x!TypeOK, Ms4x!Goto, Ms4x!Raise, Ms4x!Stays
  <2>5. s'.i <= Len(Ms4x!Order(s'.op))
    BY <1>17
       DEF Ms4x!Finalize, Ms4x!TypeOK, Ms4x!Goto, Ms4x!Raise, Ms4x!Stays, MsInv, Ms4x!Writes
  <2>6. pc' = "lower" => s'.tier < LastRate
    BY <1>17 DEF Ms4x!Finalize, Ms4x!TypeOK, Ms4x!Goto, Ms4x!Raise, Ms4x!Stays
  <2>7. MsCells'
    <3>1. pc' \notin {"program", "readback"}
      BY <1>17 DEF Ms4x!Finalize, Ms4x!Goto, Ms4x!Raise, Ms4x!Stays
    <3> QED
      BY <3>1 DEF MsCells
  <2> QED BY <2>1, <2>2, <2>3, <2>4, <2>5, <2>6, <2>7 DEF Ms4x!TypeOK, MsInv
<1>18. CASE Ms4x!Conclude
  <2>1. ecu' \in Ms4x!Computers
    BY <1>18, MsRestarts
       DEF Ms4x!Conclude, Ms4x!Report, Ms4x!Goto, Ms4x!Raise, Ms4x!Stays, Ms4x!TypeOK
  <2>2. s' \in Ms4x!Writes
    <3>0. s \in Ms4x!Writes /\ s.i <= Len(Ms4x!Order(s.op)) /\ s.op \in {"tune", "full", "boot"}
      BY DEF Ms4x!TypeOK, MsInv, Ms4x!Writes
    <3>1. s' = s \/ s' = Ms4x!NewWrite(s.op, FALSE, FALSE, "stock")
      BY <1>18 DEF Ms4x!Conclude, Ms4x!Report, Ms4x!Goto, Ms4x!Raise, Ms4x!Stays
    <3> QED
      BY <3>0, <3>1, MsNew DEF Ms4x!Routes
  <2>3. pc' \in Ms4x!Pcs
    BY <1>18
       DEF Ms4x!Conclude, Ms4x!Report, Ms4x!TypeOK, Ms4x!Goto, Ms4x!Raise, Ms4x!Stays,
           Ms4x!Pcs
  <2>4. /\ outcome' \in {"none", "running", "not_started", "complete", "abandoned"}
        /\ touched' \in BOOLEAN
    BY <1>18 DEF Ms4x!Conclude, Ms4x!Report, Ms4x!TypeOK, Ms4x!Goto, Ms4x!Raise, Ms4x!Stays
  <2>5. s'.i <= Len(Ms4x!Order(s'.op))
    <3>0. s \in Ms4x!Writes /\ s.i <= Len(Ms4x!Order(s.op)) /\ s.op \in {"tune", "full", "boot"}
      BY DEF Ms4x!TypeOK, MsInv, Ms4x!Writes
    <3>1. s' = s \/ s' = Ms4x!NewWrite(s.op, FALSE, FALSE, "stock")
      BY <1>18 DEF Ms4x!Conclude, Ms4x!Report, Ms4x!Goto, Ms4x!Raise, Ms4x!Stays
    <3> QED
      BY <3>0, <3>1, MsNew, MsOne DEF Ms4x!Routes
  <2>6. pc' = "lower" => s'.tier < LastRate
    BY <1>18 DEF Ms4x!Conclude, Ms4x!Report, Ms4x!TypeOK, Ms4x!Goto, Ms4x!Raise, Ms4x!Stays
  <2>7. MsCells'
    <3>1. pc' \notin {"program", "readback"}
      BY <1>18 DEF Ms4x!Conclude, Ms4x!Report, Ms4x!Goto, Ms4x!Raise, Ms4x!Stays
    <3> QED
      BY <3>1 DEF MsCells
  <2> QED BY <2>1, <2>2, <2>3, <2>4, <2>5, <2>6, <2>7 DEF Ms4x!TypeOK, MsInv
<1>19. CASE Ms4x!Handle
  <2>1. ecu' \in Ms4x!Computers
    BY <1>19
       DEF Ms4x!Handle, Ms4x!Report, Ms4x!TypeOK, Ms4x!Goto, Ms4x!Raise, Ms4x!Stays,
           Ms4x!Computers
  <2>2. s' \in Ms4x!Writes
    <3>0. s \in Ms4x!Writes /\ s.i <= Len(Ms4x!Order(s.op)) /\ s.op \in {"tune", "full", "boot"}
      BY DEF Ms4x!TypeOK, MsInv, Ms4x!Writes
    <3>1. s' = s \/ s' = Ms4x!NewWrite(s.op, FALSE, FALSE, "stock")
      BY <1>19 DEF Ms4x!Handle, Ms4x!Report, Ms4x!Goto, Ms4x!Raise, Ms4x!Stays
    <3> QED
      BY <3>0, <3>1, MsNew DEF Ms4x!Routes
  <2>3. pc' \in Ms4x!Pcs
    BY <1>19
       DEF Ms4x!Handle, Ms4x!Report, Ms4x!TypeOK, Ms4x!Goto, Ms4x!Raise, Ms4x!Stays, Ms4x!Pcs
  <2>4. /\ outcome' \in {"none", "running", "not_started", "complete", "abandoned"}
        /\ touched' \in BOOLEAN
    BY <1>19 DEF Ms4x!Handle, Ms4x!Report, Ms4x!TypeOK, Ms4x!Goto, Ms4x!Raise, Ms4x!Stays
  <2>5. s'.i <= Len(Ms4x!Order(s'.op))
    <3>0. s \in Ms4x!Writes /\ s.i <= Len(Ms4x!Order(s.op)) /\ s.op \in {"tune", "full", "boot"}
      BY DEF Ms4x!TypeOK, MsInv, Ms4x!Writes
    <3>1. s' = s \/ s' = Ms4x!NewWrite(s.op, FALSE, FALSE, "stock")
      BY <1>19 DEF Ms4x!Handle, Ms4x!Report, Ms4x!Goto, Ms4x!Raise, Ms4x!Stays
    <3> QED
      BY <3>0, <3>1, MsNew, MsOne DEF Ms4x!Routes
  <2>6. pc' = "lower" => s'.tier < LastRate
    BY <1>19 DEF Ms4x!Handle, Ms4x!Report, Ms4x!TypeOK, Ms4x!Goto, Ms4x!Raise, Ms4x!Stays
  <2>7. MsCells'
    <3>1. pc' \notin {"program", "readback"}
      BY <1>19 DEF Ms4x!Handle, Ms4x!Report, Ms4x!Goto, Ms4x!Raise, Ms4x!Stays
    <3> QED
      BY <3>1 DEF MsCells
  <2> QED BY <2>1, <2>2, <2>3, <2>4, <2>5, <2>6, <2>7 DEF Ms4x!TypeOK, MsInv
<1>20. CASE Ms4x!Retry
  <2>1. ecu' \in Ms4x!Computers
    BY <1>20 DEF Ms4x!Retry, Ms4x!TypeOK, Ms4x!Goto, Ms4x!Raise, Ms4x!Stays, Ms4x!Computers
  <2>2. s' \in Ms4x!Writes
    <3>1. Ms4x!Begun \in Ms4x!Writes /\ Ms4x!Begun.op = s.op /\ Ms4x!Begun.i = s.i
      BY MsBegun DEF Ms4x!TypeOK
    <3> QED
      BY <1>20, <3>1, MsEdits DEF Ms4x!Retry
  <2>3. pc' \in Ms4x!Pcs
    BY <1>20 DEF Ms4x!Retry, Ms4x!TypeOK, Ms4x!Goto, Ms4x!Raise, Ms4x!Stays, Ms4x!Pcs
  <2>4. /\ outcome' \in {"none", "running", "not_started", "complete", "abandoned"}
        /\ touched' \in BOOLEAN
    BY <1>20 DEF Ms4x!Retry, Ms4x!TypeOK, Ms4x!Goto, Ms4x!Raise, Ms4x!Stays
  <2>5. s'.i <= Len(Ms4x!Order(s'.op))
    <3>0. s \in Ms4x!Writes /\ s.i <= Len(Ms4x!Order(s.op)) /\ s.op \in {"tune", "full", "boot"}
      BY DEF Ms4x!TypeOK, MsInv, Ms4x!Writes
    <3>1. Ms4x!Begun \in Ms4x!Writes /\ Ms4x!Begun.op = s.op /\ Ms4x!Begun.i = s.i
      BY MsBegun DEF Ms4x!TypeOK
    <3>2. s'.op = s.op /\ s'.i = 1
      BY <1>20, <3>1 DEF Ms4x!Retry, Ms4x!Writes
    <3> QED
      BY <3>0, <3>2, MsOne
  <2>6. pc' = "lower" => s'.tier < LastRate
    BY <1>20 DEF Ms4x!Retry, Ms4x!TypeOK, Ms4x!Goto, Ms4x!Raise, Ms4x!Stays
  <2>7. MsCells'
    <3>1. pc' \notin {"program", "readback"}
      BY <1>20 DEF Ms4x!Retry, Ms4x!Goto, Ms4x!Raise, Ms4x!Stays
    <3> QED
      BY <3>1 DEF MsCells
  <2> QED BY <2>1, <2>2, <2>3, <2>4, <2>5, <2>6, <2>7 DEF Ms4x!TypeOK, MsInv
<1>21. CASE Ms4x!Exit
  <2>1. ecu' \in Ms4x!Computers
    BY <1>21
       DEF Ms4x!Exit, Ms4x!Report, Ms4x!TypeOK, Ms4x!Goto, Ms4x!Raise, Ms4x!Stays,
           Ms4x!Computers
  <2>2. s' \in Ms4x!Writes
    <3>0. s \in Ms4x!Writes /\ s.i <= Len(Ms4x!Order(s.op)) /\ s.op \in {"tune", "full", "boot"}
      BY DEF Ms4x!TypeOK, MsInv, Ms4x!Writes
    <3>1. s' = s \/ s' = Ms4x!NewWrite(s.op, FALSE, FALSE, "stock")
      BY <1>21 DEF Ms4x!Exit, Ms4x!Report, Ms4x!Goto, Ms4x!Raise, Ms4x!Stays
    <3> QED
      BY <3>0, <3>1, MsNew DEF Ms4x!Routes
  <2>3. pc' \in Ms4x!Pcs
    BY <1>21
       DEF Ms4x!Exit, Ms4x!Report, Ms4x!TypeOK, Ms4x!Goto, Ms4x!Raise, Ms4x!Stays, Ms4x!Pcs
  <2>4. /\ outcome' \in {"none", "running", "not_started", "complete", "abandoned"}
        /\ touched' \in BOOLEAN
    BY <1>21 DEF Ms4x!Exit, Ms4x!Report, Ms4x!TypeOK, Ms4x!Goto, Ms4x!Raise, Ms4x!Stays
  <2>5. s'.i <= Len(Ms4x!Order(s'.op))
    <3>0. s \in Ms4x!Writes /\ s.i <= Len(Ms4x!Order(s.op)) /\ s.op \in {"tune", "full", "boot"}
      BY DEF Ms4x!TypeOK, MsInv, Ms4x!Writes
    <3>1. s' = s \/ s' = Ms4x!NewWrite(s.op, FALSE, FALSE, "stock")
      BY <1>21 DEF Ms4x!Exit, Ms4x!Report, Ms4x!Goto, Ms4x!Raise, Ms4x!Stays
    <3> QED
      BY <3>0, <3>1, MsNew, MsOne DEF Ms4x!Routes
  <2>6. pc' = "lower" => s'.tier < LastRate
    BY <1>21 DEF Ms4x!Exit, Ms4x!Report, Ms4x!TypeOK, Ms4x!Goto, Ms4x!Raise, Ms4x!Stays
  <2>7. MsCells'
    <3>1. pc' \notin {"program", "readback"}
      BY <1>21 DEF Ms4x!Exit, Ms4x!Report, Ms4x!Goto, Ms4x!Raise, Ms4x!Stays
    <3> QED
      BY <3>1 DEF MsCells
  <2> QED BY <2>1, <2>2, <2>3, <2>4, <2>5, <2>6, <2>7 DEF Ms4x!TypeOK, MsInv
<1>22. CASE Ms4x!PowerOff
  <2>1. ecu' \in Ms4x!Computers
    BY <1>22, MsRestarts DEF Ms4x!PowerOff, Ms4x!Goto, Ms4x!Raise, Ms4x!Stays, Ms4x!TypeOK
  <2>2. s' \in Ms4x!Writes
    BY <1>22, MsCounts
       DEF Ms4x!PowerOff, Ms4x!TypeOK, Ms4x!Goto, Ms4x!Raise, Ms4x!Stays, Ms4x!Writes
  <2>3. pc' \in Ms4x!Pcs
    BY <1>22 DEF Ms4x!PowerOff, Ms4x!TypeOK, Ms4x!Goto, Ms4x!Raise, Ms4x!Stays, Ms4x!Pcs
  <2>4. /\ outcome' \in {"none", "running", "not_started", "complete", "abandoned"}
        /\ touched' \in BOOLEAN
    BY <1>22 DEF Ms4x!PowerOff, Ms4x!TypeOK, Ms4x!Goto, Ms4x!Raise, Ms4x!Stays
  <2>5. s'.i <= Len(Ms4x!Order(s'.op))
    BY <1>22
       DEF Ms4x!PowerOff, Ms4x!TypeOK, Ms4x!Goto, Ms4x!Raise, Ms4x!Stays, MsInv, Ms4x!Writes
  <2>6. pc' = "lower" => s'.tier < LastRate
    <3>1. UNCHANGED <<s, pc>>
      BY <1>22 DEF Ms4x!PowerOff
    <3> QED
      BY <3>1 DEF MsInv
  <2>7. MsCells'
    <3>1. ecu'.cells = ecu.cells /\ UNCHANGED <<s, pc>>
      BY <1>22, MsRestarts DEF Ms4x!PowerOff, Ms4x!TypeOK
    <3> QED
      BY <3>1 DEF MsInv, MsCells, Ms4x!Region, Ms4x!Cell
  <2> QED BY <2>1, <2>2, <2>3, <2>4, <2>5, <2>6, <2>7 DEF Ms4x!TypeOK, MsInv
<1> QED
  BY <1>1, <1>2, <1>3, <1>4, <1>5, <1>6, <1>7, <1>8, <1>9, <1>10, <1>11, <1>12, <1>13, <1>14,
     <1>15, <1>16, <1>17, <1>18, <1>19, <1>20, <1>21, <1>22
     DEF Ms4x!Next, Ms4x!WorkerStep

---------------------------------------------------------------------------
(* What the slow and the Soft-BSL writer keep of FlashOutcome.             *)

\* What FlashOutcome lets a step do: from content c and verdict v to content d and
\* verdict w.
Moves(c, v, d, w) ==
    \/ d = c /\ w = v
    \/ v = "running" /\ w = "running" /\ d \in {"torn", "target"}
    \/ /\ v \in {"none", "not_started", "complete", "abandoned"}
       /\ d = "kept" /\ w = "running"
    \/ /\ d = c
       /\ \/ v = "running" /\ w = "not_started" /\ c = "kept"
          \/ v = "running" /\ w = "complete" /\ c = "target"
          \/ v = "running" /\ w = "held"
          \/ v = "held" /\ w = "running"
          \/ v \in {"running", "held"} /\ w = "abandoned"

\* What the slow writer has been through is written: the program array before the
\* calibration, both before the finalizer, and the packets before this one.
LegacyKept ==
    /\ pc = "idle" <=> outcome # "running"
    /\ touched => s.destructive_started
    /\ pc \in {"program", "readback", "finalize", "verify"} => touched
    /\ pc \in {"finalize", "verify"} => s.phase = "finalize"
    /\ s.phase = "program" => s.operation = "full"
    /\ s.operation = "full" /\ s.phase # "program" => Legacy!HoldsNew(ecu, "program")
    /\ s.phase = "finalize" => Legacy!HoldsNew(ecu, "tune")
    /\ pc \in {"program", "readback"} =>
          \A p \in 1 .. Packets : p < s.pkt => ecu.cells[s.phase][p] = "new"
LegacyDone ==
    LegacyKept' /\ Moves(Legacy!Content, Legacy!Verdict, Legacy!Content', Legacy!Verdict')

LEMMA LegacyContents ==
    ASSUME Legacy!TypeOK, LegacyKept
    PROVE  /\ outcome \in {"none", "running", "not_started", "complete", "abandoned"}
           /\ Legacy!Content' \in {"kept", "torn", "target"}
           /\ (~touched => Legacy!Content = "kept") /\ (~touched' => Legacy!Content' = "kept")
           /\ (touched' => Legacy!Content' \in {"torn", "target"})
           /\ (pc \in {"finalize", "verify"} => Legacy!Content = "target")
           /\ (pc # "held" => Legacy!Verdict = outcome)
           /\ (pc' # "held" => Legacy!Verdict' = outcome')
           /\ (pc = "held" => Legacy!Verdict = "held")
           /\ (pc' = "held" => Legacy!Verdict' = "held")
<1>1. ASSUME pc \in {"finalize", "verify"} PROVE Legacy!Content = "target"
  <2>1. touched /\ s.phase = "finalize"
    BY <1>1 DEF LegacyKept
  <2>2. \A a \in Legacy!Affected : Legacy!HoldsNew(ecu, a)
    BY <2>1 DEF LegacyKept, Legacy!Affected, Legacy!Arrays
  <2> QED
    BY <2>1, <2>2 DEF Legacy!Content
<1> QED
  BY <1>1 DEF Legacy!TypeOK, Legacy!Verdict, Legacy!Content

\* Nothing that matters changes but where the writer is.
LegacyQuiet ==
    /\ ecu'.cells = ecu.cells /\ touched' = touched
    /\ s'.operation = s.operation /\ s'.phase = s.phase /\ s'.pkt = s.pkt
    /\ s'.destructive_started = s.destructive_started

LEMMA LegacyQuietly ==
    ASSUME Legacy!TypeOK, LegacyKept, LegacyQuiet, pc' = "idle" <=> outcome' # "running",
           \/ pc' = pc
           \/ pc' \in {"program", "readback"} /\ pc \in {"program", "readback"}
           \/ pc' = "verify" /\ pc = "finalize"
           \/ pc' \notin {"program", "readback", "finalize", "verify"}
    PROVE  LegacyKept' /\ Legacy!Content' = Legacy!Content
<1>1. \A a \in Legacy!Arrays : Legacy!HoldsNew(ecu, a)' = Legacy!HoldsNew(ecu, a)
  BY DEF LegacyQuiet, Legacy!HoldsNew
<1>2. Legacy!HoldsNew(ecu, "program")' = Legacy!HoldsNew(ecu, "program")
  BY DEF LegacyQuiet, Legacy!HoldsNew
<1>3. Legacy!HoldsNew(ecu, "tune")' = Legacy!HoldsNew(ecu, "tune")
  BY DEF LegacyQuiet, Legacy!HoldsNew
<1>4. Legacy!Affected' = Legacy!Affected
  BY DEF LegacyQuiet, Legacy!Affected
<1>5. \A a \in Legacy!Affected : Legacy!HoldsNew(ecu, a)' = Legacy!HoldsNew(ecu, a)
  BY <1>1 DEF Legacy!Affected, Legacy!Arrays
<1>6. Legacy!Content' = Legacy!Content
  BY <1>4, <1>5 DEF Legacy!Content, LegacyQuiet
<1>7. LegacyKept'
  BY <1>2, <1>3 DEF LegacyKept, LegacyQuiet
<1> QED
  BY <1>6, <1>7

\* A step that goes on, a failure among them.
LEMMA LegacyGoesOn ==
    ASSUME Legacy!TypeOK, LegacyKept, LegacyKept', pc \notin {"idle", "held"},
           pc' # "held", outcome' = outcome, touched => touched'
    PROVE  LegacyDone
  BY LegacyContents DEF Moves, LegacyDone, LegacyKept

LEMMA LegacyFailed ==
    ASSUME Legacy!TypeOK, LegacyKept, Legacy!Failed(s), pc \notin {"idle", "held"},
           ecu'.cells = ecu.cells, UNCHANGED <<outcome, touched>>
    PROVE  LegacyDone
<1>1. s \in Legacy!Recoveries
  BY DEF Legacy!TypeOK
<1>2. pc' = "handler" /\ LegacyQuiet
  BY <1>1 DEF Legacy!Failed, Legacy!Raise, Legacy!Recoveries, LegacyQuiet
<1>3. LegacyKept'
  BY <1>2, LegacyQuietly DEF LegacyKept
<1> QED
  BY <1>2, <1>3, LegacyGoesOn

\* The packets up to this one are written, the other array is as it was.
LEMMA LegacyFills ==
    ASSUME Legacy!TypeOK, LegacyKept, s.phase \in Legacy!Arrays, Legacy!PacketDone,
           pc \in {"program", "readback"}, UNCHANGED <<outcome, touched>>,
           \A p \in 1 .. Packets : p <= s.pkt => ecu'.cells[s.phase][p] = "new",
           \A a \in Legacy!Arrays : a # s.phase => ecu'.cells[a] = ecu.cells[a]
    PROVE  LegacyDone
<1>0. /\ s \in Legacy!Recoveries /\ s.pkt \in 1 .. Packets /\ Packets \in Nat
      /\ pc # "idle" /\ outcome = "running" /\ touched
  BY PacketsCount DEF Legacy!TypeOK, Legacy!Recoveries, LegacyKept
<1>1. CASE s.pkt < Packets
  <2>1. /\ pc' = "program" /\ s'.phase = s.phase /\ s'.pkt = s.pkt + 1
        /\ s'.operation = s.operation /\ s'.destructive_started = s.destructive_started
    <3>1. s' = [s EXCEPT !.pkt = s.pkt + 1, !.tries = 1] /\ pc' = "program"
      BY <1>0, <1>1 DEF Legacy!PacketDone
    <3> QED
      BY <1>0, <3>1 DEF Legacy!Recoveries
  <2>2. s.operation = "full" /\ s.phase # "program" => Legacy!HoldsNew(ecu, "program")'
    BY DEF LegacyKept, Legacy!HoldsNew, Legacy!Arrays
  <2>3. \A p \in 1 .. Packets : p < s.pkt + 1 => ecu'.cells[s.phase][p] = "new"
    BY <1>0
  <2>4. s.phase # "finalize"
    BY DEF Legacy!Arrays
  <2>5. LegacyKept'
    BY <1>0, <2>1, <2>2, <2>3, <2>4 DEF LegacyKept
  <2> QED
    BY <1>0, <2>1, <2>5, LegacyGoesOn
<1>2. CASE ~(s.pkt < Packets)
  <2>1. s.pkt = Packets
    BY <1>0, <1>2
  <2>2. \A p \in 1 .. Packets : ecu'.cells[s.phase][p] = "new"
    BY <1>0, <2>1
  <2>3. CASE s.phase = "program"
    <3>1. s' = [s EXCEPT !.phase = "tune"] /\ pc' = "poll"
      BY <1>0, <1>2, <2>1, <2>3 DEF Legacy!PacketDone
    <3>2. /\ s'.phase = "tune" /\ s'.operation = s.operation
          /\ s'.destructive_started = s.destructive_started
      BY <1>0, <3>1 DEF Legacy!Recoveries
    <3>3. Legacy!HoldsNew(ecu, "program")'
      BY <2>2, <2>3 DEF Legacy!HoldsNew
    <3>4. LegacyKept'
      BY <1>0, <3>1, <3>2, <3>3 DEF LegacyKept
    <3> QED
      BY <1>0, <3>1, <3>4, LegacyGoesOn
  <2>4. CASE s.phase = "tune"
    <3>1. s' = [s EXCEPT !.phase = "finalize"] /\ pc' = "finalize"
      BY <1>0, <1>2, <2>1, <2>4 DEF Legacy!PacketDone
    <3>2. /\ s'.phase = "finalize" /\ s'.operation = s.operation
          /\ s'.destructive_started = s.destructive_started
      BY <1>0, <3>1 DEF Legacy!Recoveries
    <3>3. Legacy!HoldsNew(ecu, "tune")'
      BY <2>2, <2>4 DEF Legacy!HoldsNew
    <3>4. s.operation = "full" => Legacy!HoldsNew(ecu, "program")'
      BY <2>4 DEF LegacyKept, Legacy!HoldsNew, Legacy!Arrays
    <3>5. LegacyKept'
      BY <1>0, <3>1, <3>2, <3>3, <3>4 DEF LegacyKept
    <3> QED
      BY <1>0, <3>1, <3>5, LegacyGoesOn
  <2> QED
    BY <2>3, <2>4 DEF Legacy!Arrays
<1> QED
  BY <1>1, <1>2

LEMMA LegacyPromised ==
    ASSUME Legacy!TypeOK, LegacyInv, LegacyKept, Legacy!Next PROVE LegacyDone
<1>0. s \in Legacy!Recoveries /\ ecu \in Legacy!Computers
  BY DEF Legacy!TypeOK
<1>1. ASSUME NEW operation \in {"tune", "full"}, NEW verify \in BOOLEAN,
             Legacy!Start(operation, verify)
      PROVE  LegacyDone
  <2>1. /\ pc = "idle" /\ pc' = "unlock" /\ outcome' = "running" /\ touched' = FALSE
        /\ s'.operation = operation
        /\ s'.phase = IF operation = "full" THEN "program" ELSE "tune"
    BY <1>1 DEF Legacy!Start, Legacy!NewRecovery
  <2>2. LegacyKept'
    BY <2>1 DEF LegacyKept
  <2> QED
    BY <2>1, <2>2, LegacyContents DEF LegacyKept, LegacyDone, Moves
<1>2. CASE Legacy!Unlock
  <2>1. ecu'.cells = ecu.cells /\ pc = "unlock" /\ UNCHANGED <<outcome, touched>>
    BY <1>0, <1>2 DEF Legacy!Unlock, Legacy!Computers
  <2>2. CASE pc' = "poll" /\ UNCHANGED s
    <3>1. LegacyKept'
      BY <2>1, <2>2, LegacyQuietly DEF LegacyQuiet, LegacyKept
    <3> QED
      BY <2>1, <2>2, <3>1, LegacyGoesOn
  <2> QED
    BY <1>2, <2>1, <2>2, LegacyFailed DEF Legacy!Unlock
<1>3. CASE Legacy!Poll
  <2>1. CASE pc' = "erase" /\ UNCHANGED s
    <3>1. pc = "poll" /\ UNCHANGED <<ecu, outcome, touched>>
      BY <1>3 DEF Legacy!Poll
    <3>2. LegacyKept'
      BY <2>1, <3>1, LegacyQuietly DEF LegacyQuiet, LegacyKept
    <3> QED
      BY <2>1, <3>1, <3>2, LegacyGoesOn
  <2> QED
    BY <1>3, <2>1, LegacyFailed DEF Legacy!Poll
<1>4. CASE Legacy!Erase
  <2>1. pc = "erase" /\ s.phase \in Legacy!Arrays /\ outcome' = outcome /\ outcome = "running"
    BY <1>4 DEF Legacy!Erase, LegacyInv, LegacyKept
  <2>2. /\ Legacy!BeforeErase \in Legacy!Recoveries /\ Legacy!BeforeErase.pkt = 1
        /\ Legacy!BeforeErase.phase = s.phase
        /\ Legacy!BeforeErase.operation = s.operation
        /\ Legacy!BeforeErase.destructive_started
    BY <1>0, LegacyBeforeErase DEF Legacy!BeforeErase, Legacy!Recoveries
  <2>3. /\ s'.phase = s.phase /\ s'.operation = s.operation /\ s'.destructive_started
        /\ s'.pkt = 1 /\ pc' \in {"program", "handler"}
    <3>1. CASE s' = Legacy!BeforeErase /\ pc' = "program"
      BY <2>2, <3>1
    <3>2. CASE Legacy!Failed(Legacy!BeforeErase)
      <4>1. ASSUME NEW r \in Legacy!Recoveries, Legacy!Failed(r)
            PROVE  /\ s'.phase = r.phase /\ s'.operation = r.operation /\ s'.pkt = r.pkt
                   /\ s'.destructive_started = r.destructive_started /\ pc' = "handler"
        BY <4>1 DEF Legacy!Failed, Legacy!Raise, Legacy!Recoveries
      <4> QED
        BY <2>2, <3>2, <4>1
    <3> QED
      BY <1>4, <3>1, <3>2 DEF Legacy!Erase
  <2>4. ecu'.cells = ecu.cells \/ ecu'.cells = Legacy!Erased(ecu, s.phase).cells
    <3>1. \A e \in Legacy!Computers : [e EXCEPT !.resident = TRUE].cells = e.cells
      BY DEF Legacy!Computers
    <3>2. Legacy!Erased(ecu, s.phase) \in Legacy!Computers
      BY <1>0, <2>1 DEF Legacy!Erased, Legacy!Computers, Legacy!Cells
    <3>3. ecu' = ecu \/ ecu' = [Legacy!Erased(ecu, s.phase) EXCEPT !.resident = TRUE]
      BY <1>4 DEF Legacy!Erase
    <3> QED
      BY <3>1, <3>2, <3>3
  <2>5. \A a \in Legacy!Arrays : a # s.phase => ecu'.cells[a] = ecu.cells[a]
    BY <1>0, <2>1, <2>4 DEF Legacy!Erased, Legacy!Computers
  <2>6. /\ touched => touched'
        /\ pc' = "program" => touched'
    BY <1>4 DEF Legacy!Erase, Legacy!Failed, Legacy!Raise
  <2>7. s.operation = "full" /\ s.phase # "program" => Legacy!HoldsNew(ecu, "program")'
    BY <2>1, <2>5 DEF LegacyKept, Legacy!HoldsNew, Legacy!Arrays
  <2>8. \A p \in 1 .. Packets : ~(p < 1)
    OBVIOUS
  <2>9. LegacyKept'
    BY <2>1, <2>3, <2>6, <2>7, <2>8 DEF LegacyKept, Legacy!Arrays
  <2> QED
    BY <2>1, <2>3, <2>6, <2>9, LegacyGoesOn
<1>5. CASE Legacy!Program
  <2>1. /\ pc = "program" /\ s.phase \in Legacy!Arrays /\ s.pkt \in 1 .. Packets
        /\ UNCHANGED <<outcome, touched>> /\ outcome = "running"
        /\ ecu.cells[s.phase][s.pkt] \in Legacy!Cells
    BY <1>0, <1>5 DEF Legacy!Program, LegacyInv, LegacyKept, Legacy!Recoveries, Legacy!Computers
  <2>2. PICK c \in Legacy!Cells :
           ecu' = ecu \/ ecu' = Legacy!Programmed(ecu, s.phase, s.pkt, c)
    BY <1>5, <2>1 DEF Legacy!Program, Legacy!Interrupted, Legacy!Cells
  <2>3. /\ \A a \in Legacy!Arrays : a # s.phase => ecu'.cells[a] = ecu.cells[a]
        /\ \A q \in 1 .. Packets : q # s.pkt =>
              ecu'.cells[s.phase][q] = ecu.cells[s.phase][q]
    <3>1. CASE ecu' = ecu
      BY <3>1
    <3>2. CASE ecu' = Legacy!Programmed(ecu, s.phase, s.pkt, c)
      <4>1. \A q \in 1 .. Packets : q # s.pkt =>
               ecu'.cells[s.phase][q] = ecu.cells[s.phase][q]
        BY <1>0, <2>1, <3>2, LegacyProgrammed
      <4>2. ASSUME NEW a \in Legacy!Arrays, a # s.phase
            PROVE  ecu'.cells[a] = ecu.cells[a]
        BY <1>0, <2>1, <3>2, <4>2 DEF Legacy!Programmed, Legacy!Computers
      <4> QED
        BY <4>1, <4>2
    <3> QED
      BY <2>2, <3>1, <3>2
  <2>4. CASE /\ ecu' = Legacy!Programmed(ecu, s.phase, s.pkt, "new") /\ Legacy!PacketDone
    <3>1. ecu'.cells[s.phase][s.pkt] = "new"
      BY <1>0, <2>1, <2>4 DEF Legacy!Programmed, Legacy!Computers
    <3>2. \A p \in 1 .. Packets : p <= s.pkt => ecu'.cells[s.phase][p] = "new"
      BY <2>1, <2>3, <3>1, PacketsCount DEF LegacyKept
    <3> QED
      BY <2>1, <2>3, <2>4, <3>2, LegacyFills
  <2>5. CASE (pc' = "readback" /\ UNCHANGED s) \/ Legacy!Failed(s)
    <3>1. /\ s'.operation = s.operation /\ s'.phase = s.phase /\ s'.pkt = s.pkt
          /\ s'.destructive_started = s.destructive_started /\ pc' \in {"readback", "handler"}
      BY <1>0, <2>5 DEF Legacy!Failed, Legacy!Raise, Legacy!Recoveries
    <3>2. s.operation = "full" /\ s.phase # "program" => Legacy!HoldsNew(ecu, "program")'
      BY <2>3 DEF LegacyKept, Legacy!HoldsNew, Legacy!Arrays
    <3>3. \A p \in 1 .. Packets : p < s.pkt => ecu'.cells[s.phase][p] = "new"
      BY <2>1, <2>3, PacketsCount DEF LegacyKept
    <3>4. LegacyKept'
      BY <2>1, <3>1, <3>2, <3>3 DEF LegacyKept, Legacy!Arrays
    <3> QED
      BY <2>1, <3>1, <3>4, LegacyGoesOn
  <2> QED
    BY <1>5, <2>4, <2>5 DEF Legacy!Program
<1>6. CASE Legacy!Readback
  <2>1. /\ pc = "readback" /\ s.phase \in Legacy!Arrays /\ s.pkt \in 1 .. Packets
        /\ UNCHANGED <<ecu, outcome, touched>> /\ outcome = "running"
    BY <1>0, <1>6 DEF Legacy!Readback, LegacyInv, LegacyKept, Legacy!Recoveries
  <2>2. CASE Legacy!PacketDone /\ ecu.cells[s.phase][s.pkt] = "new"
    <3>1. \A p \in 1 .. Packets : p <= s.pkt => ecu'.cells[s.phase][p] = "new"
      BY <2>1, <2>2, PacketsCount DEF LegacyKept
    <3> QED
      BY <2>1, <2>2, <3>1, LegacyFills
  <2>3. CASE s' = [s EXCEPT !.tries = @ + 1] /\ pc' = "program"
    <3>1. LegacyQuiet
      BY <1>0, <2>1, <2>3 DEF LegacyQuiet, Legacy!Recoveries
    <3>2. LegacyKept'
      BY <2>1, <2>3, <3>1, LegacyQuietly
    <3> QED
      BY <2>1, <2>3, <3>2, LegacyGoesOn
  <2>4. CASE s' = [s EXCEPT !.automatic_replay_attempted = TRUE] /\ pc' = "confirm"
    <3>1. LegacyQuiet
      BY <1>0, <2>1, <2>4 DEF LegacyQuiet, Legacy!Recoveries
    <3>2. LegacyKept'
      BY <2>1, <2>4, <3>1, LegacyQuietly
    <3> QED
      BY <2>1, <2>4, <3>2, LegacyGoesOn
  <2>5. CASE Legacy!Raise(s, FALSE) \/ Legacy!Failed(s)
    <3>1. pc' = "handler" /\ LegacyQuiet
      BY <1>0, <2>1, <2>5 DEF Legacy!Failed, Legacy!Raise, LegacyQuiet, Legacy!Recoveries
    <3>2. LegacyKept'
      BY <2>1, <3>1, LegacyQuietly
    <3> QED
      BY <2>1, <3>1, <3>2, LegacyGoesOn
  <2>6. \/ Legacy!PacketDone /\ ecu.cells[s.phase][s.pkt] = "new"
        \/ s' = [s EXCEPT !.tries = @ + 1] /\ pc' = "program"
        \/ s' = [s EXCEPT !.automatic_replay_attempted = TRUE] /\ pc' = "confirm"
        \/ Legacy!Raise(s, FALSE)
        \/ Legacy!Failed(s)
    <3>1. CASE ecu.cells[s.phase][s.pkt] = "new"
      BY <1>6, <3>1 DEF Legacy!Readback
    <3>2. CASE ecu.cells[s.phase][s.pkt] = "blank"
      BY <1>6, <3>2 DEF Legacy!Readback, Legacy!Resendable
    <3>3. CASE ecu.cells[s.phase][s.pkt] \notin {"new", "blank"}
      BY <1>6, <3>3 DEF Legacy!Readback, Legacy!Resendable
    <3> QED
      BY <3>1, <3>2, <3>3
  <2> QED
    BY <2>2, <2>3, <2>4, <2>5, <2>6
<1>7. CASE Legacy!Confirm
  <2>1. /\ pc = "confirm" /\ UNCHANGED <<ecu, outcome, touched>> /\ LegacyQuiet
        /\ pc' \in {"poll", "handler"} /\ outcome = "running"
    BY <1>0, <1>7 DEF Legacy!Confirm, Legacy!Raise, Legacy!Failed, LegacyQuiet,
                      Legacy!Recoveries, LegacyKept
  <2>2. LegacyKept'
    BY <2>1, LegacyQuietly
  <2> QED
    BY <2>1, <2>2, LegacyGoesOn
<1>8. CASE Legacy!Finalize
  <2>1. /\ pc = "finalize" /\ touched' = touched /\ ecu'.cells = ecu.cells
        /\ outcome = "running"
    BY <1>0, <1>8 DEF Legacy!Finalize, Legacy!Computers, LegacyKept
  <2>2. CASE Legacy!Failed(s) /\ UNCHANGED outcome
    BY <2>1, <2>2, LegacyFailed
  <2>3. CASE s' = [s EXCEPT !.completed = TRUE]
    <3>1. LegacyQuiet
      BY <1>0, <2>1, <2>3 DEF LegacyQuiet, Legacy!Recoveries
    <3>2. \/ pc' = "verify" /\ outcome' = outcome
          \/ pc' = "idle" /\ outcome' = "complete"
          \/ pc' = "handler" /\ outcome' = outcome
      BY <1>8 DEF Legacy!Finalize, Legacy!Succeed, Legacy!Failed, Legacy!Raise
    <3>3. LegacyKept' /\ Legacy!Content' = Legacy!Content
      BY <2>1, <3>1, <3>2, LegacyQuietly
    <3> QED
      BY <2>1, <3>2, <3>3, LegacyContents DEF LegacyDone, Moves
  <2> QED
    BY <1>8, <2>2, <2>3 DEF Legacy!Finalize
<1>9. CASE Legacy!Verify
  <2>1. /\ pc = "verify" /\ UNCHANGED <<ecu, touched>> /\ outcome = "running"
    BY <1>9 DEF Legacy!Verify, LegacyKept
  <2>2. CASE Legacy!Failed(s) /\ UNCHANGED outcome
    BY <2>1, <2>2, LegacyFailed
  <2>3. CASE Legacy!Succeed /\ UNCHANGED s
    <3>1. LegacyQuiet /\ pc' = "idle" /\ outcome' = "complete"
      BY <2>1, <2>3 DEF LegacyQuiet, Legacy!Succeed
    <3>2. LegacyKept' /\ Legacy!Content' = Legacy!Content
      BY <2>1, <3>1, LegacyQuietly
    <3> QED
      BY <2>1, <3>1, <3>2, LegacyContents DEF LegacyDone, Moves
  <2> QED
    BY <1>9, <2>2, <2>3 DEF Legacy!Verify
<1>10. CASE Legacy!Handle \/ Legacy!Release \/ Legacy!Exit
  <2>1. /\ pc # "idle" /\ LegacyQuiet /\ pc' \in {"idle", "held"}
        /\ pc' = "idle" <=> outcome' # "running"
    BY <1>10 DEF Legacy!Handle, Legacy!Release, Legacy!Exit, LegacyQuiet, LegacyKept
  <2>2. LegacyKept' /\ Legacy!Content' = Legacy!Content
    BY <2>1, LegacyQuietly
  <2>3. \/ pc = "handler" /\ pc' = "held" /\ outcome' = outcome
        \/ pc = "handler" /\ pc' = "idle" /\ outcome' = "not_started" /\ ~touched
        \/ pc' = "idle" /\ outcome' = "abandoned"
    BY <1>10 DEF Legacy!Handle, Legacy!Release, Legacy!Exit, LegacyKept
  <2> QED
    BY <2>1, <2>2, <2>3, LegacyContents DEF LegacyDone, Moves, LegacyKept
<1>11. CASE Legacy!Retry
  <2>1. pc = "held" /\ pc' = "confirm" /\ LegacyQuiet /\ outcome' = outcome
    BY <1>0, <1>11 DEF Legacy!Retry, LegacyQuiet, Legacy!Recoveries
  <2>2. LegacyKept' /\ Legacy!Content' = Legacy!Content
    BY <2>1, LegacyQuietly DEF LegacyKept
  <2> QED
    BY <2>1, <2>2, LegacyContents DEF LegacyDone, Moves, LegacyKept
<1>12. CASE Legacy!PowerOff
  <2>1. LegacyQuiet /\ pc' = pc /\ outcome' = outcome
    BY <1>0, <1>12 DEF Legacy!PowerOff, LegacyQuiet, Legacy!Computers
  <2>2. LegacyKept' /\ Legacy!Content' = Legacy!Content
    BY <2>1, LegacyQuietly DEF LegacyKept
  <2> QED
    BY <2>1, <2>2, LegacyContents DEF LegacyDone, Moves
<1> QED
  BY <1>1, <1>2, <1>3, <1>4, <1>5, <1>6, <1>7, <1>8, <1>9, <1>10, <1>11, <1>12
     DEF Legacy!Next, Legacy!WorkerStep

\* The Soft-BSL writers: an attempt that is repeated or undone has not erased, and a
\* write that goes back to the application has written every sector it is for.
SoftRest == {"idle", "booted"}
SoftEntering == {"open", "flash_mode", "stage", "unstage"}
SoftAllNew ==
    \E b \in Soft!Banks : \A x \in Soft!Range(Soft!Order(s.op)) :
        Soft!Holding(ecu, b, x, {"new"})
SoftKept ==
    /\ pc \in SoftRest <=> outcome # "running"
    /\ pc \notin SoftRest /\ touched => s.destructive_started
    /\ ~s.destructive_started => ~s.write_complete
    /\ pc \in SoftEntering => ~touched
    /\ pc \in SoftFilling \cup {"verify", "return", "reset"} => touched
    /\ pc \in {"return", "reset"} \/ (pc = "finalize" /\ s.write_complete) =>
          touched /\ SoftAllNew
SoftDone == SoftKept' /\ Moves(Soft!Content, Soft!Verdict, Soft!Content', Soft!Verdict')

LEMMA SoftContents ==
    ASSUME Soft!TypeOK, SoftKept
    PROVE  /\ outcome \in {"none", "running", "not_started", "complete", "abandoned",
                           "unconfirmed"}
           /\ Soft!Content' \in {"kept", "torn", "target"}
           /\ (~touched => Soft!Content = "kept") /\ (~touched' => Soft!Content' = "kept")
           /\ (touched' => Soft!Content' \in {"torn", "target"})
           /\ (touched /\ SoftAllNew => Soft!Content = "target")
           /\ (pc # "held" => Soft!Verdict =
                 IF outcome = "unconfirmed" THEN "abandoned" ELSE outcome)
           /\ (pc' # "held" => Soft!Verdict' =
                 IF outcome' = "unconfirmed" THEN "abandoned" ELSE outcome')
           /\ (pc = "held" => Soft!Verdict = "held")
           /\ (pc' = "held" => Soft!Verdict' = "held")
  BY DEF Soft!TypeOK, Soft!Verdict, Soft!Content, SoftAllNew

LEMMA SoftSame ==
    ASSUME ecu'.cells = ecu.cells, s'.op = s.op, touched' = touched
    PROVE  Soft!Content' = Soft!Content /\ SoftAllNew' = SoftAllNew
<1>1. Soft!Range(Soft!Order(s.op))' = Soft!Range(Soft!Order(s.op))
  BY DEF Soft!Range, Soft!Order
<1>2. \A b, x : Soft!Holding(ecu, b, x, {"new"})' = Soft!Holding(ecu, b, x, {"new"})
  BY DEF Soft!Holding
<1>3. SoftAllNew' = SoftAllNew
  BY <1>1, <1>2 DEF SoftAllNew
<1> QED
  BY <1>3 DEF Soft!Content, SoftAllNew

\* A step that goes on, a failure among them.
LEMMA SoftGoesOn ==
    ASSUME Soft!TypeOK, SoftKept, SoftKept', pc \notin SoftRest \cup {"held"},
           pc' # "held", outcome' = outcome, touched => touched'
    PROVE  SoftDone
  BY SoftContents DEF Moves, SoftDone, SoftKept

\* The last of an operation, or a session that was open already.
LEMMA SoftEnds ==
    ASSUME Soft!TypeOK, SoftKept, ecu'.cells = ecu.cells, s'.op = s.op, touched' = touched,
           ~s'.destructive_started, ~s'.write_complete, pc' \in SoftRest, pc \notin SoftRest,
           \/ outcome' \in {"abandoned", "unconfirmed"}
           \/ outcome' = "not_started" /\ ~touched /\ pc # "held"
           \/ outcome' = "complete" /\ touched /\ SoftAllNew /\ pc # "held"
    PROVE  SoftDone
<1>1. SoftKept'
  BY DEF SoftKept, SoftRest, SoftEntering, SoftFilling
<1>2. Soft!Content' = Soft!Content
  BY SoftSame
<1> QED
  BY <1>1, <1>2, SoftContents DEF SoftDone, Moves, SoftKept, SoftRest

LEMMA SoftDrops ==
    /\ Soft!Dropped.op = s.op /\ ~Soft!Dropped.destructive_started
    /\ ~Soft!Dropped.write_complete
  BY DEF Soft!Dropped, Soft!NewSession

LEMMA SoftReports ==
    ASSUME Soft!TypeOK, SoftKept, NEW what, Soft!Report(what),
           ecu'.cells = ecu.cells, touched' = touched, pc \notin SoftRest,
           \/ what \in {"abandoned", "unconfirmed"}
           \/ what = "not_started" /\ ~touched /\ pc # "held"
           \/ what = "complete" /\ touched /\ SoftAllNew /\ pc # "held"
    PROVE  SoftDone
<1>1. pc' = "idle" /\ outcome' = what /\ s' = Soft!Dropped
  BY DEF Soft!Report
<1> QED
  BY <1>1, SoftDrops, SoftEnds DEF SoftRest

\* What a step keeps of the two marks, and the sector order as a set.
LEMMA SoftMarks ==
    ASSUME s \in Soft!Sessions
    PROVE  /\ \A b : /\ [s EXCEPT !.ladder = b].op = s.op
                     /\ [s EXCEPT !.ladder = b].destructive_started = s.destructive_started
                     /\ [s EXCEPT !.ladder = b].write_complete = s.write_complete
           /\ \A t : /\ [s EXCEPT !.tier = t].op = s.op
                     /\ [s EXCEPT !.tier = t].destructive_started = s.destructive_started
                     /\ [s EXCEPT !.tier = t].write_complete = s.write_complete
  BY DEF Soft!Sessions

LEMMA SoftListed ==
    ASSUME NEW op \in Soft!Ops, NEW x \in Soft!Range(Soft!Order(op))
    PROVE  \E j \in 1 .. Len(Soft!Order(op)) : x = Soft!Order(op)[j]
<1>1. CASE op = "tune"
  BY <1>1 DEF Soft!Order, Soft!Range
<1>2. CASE op = "full"
  BY <1>2 DEF Soft!Order, Soft!Range
<1>3. CASE op = "identity"
  BY <1>3 DEF Soft!Order, Soft!Range
<1>4. CASE op \notin {"tune", "full", "identity"}
  <2>1. Soft!Order(op) = <<"tune", "program", "boot">>
    BY <1>4 DEF Soft!Order
  <2> QED
    BY <2>1 DEF Soft!Range
<1> QED
  BY <1>1, <1>2, <1>3, <1>4

\* An attempt before its first erase, on the way in.
LEMMA SoftEnters ==
    ASSUME Soft!TypeOK, SoftKept, ecu'.cells = ecu.cells, UNCHANGED <<outcome, touched>>,
           s'.op = s.op, s'.destructive_started = s.destructive_started,
           s'.write_complete = s.write_complete, pc \notin SoftRest \cup {"held"},
           pc' \in SoftEarly \cup {"erase", "handler"}, pc' \in SoftEntering => ~touched
    PROVE  SoftDone
<1>1. SoftKept'
  BY DEF SoftKept, SoftRest, SoftEntering, SoftFilling, SoftEarly
<1> QED
  BY <1>1, SoftGoesOn DEF SoftEarly

LEMMA SoftNextTier ==
    ASSUME Soft!TypeOK, SoftKept, ecu'.cells = ecu.cells, touched' = touched, ~touched,
           NEW ladder, Soft!NextTier(ladder), pc \notin SoftRest \cup {"held"}
    PROVE  SoftDone
<1>1. CASE Soft!Report("not_started")
  BY <1>1, SoftReports
<1>2. CASE s' = [s EXCEPT !.tier = @ + 1] /\ pc' = "open" /\ UNCHANGED outcome
  <2>1. /\ s'.op = s.op /\ s'.destructive_started = s.destructive_started
        /\ s'.write_complete = s.write_complete
    BY <1>2 DEF Soft!TypeOK, Soft!Sessions
  <2> QED
    BY <1>2, <2>1, SoftEnters DEF SoftEarly
<1> QED
  BY <1>1, <1>2 DEF Soft!NextTier

LEMMA SoftAttempts ==
    ASSUME Soft!TypeOK, SoftKept,
           Soft!Open \/ Soft!FlashMode \/ Soft!Stage \/ Soft!Unstage \/ Soft!Preflight
              \/ Soft!SelectBank
    PROVE  SoftDone
<1>0. s \in Soft!Sessions /\ ecu \in Soft!Computers
  BY DEF Soft!TypeOK
<1>1. CASE Soft!Open
  <2>1. pc = "open" /\ UNCHANGED <<ecu, touched>> /\ ~touched
    BY <1>1 DEF Soft!Open, SoftKept, SoftEntering
  <2>2. CASE Soft!Report("not_started")
    BY <2>1, <2>2, SoftReports DEF SoftRest
  <2>3. CASE ~Soft!Report("not_started")
    <3>1. /\ s' = s \/ s' = [s EXCEPT !.tier = LastTier]
          /\ pc' \in {"flash_mode", "open"} /\ UNCHANGED outcome
      BY <1>1, <2>1, <2>3 DEF Soft!Open, Soft!Goto
    <3> QED
      BY <1>0, <2>1, <3>1, SoftMarks, SoftEnters DEF SoftRest, SoftEarly
  <2> QED
    BY <2>2, <2>3
<1>2. CASE Soft!FlashMode \/ Soft!Stage
  <2>1. /\ pc \in {"flash_mode", "stage"} /\ UNCHANGED <<outcome, touched>> /\ ~touched
        /\ s' = s \/ \E ladder \in BOOLEAN : s' = [s EXCEPT !.ladder = ladder]
        /\ pc' \in {"stage", "unstage", "bank", "preflight"}
    BY <1>2 DEF Soft!FlashMode, Soft!Stage, Soft!Goto, Soft!Stays, SoftKept, SoftEntering
  <2>2. ecu'.cells = ecu.cells
    BY <1>0, <1>2 DEF Soft!FlashMode, Soft!Stage, Soft!Computers
  <2> QED
    BY <1>0, <2>1, <2>2, SoftMarks, SoftEnters DEF SoftRest, SoftEarly
<1>3. CASE Soft!Unstage
  <2>1. pc = "unstage" /\ touched' = touched /\ ~touched /\ ecu'.cells = ecu.cells
    BY <1>0, <1>3 DEF Soft!Unstage, Soft!Checked, Soft!Computers, SoftKept, SoftEntering
  <2>2. CASE Soft!NextTier(s.ladder)
    BY <2>1, <2>2, SoftNextTier DEF SoftRest
  <2>3. CASE Soft!Report("unconfirmed")
    BY <2>1, <2>3, SoftReports DEF SoftRest
  <2> QED
    BY <1>3, <2>2, <2>3 DEF Soft!Unstage
<1>4. CASE Soft!Preflight \/ Soft!SelectBank
  <2>1. /\ pc \in {"preflight", "bank"} /\ UNCHANGED <<outcome, touched>>
        /\ s' = s \/ \E ladder \in BOOLEAN : s' = [s EXCEPT !.ladder = ladder]
        /\ pc' \in {"bank", "erase", "handler"}
    <3>1. CASE Soft!Preflight
      BY <3>1 DEF Soft!Preflight, Soft!Goto, Soft!Stays, Soft!Raise
    <3>2. CASE Soft!SelectBank
      <4>1. pc = "bank" /\ UNCHANGED <<outcome, touched>>
        BY <3>2 DEF Soft!SelectBank, Soft!Stays
      <4>2. Soft!Goto("erase") \/ Soft!Raise(s, FALSE) \/ Soft!Raise(s, TRUE)
        <5>1. CASE s.op = "top"
          BY <3>2, <5>1 DEF Soft!SelectBank
        <5>2. CASE s.op = "cross"
          BY <3>2, <5>2 DEF Soft!SelectBank
        <5>3. CASE s.op \notin {"top", "cross"}
          BY <3>2, <5>3 DEF Soft!SelectBank
        <5> QED
          BY <5>1, <5>2, <5>3
      <4> QED
        BY <4>1, <4>2 DEF Soft!Goto, Soft!Raise
    <3> QED
      BY <1>4, <3>1, <3>2
  <2>2. ecu'.cells = ecu.cells
    <3>1. \A bank : \A e \in Soft!Prompted(bank) : e.cells = ecu.cells
      BY <1>0 DEF Soft!Prompted, Soft!Computers
    <3>2. CASE Soft!Preflight
      BY <3>2 DEF Soft!Preflight
    <3>3. CASE Soft!SelectBank
      <4>1. ecu' = ecu \/ ecu' \in Soft!Prompted("T") \/ ecu' \in Soft!Prompted(s.bank)
        <5>1. CASE s.op = "top"
          BY <3>3, <5>1 DEF Soft!SelectBank
        <5>2. CASE s.op = "cross"
          BY <3>3, <5>2 DEF Soft!SelectBank
        <5>3. CASE s.op \notin {"top", "cross"}
          BY <3>3, <5>3 DEF Soft!SelectBank
        <5> QED
          BY <5>1, <5>2, <5>3
      <4> QED
        BY <3>1, <4>1
    <3> QED
      BY <1>4, <3>2, <3>3
  <2> QED
    BY <1>0, <2>1, <2>2, SoftMarks, SoftEnters DEF SoftRest, SoftEarly, SoftEntering
<1> QED
  BY <1>1, <1>2, <1>3, <1>4

\* A step between the first erase and the way back.
LEMMA SoftFillsOn ==
    ASSUME Soft!TypeOK, SoftKept, UNCHANGED outcome, s'.destructive_started,
           pc \in SoftWriting, touched => touched',
           pc' \in SoftWriting \cup {"return", "reset", "finalize", "handler"},
           pc' \in SoftFilling \cup {"verify", "return", "reset", "finalize"} => touched',
           pc' \in {"return", "reset", "finalize"} => SoftAllNew'
    PROVE  SoftDone
<1>1. /\ pc \notin SoftRest \cup {"held"} /\ pc' \notin SoftRest \cup {"held"}
      /\ pc' \notin SoftEntering
  BY DEF SoftWriting, SoftFilling, SoftRest, SoftEntering
<1>2. SoftKept'
  BY <1>1 DEF SoftKept
<1> QED
  BY <1>1, <1>2, SoftGoesOn

\* The pass over the sectors that has written the one at hand.
LEMMA SoftAdvances ==
    ASSUME Soft!TypeOK, SoftFresh, SoftFlash, SoftKept, pc \in SoftFilling,
           ecu'.sw = ecu.sw, UNCHANGED <<outcome, touched>>,
           \A x \in Soft!Sectors : x # Soft!Sector =>
              ecu'.cells[ecu.sw][x] = ecu.cells[ecu.sw][x],
           \A k \in 1 .. Chunks : ecu'.cells[ecu.sw][Soft!Sector][k] = "new",
           SoftAdvance
    PROVE  SoftDone
<1> DEFINE len == Len(Soft!Order(s.op))
<1>1. /\ s.op \in Soft!Ops /\ s.i \in 1 .. len /\ len \in 1 .. 3 /\ ecu.sw \in Soft!Banks
      /\ \A j \in 1 .. len : /\ Soft!Order(s.op)[j] \in Soft!Sectors
                             /\ j # s.i => Soft!Order(s.op)[j] # Soft!Sector
  BY SoftTyped
<1>2. s.destructive_started /\ touched /\ s'.op = s.op /\ s'.destructive_started
  BY DEF SoftFresh, SoftKept, SoftAdvance
<1>3. ASSUME s.i = len PROVE SoftAllNew'
  <2>1. ASSUME NEW j \in 1 .. len
        PROVE  \A k \in 1 .. Chunks : ecu'.cells[ecu.sw][Soft!Order(s.op)[j]][k] = "new"
    <3>1. CASE j = s.i
      BY <3>1 DEF Soft!Sector
    <3>2. CASE j # s.i
      <4>1. j < s.i
        BY <1>1, <1>3, <3>2
      <4>2. Soft!Holding(ecu, ecu.sw, Soft!Order(s.op)[j], {"new"})
        BY <4>1 DEF SoftFlash
      <4> QED
        BY <1>1, <3>2, <4>2 DEF Soft!Holding
    <3> QED
      BY <3>1, <3>2
  <2>2. \A x \in Soft!Range(Soft!Order(s.op)) : Soft!Holding(ecu', ecu.sw, x, {"new"})
    BY <1>1, <2>1, SoftListed DEF Soft!Holding
  <2>3. \A x \in Soft!Range(Soft!Order(s.op))' : Soft!Holding(ecu', ecu.sw, x, {"new"})
    BY <1>2, <2>2 DEF Soft!Range, Soft!Order
  <2> QED
    BY <1>1, <2>3 DEF SoftAllNew
<1>4. /\ pc' \in {"verify", "erase", "program", "return", "reset", "finalize"}
      /\ pc' \in {"return", "reset", "finalize"} => s.i = len
  BY DEF SoftAdvance
<1> QED
  BY <1>2, <1>3, <1>4, SoftFillsOn DEF SoftWriting, SoftFilling

LEMMA SoftChunksOn ==
    ASSUME Soft!TypeOK, SoftFresh, SoftFlash, SoftKept, pc \in {"program", "inspect"},
           ecu'.sw = ecu.sw, UNCHANGED <<outcome, touched>>, Soft!ChunkDone,
           \A x \in Soft!Sectors : x # Soft!Sector =>
              ecu'.cells[ecu.sw][x] = ecu.cells[ecu.sw][x],
           \A k \in 1 .. Chunks : k # s.chunk =>
              ecu'.cells[ecu.sw][Soft!Sector][k] = ecu.cells[ecu.sw][Soft!Sector][k],
           ecu'.cells[ecu.sw][Soft!Sector][s.chunk] = "new"
    PROVE  SoftDone
<1>0. /\ s \in Soft!Sessions /\ s.i <= Len(Soft!Order(s.op)) /\ s.chunk \in 1 .. Chunks
      /\ pc \in SoftFilling /\ s.destructive_started /\ touched
  BY SoftTyped DEF SoftFresh, SoftFilling, SoftKept
<1>1. CASE pc' \in {"program", "repair_verify"} /\ (s' = s \/ SoftAlike(s, s'))
  BY <1>0, <1>1, SoftFillsOn DEF SoftAlike, SoftWriting, SoftFilling
<1>2. CASE s.chunk = Chunks /\ SoftAdvance
  <2>1. \A k \in 1 .. Chunks : k # s.chunk => k < s.chunk
    BY <1>0, <1>2, SoftCounts
  <2>2. \A k \in 1 .. Chunks : ecu'.cells[ecu.sw][Soft!Sector][k] = "new"
    BY <2>1 DEF SoftFlash
  <2> QED
    BY <1>0, <1>2, <2>2, SoftAdvances
<1> QED
  BY <1>0, <1>1, <1>2, SoftChunks

LEMMA SoftMismatchesOn ==
    ASSUME Soft!TypeOK, SoftFresh, SoftKept, pc \in SoftFilling \cup {"verify"},
           UNCHANGED <<outcome, touched>>, Soft!Mismatch
    PROVE  SoftDone
<1>0. s \in Soft!Sessions /\ s.destructive_started /\ touched /\ pc \in SoftWriting
  BY DEF Soft!TypeOK, SoftFresh, SoftKept, SoftWriting
<1>1. \/ s' = [s EXCEPT !.ladder = TRUE] /\ pc' = "handler"
      \/ /\ s' = [s EXCEPT !.replay = "used", !.verifying = FALSE, !.i = 1,
                           !.chunk = 1, !.tries = 0]
         /\ pc' = "erase"
      \/ s' = [s EXCEPT !.replay = "running"] /\ pc' = "repair"
  BY DEF Soft!Mismatch, Soft!Raise
<1>2. s'.destructive_started /\ pc' \in {"handler", "erase", "repair"}
  BY <1>0, <1>1 DEF Soft!Sessions
<1> QED
  BY <1>0, <1>2, SoftFillsOn DEF SoftWriting, SoftFilling

LEMMA SoftRaisesOn ==
    ASSUME Soft!TypeOK, SoftKept, NEW w \in Soft!Sessions, w.destructive_started, NEW b,
           Soft!Raise(w, b), UNCHANGED outcome, touched => touched', pc \in SoftWriting
    PROVE  SoftDone
<1>1. s'.destructive_started /\ pc' = "handler"
  BY DEF Soft!Raise, Soft!Sessions
<1> QED
  BY <1>1, SoftFillsOn DEF SoftFilling, SoftWriting

LEMMA SoftErasesOn ==
    ASSUME Soft!TypeOK, SoftFresh, SoftKept, Soft!Erase \/ Soft!Repair
    PROVE  SoftDone
<1>0. /\ s \in Soft!Sessions /\ pc \in SoftWriting /\ outcome' = outcome
      /\ Soft!Boundary \in Soft!Sessions /\ Soft!Boundary.destructive_started
  BY SoftBoundary DEF Soft!TypeOK, Soft!Erase, Soft!Repair, SoftWriting, SoftFilling
<1>1. CASE Soft!Erase
  <2>1. touched => touched'
    BY <1>1 DEF Soft!Erase
  <2>2. CASE touched' = TRUE /\ Soft!EraseDone(Soft!Boundary)
    <3>1. /\ pc' \in {"erase", "program"}
          /\ \/ s' = [Soft!Boundary EXCEPT !.i = @ + 1, !.tries = 0]
             \/ \E i : s' = [Soft!Boundary EXCEPT !.i = i, !.chunk = 1, !.tries = 0]
      BY <2>2 DEF Soft!EraseDone
    <3>2. s'.destructive_started
      BY <1>0, <3>1 DEF Soft!Sessions
    <3> QED
      BY <1>0, <2>2, <3>1, <3>2, SoftFillsOn DEF SoftWriting, SoftFilling
  <2>3. CASE s' = [Soft!Boundary EXCEPT !.tries = @ + 1] /\ UNCHANGED pc
    <3>1. s'.destructive_started
      BY <1>0, <2>3 DEF Soft!Sessions
    <3>2. pc' = "erase"
      BY <1>1, <2>3 DEF Soft!Erase
    <3> QED
      BY <1>0, <2>1, <3>1, <3>2, SoftFillsOn DEF SoftWriting, SoftFilling
  <2>4. CASE Soft!Raise(Soft!Boundary, TRUE)
    BY <1>0, <2>1, <2>4, SoftRaisesOn
  <2> QED
    BY <1>1, <2>2, <2>3, <2>4 DEF Soft!Erase
<1>2. CASE Soft!Repair
  <2>1. /\ s.destructive_started /\ pc = "repair" /\ touched /\ touched'
    BY <1>2 DEF Soft!Repair, SoftFresh, SoftFilling, SoftKept
  <2>2. CASE s' = [s EXCEPT !.chunk = 1, !.tries = 0] /\ pc' = "program"
    <3>1. s'.destructive_started
      BY <1>0, <2>1, <2>2 DEF Soft!Sessions
    <3> QED
      BY <1>0, <2>1, <2>2, <3>1, SoftFillsOn DEF SoftWriting, SoftFilling
  <2>3. CASE Soft!Raise(s, TRUE)
    BY <1>0, <2>1, <2>3, SoftRaisesOn
  <2> QED
    BY <1>2, <2>2, <2>3 DEF Soft!Repair
<1> QED
  BY <1>1, <1>2

LEMMA SoftProgramsOn ==
    ASSUME Soft!TypeOK, SoftFresh, SoftFlash, SoftKept, Soft!Program \/ Soft!Inspect
    PROVE  SoftDone
<1>0. /\ pc \in {"program", "inspect"} /\ UNCHANGED <<outcome, touched>> /\ touched
      /\ s \in Soft!Sessions /\ s.destructive_started
      /\ pc \in SoftFilling /\ pc \in SoftWriting
  BY SoftTyped DEF Soft!Program, Soft!Inspect, Soft!Stays, SoftFilling, SoftWriting, SoftFresh,
                   SoftKept
<1>1. CASE Soft!Raise(s, TRUE)
  BY <1>0, <1>1, SoftRaisesOn
<1>2. CASE Soft!Mismatch
  BY <1>0, <1>2, SoftMismatchesOn
<1>3. CASE s' = s /\ pc' = "inspect"
  BY <1>0, <1>3, SoftFillsOn DEF SoftWriting, SoftFilling
<1>4. CASE s' = [s EXCEPT !.tries = s.tries + 1] /\ UNCHANGED pc
  <2>1. s'.destructive_started
    BY <1>0, <1>4 DEF Soft!Sessions
  <2> QED
    BY <1>0, <1>4, <2>1, SoftFillsOn DEF SoftWriting, SoftFilling
<1>5. CASE ecu' = Soft!Programmed("new") /\ Soft!ChunkDone
  <2>1. "new" \in Soft!Cells
    BY DEF Soft!Cells
  <2> QED
    BY <1>0, <1>5, <2>1, SoftTyped, SoftPrograms, SoftChunksOn
<1>6. CASE ecu' = ecu /\ Soft!Cell = "new" /\ Soft!ChunkDone
  BY <1>0, <1>6, SoftChunksOn DEF Soft!Cell
<1>7. CASE Soft!Program
  <2>1. ASSUME NEW c, ecu' = Soft!Programmed(c),
               \/ c = "new" /\ Soft!ChunkDone
               \/ c \notin {"blank", "part", "new"} /\ Soft!Mismatch
               \/ IF s.tries < Retries
                  THEN s' = [s EXCEPT !.tries = s.tries + 1] /\ UNCHANGED pc
                  ELSE IF s.op = "cross" THEN Soft!Raise(s, TRUE) ELSE Soft!Goto("inspect")
               \/ Soft!Raise(s, TRUE)
        PROVE  SoftDone
    BY <1>1, <1>2, <1>3, <1>4, <1>5, <2>1 DEF Soft!Goto
  <2> QED
    BY <1>1, <1>5, <1>7, <2>1 DEF Soft!Program
<1>8. CASE Soft!Inspect
  BY <1>1, <1>2, <1>6, <1>8 DEF Soft!Inspect
<1> QED
  BY <1>7, <1>8

LEMMA SoftVerifiesOn ==
    ASSUME Soft!TypeOK, SoftFresh, SoftFlash, SoftKept, Soft!RepairVerify \/ Soft!Verify
    PROVE  SoftDone
<1>0. /\ pc \in {"repair_verify", "verify"} /\ UNCHANGED <<ecu, outcome, touched>> /\ touched
      /\ s \in Soft!Sessions /\ s.destructive_started /\ pc \in SoftWriting
      /\ s.i <= Len(Soft!Order(s.op))
  BY SoftTyped DEF Soft!RepairVerify, Soft!Verify, Soft!Stays, SoftFilling, SoftWriting,
                   SoftFresh, SoftKept
<1>1. CASE Soft!Raise(s, TRUE)
  BY <1>0, <1>1, SoftRaisesOn
<1>2. CASE Soft!Mismatch
  BY <1>0, <1>2, SoftMismatchesOn DEF SoftFilling
<1>3. CASE /\ pc = "repair_verify" /\ Soft!HoldsNew(Soft!Sector)
           /\ Soft!NextSector([s EXCEPT !.replay = "used"])
  <2>1. SoftAdvance
    BY <1>0, <1>3, SoftEdits, SoftNextSectors
  <2> QED
    BY <1>0, <1>3, <2>1, SoftAdvances DEF SoftFilling, Soft!HoldsNew, Soft!Holding
<1>4. CASE pc = "verify" /\ Soft!NextSector(s)
  <2>1. SoftAlike(s, s)
    BY DEF SoftAlike
  <2>2. SoftAdvance
    BY <1>0, <1>4, <2>1, SoftNextSectors
  <2>3. s'.destructive_started /\ s'.op = s.op
        /\ pc' \in {"verify", "return", "reset", "finalize"}
    BY <1>0, <1>4, <2>2 DEF SoftAdvance, SoftFresh
  <2>4. SoftAllNew
    <3>1. \A j \in 1 .. Len(Soft!Order(s.op)) :
             Soft!Holding(ecu, ecu.sw, Soft!Order(s.op)[j], {"new"})
      BY <1>4 DEF SoftFlash
    <3>2. s.op \in Soft!Ops /\ ecu.sw \in Soft!Banks
      BY SoftTyped
    <3> QED
      BY <3>1, <3>2, SoftListed DEF SoftAllNew
  <2>5. SoftAllNew'
    BY <1>0, <2>3, <2>4, SoftSame
  <2> QED
    BY <1>0, <2>3, <2>5, SoftFillsOn DEF SoftWriting, SoftFilling
<1>5. CASE Soft!RepairVerify
  BY <1>1, <1>3, <1>5 DEF Soft!RepairVerify
<1>6. CASE Soft!Verify
  BY <1>1, <1>2, <1>4, <1>6 DEF Soft!Verify
<1> QED
  BY <1>5, <1>6

LEMMA SoftReturns ==
    ASSUME Soft!TypeOK, SoftFresh, SoftKept, Soft!ReturnSwitch \/ Soft!Reset \/ Soft!Finalize
    PROVE  SoftDone
<1>0. s \in Soft!Sessions /\ ecu \in Soft!Computers
  BY DEF Soft!TypeOK
<1>1. ecu'.cells = ecu.cells
  BY <1>0 DEF Soft!ReturnSwitch, Soft!Reset, Soft!Finalize, Soft!Prompted, Soft!Restarted,
              Soft!Checked, Soft!Computers
<1>2. CASE Soft!ReturnSwitch \/ (Soft!Reset /\ UNCHANGED outcome)
  <2>1. /\ pc \in {"return", "reset"} /\ UNCHANGED <<outcome, touched>> /\ touched
        /\ SoftAllNew /\ pc \notin SoftRest \cup {"held"} /\ s.destructive_started
        /\ outcome = "running"
    BY <1>2 DEF Soft!ReturnSwitch, Soft!Reset, Soft!Stays, SoftKept, SoftRest
  <2>2. /\ s' \in {s, [s EXCEPT !.sent = TRUE, !.write_complete = TRUE],
                   [s EXCEPT !.ladder = TRUE]}
        /\ pc' \in {"reset", "finalize", "handler"}
    <3>1. ~Soft!Report("complete")
      BY <1>2, <2>1 DEF Soft!Report, Soft!ReturnSwitch, Soft!Goto
    <3> QED
      BY <1>2, <3>1 DEF Soft!ReturnSwitch, Soft!Reset, Soft!Goto, Soft!Raise
  <2>3. s'.destructive_started /\ s'.op = s.op
    BY <1>0, <2>1, <2>2 DEF Soft!Sessions
  <2>4. SoftAllNew'
    BY <1>1, <2>1, <2>3, SoftSame
  <2>5. SoftKept'
    BY <2>1, <2>2, <2>3, <2>4 DEF SoftKept, SoftRest, SoftEntering, SoftFilling
  <2> QED
    BY <2>1, <2>2, <2>5, SoftGoesOn
<1>3. CASE Soft!Reset /\ Soft!Report("complete")
  <2>1. pc = "reset" /\ touched' = touched /\ touched /\ SoftAllNew
    BY <1>3 DEF Soft!Reset, SoftKept
  <2> QED
    BY <1>1, <1>3, <2>1, SoftReports DEF SoftRest
<1>4. CASE Soft!Finalize
  <2>1. /\ pc = "finalize" /\ touched' = touched
        /\ (s.write_complete => touched /\ SoftAllNew)
        /\ (~s.write_complete => ~touched)
    BY <1>4 DEF Soft!Finalize, SoftKept, SoftFresh, SoftRest
  <2>2. CASE Soft!Report("unconfirmed")
    BY <1>1, <2>1, <2>2, SoftReports DEF SoftRest
  <2>3. CASE s.write_complete /\ Soft!Report("complete")
    BY <1>1, <2>1, <2>3, SoftReports DEF SoftRest
  <2>4. CASE ~s.write_complete /\ Soft!NextTier(s.ladder)
    BY <1>1, <2>1, <2>4, SoftNextTier DEF SoftRest
  <2> QED
    BY <1>4, <2>2, <2>3, <2>4 DEF Soft!Finalize
<1> QED
  BY <1>2, <1>3, <1>4 DEF Soft!Reset

LEMMA SoftHandles == ASSUME Soft!TypeOK, SoftFresh, SoftKept, Soft!Handle PROVE SoftDone
<1>0. /\ pc = "handler" /\ UNCHANGED <<ecu, touched>> /\ outcome = "running"
      /\ s \in Soft!Sessions /\ (touched => s.destructive_started)
  BY DEF Soft!Handle, Soft!TypeOK, SoftKept, SoftRest
<1>1. CASE s.op = "cross"
  <2>1. Soft!Report(IF s.destructive_started THEN "abandoned" ELSE "not_started")
    BY <1>1 DEF Soft!Handle
  <2> QED
    BY <1>0, <2>1, SoftReports DEF SoftRest
<1>2. CASE s.op # "cross" /\ s.destructive_started
  <2>1. s' = s /\ pc' = "held" /\ outcome' = outcome
    BY <1>2 DEF Soft!Handle, Soft!Goto
  <2>2. SoftKept'
    BY <1>0, <1>2, <2>1 DEF SoftKept, SoftRest, SoftEntering, SoftFilling
  <2>3. Soft!Content' = Soft!Content
    BY <1>0, <2>1, SoftSame
  <2> QED
    BY <1>0, <2>1, <2>2, <2>3, SoftContents DEF SoftDone, Moves
<1>3. CASE s.op # "cross" /\ ~s.destructive_started /\ s.boot
  <2>1. s' = Soft!Dropped /\ pc' = "booted" /\ outcome' = "not_started" /\ ~touched
    BY <1>0, <1>3 DEF Soft!Handle
  <2> QED
    BY <1>0, <2>1, SoftDrops, SoftEnds DEF SoftRest
<1>4. CASE s.op # "cross" /\ ~s.destructive_started /\ ~s.boot
  <2>1. s' = s /\ pc' = "finalize" /\ outcome' = outcome
    BY <1>4 DEF Soft!Handle, Soft!Goto
  <2>2. SoftKept'
    BY <1>0, <1>4, <2>1 DEF SoftKept, SoftRest, SoftEntering, SoftFilling
  <2> QED
    BY <1>0, <2>1, <2>2, SoftGoesOn DEF SoftRest
<1> QED
  BY <1>1, <1>2, <1>3, <1>4

LEMMA SoftPromised ==
    ASSUME Soft!TypeOK, SoftFresh, SoftFlash, SoftKept, Soft!Next PROVE SoftDone
<1>0. s \in Soft!Sessions /\ ecu \in Soft!Computers
  BY DEF Soft!TypeOK
<1>1. ASSUME NEW op \in Soft!Ops, NEW verify \in BOOLEAN, NEW bank \in Soft!Banks,
             Soft!Start(op, verify, bank)
      PROVE  SoftDone
  <2>1. /\ pc \in SoftRest /\ pc' \in {"preflight", "open"} /\ outcome' = "running"
        /\ touched' = FALSE /\ ~s'.destructive_started /\ ~s'.write_complete
    BY <1>1 DEF Soft!Start, Soft!NewSession, SoftRest
  <2>2. SoftKept'
    BY <2>1 DEF SoftKept, SoftRest, SoftEntering, SoftFilling
  <2> QED
    BY <2>1, <2>2, SoftContents DEF SoftKept, SoftDone, Moves, SoftRest
<1>2. CASE Soft!Retry
  <2>1. /\ pc = "held" /\ pc' = "preflight" /\ UNCHANGED <<ecu, outcome, touched>>
        /\ s' = Soft!Resumed
    BY <1>2 DEF Soft!Retry, Soft!RetrySupported
  <2>2. /\ s'.op = s.op /\ s'.destructive_started = s.destructive_started
        /\ s'.write_complete = s.write_complete
    BY <1>0, <2>1 DEF Soft!Resumed, Soft!Sessions
  <2>3. Soft!Content' = Soft!Content
    BY <2>1, <2>2, SoftSame
  <2>4. SoftKept'
    BY <2>1, <2>2 DEF SoftKept, SoftRest, SoftEntering, SoftFilling
  <2> QED
    BY <2>1, <2>3, <2>4, SoftContents DEF SoftDone, Moves, SoftKept, SoftRest
<1>3. CASE Soft!OpenBoot \/ Soft!CloseBoot
  <2>1. /\ ecu'.cells = ecu.cells /\ UNCHANGED <<s, outcome, touched>>
        /\ pc \in SoftRest /\ pc' \in SoftRest
    BY <1>0, <1>3 DEF Soft!OpenBoot, Soft!CloseBoot, Soft!Restarted, Soft!Computers, SoftRest
  <2>2. Soft!Content' = Soft!Content
    BY <2>1, SoftSame
  <2>3. SoftKept'
    BY <2>1 DEF SoftKept, SoftRest, SoftEntering, SoftFilling
  <2> QED
    BY <2>1, <2>2, <2>3, SoftContents DEF SoftDone, Moves, SoftRest
<1>4. CASE Soft!Exit
  <2>1. /\ pc # "idle" /\ UNCHANGED <<ecu, touched>>
        /\ Soft!Report(IF outcome = "running" THEN "abandoned" ELSE outcome)
    BY <1>4 DEF Soft!Exit
  <2>2. CASE pc \in SoftRest
    <3>1. pc' = "idle" /\ outcome' = outcome /\ s' = Soft!Dropped /\ outcome # "running"
      BY <2>1, <2>2 DEF SoftKept, Soft!Report
    <3>2. Soft!Content' = Soft!Content
      BY <2>1, <3>1, SoftDrops, SoftSame
    <3>3. SoftKept'
      BY <3>1, SoftDrops DEF SoftKept, SoftRest, SoftEntering, SoftFilling
    <3> QED
      BY <2>2, <3>1, <3>2, <3>3, SoftContents DEF SoftDone, Moves, SoftRest
  <2>3. CASE pc \notin SoftRest
    <3>1. Soft!Report("abandoned")
      BY <2>1, <2>3 DEF SoftKept
    <3> QED
      BY <2>1, <2>3, <3>1, SoftReports
  <2> QED
    BY <2>2, <2>3
<1>5. CASE Soft!PowerOff \/ Soft!MoveSwitch
  <2>1. ecu'.cells = ecu.cells /\ UNCHANGED <<s, pc, outcome, touched>>
    BY <1>0, <1>5 DEF Soft!PowerOff, Soft!MoveSwitch, Soft!Computers
  <2>2. Soft!Content' = Soft!Content /\ SoftAllNew' = SoftAllNew
    BY <2>1, SoftSame
  <2>3. SoftKept'
    BY <2>1, <2>2 DEF SoftKept
  <2> QED
    BY <2>1, <2>2, <2>3, SoftContents DEF SoftDone, Moves
<1> QED
  BY <1>1, <1>2, <1>3, <1>4, <1>5, SoftAttempts, SoftErasesOn, SoftProgramsOn, SoftVerifiesOn,
     SoftReturns, SoftHandles
     DEF Soft!Next, Soft!WorkerStep

===============================================================================
