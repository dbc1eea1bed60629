----------------------------- MODULE FlashWriters -----------------------------
(***************************************************************************)
(* The writers of the application that are not the native-fast one, behind *)
(* one operation: the interface picks the writer for the computer and the  *)
(* options of the connection, and promises the same whichever it picks     *)
(* (FlashOutcome).  A writer keeps its own record of the operation and     *)
(* sees its own kind of computer; they share the variables, not the rules. *)
(***************************************************************************)
EXTENDS Integers

CONSTANTS Packets, WriteRetries,              \* the slow DS2 writer
          Chunks, Retries, LastTier, MaxTorn, \* the Soft-BSL writers
          RegionChunks, Attempts, LastRate,   \* the MS42/MS43 writer
          Base, Images,                       \* the EEPROM writers
          Firmwares,                          \* the hardware recovery
          Blocks                              \* the native-fast reads

ASSUME WritersAssumption ==
    /\ {Packets, WriteRetries, Chunks, LastTier, RegionChunks, Attempts, LastRate,
        Blocks}
           \subseteq Nat \ {0}
    /\ {Retries, MaxTorn} \subseteq Nat
    /\ Base \in Nat \ {0, 1, 2} /\ Images \subseteq [1 .. 5 -> 0 .. Base - 1]
    /\ Firmwares # {} /\ Firmwares \subseteq {"MS41.0", "MS41.1", "MS41.2", "MS41.3"}

VARIABLES writer, ecu, s, pc, outcome, touched

vars == <<writer, ecu, s, pc, outcome, touched>>

Legacy == INSTANCE LegacyWrite
Soft == INSTANCE SoftBslWrite
Ms4x == INSTANCE Ms4xWrite WITH Chunks <- RegionChunks
Eeprom == INSTANCE EepromWrite
Bsl == INSTANCE HardwareBsl
Install == INSTANCE SoftBslInstall
Read == INSTANCE NativeFastRead
Data == INSTANCE Ms4xData WITH Chunks <- RegionChunks

\* _ds2_write: the connection is of one family and one route.
Init ==
    \/ writer = "legacy" /\ Legacy!Init
    \/ writer = "softbsl" /\ Soft!Init
    \/ writer = "ms4x" /\ Ms4x!Init
    \/ writer = "eeprom" /\ Eeprom!Init
    \/ writer = "bsl" /\ Bsl!Init
    \/ writer = "install" /\ Install!Init
    \/ writer = "read" /\ Read!Init
    \/ writer = "data" /\ Data!Init

LegacyStep == writer = "legacy" /\ Legacy!Next /\ UNCHANGED writer
SoftStep == writer = "softbsl" /\ Soft!Next /\ UNCHANGED writer
Ms4xStep == writer = "ms4x" /\ Ms4x!Next /\ UNCHANGED writer
EepromStep == writer = "eeprom" /\ Eeprom!Next /\ UNCHANGED writer
BslStep == writer = "bsl" /\ Bsl!Next /\ UNCHANGED writer
InstallStep == writer = "install" /\ Install!Next /\ UNCHANGED writer
ReadStep == writer = "read" /\ Read!Next /\ UNCHANGED writer
DataStep == writer = "data" /\ Data!Next /\ UNCHANGED writer

Next == LegacyStep \/ SoftStep \/ Ms4xStep \/ EepromStep \/ BslStep
        \/ InstallStep \/ ReadStep \/ DataStep

\* The worker thread of the operation is scheduled; the user, the operator and
\* the surroundings owe nothing.
Work ==
    \/ writer = "legacy" /\ Legacy!WorkerStep /\ UNCHANGED writer
    \/ writer = "softbsl" /\ Soft!WorkerStep /\ UNCHANGED writer
    \/ writer = "ms4x" /\ Ms4x!WorkerStep /\ UNCHANGED writer
    \/ writer = "eeprom" /\ Eeprom!WorkerStep /\ UNCHANGED writer
    \/ writer = "bsl" /\ Bsl!WorkerStep /\ UNCHANGED writer
    \/ writer = "install" /\ Install!WorkerStep /\ UNCHANGED writer
    \/ writer = "read" /\ Read!WorkerStep /\ UNCHANGED writer
    \/ writer = "data" /\ Data!WorkerStep /\ UNCHANGED writer

Spec == Init /\ [][Next]_vars
FairSpec == Spec /\ WF_vars(Work)
---------------------------------------------------------------------------
(* Every property holds of every writer, in the writer's own terms.        *)

\* The types of the writer's variables.
TypeOK ==
    CASE writer = "legacy"  -> Legacy!TypeOK
      [] writer = "softbsl" -> Soft!TypeOK
      [] writer = "ms4x"    -> Ms4x!TypeOK
      [] writer = "eeprom"  -> Eeprom!TypeOK
      [] writer = "bsl"     -> Bsl!TypeOK
      [] writer = "install" -> Install!TypeOK
      [] writer = "read"    -> Read!TypeOK
      [] writer = "data"    -> Data!TypeOK

\* A packet is sent only onto flash it can be programmed into, after whatever
\* lost reply, repeat, repair, replay or retry: what program_chunk,
\* _write_block and AgentWriter._program look up before they send again.
\* EEPROM is not erased, the hardware recovery stops at a lost reply, and an
\* installation is modelled sector by sector.
OnlyOntoErased ==
    CASE writer = "legacy"  -> Legacy!OnlyOntoErased
      [] writer = "softbsl" -> Soft!OnlyOntoErased
      [] writer = "ms4x"    -> Ms4x!OnlyOntoErased
      [] writer = "eeprom"  -> TRUE
      [] writer = "bsl"     -> TRUE
      [] writer = "install" -> TRUE
      [] writer = "read"    -> TRUE
      [] writer = "data"    -> Data!OnlyOntoErased

\* What opens a fast or staged session is sent only to a computer that is ready
\* for it: the trigger of an installation to one that was seen in normal
\* operation since the last trigger, which would otherwise become its payload
\* (_session_with_baud_fallback); the selector of a read to one whose
\* completion latch was seen (_wait_for_native_fast_reentry), unless the
\* program could not know of the session before.
EntryReady ==
    /\ writer = "install" => Install!OneTrigger
    /\ writer = "read" => Read!LatchObserved

\* Every operation reaches the end of its worker (success, a refusal, a
\* question or a retained session): the repeats, rates, replays and repairs are
\* all bounded.
Resting ==
    CASE writer = "legacy"  -> Legacy!Resting
      [] writer = "softbsl" -> Soft!Resting
      [] writer = "ms4x"    -> Ms4x!Resting
      [] writer = "eeprom"  -> Eeprom!Resting
      [] writer = "bsl"     -> Bsl!Resting
      [] writer = "install" -> Install!Resting
      [] writer = "read"    -> Read!Resting
      [] writer = "data"    -> Data!Resting
WritesEnd == []<>Resting

\* A Soft-BSL write that completes, one that ends before its erase, and an
\* attempt that is followed by another at a lower rate, have left flash mode
\* (E740=0), as finalize_marker0 and _recover_staged_entry_marker0 confirm.  A
\* cross-bank write is excluded: it ends with a reset that nobody confirms, and
\* leaves the rest to the user's switch and key cycle.  A native-fast read that
\* succeeds, or is repeated at 9600, left the high rate.
NormalAgain ==
    [][ /\ writer = "softbsl" => Soft!LeavesNormal
        /\ writer = "read" => Read!LeavesNormal ]_vars

\* Every erase and packet of a Soft-BSL write goes to the bank the write is
\* for, unless the marker of the other one is gone.  What the computer starts
\* from or goes by comes last: the boot sector of a cross-bank write and of a
\* hardware recovery of all regions (_ordered_regions), the word that commits
\* a VIN record, and the second bank of retained data (_IdentityWrite.run,
\* _StorageRestore._write).
RightBank ==
    [][ /\ writer = "softbsl" => Soft!WritesRightBank
        /\ writer = "bsl" => Bsl!BootLast
        /\ writer = "data" => Data!InOrder ]_vars

\* An unforced hardware recovery of a flash that was of one firmware leaves
\* one firmware, whichever region it wrote, and whatever earlier writes that
\* stopped part-way left to be seen by _variant_guard.
OneFirmware == [][writer = "bsl" => Bsl!KeepsOneFirmware]_vars

\* Seeding the recovery progression and restoring it change the marker alone,
\* although the captures they start from may be older than the last write of
\* the agent (seed_ecu, restore_pre_seed).
MarkerAlone == [][writer = "eeprom" => Eeprom!MarkerAlone]_vars

\* No writer puts anything where it does not belong, or too early.
RightPlace == RightBank /\ OneFirmware /\ MarkerAlone

\* Not started means untouched, complete means written, and what failed in
\* between stays with its own session until that is retried or given up.
Content ==
    CASE writer = "legacy"  -> Legacy!Content
      [] writer = "softbsl" -> Soft!Content
      [] writer = "ms4x"    -> Ms4x!Content
      [] writer = "eeprom"  -> Eeprom!Content
      [] writer = "bsl"     -> Bsl!Content
      [] writer = "install" -> Install!Content
      [] writer = "read"    -> Read!Content
      [] writer = "data"    -> Data!Content
Verdict ==
    CASE writer = "legacy"  -> Legacy!Verdict
      [] writer = "softbsl" -> Soft!Verdict
      [] writer = "ms4x"    -> Ms4x!Verdict
      [] writer = "eeprom"  -> Eeprom!Verdict
      [] writer = "bsl"     -> Bsl!Verdict
      [] writer = "install" -> Install!Verdict
      [] writer = "read"    -> Read!Verdict
      [] writer = "data"    -> Data!Verdict

Promise == INSTANCE FlashOutcome WITH content <- Content, verdict <- Verdict
ImplementsPromise == Promise!Spec
===============================================================================
