------------------------------- MODULE Loader -------------------------------
(***************************************************************************)
(* The loader: Loader.cpp, its dialog with the chip (Loader/src/Modem/     *)
(* SIM868.cpp, Updater.cpp), and Application::Run, over ReaderFTP and      *)
(* Programmer, with a reset of the controller possible at any step.        *)
(*                                                                         *)
(* Loader::Update calls SIM868::Update with one answer or "".  Up to the   *)
(* FTP session the call is one step.  Inside the session it is a sequence  *)
(* of statements, `todo`, between any two of which the interrupt may       *)
(* append a byte.  The modem is powered up (module Modem) before this      *)
(* module starts.                                                          *)
(***************************************************************************)
EXTENDS ReaderFTP

CONSTANTS
    Positions,      \* file positions at which a session may begin
    MaxSessions     \* bound on the FTP sessions

ASSUME LoaderAssumption ==
    /\ Positions \subseteq 0 .. FileSize /\ 0 \in Positions
    /\ MaxSessions \in Nat

VARIABLES
    mode,           \* what the processor runs: "loader", "application", or
                    \* "stone" when there is no complete application to start
    sim,            \* SIM868::state
    upd,            \* Updater::state
    late,           \* the meter that the current state tests has passed its limit
    todo,           \* statements the main loop has still to execute
    source_crc,     \* the checksum read from the file
    sessions,       \* FTP sessions begun, counted for the bound
    copy,           \* CopyFirmware: bytes of the image, and how many are copied
    misled          \* observer: what is copied passed the test of the checksum
                    \* and is not the firmware

mainVars == <<mode, sim, upd, late, todo, source_crc, sessions, copy, misled>>
vars == <<progVars, readerVars, mainVars>>

\* Answers, one for each set of texts the code does not tell apart.
Answers ==
    {"", "OK", "RDY", "+CREG registered", "INITIAL", "+FTPGET: 1,1",
     "+FTPGET: 1,77", "CLOSED", "SEND FAIL", "other"}
\* ("+CSQ" and "SEND OK" are swallowed by ProcessUnsolicited: no step at all.)

\* The states of SIM868 in their order, the answer that ends each of them.
Dialog == <<"WAIT_ATE0", "WAIT_BAUDRADE", "WAIT_GSMBUSY", "WAIT_CREG_INIT",
            "WAIT_REGISTRATION", "WAIT_IP_INITIAL", "RUNNING_UPDATER">>
Expected == <<"OK", "RDY", "OK", "OK", "+CREG registered", "INITIAL">>

\* The states of Updater that an "OK" ends, in their order.
Setup == <<"NEED_SAPBR_3_APN", "NEED_SAPBR_3_USER", "NEED_SAPBR_3_PWD",
           "NEED_SAPBR_1_1", "NEED_FTPCID", "NEED_FTPSERV", "NEED_FTPUN",
           "NEED_FTPPW", "NEED_FTPGETPATH", "NEED_SET_NAME_FIRMWARE",
           "NEED_REQUEST_CONNECT", "NEED_WAIT_CONNECT">>

\* Updater::InModeReceiveDataFromFTP
Receiving == {"GET_BYTES_VER", "GET_BYTES_CRC", "GET_BYTES_FIRMWARE"}

SimStates == {"START"} \cup Range(Dialog)
UpdStates == {"IDLE", "NEED_SAPBR_3_GPRS", "COMPLETED"} \cup Range(Setup) \cup Receiving

NoCopy == [size |-> -1, done |-> 0]

LoaderInit ==
    /\ sim = "START" /\ upd = "IDLE" /\ late = FALSE /\ todo = <<>>
    /\ source_crc = <<>> /\ copy = NoCopy

Init == ProgInit /\ ReaderInit /\ LoaderInit /\ mode = "loader" /\ sessions = 0
        /\ misled = FALSE

\* Mutant: Loader::Reset forgets Updater::Reset.
ResetNotUpdater ==
    /\ sim' = "START" /\ UNCHANGED upd
    /\ wire' = <<>> /\ ftp' = NoSession /\ clean' = FALSE
    /\ prog' = ProgReset /\ source_crc' = <<>>
    /\ UNCHANGED <<rom, page, out, faults, reader, pointer_command, mode, late, sessions, copy, misled>>

\* Loader::Reset.  From here on the interrupt gives the bytes of the chip to
\* the framer: what is on the wire becomes answers, which are arbitrary.
\* (source_crc and the variables of Programmer keep their values in the code;
\* they are assigned again before they are read, so the model drops them.)
Reset ==
    /\ sim' = "START" /\ upd' = "IDLE"
    /\ wire' = <<>> /\ ftp' = NoSession /\ clean' = FALSE
    /\ prog' = ProgReset /\ source_crc' = <<>>
    /\ UNCHANGED <<rom, page, out, faults, reader, pointer_command, mode, late, sessions, copy, misled>>

\* The main loop is between two calls of SIM868::Update.
AtUpdate == mode = "loader" /\ todo = <<>> /\ ~Preparing /\ ~Writing /\ copy = NoCopy

\* SIM868::ProcessUnsolicited resets the loader.
Fatal == {"CLOSED", "SEND FAIL"}

Unsolicited ==
    /\ AtUpdate
    /\ Reset
    /\ UNCHANGED todo

\* Mutant: the meter is not tested while the file is received.
TimedNotReceiving == (sim \in Range(Dialog) /\ sim # "RUNNING_UPDATER")
         \/ (sim = "RUNNING_UPDATER" /\ upd \in Range(Setup))

\* The states whose meter is tested.
Timed == (sim \in Range(Dialog) /\ sim # "RUNNING_UPDATER")
         \/ (sim = "RUNNING_UPDATER" /\ upd \in Range(Setup) \cup Receiving)

\* MeterIsRunning returns false.
Timeout ==
    /\ AtUpdate /\ Timed /\ late
    /\ Reset
    /\ UNCHANGED todo

\* SIM868::Update before the updater runs.
SimUpdate(answer) ==
    /\ AtUpdate /\ sim # "RUNNING_UPDATER"
    /\ \/ sim = "START" /\ sim' = "WAIT_ATE0"
       \/ \E i \in DOMAIN Expected :
            /\ sim = Dialog[i] /\ ~late /\ answer = Expected[i]
            /\ sim' = Dialog[i + 1]
    /\ late' = FALSE
    /\ UNCHANGED <<progVars, readerVars, mode, upd, todo, source_crc, sessions, copy, misled>>

\* Updater::Update up to the request of the file.
SetupUpdate(answer) ==
    /\ AtUpdate /\ sim = "RUNNING_UPDATER"
    /\ \/ upd = "IDLE" /\ upd' = "NEED_SAPBR_3_GPRS" /\ UNCHANGED late
       \/ upd = "NEED_SAPBR_3_GPRS" /\ upd' = Setup[1] /\ late' = FALSE
       \/ \E i \in 1 .. Len(Setup) - 1 :
            /\ upd = Setup[i] /\ ~late /\ answer = "OK"
            /\ upd' = Setup[i + 1] /\ late' = FALSE
    /\ UNCHANGED <<progVars, readerVars, mode, sim, todo, source_crc, sessions, copy, misled>>

\* NEED_WAIT_CONNECT: there is no file, or the session begins.  Loader::Reset
\* does not end a session in the chip, and the notice of one that an earlier
\* attempt left open looks the same: the file position is then arbitrary.
NoFile ==
    /\ AtUpdate /\ sim = "RUNNING_UPDATER" /\ upd = "NEED_WAIT_CONNECT" /\ ~late
    /\ upd' = "COMPLETED"
    /\ UNCHANGED <<progVars, readerVars, mode, sim, late, todo, source_crc, sessions, copy, misled>>

Connected ==
    /\ AtUpdate /\ sim = "RUNNING_UPDATER" /\ upd = "NEED_WAIT_CONNECT" /\ ~late
    /\ sessions < MaxSessions /\ sessions' = sessions + 1
    /\ \E pos \in Positions :
         /\ ftp' = [open |-> TRUE, pos |-> pos, ask |-> 0, owes |-> FALSE]
         /\ clean' = (pos = 0)
    /\ upd' = "GET_BYTES_VER" /\ late' = FALSE
    /\ todo' = ReceiveBytes
    /\ UNCHANGED <<progVars, reader, pointer_command, wire, mode, sim, source_crc, copy, misled>>
-----------------------------------------------------------------------------
(* Updater::Update inside the session.                                     *)

Verify == <<"CloseSession", "Verify">>

\* GET_BYTES_VER: the version is read and nothing is done with it.
GetVersion ==
    /\ AtUpdate /\ upd = "GET_BYTES_VER" /\ ~late /\ reader.requested
    /\ upd' = "GET_BYTES_CRC" /\ late' = FALSE
    /\ todo' = ReceiveBytes
    /\ UNCHANGED <<progVars, readerVars, mode, sim, source_crc, sessions, copy, misled>>

\* GET_BYTES_CRC: memcpy takes Word bytes whatever the number received.
GetCRC ==
    /\ AtUpdate /\ upd = "GET_BYTES_CRC" /\ ~late /\ reader.requested
    /\ source_crc' = [i \in 1 .. Word |-> reader.buffer[i]]
    /\ Prepare(ADDR_STORAGE)
    /\ todo' = <<"SetState">> \o ReceiveBytes \o <<"received_FTPGET_1_0">>
    /\ UNCHANGED <<rom, prog, out, faults, readerVars, mode, sim, upd, late, sessions, copy, misled>>

Received == [i \in 1 .. Min({reader.pointer, Buf}) |-> reader.buffer[i]]

\* GET_BYTES_FIRMWARE, first test: the session has ended.
GetLastBytes ==
    /\ AtUpdate /\ upd = "GET_BYTES_FIRMWARE" /\ ~late /\ reader.eof
    /\ WriteBytes(Received)
    /\ todo' = Verify
    /\ UNCHANGED <<rom, page, faults, readerVars, mode, sim, upd, late, source_crc, sessions, copy, misled>>

\* It has not: the second test is a step of its own.
TestRequested ==
    /\ AtUpdate /\ upd = "GET_BYTES_FIRMWARE" /\ ~late /\ ~reader.eof
    /\ todo' = <<"requested_bytes_received">>
    /\ UNCHANGED <<progVars, readerVars, mode, sim, upd, late, source_crc, sessions, copy, misled>>

\* Nothing else of the main loop goes on while Prepare or Write does.
Statement(name) ==
    /\ mode = "loader" /\ ~Preparing /\ ~Writing
    /\ todo # <<>> /\ Head(todo) = name
    /\ todo' = Tail(todo)

GetBytes ==
    /\ mode = "loader" /\ ~Preparing /\ ~Writing
    /\ todo # <<>> /\ Head(todo) = "requested_bytes_received"
    /\ IF reader.requested
       THEN /\ WriteBytes(Received)
            /\ todo' = <<"state_meter">> \o ReceiveBytes
       ELSE /\ todo' = <<>>
            /\ UNCHANGED <<prog, out>>
    /\ UNCHANGED <<rom, page, faults, readerVars, mode, sim, upd, late, source_crc, sessions, copy, misled>>

MeterReset ==
    /\ Statement("state_meter")
    /\ late' = FALSE
    /\ UNCHANGED <<progVars, readerVars, mode, sim, upd, source_crc, sessions, copy, misled>>

SetState ==
    /\ Statement("SetState")
    /\ upd' = "GET_BYTES_FIRMWARE" /\ late' = FALSE
    /\ UNCHANGED <<progVars, readerVars, mode, sim, source_crc, sessions, copy, misled>>

ClearStep(name) ==
    /\ Statement(name)
    /\ reader' = Cleared(name) /\ PointerCleared(name)
    /\ UNCHANGED <<progVars, wire, ftp, clean, mode, sim, upd, late, source_crc, sessions, copy, misled>>

RequestStep ==
    /\ Statement("request")
    /\ reader' = [reader EXCEPT !.need = IF upd = "GET_BYTES_FIRMWARE" THEN Buf ELSE Word]
    /\ UNCHANGED <<progVars, pointer_command, wire, ftp, clean, mode, sim, upd, late, source_crc, sessions, copy, misled>>

TransmitStep ==
    /\ Statement("transmit")
    /\ Request(reader.need)
    /\ UNCHANGED <<progVars, reader, pointer_command, wire, clean, mode, sim, upd, late, source_crc, sessions, copy, misled>>

\* Mutant: the flag of an earlier session is kept.
ClearEOFNot ==
    /\ Statement("received_FTPGET_1_0")
    /\ UNCHANGED <<progVars, readerVars, mode, sim, upd, late, source_crc, sessions, copy, misled>>

\* received_FTPGET_1_0 is cleared here only, after the request has gone out.
ClearEOF ==
    /\ Statement("received_FTPGET_1_0")
    /\ reader' = [reader EXCEPT !.eof = FALSE]
    /\ UNCHANGED <<progVars, pointer_command, wire, ftp, clean, mode, sim, upd, late, source_crc, sessions, copy, misled>>

CloseStep ==
    /\ Statement("CloseSession")
    /\ CloseSession
    /\ UNCHANGED <<rom, page, faults, readerVars, mode, sim, upd, late, source_crc, sessions, copy, misled>>

-----------------------------------------------------------------------------
(* The checksum: two sums of 32 bits are compared.  Of the byte strings with*)
(* equal sums the model keeps those whose polynomials are the same, where  *)
(* only zeros differ; accidental collisions are left out.                  *)

\* The sum read from the file is that of Read(address, n).
Agrees(address, n) ==
    \/ SameSum(source_crc, FileCRC) /\ SameSum(Read(address, n), Firmware)
    \/ SameSum(source_crc, <<>>)    /\ SameSum(Read(address, n), <<>>)

\* Mutant: the copy is made whatever the checksum.
VerifyStoredNot ==
    /\ Statement("Verify")
    /\ Prepare(ADDR_APPLICATION)
    /\ copy' = [size |-> prog.written, done |-> 0]
    /\ misled' = (misled \/ /\ Agrees(ADDR_STORAGE, prog.written)
                            /\ Read(ADDR_STORAGE, prog.written) # Firmware)
    /\ UNCHANGED <<rom, prog, out, faults, readerVars, mode, sim, upd, late, source_crc, sessions>>

\* The sums agree: CopyFirmware begins.  Nothing tests that there are bytes to copy.
VerifyStored ==
    /\ Statement("Verify") /\ Agrees(ADDR_STORAGE, prog.written)
    /\ Prepare(ADDR_APPLICATION)
    /\ copy' = [size |-> prog.written, done |-> 0]
    /\ misled' = (misled \/ Read(ADDR_STORAGE, prog.written) # Firmware)
    /\ UNCHANGED <<rom, prog, out, faults, readerVars, mode, sim, upd, late, source_crc, sessions>>

\* The checksum does not agree: Loader::Reset.
Mismatch ==
    /\ Statement("Verify") /\ ~Agrees(ADDR_STORAGE, prog.written)
    /\ Reset

\* CopyFirmware has prepared the region and copies; nothing else is to do.
Copying == mode = "loader" /\ copy # NoCopy /\ ~Preparing /\ ~Writing

CopyChunk ==
    LET n == Min({Buf, copy.size - copy.done})
    IN  /\ Copying /\ copy.done < copy.size
        /\ WriteBytes(Read(ADDR_STORAGE + copy.done, n))
        /\ copy' = [copy EXCEPT !.done = @ + n]
        /\ UNCHANGED <<rom, page, faults, readerVars, mode, sim, upd, late, todo, source_crc, sessions, misled>>

\* Mutant: one copy is made and not checked.
VerifyCopyOnce ==
    /\ Copying /\ copy.done = copy.size
    /\ upd' = "COMPLETED" /\ copy' = NoCopy
    /\ UNCHANGED <<progVars, readerVars, mode, sim, late, todo, source_crc, sessions, misled>>
-----------------------------------------------------------------------------
(* The processor, its interrupt and its reset.                             *)

\* The test of the do-while loop around CopyFirmware.
VerifyCopy ==
    /\ Copying /\ copy.done = copy.size
    /\ \/ /\ Agrees(ADDR_APPLICATION, copy.size)
          /\ upd' = "COMPLETED" /\ copy' = NoCopy
          /\ UNCHANGED page
       \/ /\ ~Agrees(ADDR_APPLICATION, copy.size)
          /\ Prepare(ADDR_APPLICATION)
          /\ copy' = [size |-> prog.written, done |-> 0]
          /\ UNCHANGED upd
    /\ UNCHANGED <<rom, prog, out, faults, readerVars, mode, sim, late, todo, source_crc, sessions, misled>>

PrepareStep ==
    /\ mode = "loader" /\ PreparePage
    /\ UNCHANGED <<readerVars, mainVars>>

WordStep ==
    /\ mode = "loader"
    /\ \/ ProgramWord(TRUE) /\ UNCHANGED clean
       \/ faults < MaxFaults /\ ProgramWord(FALSE) /\ clean' = FALSE
    /\ UNCHANGED <<reader, pointer_command, wire, ftp, mainVars>>

SessionUpdate ==
    sim = "RUNNING_UPDATER" /\ (GetVersion \/ GetCRC \/ GetLastBytes \/ TestRequested)

\* SIM868::Update(answer): ProcessUnsolicited takes the answer, or the meter and
\* the state decide.  A timeout and the session do not look at the answer.
Update ==
    \/ \E answer \in Fatal : Unsolicited
    \/ Timeout \/ SessionUpdate
    \/ \E answer \in Answers \ Fatal :
         \/ SimUpdate(answer)
         \/ SetupUpdate(answer)
         \/ answer = "+FTPGET: 1,1" /\ Connected
         \/ answer = "+FTPGET: 1,77" /\ NoFile

Statements ==
    \/ GetBytes \/ MeterReset \/ SetState \/ RequestStep \/ TransmitStep
    \/ \E i \in 1 .. 5 : ClearStep(ReceiveBytes[i])
    \/ ClearEOF \/ CloseStep \/ VerifyStored \/ Mismatch
    \/ CopyChunk \/ VerifyCopy \/ PrepareStep \/ WordStep

Main == Update \/ Statements

\* Modem::CallbackOnReceive while the updater receives the file.
Interrupt ==
    /\ mode = "loader" /\ upd \in Receiving
    /\ AppendByte
    /\ UNCHANGED <<progVars, mainVars>>

\* The limit passes.  Nobody looks at the meter before the next AtUpdate.
Tick ==
    /\ AtUpdate /\ Timed /\ ~late
    /\ late' = TRUE
    /\ UNCHANGED <<progVars, readerVars, mode, sim, upd, todo, source_crc, sessions, copy, misled>>

ChipStep ==
    /\ mode = "loader" /\ upd \in Receiving
    /\ Chip
    /\ UNCHANGED <<progVars, mainVars>>

\* The variables as they are when a program is entered; the chip is switched
\* off and on by the power sequence of Modem.  A complete program that runs ends
\* what misled observes.
Restarted ==
    /\ page' = NoPrepare /\ prog' = ProgReset /\ out' = <<>>
    /\ reader' = ReaderInitial /\ pointer_command' = 0 /\ wire' = <<>> /\ ftp' = NoSession /\ clean' = FALSE
    /\ sim' = "START" /\ upd' = "IDLE" /\ late' = FALSE /\ todo' = <<>>
    /\ source_crc' = <<>> /\ copy' = NoCopy
    /\ misled' = (misled /\ ~Bootable)
    /\ UNCHANGED <<rom, faults, sessions>>

\* Loader::Update finds Updater::IsCompleted: Application::Run.
RunApplication ==
    /\ AtUpdate /\ upd = "COMPLETED"
    /\ mode' = IF Bootable THEN "application" ELSE "stone"
    /\ Restarted

\* The watchdog or a power cut: the processor starts at ADDR_APPLICATION.
Crash ==
    /\ mode = "loader"
    /\ mode' = IF Bootable THEN "application" ELSE "stone"
    /\ Restarted

\* Bootloader::Run of the application.
RunBootloader ==
    /\ mode = "application"
    /\ mode' = "loader"
    /\ Restarted

Next ==
    Main \/ Interrupt \/ Tick \/ ChipStep \/ RunApplication \/ Crash \/ RunBootloader

\* The main loop goes on and the clock runs; nothing is assumed of the chip.
\* The clock runs wherever the main loop is, while Tick is enabled between two
\* updates only: hence strong fairness.
Fairness == WF_vars(Main) /\ SF_vars(Tick)

Spec == Init /\ [][Next]_vars
FairSpec == Spec /\ Fairness

-----------------------------------------------------------------------------
(* Properties.                                                             *)

\* Every variable has its type.
TypeOK ==
    /\ rom \in [ROM -> Nil .. FileSize]
    /\ page \in [start : {ADDR_APPLICATION, ADDR_STORAGE}, left : 0 .. NumPages]
    /\ prog.address \in 0 .. ADDR_BOOTLOADER + 2 * Word
    /\ prog.written \in 0 .. ADDR_STORAGE + 2 * Word
    /\ Len(prog.bytes) < Word /\ Len(out) <= Buf + Word /\ faults \in 0 .. MaxFaults
    /\ reader \in [received_command : BOOLEAN, need : {0, Word, Buf}, from : 0 .. Buf,
                   cmd : {"empty", "begun", "whole", "torn", "ended"},
                   pointer : 0 .. Buf, buffer : [1 .. Buf -> Nil .. FileSize],
                   requested : BOOLEAN, eof : BOOLEAN]
    /\ pointer_command \in Nat
    /\ ftp \in [open : BOOLEAN, pos : 0 .. FileSize, ask : 0 .. Buf, owes : BOOLEAN]
    /\ mode \in {"loader", "application", "stone"}
    /\ sim \in SimStates /\ upd \in UpdStates
    /\ {late, clean, misled} \subseteq BOOLEAN
    /\ sessions \in 0 .. MaxSessions
    /\ \/ copy = NoCopy
       \/ copy.size \in 0 .. ADDR_STORAGE + 2 * Word /\ copy.done \in 0 .. copy.size

\* AppendByte ends the data by comparing pointer_data with bytes_from_FTP for
\* equality: whenever it takes data the two can still meet, whatever the main
\* loop and the interrupt did to the reader before.
DataCanEnd == reader.received_command => reader.pointer < reader.from

\* AppendByte writes buffer_command through pointer_command and compares it with
\* nothing: every line must be taken out before the next one comes, also a line
\* torn by a restart of the reader.  Only the line that ended the session stays,
\* and what comes after it is written behind it.
CommandFits == reader.cmd # "ended" => pointer_command <= CommandSize

\* A session in which the chip gave the header whole, nothing failed and no
\* word was lost ends with the firmware itself in the storage and with sums that
\* agree: every byte of the file reaches the storage once and in order, however
\* the interrupt, the tests of the two flags and the restarts of the reader
\* interleave.
CleanSessionAgrees ==
    (todo # <<>> /\ Head(todo) = "Verify" /\ ~Writing /\ clean)
        => /\ Read(ADDR_STORAGE, prog.written) = Firmware
           /\ Agrees(ADDR_STORAGE, prog.written)

\* Whenever the region the processor starts from is not complete, the storage
\* holds the complete image, unless equal sums of zeros misled the loader: the
\* application is touched only after the image was checked, and the image is
\* not erased before the copy agrees.
DamagedAppHasImage == misled \/ Bootable \/ ImageStored

\* Application::Run is reached only with a complete application, whether the
\* file was installed, was not there, or an earlier attempt failed, unless equal
\* sums of zeros misled the loader.
CompletedIsWhole == misled \/ (upd = "COMPLETED" => Bootable)

\* What CopyFirmware installs agrees with the checksum of the file: Updater.cpp:116
\* says of source_crc that the checksum from the file is kept there.
SourceIsFileCRC == copy # NoCopy => source_crc = FileCRC

\* The interrupt gives bytes to the FTP reader only while the dialog with the
\* chip has reached the updater: otherwise the dialog would never see them.
UpdaterOwnsBytes == upd \in Receiving => sim = "RUNNING_UPDATER"

\* The loader never erases or overwrites itself.
LoaderIntact == \A a \in ROM : a >= ADDR_BOOTLOADER => rom[a] = Boot

\* Reception of the file ends: complete, refused, timed out or cut off.  The
\* chip may fall silent or announce data for ever.
ReceptionEnds == (upd \in Receiving) ~> (upd \notin Receiving)

\* The loop around CopyFirmware ends although a word may fail and PageIsEmpty
\* samples one word in Stride: what an attempt leaves in a page never keeps the
\* next attempts from completing it.
CopyEnds == copy # NoCopy ~> copy = NoCopy

\* An update never leaves the device without a program to start.
NeverStone == mode # "stone"

-----------------------------------------------------------------------------
(* The abstract specification.                                             *)

Installed == IF AppArea = OldApp THEN "old" ELSE IF AppArea = NewApp THEN "new" ELSE "damaged"

Abstract == INSTANCE FirmwareUpdate
            WITH app <- Installed, image <- ImageStored, running <- mode

\* Sessions that overlap what earlier ones left, torn lines, short answers and
\* resets at any step come to no more than this: the application is touched
\* only while the complete image is stored or equal sums of zeros have misled the
\* loader, the image is erased only while the application is complete, and no
\* step of the loader touches both.
ImplementsUpdate == Abstract!Spec
=============================================================================
