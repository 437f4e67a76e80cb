----------------------------- MODULE ReaderFTP ------------------------------
(***************************************************************************)
(* The reader of the firmware file (Loader/src/Modem/ReaderFTP.cpp) and    *)
(* the chip's side of the FTP session, which is external.                  *)
(*                                                                         *)
(* AppendByte runs in the receive interrupt, against ReceiveBytes and the  *)
(* use of the buffer in the main loop.  A line of text arrives in three    *)
(* pieces (its first characters, the others, the line feed), because the   *)
(* main loop may reset the reader in the middle of it; data arrive byte by *)
(* byte.                                                                   *)
(*                                                                         *)
(* The chip answers AT+FTPGET=2,n with "+FTPGET: 2,m", m <= n bytes of the *)
(* file and "OK"; after m = 0 it announces more data with "+FTPGET: 1,1".  *)
(* It ends the session with "+FTPGET: 1,0" when the file is exhausted, or  *)
(* with an error code at any time.                                         *)
(***************************************************************************)
EXTENDS Programmer

VARIABLES
    reader,     \* the variables of ReaderFTP but pointer_command
    pointer_command,    \* characters in buffer_command, terminating zeros too
    wire,       \* pieces the chip has sent and the interrupt has not taken
    ftp,        \* session: open, file position, request heard, notice owed
    clean       \* in this session nothing happened that the file may suffer from

readerVars == <<reader, pointer_command, wire, ftp, clean>>

Junk == -3      \* a character of a line, taken for data

CommandSize == 32   \* the size of buffer_command, which nothing compares with

\* cmd is what buffer_command holds: nothing, the beginning of a line, a whole
\* line, a line without its beginning, or the line that ended the session.
ReaderInitial ==
    [received_command |-> FALSE, cmd |-> "empty", need |-> 0, from |-> 0,
     pointer |-> 0, buffer |-> [i \in 1 .. Buf |-> Nil],
     requested |-> FALSE, eof |-> FALSE]

NoSession == [open |-> FALSE, pos |-> 0, ask |-> 0, owes |-> FALSE]

ReaderInit ==
    reader = ReaderInitial /\ pointer_command = 0 /\ wire = <<>> /\ ftp = NoSession /\ clean = FALSE

-----------------------------------------------------------------------------
(* ReaderFTP::Reset and ReceiveBytes, statement by statement.              *)

\* Reset clears these in this order; ReceiveBytes then sets need_bytes and
\* transmits the request.
ReceiveBytes ==
    <<"pointer_command", "received_command", "pointer_data", "need_bytes",
      "requested", "request", "transmit">>

\* Mutant: Reset leaves pointer_data alone.
ClearedNotPointer(statement) ==
    CASE statement = "pointer_command"  -> [reader EXCEPT !.cmd = "empty"]
      [] statement = "received_command" -> [reader EXCEPT !.received_command = FALSE]
      [] statement = "pointer_data"     -> reader
      [] statement = "need_bytes"       -> [reader EXCEPT !.need = 0]
      [] statement = "requested"        -> [reader EXCEPT !.requested = FALSE]

Cleared(statement) ==
    CASE statement = "pointer_command"  -> [reader EXCEPT !.cmd = "empty"]
      [] statement = "received_command" -> [reader EXCEPT !.received_command = FALSE]
      [] statement = "pointer_data"     -> [reader EXCEPT !.pointer = 0]
      [] statement = "need_bytes"       -> [reader EXCEPT !.need = 0]
      [] statement = "requested"        -> [reader EXCEPT !.requested = FALSE]

PointerCleared(statement) ==
    pointer_command' = IF statement = "pointer_command" THEN 0 ELSE pointer_command

Request(n) == ftp' = [ftp EXCEPT !.ask = n]

-----------------------------------------------------------------------------
(* The chip: external.                                                     *)

Piece(kind, text, n) == [kind |-> kind, text |-> text, n |-> n]

Line(text, n) == <<Piece("head", text, n), Piece("tail", text, n), Piece("lf", text, n)>>

\* How many bytes the chip gives of n: none, one, or all.
Given(n) == {0, Min({1, n}), n}

\* An answer to a request: m bytes from the file position on.
ChipData ==
    /\ ftp.open /\ ftp.ask > 0
    /\ \E m \in Given(Min({ftp.ask, FileSize - ftp.pos})) :
         /\ wire' = wire \o Line("2", m)
                         \o [i \in 1 .. m |-> Piece("data", "", ftp.pos + i)]
                         \o Line("OK", 0)
         /\ ftp' = [ftp EXCEPT !.pos = @ + m, !.ask = 0, !.owes = m = 0]
         /\ clean' = (clean /\ (ftp.pos < 2 * Word => m \in {0, ftp.ask}))
    /\ UNCHANGED <<reader, pointer_command>>

\* A request when there is no session.
ChipError ==
    /\ ~ftp.open /\ ftp.ask > 0
    /\ wire' = wire \o Line("ERROR", 0)
    /\ ftp' = [ftp EXCEPT !.ask = 0]
    /\ UNCHANGED <<reader, pointer_command, clean>>

\* Data have come after the answer "2,0".
ChipMore ==
    /\ ftp.open /\ ftp.owes /\ ftp.pos < FileSize
    /\ wire' = wire \o Line("1,1", 0)
    /\ ftp' = [ftp EXCEPT !.owes = FALSE]
    /\ UNCHANGED <<reader, pointer_command, clean>>

\* The whole file has been read.
ChipEnd ==
    /\ ftp.open /\ ftp.pos = FileSize
    /\ wire' = wire \o Line("1,0", 0)
    /\ ftp' = [ftp EXCEPT !.open = FALSE]
    /\ UNCHANGED <<reader, pointer_command, clean>>

\* The session fails: "+FTPGET: 1,61" and the like.
ChipFail ==
    /\ ftp.open
    /\ wire' = wire \o Line("1,6x", 0)
    /\ ftp' = [ftp EXCEPT !.open = FALSE]
    /\ clean' = FALSE
    /\ UNCHANGED <<reader, pointer_command>>

Chip == ChipData \/ ChipError \/ ChipMore \/ ChipEnd \/ ChipFail

-----------------------------------------------------------------------------
(* ReaderFTP::AppendByte, in the interrupt.                                *)

AppendData(piece) ==
    LET full == reader.pointer + 1 = reader.from
    IN  /\ reader' = [reader EXCEPT
            !.buffer = IF reader.pointer < Buf
                       THEN [@ EXCEPT ![reader.pointer + 1] =
                                 IF piece.kind = "data" THEN piece.n ELSE Junk]
                       ELSE @,
            !.pointer = @ + 1,
            !.received_command = ~full,
            !.cmd = IF full THEN "empty" ELSE @,
            !.requested = @ \/ full]
        /\ pointer_command' = IF full THEN 0 ELSE pointer_command

\* Characters of the longest line with this text ("+FTPGET: 2,64", "ERROR"...).
LineLength(text) ==
    CASE text = "OK" -> 2 [] text = "ERROR" -> 5 [] text \in {"2", "1,6x"} -> 13
      [] OTHER -> 12

\* Characters of a piece.
PieceLength(piece) ==
    IF piece.kind = "tail" THEN LineLength(piece.text) - 1 ELSE 1

\* A character of a line.  After "+FTPGET: 1,0" pointer_command stands behind
\* the terminating zero, so that the old text is parsed again.
AppendChar(piece) ==
    /\ reader' = [reader EXCEPT
        !.cmd = CASE @ = "ended"                              -> "ended"
                  [] @ = "empty" /\ piece.kind = "head"       -> "begun"
                  [] @ = "begun" /\ piece.kind = "tail"       -> "whole"
                  [] OTHER                                    -> "torn"]
    /\ pointer_command' = pointer_command + PieceLength(piece)

\* What the line feed finds in buffer_command.
Parsed(piece) == IF reader.cmd = "ended" THEN "1,0"
                 ELSE IF reader.cmd = "whole" THEN piece.text ELSE "torn"

\* Mutant: no line is taken out.
LineFeedKeepsLine(piece) ==
    pointer_command' = IF reader.cmd = "empty" THEN pointer_command
                       ELSE pointer_command + 1

\* The terminating zero is written; the line stays when the session has ended
\* and while its data are received.
LineFeed(piece) ==
    pointer_command' = IF reader.cmd = "empty" THEN pointer_command
                       ELSE IF \/ Parsed(piece) \in {"1,0", "1,6x"}
                               \/ Parsed(piece) = "2" /\ piece.n > 0
                            THEN pointer_command + 1 ELSE 0

\* The line feed: only a whole line that begins with +FTPGET has an effect.
AppendLF(piece) ==
    /\ LineFeed(piece)
    /\ CASE reader.cmd = "empty" -> UNCHANGED <<reader, ftp>>
          [] reader.cmd # "empty" /\ Parsed(piece) = "1,1" ->
                /\ reader' = [reader EXCEPT !.cmd = "empty"]
                /\ Request(reader.need)
          [] reader.cmd # "empty" /\ Parsed(piece) \in {"1,0", "1,6x"} ->
                /\ reader' = [reader EXCEPT !.cmd = "ended", !.eof = TRUE]
                /\ UNCHANGED ftp
          [] reader.cmd # "empty" /\ Parsed(piece) = "2" ->
                /\ reader' = [reader EXCEPT
                        !.from = piece.n,
                        !.received_command = piece.n > 0,
                        !.cmd = IF piece.n > 0 THEN @ ELSE "empty"]
                /\ UNCHANGED ftp
          [] OTHER ->
                /\ reader' = [reader EXCEPT !.cmd = "empty"]
                /\ UNCHANGED ftp

AppendByte ==
    /\ wire # <<>>
    /\ LET piece == Head(wire)
       IN  CASE reader.received_command -> AppendData(piece) /\ UNCHANGED ftp
             [] ~reader.received_command /\ piece.kind = "lf" -> AppendLF(piece)
             [] OTHER -> AppendChar(piece) /\ UNCHANGED ftp
    /\ wire' = Tail(wire)
    /\ UNCHANGED clean
=============================================================================
