----------------------------- MODULE LoaderClean -----------------------------
(***************************************************************************)
(* A session from the beginning of the file in which nothing failed ends   *)
(* with the firmware in the storage and a checksum that agrees, for every  *)
(* size of the file, the buffer and the flash and every interleaving of    *)
(* the main loop, the interrupt and the chip.                              *)
(*                                                                         *)
(* Two invariants are added to FlashInv.  StorageInv: what Prepare leaves  *)
(* of the storage is erased, although PageIsEmpty looks at a part of the   *)
(* words only.  CleanInv: the position of the chip in the file is that of  *)
(* the last byte given on, plus what the reader keeps, plus what is on the *)
(* wire.                                                                   *)
(***************************************************************************)
EXTENDS LoaderRefinement

\* The notices of the chip about the session.
MoreText == "1,1"
EndText  == "1,0"
FailText == "1,6x"

\* The region that receives the file.
Storage == ADDR_STORAGE .. ADDR_BOOTLOADER - 1

\* The list of statements begins with SetState: the checksum has been read.
Switching == todo # <<>> /\ todo[1] = "SetState"

\* Programmer has been given the file from its third word on.
Programming == upd = "GET_BYTES_FIRMWARE" /\ copy = NoCopy

\* The part of the storage that has not been programmed in this session is
\* erased, page by page while Prepare goes on.
Prepared ==
    /\ copy = NoCopy /\ Preparing =>
         \A a \in Storage : a \div Page < Visited => rom[a] = Erased
    /\ Switching /\ ~Preparing => \A a \in Storage : rom[a] = Erased
    /\ Programming => \A a \in Storage : a >= prog.address => rom[a] = Erased

\* While no word has failed, a page of the storage is programmed from its first
\* byte on, where PageIsEmpty looks.
FromTheStart ==
    /\ \A a \in Storage : rom[(a \div Page) * Page] = Erased => rom[a] = Erased
    /\ Programming => \A p \in Nat : ADDR_STORAGE <= p * Page /\ p * Page < prog.address
                                       /\ p * Page < ADDR_BOOTLOADER => rom[p * Page] # Erased

\* No byte of the file looks like an erased one, in the reader ...
Incoming ==
    /\ \A i \in 1 .. Len(wire) : wire[i].kind = "data" => wire[i].n > 0
    /\ \A i \in 1 .. reader.pointer : reader.buffer[i] # Erased

\* ... nor in Programmer, where the last word may be filled up.
Outgoing ==
    Programming =>
        /\ \A i \in 1 .. Len(prog.bytes) : prog.bytes[i] # Erased
        /\ \A k \in Nat : k * Word < Len(out) => out[k * Word + 1] # Erased

\* What the flash needs: a page that Prepare takes for empty is empty.
StorageInv ==
    /\ Incoming /\ Outgoing
    /\ faults = 0 => FromTheStart
    /\ faults = 0 \/ Stride = 1 => Prepared

\* A session from the beginning of the file in which nothing failed.
Clean == clean /\ upd \in Receiving /\ copy = NoCopy

\* A piece of the header of an answer with data.
Announces(p) == p.text = "2" /\ p.n > 0
Header(p) == p.kind = "lf" /\ Announces(p)

\* What may come behind a piece on the wire.
Follows(p, q) ==
    CASE p.kind = "head" -> q = [p EXCEPT !.kind = "tail"]
      [] p.kind = "tail" -> q = [p EXCEPT !.kind = "lf"]
      [] p.kind = "lf"   -> q.kind = IF Announces(p) THEN "data" ELSE "head"
      [] p.kind = "data" -> q.kind \in {"data", "head"}

\* Whole lines and whole answers are on the wire, the first of them perhaps in
\* part, and no notice of a failure.
WireShape(w) ==
    /\ \A i \in 1 .. Len(w) - 1 : Follows(w[i], w[i + 1])
    /\ w # <<>> => w[Len(w)].kind = "lf" /\ ~Announces(w[Len(w)])
    /\ \A i \in 1 .. Len(w) : w[i].text # FailText

\* n data pieces of w behind the h-th piece, the bytes of the file behind
\* position b, and no others.
Block(w, h, n, b) ==
    /\ h + n <= Len(w)
    /\ \A i \in 1 .. n : w[h + i] = Piece("data", "", b + i)
    /\ \A j \in 1 .. Len(w) : w[j].kind = "data" => j \in h + 1 .. h + n

\* The position in the file up to which its bytes have been given on.
Consumed ==
    CASE upd = "GET_BYTES_VER"      -> 0
      [] upd = "GET_BYTES_CRC"      -> IF Switching THEN 2 * Word ELSE Word
      [] upd = "GET_BYTES_FIRMWARE" -> 2 * Word + Stored

\* A request is under way, or its answer is in the buffer.
InAnswer == Stage \in 8 .. 10 \cup {Idle}
Taking == reader.received_command /\ InAnswer
Kept == IF Taking THEN reader.from ELSE IF InAnswer THEN reader.pointer ELSE 0

\* No data are on the wire, announced on the wire, or announced by a line there.
NoData == \A i \in 1 .. Len(wire) : wire[i].kind # "data"
NoHeader == \A i \in 1 .. Len(wire) : ~Header(wire[i])
NoneComing == NoData /\ \A i \in 1 .. Len(wire) : ~Announces(wire[i])

\* The last answer of a session has been taken.
Ended == ~ftp.open /\ ftp.pos = FileSize /\ ~reader.received_command /\ NoneComing

\* Nothing has been requested yet.
Fresh == upd = "GET_BYTES_VER" /\ Stage <= 7

\* Behind the notice of the end there are no data.
EndNoticed ==
    \A i \in 1 .. Len(wire) : wire[i].text = EndText =>
        /\ ~ftp.open /\ ftp.pos = FileSize
        /\ \A j \in i .. Len(wire) : wire[j].kind # "data" /\ ~Announces(wire[j])

\* The wire, and the session of the chip.
CleanWire ==
    /\ WireShape(wire) /\ EndNoticed
    /\ Fresh => wire = <<>> /\ ftp.ask = 0 /\ ~ftp.owes
    /\ ftp.open \/ ftp.pos = FileSize

\* A line that announces data is taken from its first character on, and so is
\* the next line.
LineTaken ==
    ~Taking /\ wire # <<>> /\ Announces(wire[1]) =>
        /\ wire[1].kind = "tail" => reader.cmd = "begun"
        /\ wire[1].kind = "lf" => reader.cmd = "whole"
LineBegins ==
    ~Taking /\ (wire = <<>> \/ wire[1].kind = "head") /\ ~(Fresh /\ Stage <= 1) =>
        reader.cmd \in {"empty", "ended"}
\* A command that ended the session stays in the buffer only then.
CommandEnded == reader.cmd = "ended" => Ended \/ (Fresh /\ Stage <= 1)

\* The line the reader takes.
CleanCommand == LineTaken /\ LineBegins /\ CommandEnded

\* The data that are announced, those that are taken, and those in the buffer
\* continue what has been given on.
Announced ==
    \A h \in 1 .. Len(wire) : Header(wire[h]) =>
        Block(wire, h, wire[h].n, Consumed) /\ ftp.pos = Consumed + wire[h].n
Arriving == Taking => Block(wire, 0, reader.from - reader.pointer, Consumed + reader.pointer)
Buffered == InAnswer => \A i \in 1 .. reader.pointer : reader.buffer[i] = Consumed + i

\* No byte of the file is lost or comes twice: the chip is as far in the file
\* as what has been given on, what is kept and what is announced.
CleanData ==
    /\ Announced /\ Arriving /\ Buffered
    /\ NoHeader => ftp.pos = Consumed + Kept
    /\ NoHeader /\ ~Taking => NoData

\* The version and the checksum are asked for and come in one word each.
CleanRequest ==
    /\ reader.received_command => InAnswer \/ Fresh
    /\ InAnswer /\ reader.requested => reader.pointer > 0 /\ ~reader.received_command
    /\ upd # "GET_BYTES_FIRMWARE" =>
         /\ ftp.pos \in {Consumed, Consumed + Word}
         /\ Stage >= 7 => reader.need = Word
         /\ ftp.ask \in {0, Word}

\* ClearEOF is still to be executed.
EofStale == todo # <<>> /\ todo[Len(todo)] = "received_FTPGET_1_0"

\* The flag of the end is not believed before the file has ended.
CleanEnd ==
    /\ Switching => EofStale
    /\ Stage \in 12 .. 13 => Ended
    /\ upd = "GET_BYTES_FIRMWARE" /\ reader.eof /\ ~EofStale => Ended

\* The checksum is the file's, and so is every byte in Programmer and, when
\* the pages were really erased, in the storage.
CleanContents ==
    /\ upd = "GET_BYTES_FIRMWARE" \/ Switching => source_crc = FileCRC
    /\ upd = "GET_BYTES_FIRMWARE" =>
         /\ \A i \in 1 .. Len(out) : out[i] = 2 * Word + prog.written + i
         /\ \A i \in 1 .. Len(prog.bytes) :
              prog.bytes[i] = 2 * Word + prog.written + Len(out) + i
         /\ faults = 0 \/ Stride = 1 =>
             \A i \in 1 .. prog.written : rom[ADDR_STORAGE + i - 1] = 2 * Word + i

\* The inductive invariant, together with SessionInv.
CleanInv ==
    Clean => CleanWire /\ CleanCommand /\ CleanData /\ CleanRequest /\ CleanEnd /\ CleanContents

\* The texts of the chip's lines differ.
LEMMA TextNames ==
  /\ MoreText \in Texts /\ EndText \in Texts /\ FailText \in Texts
  /\ "2" \in Texts /\ "OK" \in Texts /\ "ERROR" \in Texts /\ "" \in Texts
  /\ MoreText # EndText /\ MoreText # FailText /\ EndText # FailText
  /\ "2" \notin {MoreText, EndText, FailText} /\ "OK" \notin {MoreText, EndText, FailText}
  /\ "ERROR" \notin {MoreText, EndText, FailText} /\ "" \notin {MoreText, EndText, FailText}
  /\ "2" \notin {"OK", "ERROR", ""}
  BY DEF MoreText, EndText, FailText, Texts

-----------------------------------------------------------------------------
(* The storage.                                                            *)

\* The storage, its pages and its words.
LEMMA StoragePages ==
  ASSUME NEW a \in Storage
  PROVE  /\ a \in ROM /\ a \in Nat /\ ADDR_STORAGE <= a /\ a < ADDR_BOOTLOADER
         /\ a \div Page \in Nat
         /\ (a \div Page) * Page <= a /\ a < (a \div Page + 1) * Page
         /\ (a \div Page) * Page \in Storage
         /\ ((a \div Page) * Page) \div Page = a \div Page
         /\ NumPages <= a \div Page /\ a \div Page < NumPages + NumPages
  <1> DEFINE q == a \div Page
  <1>1. /\ ADDR_STORAGE \in Nat \ {0} /\ ADDR_STORAGE = NumPages * Page
        /\ ADDR_BOOTLOADER = ADDR_STORAGE + ADDR_STORAGE
        /\ ADDR_BOOTLOADER = (NumPages + NumPages) * Page
        /\ Page \in Nat \ {0} /\ NumPages \in Nat
    BY Regions, Parameters
  <1>2. a \in Nat /\ ADDR_STORAGE <= a /\ a < ADDR_BOOTLOADER /\ a \in ROM
    BY <1>1, Regions DEF Storage
  <1>3. q \in Nat
    BY <1>2, PageBounds
  <1>4. q * Page <= a /\ a < (q + 1) * Page
    <2>1. \A p \in Nat : q = p => p * Page <= a /\ a < (p + 1) * Page
      BY <1>2, PageBounds
    <2> HIDE DEF q
    <2> QED BY <1>3, <2>1
  <1> HIDE DEF q
  <1>5. q * Page \in Nat /\ (q + 1) * Page = q * Page + Page
    BY <1>1, <1>3, Product
  <1>6. q < NumPages + NumPages
    <2>1. ASSUME NumPages + NumPages <= q PROVE FALSE
      <3>1. (NumPages + NumPages) * Page <= q * Page
        BY <1>1, <1>3, <2>1, Monotone
      <3> QED BY <1>1, <1>2, <1>4, <1>5, <3>1
    <2> QED BY <1>1, <1>3, <2>1
  <1>7. NumPages <= q
    <2>1. ASSUME q < NumPages PROVE FALSE
      <3>1. (q + 1) * Page <= NumPages * Page
        BY <1>1, <1>3, <2>1, Monotone
      <3> QED BY <1>1, <1>2, <1>4, <1>5, <3>1
    <2> QED BY <1>1, <1>3, <2>1
  <1>8. q * Page \in Storage
    <2>1. NumPages * Page <= q * Page
      BY <1>1, <1>3, <1>7, Monotone
    <2> QED BY <1>1, <1>2, <1>4, <1>5, <2>1 DEF Storage
  <1>10. (q * Page) \div Page = q
    <2>1. q * Page <= q * Page /\ q * Page < (q + 1) * Page
      BY <1>1, <1>5
    <2> QED BY <1>3, <1>5, <2>1, PageBounds
  <1> QED BY <1>2, <1>3, <1>4, <1>6, <1>7, <1>8, <1>10 DEF q

\* A page holds whole words, so a word lies in one page and in one region.
LEMMA PageWords ==
  /\ IsMultiple(ADDR_STORAGE) /\ IsMultiple(ADDR_BOOTLOADER) /\ IsMultiple(Page)
  /\ \A p \in Nat : IsMultiple(p * Page)
  <1>1. Page \in Nat \ {0} /\ Word \in Nat \ {0} /\ Stride \in Nat \ {0} /\ NumPages \in Nat
    BY Parameters
  <1>2. PICK j \in Nat : Page = j * Word
    <2> DEFINE g == Word * Stride
    <2>1. g \in Nat \ {0} /\ Page % g = 0
      BY <1>1, ProgrammerAssumption
    <2> HIDE DEF g
    <2>2. Page = (Page \div g) * g + (Page % g) /\ Page \div g \in Nat
      BY <1>1, <2>1, Remainder
    <2>3. Page = (Page \div g) * g
      BY <1>1, <2>1, <2>2
    <2>4. Page = ((Page \div g) * Stride) * Word
      BY <1>1, <2>2, <2>3 DEF g
    <2>5. (Page \div g) * Stride \in Nat
      BY <1>1, <2>2, Product
    <2> QED BY <2>4, <2>5
  <1>3. ASSUME NEW p \in Nat PROVE IsMultiple(p * Page)
    <2>1. p * Page = (p * j) * Word /\ p * j \in Nat
      BY <1>1, <1>2
    <2> QED BY <2>1 DEF IsMultiple
  <1>4. IsMultiple(Page)
    BY <1>2 DEF IsMultiple
  <1>5. ADDR_STORAGE = NumPages * Page /\ ADDR_BOOTLOADER = (NumPages + NumPages) * Page
    BY Regions
  <1>6. NumPages + NumPages \in Nat
    BY <1>1
  <1> QED BY <1>1, <1>3, <1>4, <1>5, <1>6

\* With Stride = 1 PageIsEmpty reads every word of the page.
LEMMA EmptyThroughout ==
  ASSUME Stride = 1, NEW p \in Nat, PageIsEmpty(p), NEW a \in ROM, a \div Page = p
  PROVE  rom[a] = Erased
  <1> DEFINE d == a - p * Page
             n == Span * Page
  <1>1. Word \in Nat \ {0} /\ Page \in Nat \ {0} /\ Span \in Nat \ {0} /\ a \in Nat
    BY Parameters, Regions
  <1>2. p * Page <= a /\ a < (p + 1) * Page
    BY <1>1, PageBounds
  <1>3. p * Page \in Nat /\ (p + 1) * Page = p * Page + Page
    BY <1>1, Product
  <1>4. d \in Nat /\ d < Page /\ a = p * Page + d
    BY <1>1, <1>2, <1>3
  <1>5. n \in Nat /\ n >= Page /\ IsMultiple(n)
    <2>1. 1 * Page <= Span * Page
      BY <1>1, Monotone
    <2> QED BY <1>1, <2>1, Product, PageWords
  <1> HIDE DEF d, n
  <1>6. PICK j \in Nat : n = j * Word
    BY <1>5 DEF IsMultiple
  <1> DEFINE k == d \div Word
             b == d % Word
  <1>7. d = k * Word + b /\ k \in Nat /\ b \in 0 .. Word - 1
    BY <1>1, <1>4, Remainder
  <1>8. n \div Word = j
    <2>1. n = (n \div Word) * Word + (n % Word) /\ n \div Word \in Nat /\ n % Word \in 0 .. Word - 1
      BY <1>1, <1>5, Remainder
    <2> DEFINE e == n \div Word
    <2>2. e \in Nat /\ e * Word <= j * Word /\ j * Word < e * Word + Word
      BY <1>1, <1>6, <2>1
    <2> HIDE DEF e
    <2>3. (e + 1) * Word = e * Word + Word /\ (j + 1) * Word = j * Word + Word
      BY <1>1, <2>2
    <2>4. e * Word \in Nat /\ j * Word \in Nat
      BY <1>1, <2>2, Product
    <2>5. ~(e < j)
      <3>1. ASSUME e < j PROVE FALSE
        <4>1. (e + 1) * Word <= j * Word
          BY <1>1, <2>2, <3>1, Monotone
        <4> QED BY <1>1, <2>2, <2>3, <2>4, <4>1
      <3> QED BY <3>1
    <2>6. ~(j < e)
      <3>1. ASSUME j < e PROVE FALSE
        <4>1. (j + 1) * Word <= e * Word
          BY <1>1, <2>2, <3>1, Monotone
        <4> QED BY <1>1, <2>2, <2>3, <2>4, <4>1
      <3> QED BY <3>1
    <2>7. e = j
      BY <2>2, <2>5, <2>6
    <2> QED BY <2>7 DEF e
  <1> HIDE DEF k, b
  <1>9. k < j
    <2>1. ASSUME j <= k PROVE FALSE
      <3>1. j * Word <= k * Word
        BY <1>1, <1>7, <2>1, Monotone
      <3>2. k * Word \in Nat
        BY <1>1, <1>7, Product
      <3> QED BY <1>1, <1>4, <1>5, <1>6, <1>7, <3>1, <3>2
    <2> QED BY <1>7, <2>1
  <1>10. n \div (Word * Stride) = j
    BY <1>1, <1>8
  <1>11. k \in 0 .. n \div (Word * Stride) - 1
    BY <1>7, <1>9, <1>10
  <1>12. rom[p * Page + k * Word * Stride + b] = Erased
    BY <1>7, <1>11 DEF PageIsEmpty, n
  <1>13. p * Page + k * Word * Stride + b = a
    <2>1. k * Word \in Nat /\ k * Word * Stride = k * Word
      BY <1>1, <1>7, Product
    <2> QED BY <1>3, <1>4, <1>7, <2>1
  <1> QED BY <1>12, <1>13

-----------------------------------------------------------------------------
(* What AppendByte does, field by field.                                   *)

\* These variables of the reader keep their values.
SameReader(fields) == \A f \in fields : reader'[f] = reader[f]

\* A byte is taken as data.
AppendsData ==
    /\ reader.received_command /\ ftp' = ftp
    /\ reader'.buffer = [reader.buffer EXCEPT ![reader.pointer + 1] =
                            IF wire[1].kind = "data" THEN wire[1].n ELSE Junk]
    /\ reader.pointer + 1 \in 1 .. Buf /\ reader'.pointer = reader.pointer + 1
    /\ reader'.received_command = (reader.pointer + 1 # reader.from)
    /\ reader'.requested = (reader.requested \/ reader.pointer + 1 = reader.from)
    /\ reader'.cmd = IF reader.pointer + 1 = reader.from THEN "empty" ELSE reader.cmd
    /\ SameReader({"need", "from", "eof"})

\* A character of a line is taken.
AppendsChar ==
    /\ ~reader.received_command /\ ftp' = ftp /\ wire[1].kind # "lf"
    /\ reader'.cmd = CASE reader.cmd = "ended"                               -> "ended"
                       [] reader.cmd = "empty" /\ wire[1].kind = "head"      -> "begun"
                       [] reader.cmd = "begun" /\ wire[1].kind = "tail"      -> "whole"
                       [] OTHER                                              -> "torn"
    /\ SameReader({"need", "from", "eof", "buffer", "pointer", "received_command", "requested"})

\* A line ends that says nothing to the reader.
EndsLine ==
    /\ ~reader.received_command /\ ftp' = ftp /\ wire[1].kind = "lf"
    /\ reader.cmd # "ended"
    /\ reader.cmd = "whole" => ~Announces(wire[1]) /\ wire[1].text \notin {EndText, FailText}
    /\ reader'.cmd = "empty"
    /\ SameReader({"need", "eof", "buffer", "pointer", "received_command", "requested"})

\* The notice that data are ready ends: the request is repeated.
EndsNotice ==
    /\ ~reader.received_command /\ wire[1].kind = "lf" /\ wire[1].text = MoreText
    /\ reader.cmd = "whole" /\ reader'.cmd = "empty"
    /\ ftp' = [ftp EXCEPT !.ask = reader.need]
    /\ SameReader({"need", "from", "eof", "buffer", "pointer", "received_command", "requested"})

\* The notice of the end, or of a failure, ends.
EndsSession ==
    /\ ~reader.received_command /\ ftp' = ftp /\ wire[1].kind = "lf"
    /\ reader.cmd = "ended" \/ wire[1].text \in {EndText, FailText}
    /\ reader'.cmd = "ended" /\ reader'.eof = TRUE
    /\ SameReader({"need", "from", "buffer", "pointer", "received_command", "requested"})

\* The line that announces data ends.
EndsHeader ==
    /\ ~reader.received_command /\ ftp' = ftp /\ wire[1].kind = "lf" /\ Announces(wire[1])
    /\ reader'.received_command = TRUE /\ reader'.from = wire[1].n
    /\ reader.cmd = "whole" /\ reader'.cmd = "whole"
    /\ SameReader({"need", "eof", "buffer", "pointer", "requested"})

\* The cases of AppendByte.
LEMMA AppendCases ==
  ASSUME SessionInv, AppendByte
  PROVE  /\ wire # <<>> /\ wire \in Seq(Pieces) /\ wire' = Tail(wire) /\ clean' = clean
         /\ wire[1] \in Pieces
         /\ AppendsData \/ AppendsChar \/ EndsLine \/ EndsNotice \/ EndsSession \/ EndsHeader
  <1>1. /\ wire \in Seq(Pieces) /\ wire # <<>> /\ reader \in ReaderType /\ ftp \in FtpType
        /\ wire' = Tail(wire) /\ clean' = clean
    BY DEF SessionInv, LoaderTypes, AppendByte
  <1>2. wire[1] \in Pieces /\ Head(wire) = wire[1]
    BY <1>1
  <1> DEFINE piece == wire[1]
  <1>3. reader.received_command => reader.pointer < reader.from
    BY DEF SessionInv, OneRequest, DataCanEnd
  <1>4. Buf \in Nat \ {0} /\ piece.n \in Nat
    BY <1>2, Parameters DEF Pieces
  <1> HIDE DEF piece
  <1>5. CASE reader.received_command
    <2>1. AppendData(piece) /\ ftp' = ftp
      BY <1>2, <1>5 DEF AppendByte, piece
    <2>2. reader.pointer + 1 \in 1 .. Buf /\ reader.pointer < Buf
      BY <1>1, <1>3, <1>4, <1>5 DEF ReaderType
    <2>3. AppendsData
      BY <1>1, <1>5, <2>1, <2>2 DEF AppendData, AppendsData, SameReader, ReaderType, piece
    <2> QED BY <1>1, <1>2, <2>3
  <1>6. CASE ~reader.received_command /\ piece.kind # "lf"
    <2>1. AppendChar(piece) /\ ftp' = ftp
      BY <1>2, <1>6 DEF AppendByte, piece
    <2>2. AppendsChar
      BY <1>1, <1>6, <2>1 DEF AppendChar, AppendsChar, SameReader, ReaderType, piece
    <2> QED BY <1>1, <1>2, <2>2
  <1>7. CASE ~reader.received_command /\ piece.kind = "lf"
    <2>1. AppendLF(piece)
      BY <1>2, <1>7 DEF AppendByte, piece
    <2>2. CASE reader.cmd = "empty"
      <3>1. UNCHANGED <<reader, ftp>>
        BY <2>1, <2>2 DEF AppendLF
      <3>2. EndsLine
        BY <1>7, <2>2, <3>1 DEF EndsLine, SameReader, piece
      <3> QED BY <1>1, <1>2, <3>2
    <2>3. CASE reader.cmd = "ended" \/ (reader.cmd = "whole" /\ piece.text \in {EndText, FailText})
      <3>1. reader' = [reader EXCEPT !.cmd = "ended", !.eof = TRUE] /\ UNCHANGED ftp
        <4>1. reader.cmd # "empty" /\ Parsed(piece) \in {"1,0", "1,6x"}
          BY <2>3 DEF Parsed, EndText, FailText
        <4> QED BY <2>1, <4>1 DEF AppendLF
      <3>2. EndsSession
        BY <1>1, <1>7, <2>3, <3>1 DEF EndsSession, SameReader, ReaderType, piece
      <3> QED BY <1>1, <1>2, <3>2
    <2>4. CASE reader.cmd = "whole" /\ piece.text = MoreText
      <3>1. reader' = [reader EXCEPT !.cmd = "empty"] /\ Request(reader.need)
        <4>1. reader.cmd # "empty" /\ Parsed(piece) = "1,1"
          BY <2>4 DEF Parsed, MoreText
        <4> QED BY <2>1, <4>1 DEF AppendLF
      <3>2. EndsNotice
        BY <1>1, <1>7, <2>4, <3>1 DEF EndsNotice, SameReader, ReaderType, Request, piece
      <3> QED BY <1>1, <1>2, <3>2
    <2>5. CASE reader.cmd = "whole" /\ piece.text = "2"
      <3>1. /\ reader' = [reader EXCEPT !.from = piece.n, !.received_command = piece.n > 0,
                                        !.cmd = IF piece.n > 0 THEN @ ELSE "empty"]
            /\ UNCHANGED ftp
        <4>1. reader.cmd # "empty" /\ Parsed(piece) = "2"
          BY <2>5 DEF Parsed
        <4> QED BY <2>1, <4>1 DEF AppendLF
      <3>2. CASE piece.n > 0
        <4>1. EndsHeader
          BY <1>1, <1>7, <2>5, <3>1, <3>2 DEF EndsHeader, SameReader, ReaderType, Announces, piece
        <4> QED BY <1>1, <1>2, <4>1
      <3>3. CASE ~(piece.n > 0)
        <4>2. /\ reader'.cmd = "empty" /\ ftp' = ftp /\ reader'.received_command = FALSE
              /\ SameReader({"need", "eof", "buffer", "pointer", "requested"})
          <5>1. (piece.n > 0) = FALSE
            BY <3>3
          <5>2. /\ reader' = [reader EXCEPT !.from = piece.n, !.received_command = FALSE,
                                           !.cmd = "empty"]
                /\ UNCHANGED ftp
            BY <3>1, <5>1
          <5> QED BY <1>1, <5>2 DEF SameReader, ReaderType
        <4>3. SameReader({"need", "eof", "buffer", "pointer", "received_command", "requested"})
          <5>1. reader.received_command = FALSE
            BY <1>1, <1>7 DEF ReaderType
          <5> QED BY <4>2, <5>1, Zenon DEF SameReader
        <4>4. ~Announces(wire[1]) /\ wire[1].text \notin {EndText, FailText} /\ reader.cmd # "ended"
          BY <2>5, <3>3, TextNames DEF Announces, piece
        <4>1. EndsLine
          BY <1>7, <4>2, <4>3, <4>4 DEF EndsLine, piece
        <4> QED BY <1>1, <1>2, <4>1
      <3> QED BY <3>2, <3>3
    <2>6. CASE /\ reader.cmd \notin {"empty", "ended"}
               /\ reader.cmd = "whole" => piece.text \notin {EndText, FailText, MoreText, "2"}
      <3>1. reader' = [reader EXCEPT !.cmd = "empty"] /\ UNCHANGED ftp
        <4>1. reader.cmd # "empty" /\ Parsed(piece) \notin {"1,1", "1,0", "1,6x", "2"}
          BY <2>6 DEF Parsed, EndText, FailText, MoreText
        <4> QED BY <2>1, <4>1 DEF AppendLF
      <3>2. EndsLine
        BY <1>1, <1>7, <2>6, <3>1 DEF EndsLine, SameReader, ReaderType, Announces, piece
      <3> QED BY <1>1, <1>2, <3>2
    <2> QED BY <2>2, <2>3, <2>4, <2>5, <2>6
  <1> QED BY <1>5, <1>6, <1>7

-----------------------------------------------------------------------------
(* The storage is programmed from its beginning on.                        *)

\* Once the copy has begun the image is not programmed any more.
LEMMA CopySteps ==
  ASSUME SessionInv, VerifyStored \/ CopyChunk \/ VerifyCopy
  PROVE  /\ UNCHANGED <<rom, faults, readerVars, mode>>
         /\ copy' # NoCopy \/ (upd' = "COMPLETED" /\ page' = page /\ ~Preparing)
         /\ todo' = <<>> \/ copy' # NoCopy
  <1>0. LoaderTypes /\ Control /\ Words
    BY DEF SessionInv, Lengths
  <1>1. CASE VerifyStored
    <2>1. /\ copy' = [size |-> prog.written, done |-> 0]
          /\ UNCHANGED <<rom, faults, readerVars, mode>>
      BY <1>1 DEF VerifyStored
    <2> QED BY <1>0, <2>1, CopyBegins
  <1>2. CASE CopyChunk
    <2>1. copy # NoCopy /\ UNCHANGED <<rom, faults, readerVars, mode>>
      BY <1>2 DEF CopyChunk, Copying
    <2>2. copy'.size = copy.size /\ copy.size \in Nat
      BY <1>0, <1>2, <2>1, CopyFields DEF CopyChunk
    <2> QED BY <2>1, <2>2 DEF NoCopy
  <1>3. CASE VerifyCopy
    <2>1. /\ copy # NoCopy /\ ~Preparing
          /\ UNCHANGED <<rom, faults, readerVars, mode, todo>>
          /\ \/ upd' = "COMPLETED" /\ copy' = NoCopy /\ page' = page
             \/ copy' = [size |-> prog.written, done |-> 0]
      BY <1>3 DEF VerifyCopy, Copying
    <2>2. todo = <<>>
      BY <1>0, <2>1 DEF Control
    <2> QED BY <1>0, <2>1, <2>2, CopyBegins DEF Preparing
  <1> QED BY <1>1, <1>2, <1>3

\* What the steps that leave the flash alone do to the variables the storage
\* depends on.
LEMMA StorageQuiet ==
  ASSUME SessionInv, [Next]_vars
  PROVE  \/ PrepareStep \/ WordStep
         \/ /\ UNCHANGED <<rom, faults>>
            /\ Programming' =>
                 (Programming /\ prog'.address = prog.address) \/ SetState
            /\ copy' = NoCopy /\ Preparing' =>
                 (copy = NoCopy /\ Preparing /\ page' = page) \/ GetCRC
            /\ Switching' /\ ~Preparing' => Switching /\ ~Preparing
  <1> DEFINE Goal == /\ UNCHANGED <<rom, faults>>
                     /\ Programming' =>
                          (Programming /\ prog'.address = prog.address) \/ SetState
                     /\ copy' = NoCopy /\ Preparing' =>
                          (copy = NoCopy /\ Preparing /\ page' = page) \/ GetCRC
                     /\ Switching' /\ ~Preparing' => Switching /\ ~Preparing
  <1>0. LoaderTypes /\ Control /\ Words
    BY DEF SessionInv, Lengths
  <1>1. ASSUME UNCHANGED <<rom, faults, page, prog, copy, todo>>, upd' = upd \/ upd' \notin Receiving
        PROVE  Goal
    BY <1>1 DEF Programming, Switching, Preparing, Receiving
  <1>2. ASSUME UNCHANGED <<rom, faults, page>>, ~Preparing, todo' = <<>>, upd' \notin Receiving
        PROVE  Goal
    BY <1>2 DEF Programming, Switching, Preparing, Receiving
  <1>3. ASSUME UNCHANGED <<rom, faults, page, copy>>, upd' = upd, prog'.address = prog.address,
               ~Preparing, todo' = <<>> \/ todo'[1] # "SetState"
        PROVE  Goal
    BY <1>3 DEF Programming, Switching, Preparing
  <1>4. CASE ResetStep
    BY <1>2, <1>4 DEF ResetStep, AtRest, Reset, Receiving
  <1>5. CASE QuietStep \/ UNCHANGED vars
    BY <1>1, <1>5 DEF QuietStep, vars, progVars, mainVars
  <1>6. CASE RestartStep
    <2>1. page' = NoPrepare /\ todo' = <<>> /\ upd' = "IDLE" /\ UNCHANGED <<rom, faults>>
      BY <1>6 DEF RestartStep, Restarted
    <2>2. ~Preparing' /\ ~Switching' /\ ~Programming'
      BY <2>1 DEF NoPrepare, Preparing, Switching, Programming
    <2> QED BY <2>1, <2>2
  <1>7. CASE Connected \/ GetVersion
    <2>1. /\ UNCHANGED <<rom, faults, page, copy>> /\ upd' # "GET_BYTES_FIRMWARE" /\ ~Preparing
          /\ todo' = ReceiveBytes
      BY <1>7 DEF Connected, GetVersion, progVars, AtUpdate
    <2>2. todo'[1] = "pointer_command"
      BY <2>1 DEF ReceiveBytes
    <2> QED BY <2>1, <2>2 DEF Programming, Switching, Preparing
  <1>8. CASE GetCRC
    <2>1. UNCHANGED <<rom, faults>> /\ upd' = "GET_BYTES_CRC" /\ Prepare(ADDR_STORAGE)
      BY <1>8 DEF GetCRC
    <2>2. Preparing'
      BY <2>1, Parameters DEF Prepare, Preparing
    <2> QED BY <1>8, <2>1, <2>2 DEF Programming
  <1>9. CASE GetLastBytes \/ GetBytes
    <2>1. /\ UNCHANGED <<rom, faults, page, copy>> /\ upd' = upd /\ ~Preparing
          /\ prog' = prog \/ WriteBytes(Received)
      BY <1>9 DEF GetLastBytes, GetBytes, AtUpdate
    <2>2. prog'.address = prog.address
      BY <1>0, <2>1, WriteBytesEffect, ReceivedBytes DEF LoaderTypes
    <2>3. todo' \in {<<>>, Verify, <<"state_meter">> \o ReceiveBytes}
      BY <1>9 DEF GetLastBytes, GetBytes
    <2>4. Verify[1] # "SetState" /\ (<<"state_meter">> \o ReceiveBytes)[1] # "SetState"
      BY DEF Verify, ReceiveBytes
    <2> QED BY <1>3, <2>1, <2>2, <2>3, <2>4
  <1>10. CASE TestRequested
    <2>1. /\ UNCHANGED <<rom, faults, page, copy, prog>> /\ upd' = upd /\ ~Preparing
          /\ todo' = <<"requested_bytes_received">>
      BY <1>10 DEF TestRequested, AtUpdate, progVars
    <2> QED BY <1>3, <2>1
  <1>11. ASSUME NEW name, Statement(name), UNCHANGED <<rom, faults, page, copy, upd>>,
                prog'.address = prog.address
         PROVE  Goal
    <2>1. Executes(name)
      BY <1>11, StatementExecutes
    <2> QED BY <1>3, <1>11, <2>1 DEF Executes
  <1>12. CASE \/ MeterReset \/ RequestStep \/ TransmitStep \/ ClearEOF \/ CloseStep
              \/ (\E name \in Names : ClearStep(name))
    <2>1. UNCHANGED <<rom, faults, page, copy, upd, prog>>
      BY <1>12 DEF MeterReset, RequestStep, TransmitStep, ClearEOF, CloseStep, ClearStep,
                   CloseSession, progVars
    <2>2. \E name : Statement(name)
      BY <1>12 DEF MeterReset, RequestStep, TransmitStep, ClearEOF, CloseStep, ClearStep
    <2> QED BY <1>11, <2>1, <2>2
  <1>13. CASE SetState
    <2>1. UNCHANGED <<rom, faults, page, copy>> /\ Executes("SetState")
      BY <1>13, StatementExecutes DEF SetState, progVars
    <2> QED BY <1>13, <2>1 DEF Executes, Switching, Preparing
  <1>14. CASE VerifyStored \/ CopyChunk \/ VerifyCopy
    <2>1. UNCHANGED <<rom, faults>> /\ (copy' # NoCopy \/ upd' = "COMPLETED")
      BY <1>14, CopySteps
    <2>2. ~Programming'
      BY <2>1 DEF Programming
    <2>3. copy' = NoCopy => ~Preparing' /\ ~Switching'
      BY <1>14, CopySteps DEF Preparing, Switching
    <2>4. Switching' /\ ~Preparing' => Switching /\ ~Preparing
      <3>1. ASSUME copy' # NoCopy, Switching' PROVE FALSE
        BY <1>0, <1>14, <3>1, NextControl DEF Control, Switching, SessionInv, Next, Main, Statements
      <3> QED BY <2>3, <3>1
    <2> QED BY <2>1, <2>2, <2>3, <2>4
  <1>15. CASE Interrupt \/ ChipStep
    BY <1>1, <1>15 DEF Interrupt, ChipStep, progVars, mainVars
  <1>16. /\ "pointer_command" \in Names /\ "received_command" \in Names /\ "pointer_data" \in Names
         /\ "need_bytes" \in Names /\ "requested" \in Names
    BY DEF Names
  <1>18. CASE \/ ClearStep("pointer_command") \/ ClearStep("received_command")
              \/ ClearStep("pointer_data") \/ ClearStep("need_bytes") \/ ClearStep("requested")
    BY <1>12, <1>16, <1>18
  <1> QED BY <1>4, <1>5, <1>6, <1>7, <1>8, <1>9, <1>10, <1>12, <1>13, <1>14, <1>15, <1>18,
             StepCases

\* The reader's statements clear its fields one by one and touch no data.
LEMMA ClearedFields ==
  ASSUME reader \in ReaderType, NEW name \in {"pointer_command", "received_command",
                                              "pointer_data", "need_bytes", "requested"}
  PROVE  /\ Cleared(name).buffer = reader.buffer /\ Cleared(name).eof = reader.eof
         /\ Cleared(name).from = reader.from
         /\ Cleared(name).pointer = IF name = "pointer_data" THEN 0 ELSE reader.pointer
         /\ Cleared(name).cmd = IF name = "pointer_command" THEN "empty" ELSE reader.cmd
         /\ Cleared(name).received_command =
              IF name = "received_command" THEN FALSE ELSE reader.received_command
         /\ Cleared(name).requested = IF name = "requested" THEN FALSE ELSE reader.requested
         /\ Cleared(name).need = IF name = "need_bytes" THEN 0 ELSE reader.need
  BY DEF Cleared, ReaderType

-----------------------------------------------------------------------------
(* What the chip puts on the wire.                                         *)

\* The data of an answer.
LEMMA DataPieces ==
  ASSUME NEW m \in Nat, NEW pos \in Nat, pos + m <= FileSize
  PROVE  LET d == [i \in 1 .. m |-> Piece("data", "", pos + i)]
         IN  d \in Seq(Pieces) /\ Len(d) = m /\ \A i \in 1 .. m : d[i] = Piece("data", "", pos + i)
  <1> DEFINE d == [i \in 1 .. m |-> Piece("data", "", pos + i)]
  <1>1. FileSize \in Nat
    BY Sizes
  <1>2. ASSUME NEW i \in 1 .. m PROVE Piece("data", "", pos + i) \in Pieces
    <2>1. pos + i \in 0 .. FileSize
      BY <1>1
    <2>2. "" \in Texts
      BY DEF Texts
    <2> QED BY <2>1, <2>2 DEF Pieces, Piece
  <1>3. d \in [1 .. m -> Pieces]
    BY <1>2
  <1>4. \A i \in 1 .. m : d[i] = Piece("data", "", pos + i)
    OBVIOUS
  <1> HIDE DEF d
  <1>5. d \in Seq(Pieces) /\ Len(d) = m
    BY <1>3, Listed
  <1>6. d \in Seq(Pieces) /\ Len(d) = m /\ \A i \in 1 .. m : d[i] = Piece("data", "", pos + i)
    BY <1>4, <1>5
  <1> QED BY <1>6 DEF d

\* The three pieces of a line.
LEMMA LineParts ==
  ASSUME NEW text \in Texts, NEW n \in 0 .. FileSize, text = "2" => n <= Buf
  PROVE  /\ Line(text, n) \in Seq(Pieces) /\ Len(Line(text, n)) = 3
         /\ Line(text, n)[1] = Piece("head", text, n)
         /\ Line(text, n)[2] = Piece("tail", text, n)
         /\ Line(text, n)[3] = Piece("lf", text, n)
  <1> DEFINE h == Piece("head", text, n)
             t == Piece("tail", text, n)
             f == Piece("lf", text, n)
  <1>1. h \in Pieces /\ t \in Pieces /\ f \in Pieces
    BY DEF Pieces, Piece
  <1>2. Line(text, n) = <<h, t, f>>
    BY DEF Line
  <1> HIDE DEF h, t, f
  <1>3. /\ <<h, t, f>> \in Seq(Pieces) /\ Len(<<h, t, f>>) = 3
        /\ <<h, t, f>>[1] = h /\ <<h, t, f>>[2] = t /\ <<h, t, f>>[3] = f
    BY <1>1
  <1> QED BY <1>2, <1>3 DEF h, t, f

\* The pieces of an answer with data: the header, the data and a line.
LEMMA AnswerPieces ==
  ASSUME NEW m \in Nat, m <= Buf, NEW pos \in Nat, pos + m <= FileSize
  PROVE  LET d == [i \in 1 .. m |-> Piece("data", "", pos + i)]
             w == Line("2", m) \o d \o Line("OK", 0)
         IN  /\ w \in Seq(Pieces) /\ Len(w) = m + 6
             /\ w[1] = Piece("head", "2", m) /\ w[2] = Piece("tail", "2", m)
             /\ w[3] = Piece("lf", "2", m)
             /\ \A i \in 1 .. m : w[3 + i] = Piece("data", "", pos + i)
             /\ w[m + 4] = Piece("head", "OK", 0) /\ w[m + 5] = Piece("tail", "OK", 0)
             /\ w[m + 6] = Piece("lf", "OK", 0)
  <1> DEFINE d == [i \in 1 .. m |-> Piece("data", "", pos + i)]
             h == Line("2", m)
             e == Line("OK", 0)
  <1>1. FileSize \in Nat /\ m \in 0 .. FileSize /\ 0 \in 0 .. FileSize /\ Buf \in Nat
    BY Sizes, Parameters
  <1>2. /\ h \in Seq(Pieces) /\ Len(h) = 3
        /\ h[1] = Piece("head", "2", m) /\ h[2] = Piece("tail", "2", m) /\ h[3] = Piece("lf", "2", m)
    <2>1. "2" \in Texts
      BY DEF Texts
    <2> QED BY <1>1, <2>1, LineParts
  <1>3. /\ e \in Seq(Pieces) /\ Len(e) = 3
        /\ e[1] = Piece("head", "OK", 0) /\ e[2] = Piece("tail", "OK", 0) /\ e[3] = Piece("lf", "OK", 0)
    <2>1. "OK" \in Texts /\ "OK" # "2"
      BY DEF Texts
    <2> QED BY <1>1, <2>1, LineParts
  <1>4. d \in Seq(Pieces) /\ Len(d) = m /\ \A i \in 1 .. m : d[i] = Piece("data", "", pos + i)
    BY DataPieces
  <1>12. h \in Seq(Pieces) /\ d \in Seq(Pieces) /\ e \in Seq(Pieces)
    BY <1>2, <1>3, <1>4
  <1>13. Len(h) = 3 /\ Len(d) = m /\ Len(e) = 3
    BY <1>2, <1>3, <1>4
  <1> HIDE DEF d, h, e
  <1> DEFINE x == h \o d
             w == x \o e
  <1>5. /\ x \in Seq(Pieces) /\ Len(x) = Len(h) + Len(d)
        /\ \A i \in 1 .. Len(h) : x[i] = h[i]
        /\ \A i \in 1 .. Len(d) : x[Len(h) + i] = d[i]
    BY <1>12, Joined
  <1>14. x \in Seq(Pieces)
    BY <1>5
  <1> HIDE DEF x
  <1>6. /\ w \in Seq(Pieces) /\ Len(w) = Len(x) + Len(e)
        /\ \A i \in 1 .. Len(x) : w[i] = x[i]
        /\ \A i \in 1 .. Len(e) : w[Len(x) + i] = e[i]
    BY <1>12, <1>14, Joined
  <1> HIDE DEF w
  <1>7. Len(x) = m + 3 /\ Len(w) = m + 6
    <2>1. Len(x) = Len(h) + Len(d) /\ Len(w) = Len(x) + Len(e)
      BY <1>5, <1>6
    <2> QED BY <1>13, <2>1
  <1>8. w[1] = h[1] /\ w[2] = h[2] /\ w[3] = h[3]
    BY <1>2, <1>5, <1>6, <1>7
  <1>9. ASSUME NEW i \in 1 .. m PROVE w[3 + i] = Piece("data", "", pos + i)
    <2>1. 3 + i \in 1 .. Len(x)
      BY <1>7
    <2>2. w[3 + i] = x[3 + i]
      BY <1>6, <2>1
    <2>3. x[3 + i] = d[i]
      BY <1>5, <1>13
    <2>4. d[i] = Piece("data", "", pos + i)
      BY <1>4
    <2> QED BY <2>2, <2>3, <2>4
  <1>10. w[m + 4] = e[1] /\ w[m + 5] = e[2] /\ w[m + 6] = e[3]
    <2>1. (m + 3) + 1 = m + 4 /\ (m + 3) + 2 = m + 5 /\ (m + 3) + 3 = m + 6
      OBVIOUS
    <2>2. w[(m + 3) + 1] = e[1] /\ w[(m + 3) + 2] = e[2] /\ w[(m + 3) + 3] = e[3]
      BY <1>3, <1>6, <1>7
    <2> QED BY <2>1, <2>2
  <1>11. /\ w \in Seq(Pieces) /\ Len(w) = m + 6
         /\ w[1] = Piece("head", "2", m) /\ w[2] = Piece("tail", "2", m)
         /\ w[3] = Piece("lf", "2", m)
         /\ \A i \in 1 .. m : w[3 + i] = Piece("data", "", pos + i)
         /\ w[m + 4] = Piece("head", "OK", 0) /\ w[m + 5] = Piece("tail", "OK", 0)
         /\ w[m + 6] = Piece("lf", "OK", 0)
    BY <1>2, <1>3, <1>6, <1>7, <1>8, <1>9, <1>10
  <1> QED BY <1>11 DEF w, x, h, d, e

\* The m bytes of the file behind position pos.
Data(m, pos) == [i \in 1 .. m |-> Piece("data", "", pos + i)]

\* The chip answers with m bytes of the file.
ChipGives(m) ==
    /\ ftp.open /\ ftp.ask > 0 /\ m <= ftp.ask /\ m <= Buf /\ m \in 0 .. FileSize
    /\ ftp.pos + m <= FileSize
    /\ wire' = wire \o (Line("2", m) \o Data(m, ftp.pos) \o Line("OK", 0))
    /\ ftp' = [ftp EXCEPT !.pos = @ + m, !.ask = 0, !.owes = (m = 0)]
    /\ clean' => clean /\ (ftp.pos < 2 * Word => m \in {0, ftp.ask})

\* The chip sends a line that announces no data.
ChipSays(text) ==
    /\ text \in {"ERROR", MoreText, EndText, FailText} /\ wire' = wire \o Line(text, 0)
    /\ ftp'.pos = ftp.pos /\ ftp'.ask \in {0, ftp.ask}
    /\ text = EndText => ~ftp'.open /\ ftp.pos = FileSize
    /\ text \in {"ERROR", MoreText} => ftp'.open = ftp.open
    /\ text = FailText => clean' = FALSE
    /\ text # FailText => clean' = clean
    /\ text = "ERROR" => ftp.ask > 0 /\ ftp'.owes = ftp.owes
    /\ text = MoreText => ftp.owes /\ ~ftp'.owes
    /\ text = EndText => ftp.open /\ ftp'.owes = ftp.owes

\* What the chip adds to the wire: an answer with data, or a line.
LEMMA ChipWire ==
  ASSUME SessionInv, Chip
  PROVE  /\ reader' = reader /\ wire \in Seq(Pieces)
         /\ (\E m \in Nat : ChipGives(m)) \/ (\E text : ChipSays(text))
  <1>1. /\ wire \in Seq(Pieces) /\ ftp \in FtpType
        /\ FileSize \in Nat /\ Buf \in Nat /\ Word \in Nat
    BY Sizes, Parameters DEF SessionInv, LoaderTypes
  <1>2. ftp.pos \in 0 .. FileSize /\ ftp.ask \in 0 .. Buf
    BY <1>1 DEF FtpType
  <1>3. CASE ChipData
    <2>1. PICK m \in Given(Min({ftp.ask, FileSize - ftp.pos})) :
            /\ wire' = wire \o Line("2", m)
                         \o [i \in 1 .. m |-> Piece("data", "", ftp.pos + i)]
                         \o Line("OK", 0)
            /\ ftp' = [ftp EXCEPT !.pos = @ + m, !.ask = 0, !.owes = m = 0]
            /\ clean' = (clean /\ (ftp.pos < 2 * Word => m \in {0, ftp.ask}))
      BY <1>3 DEF ChipData
    <2> DEFINE a == Min({ftp.ask, FileSize - ftp.pos})
    <2>2. a \in Nat /\ a <= ftp.ask /\ a <= FileSize - ftp.pos
      BY <1>1, <1>2, Lesser
    <2> HIDE DEF a
    <2>3. Min({1, a}) \in Nat /\ Min({1, a}) <= a
      BY <2>2, Lesser
    <2>13. m = 0 \/ m = Min({1, a}) \/ m = a
      BY <2>1 DEF Given, a
    <2>4. m \in Nat /\ m <= a
      BY <2>2, <2>3, <2>13
    <2>5. m \in 0 .. FileSize /\ m <= Buf /\ m <= ftp.ask /\ ftp.pos + m <= FileSize
      BY <1>1, <1>2, <2>2, <2>4
    <2> DEFINE d == [i \in 1 .. m |-> Piece("data", "", ftp.pos + i)]
    <2>6. Line("2", m) \in Seq(Pieces) /\ Line("OK", 0) \in Seq(Pieces)
      <3>1. "2" \in Texts /\ "OK" \in Texts /\ "OK" # "2" /\ 0 \in 0 .. FileSize
        BY <1>1 DEF Texts
      <3> QED BY <2>5, <3>1, LineParts
    <2>7. d \in Seq(Pieces)
      <3>1. ftp.pos \in Nat /\ ftp.pos + m <= FileSize
        BY <1>1, <1>2, <2>5
      <3> QED BY <2>4, <3>1, DataPieces
    <2> HIDE DEF d
    <2> DEFINE x == Line("2", m)
               y == Line("OK", 0)
    <2> HIDE DEF x, y
    <2>14. ((wire \o x) \o d) \o y = wire \o ((x \o d) \o y)
      <3>1. wire \in Seq(Pieces) /\ x \in Seq(Pieces) /\ y \in Seq(Pieces) /\ d \in Seq(Pieces)
        BY <1>1, <2>6, <2>7 DEF x, y
      <3> QED BY <3>1, SMTT(30)
    <2>8. ((wire \o Line("2", m)) \o d) \o Line("OK", 0) = wire \o ((Line("2", m) \o d) \o Line("OK", 0))
      BY <2>14 DEF x, y
    <2>9. wire' = wire \o ((Line("2", m) \o d) \o Line("OK", 0))
      BY <2>1, <2>8 DEF d
    <2>10. ftp.open /\ ftp.ask > 0 /\ reader' = reader
      BY <1>3 DEF ChipData
    <2>11. clean' => clean /\ (ftp.pos < 2 * Word => m \in {0, ftp.ask})
      BY <2>1
    <2>12. ftp' = [ftp EXCEPT !.pos = @ + m, !.ask = 0, !.owes = (m = 0)]
      BY <2>1
    <2>15. ChipGives(m)
      BY <2>5, <2>9, <2>10, <2>11, <2>12 DEF d, ChipGives, Data
    <2> QED BY <1>1, <2>4, <2>10, <2>15
  <1>4. ASSUME NEW text \in {"ERROR", MoreText, EndText, FailText}, wire' = wire \o Line(text, 0),
               ftp'.pos = ftp.pos, ftp'.ask \in {0, ftp.ask}, reader' = reader,
               text = EndText => ~ftp'.open /\ ftp.pos = FileSize,
               text \in {"ERROR", MoreText} => ftp'.open = ftp.open,
               text = FailText => clean' = FALSE,
               text # FailText => clean' = clean,
               text = "ERROR" => ftp.ask > 0 /\ ftp'.owes = ftp.owes,
               text = MoreText => ftp.owes /\ ~ftp'.owes,
               text = EndText => ftp.open /\ ftp'.owes = ftp.owes
        PROVE  ChipSays(text)
    BY <1>4 DEF ChipSays
  <1>5. CASE ChipError
    <2>1. ChipSays("ERROR")
      BY <1>1, <1>4, <1>5, TextNames DEF ChipError, FtpType
    <2> QED BY <1>1, <1>5, <2>1 DEF ChipError
  <1>6. CASE ChipMore
    <2>1. wire' = wire \o Line(MoreText, 0)
      BY <1>6 DEF ChipMore, MoreText
    <2>2. ftp' = [ftp EXCEPT !.owes = FALSE] /\ ftp.owes /\ UNCHANGED <<reader, clean>>
      BY <1>6 DEF ChipMore
    <2>3. ChipSays(MoreText)
      BY <1>1, <1>4, <2>1, <2>2, TextNames DEF FtpType
    <2> QED BY <1>1, <2>2, <2>3
  <1>7. CASE ChipEnd
    <2>1. wire' = wire \o Line(EndText, 0)
      BY <1>7 DEF ChipEnd, EndText
    <2>2. /\ ftp' = [ftp EXCEPT !.open = FALSE] /\ ftp.open /\ ftp.pos = FileSize
          /\ UNCHANGED <<reader, clean>>
      BY <1>7 DEF ChipEnd
    <2>3. ChipSays(EndText)
      BY <1>1, <1>4, <2>1, <2>2, TextNames DEF FtpType
    <2> QED BY <1>1, <2>2, <2>3
  <1>8. CASE ChipFail
    <2>1. wire' = wire \o Line(FailText, 0)
      BY <1>8 DEF ChipFail, FailText
    <2>2. ftp' = [ftp EXCEPT !.open = FALSE] /\ clean' = FALSE /\ UNCHANGED reader
      BY <1>8 DEF ChipFail
    <2>3. ChipSays(FailText)
      BY <1>1, <1>4, <2>1, <2>2, TextNames DEF FtpType
    <2> QED BY <1>1, <2>2, <2>3
  <1> QED BY <1>3, <1>5, <1>6, <1>7, <1>8 DEF Chip

\* An answer with data on the wire.
IsAnswer(w, m, pos) ==
    /\ w \in Seq(Pieces) /\ Len(w) = m + 6 /\ w[1].kind = "head"
    /\ WireShape(w)
    /\ \A i \in 1 .. m : w[3 + i] = Piece("data", "", pos + i)
    /\ \A i \in 1 .. m + 6 : w[i].kind = "data" => i - 3 \in 1 .. m /\ w[i].n > 0
    /\ \A i \in 1 .. m + 6 : Header(w[i]) => i = 3 /\ w[i].n = m /\ m > 0
    /\ \A i \in 1 .. m + 6 : w[i].text \notin {EndText, MoreText}
    /\ m > 0 => Header(w[3])

\* A line without data on the wire.
IsLine(w, text) ==
    /\ w \in Seq(Pieces) /\ Len(w) = 3 /\ w[1].kind = "head"
    /\ text # FailText => WireShape(w)
    /\ \A i \in 1 .. 3 : w[i].kind # "data" /\ ~Announces(w[i]) /\ w[i].text = text

\* The fields of a piece.
LEMMA PieceFields ==
  ASSUME NEW kind, NEW text, NEW n
  PROVE  /\ Piece(kind, text, n).kind = kind /\ Piece(kind, text, n).text = text
         /\ Piece(kind, text, n).n = n
  BY DEF Piece

\* The pieces of a line follow one another.
LEMMA LineFollows ==
  ASSUME NEW text, NEW n
  PROVE  /\ Follows(Piece("head", text, n), Piece("tail", text, n))
         /\ Follows(Piece("tail", text, n), Piece("lf", text, n))
  BY DEF Follows, Piece

\* What the chip sends has this shape.
LEMMA AnswerShape ==
  ASSUME NEW m \in Nat, m <= Buf, NEW pos \in Nat, pos + m <= FileSize
  PROVE  IsAnswer(Line("2", m) \o Data(m, pos) \o Line("OK", 0), m, pos)
  <1> DEFINE w == Line("2", m) \o Data(m, pos) \o Line("OK", 0)
  <1>1. /\ w \in Seq(Pieces) /\ Len(w) = m + 6
        /\ w[1] = Piece("head", "2", m) /\ w[2] = Piece("tail", "2", m)
        /\ w[3] = Piece("lf", "2", m)
        /\ \A i \in 1 .. m : w[3 + i] = Piece("data", "", pos + i)
        /\ w[m + 4] = Piece("head", "OK", 0) /\ w[m + 5] = Piece("tail", "OK", 0)
        /\ w[m + 6] = Piece("lf", "OK", 0)
    BY AnswerPieces DEF Data
  <1> HIDE DEF w
  <1>2. w \in Seq(Pieces) /\ Len(w) = m + 6
    BY <1>1
  <1>20. /\ w[1] = Piece("head", "2", m) /\ w[2] = Piece("tail", "2", m)
         /\ w[3] = Piece("lf", "2", m)
    BY <1>1
  <1>21. /\ w[m + 4] = Piece("head", "OK", 0) /\ w[m + 5] = Piece("tail", "OK", 0)
         /\ w[m + 6] = Piece("lf", "OK", 0)
    BY <1>1
  <1>3. /\ w[1].kind = "head" /\ w[1].text = "2" /\ w[1].n = m
        /\ w[2].kind = "tail" /\ w[2].text = "2" /\ w[2].n = m
        /\ w[3].kind = "lf" /\ w[3].text = "2" /\ w[3].n = m
    BY <1>20, PieceFields
  <1>4. /\ w[m + 4].kind = "head" /\ w[m + 4].text = "OK" /\ w[m + 4].n = 0
        /\ w[m + 5].kind = "tail" /\ w[m + 5].text = "OK" /\ w[m + 5].n = 0
        /\ w[m + 6].kind = "lf" /\ w[m + 6].text = "OK" /\ w[m + 6].n = 0
    BY <1>21, PieceFields
  <1>5. \A i \in 1 .. m : w[3 + i] = Piece("data", "", pos + i)
    BY <1>1
  <1>6. \A i \in 1 .. m : w[3 + i].kind = "data" /\ w[3 + i].text = "" /\ w[3 + i].n = pos + i
    <2> TAKE i \in 1 .. m
    <2>1. w[3 + i] = Piece("data", "", pos + i)
      BY <1>5
    <2>2. /\ Piece("data", "", pos + i).kind = "data" /\ Piece("data", "", pos + i).text = ""
          /\ Piece("data", "", pos + i).n = pos + i
      BY DEF Piece
    <2> QED BY <2>1, <2>2, Zenon
  <1>7. \A i \in 1 .. m + 6 : \/ i = 1 \/ i = 2 \/ i = 3 \/ i = m + 4 \/ i = m + 5 \/ i = m + 6
                              \/ i - 3 \in 1 .. m /\ 3 + (i - 3) = i
    OBVIOUS
  <1>8. \A i \in 1 .. m + 6 : i - 3 \in 1 .. m => w[i].kind = "data" /\ w[i].text = "" /\ w[i].n > 0
    <2> TAKE i \in 1 .. m + 6
    <2> HAVE i - 3 \in 1 .. m
    <2>1. 3 + (i - 3) = i /\ pos + (i - 3) > 0
      OBVIOUS
    <2>2. w[3 + (i - 3)].kind = "data" /\ w[3 + (i - 3)].text = "" /\ w[3 + (i - 3)].n = pos + (i - 3)
      BY <1>6
    <2> QED BY <2>1, <2>2
  <1>9. ASSUME NEW i \in 1 .. m + 6
        PROVE  /\ w[i].kind = "data" => i - 3 \in 1 .. m /\ w[i].n > 0
               /\ Header(w[i]) => i = 3 /\ w[i].n = m /\ m > 0
               /\ w[i].text \notin {EndText, MoreText, FailText}
    <2>1. \/ i = 1 \/ i = 2 \/ i = 3 \/ i = m + 4 \/ i = m + 5 \/ i = m + 6 \/ i - 3 \in 1 .. m
      BY <1>7
    <2>2. CASE i = 1 \/ i = 2 \/ i = 3
      BY <1>3, <2>2, TextNames DEF Header, Announces
    <2>3. CASE i = m + 4 \/ i = m + 5 \/ i = m + 6
      BY <1>4, <2>3, TextNames DEF Header, Announces
    <2>4. CASE i - 3 \in 1 .. m
      BY <1>8, <2>4, TextNames DEF Header, Announces
    <2> QED BY <2>1, <2>2, <2>3, <2>4
  <1>10. ASSUME NEW i \in 1 .. m + 5 PROVE Follows(w[i], w[i + 1])
    <2>1. CASE i = 1 \/ i = 2
      <3>1. Follows(w[1], w[2]) /\ Follows(w[2], w[3])
        BY <1>20, LineFollows
      <3>2. 1 + 1 = 2 /\ 2 + 1 = 3
        OBVIOUS
      <3> QED BY <2>1, <3>1, <3>2
    <2>2. CASE i = 3
      <3>1. CASE m = 0
        <4>1. i + 1 = m + 4
          BY <2>2, <3>1
        <4>2. w[i].kind = "lf" /\ ~Announces(w[i]) /\ w[i + 1].kind = "head"
          BY <1>3, <1>4, <2>2, <3>1, <4>1 DEF Announces
        <4> QED BY <4>2 DEF Follows
      <3>2. CASE m > 0
        <4>1. 1 \in 1 .. m
          BY <3>2
        <4>2. w[3 + 1].kind = "data"
          BY <1>6, <4>1
        <4>3. w[i].kind = "lf" /\ Announces(w[i]) /\ w[i + 1].kind = "data"
          BY <1>3, <2>2, <3>2, <4>2 DEF Announces
        <4> QED BY <4>3 DEF Follows
      <3> QED BY <3>1, <3>2
    <2>3. CASE i - 3 \in 1 .. m
      <3>4. i \in 1 .. m + 6
        OBVIOUS
      <3>1. w[i].kind = "data"
        BY <1>8, <2>3, <3>4
      <3>2. CASE i - 3 = m
        <4>1. i + 1 = m + 4
          BY <3>2
        <4> QED BY <1>4, <3>1, <4>1 DEF Follows
      <3>3. CASE i - 3 < m
        <4>1. (i + 1) - 3 \in 1 .. m /\ i + 1 \in 1 .. m + 6
          BY <2>3, <3>3
        <4>2. w[i + 1].kind = "data"
          BY <1>8, <4>1
        <4> QED BY <3>1, <4>2 DEF Follows
      <3> QED BY <2>3, <3>2, <3>3
    <2>4. CASE i = m + 4 \/ i = m + 5
      <3>2. Follows(w[m + 4], w[m + 5]) /\ Follows(w[m + 5], w[m + 6])
        BY <1>21, LineFollows
      <3>3. (m + 4) + 1 = m + 5 /\ (m + 5) + 1 = m + 6
        OBVIOUS
      <3> QED BY <2>4, <3>2, <3>3
    <2>5. \/ i = 1 \/ i = 2 \/ i = 3 \/ i = m + 4 \/ i = m + 5 \/ i - 3 \in 1 .. m
      OBVIOUS
    <2> QED BY <2>1, <2>2, <2>3, <2>4, <2>5
  <1>11. WireShape(w)
    <2>1. \A i \in 1 .. Len(w) - 1 : Follows(w[i], w[i + 1])
      <3>1. Len(w) - 1 = m + 5
        BY <1>2
      <3> QED BY <1>10, <3>1
    <2>2. w[Len(w)].kind = "lf" /\ ~Announces(w[Len(w)])
      BY <1>2, <1>4 DEF Announces
    <2>3. \A i \in 1 .. Len(w) : w[i].text # FailText
      BY <1>2, <1>9
    <2> QED BY <2>1, <2>2, <2>3 DEF WireShape
  <1>12. IsAnswer(w, m, pos)
    <2>1. m > 0 => Header(w[3])
      BY <1>3 DEF Header, Announces
    <2> QED BY <1>2, <1>3, <1>5, <1>9, <1>11, <2>1 DEF IsAnswer
  <1> QED BY <1>12 DEF w

\* See AnswerShape.
LEMMA LineShape ==
  ASSUME NEW text \in {"ERROR", MoreText, EndText, FailText}
  PROVE  IsLine(Line(text, 0), text)
  <1> DEFINE w == Line(text, 0)
  <1>1. text \in Texts /\ text # "2"
    BY TextNames
  <1>2. /\ w \in Seq(Pieces) /\ Len(w) = 3 /\ w[1] = Piece("head", text, 0)
        /\ w[2] = Piece("tail", text, 0) /\ w[3] = Piece("lf", text, 0)
    BY <1>1, ZeroInFile, LineParts
  <1> HIDE DEF w
  <1>3. /\ w[1].kind = "head" /\ w[2].kind = "tail" /\ w[3].kind = "lf"
        /\ w[1].text = text /\ w[2].text = text /\ w[3].text = text
    BY <1>2, PieceFields
  <1>4. \A i \in 1 .. 3 : i = 1 \/ i = 2 \/ i = 3
    OBVIOUS
  <1>5. \A i \in 1 .. 3 : w[i].kind # "data" /\ ~Announces(w[i]) /\ w[i].text = text
    BY <1>1, <1>3, <1>4 DEF Announces
  <1>6. ASSUME text # FailText PROVE WireShape(w)
    <2>1. Follows(w[1], w[2]) /\ Follows(w[2], w[3])
      BY <1>2, LineFollows
    <2>2. Len(w) = 3
      BY <1>2
    <2>3. \A i \in 1 .. Len(w) - 1 : i = 1 \/ i = 2
      BY <2>2
    <2>4. \A i \in 1 .. Len(w) - 1 : Follows(w[i], w[i + 1])
      <3>1. 1 + 1 = 2 /\ 2 + 1 = 3
        OBVIOUS
      <3> QED BY <2>1, <2>3, <3>1
    <2> QED BY <1>3, <1>5, <1>6, <2>2, <2>4 DEF WireShape
  <1>7. w \in Seq(Pieces) /\ Len(w) = 3
    BY <1>2
  <1>8. IsLine(w, text)
    BY <1>3, <1>5, <1>6, <1>7 DEF IsLine
  <1> QED BY <1>8 DEF w

\* What the chip adds to the wire comes behind what is there.
LEMMA WireGrows ==
  ASSUME NEW b \in Seq(Pieces), wire \in Seq(Pieces), wire' = wire \o b
  PROVE  /\ Len(wire') = Len(wire) + Len(b) /\ Len(wire) \in Nat /\ Len(b) \in Nat
         /\ \A i \in 1 .. Len(wire) : wire'[i] = wire[i]
         /\ \A i \in 1 .. Len(b) : wire'[Len(wire) + i] = b[i]
         /\ \A i \in 1 .. Len(wire') :
              i \notin 1 .. Len(wire) => i - Len(wire) \in 1 .. Len(b) /\ wire'[i] = b[i - Len(wire)]
  <1>1. /\ Len(wire') = Len(wire) + Len(b) /\ Len(wire) \in Nat /\ Len(b) \in Nat
        /\ \A i \in 1 .. Len(wire) : wire'[i] = wire[i]
        /\ \A i \in 1 .. Len(b) : wire'[Len(wire) + i] = b[i]
    BY Joined
  <1>2. ASSUME NEW i \in 1 .. Len(wire'), i \notin 1 .. Len(wire)
        PROVE  i - Len(wire) \in 1 .. Len(b) /\ wire'[i] = b[i - Len(wire)]
    <2>1. i - Len(wire) \in 1 .. Len(b) /\ Len(wire) + (i - Len(wire)) = i
      BY <1>1, <1>2
    <2> QED BY <1>1, <2>1
  <1> QED BY <1>1, <1>2

-----------------------------------------------------------------------------
(* No byte of the file looks like an erased one.                           *)

\* Every byte of the file that the interrupt puts into the buffer, and every
\* character it takes for one, differs from an erased one.
LEMMA NextIncoming ==
  ASSUME SessionInv, Incoming, [Next]_vars
  PROVE  Incoming'
  <1>0. LoaderTypes /\ reader \in ReaderType
    BY DEF SessionInv, LoaderTypes
  <1>1. ASSUME wire' = wire, reader'.buffer = reader.buffer, reader'.pointer \in {0, reader.pointer}
        PROVE  Incoming'
    BY <1>1 DEF Incoming
  <1>2. ASSUME wire' = <<>>, reader'.buffer = reader.buffer, reader'.pointer \in {0, reader.pointer}
        PROVE  Incoming'
    BY <1>2 DEF Incoming
  <1>3. CASE ResetStep
    BY <1>2, <1>3 DEF ResetStep, Reset
  <1>4. CASE QuietStep \/ UNCHANGED vars
    BY <1>1, <1>4 DEF QuietStep, vars, readerVars
  <1>5. CASE RestartStep
    <2>1. wire' = <<>> /\ reader'.pointer = 0
      BY <1>5 DEF RestartStep, Restarted, ReaderInitial
    <2> QED BY <2>1 DEF Incoming
  <1>6. CASE \/ Connected \/ GetVersion \/ GetCRC \/ GetLastBytes \/ TestRequested \/ GetBytes
             \/ MeterReset \/ SetState \/ TransmitStep \/ CloseStep \/ VerifyStored \/ CopyChunk
             \/ VerifyCopy \/ PrepareStep \/ WordStep
    <2>1. UNCHANGED <<reader, wire>>
      BY <1>6 DEF Connected, GetVersion, GetCRC, GetLastBytes, TestRequested, GetBytes,
                  MeterReset, SetState, TransmitStep, CloseStep, VerifyStored, CopyChunk,
                  VerifyCopy, PrepareStep, WordStep, readerVars
    <2> QED BY <1>1, <2>1
  <1>7. ASSUME NEW name \in {"pointer_command", "received_command", "pointer_data", "need_bytes",
                             "requested"},
               ClearStep(name)
        PROVE  Incoming'
    BY <1>0, <1>1, <1>7, ClearedFields DEF ClearStep
  <1>8. CASE RequestStep \/ ClearEOF
    BY <1>0, <1>1, <1>8 DEF RequestStep, ClearEOF, ReaderType
  <1>9. CASE Interrupt
    <2>1. AppendByte
      BY <1>9 DEF Interrupt
    <2>2. /\ wire # <<>> /\ wire \in Seq(Pieces) /\ wire' = Tail(wire) /\ wire[1] \in Pieces
          /\ AppendsData \/ AppendsChar \/ EndsLine \/ EndsNotice \/ EndsSession \/ EndsHeader
      BY <2>1, AppendCases
    <2>3. \A i \in 1 .. Len(wire') : i + 1 \in 1 .. Len(wire) /\ wire'[i] = wire[i + 1]
      BY <2>2
    <2>4. \A i \in 1 .. Len(wire') : wire'[i].kind = "data" => wire'[i].n > 0
      BY <2>3 DEF Incoming
    <2>5. CASE AppendsData
      <3> DEFINE v == IF wire[1].kind = "data" THEN wire[1].n ELSE Junk
      <3>1. v # Erased
        <4>1. 1 \in 1 .. Len(wire) /\ wire[1].n \in Nat
          BY <2>2 DEF Pieces
        <4> QED BY <4>1 DEF Incoming, Erased, Junk
      <3>2. /\ reader'.buffer = [reader.buffer EXCEPT ![reader.pointer + 1] = v]
            /\ reader'.pointer = reader.pointer + 1 /\ reader.pointer + 1 \in 1 .. Buf
        BY <2>5 DEF AppendsData
      <3>3. reader.buffer \in [1 .. Buf -> Values] /\ reader.pointer \in 0 .. Buf /\ Buf \in Nat
        BY <1>0, Parameters DEF ReaderType
      <3> HIDE DEF v
      <3>4. ASSUME NEW i \in 1 .. reader.pointer + 1 PROVE reader'.buffer[i] # Erased
        <4>1. i \in 1 .. Buf
          BY <3>2, <3>3
        <4>2. CASE i = reader.pointer + 1
          BY <3>1, <3>2, <3>3, <4>1, <4>2
        <4>3. CASE i # reader.pointer + 1
          <5>1. i \in 1 .. reader.pointer
            BY <3>3, <4>3
          <5> QED BY <3>2, <3>3, <4>1, <4>3, <5>1 DEF Incoming
        <4> QED BY <4>2, <4>3
      <3> QED BY <2>4, <3>2, <3>4 DEF Incoming
    <2>6. CASE AppendsChar \/ EndsLine \/ EndsNotice \/ EndsSession \/ EndsHeader
      <3>1. reader'.buffer = reader.buffer /\ reader'.pointer = reader.pointer
        BY <2>6 DEF AppendsChar, EndsLine, EndsNotice, EndsSession, EndsHeader, SameReader
      <3> QED BY <2>4, <3>1 DEF Incoming
    <2> QED BY <2>2, <2>5, <2>6
  <1>10. CASE ChipStep
    <2>1. reader' = reader /\ wire \in Seq(Pieces)
      BY <1>10, ChipWire DEF ChipStep
    <2>2. ASSUME NEW b \in Seq(Pieces), wire' = wire \o b,
                 \A i \in 1 .. Len(b) : b[i].kind = "data" => b[i].n > 0
          PROVE  Incoming'
      <3>1. ASSUME NEW i \in 1 .. Len(wire'), wire'[i].kind = "data" PROVE wire'[i].n > 0
        BY <2>1, <2>2, <3>1, WireGrows DEF Incoming
      <3> QED BY <2>1, <3>1 DEF Incoming
    <2>3. Chip
      BY <1>10 DEF ChipStep
    <2>4. (\E m \in Nat : ChipGives(m)) \/ (\E text : ChipSays(text))
      BY <2>3, ChipWire
    <2>5. ftp.pos \in Nat
      BY <1>0, LengthTypes
    <2>6. ASSUME NEW m \in Nat, ChipGives(m) PROVE Incoming'
      <3> DEFINE b == Line("2", m) \o Data(m, ftp.pos) \o Line("OK", 0)
      <3>1. IsAnswer(b, m, ftp.pos) /\ wire' = wire \o b
        BY <2>5, <2>6, AnswerShape DEF ChipGives
      <3> HIDE DEF b
      <3> QED BY <2>2, <3>1 DEF IsAnswer
    <2>7. ASSUME NEW text, ChipSays(text) PROVE Incoming'
      <3>1. IsLine(Line(text, 0), text) /\ wire' = wire \o Line(text, 0)
        BY <2>7, LineShape DEF ChipSays
      <3> QED BY <2>2, <3>1 DEF IsLine
    <2> QED BY <2>4, <2>6, <2>7
  <1> QED BY <1>3, <1>4, <1>5, <1>6, <1>7, <1>8, <1>9, <1>10, StepCases

\* The bytes received are those of the buffer.
LEMMA ReceivedAre ==
  ASSUME LoaderTypes
  PROVE  \A i \in 1 .. reader.pointer : Received[i] = reader.buffer[i]
  <1>1. reader.pointer \in 0 .. Buf /\ Buf \in Nat
    BY ReceivedBytes, Parameters
  <1>2. Min({reader.pointer, Buf}) = reader.pointer
    BY <1>1, Lesser
  <1> QED BY <1>2 DEF Received

\* What CloseSession programs begins with the bytes that were kept.
LEMMA CloseSessionBytes ==
  ASSUME prog.bytes \in Seq(Values), Len(prog.bytes) < Word, CloseSession
  PROVE  \A i \in 1 .. Len(prog.bytes) : out'[i] = prog.bytes[i]
  <1> DEFINE n == Len(prog.bytes)
             e == [i \in 1 .. Word - n |-> Erased]
  <1>1. n \in Nat /\ Word \in Nat /\ Word - n \in Nat
    BY Parameters
  <1>2. CASE n = 0
    BY <1>2
  <1>3. CASE n > 0
    <2>1. out' = prog.bytes \o e
      <3>1. out' = IF n = 0 THEN <<>> ELSE prog.bytes \o e
        BY DEF CloseSession
      <3>2. n # 0
        BY <1>3
      <3> HIDE DEF n, e
      <3> QED BY <3>1, <3>2
    <2>2. e \in [1 .. Word - n -> Values]
      BY ZeroInFile DEF Erased
    <2> HIDE DEF e
    <2>3. e \in Seq(Values)
      BY <1>1, <2>2, Listed
    <2> QED BY <2>1, <2>3, Joined
  <1> QED BY <1>1, <1>2, <1>3

\* What WriteBytes gives to Write and keeps is what it kept and what it is given.
LEMMA WriteBytesJoin ==
  ASSUME prog \in ProgType, NEW data \in Seq(Values), WriteBytes(data)
  PROVE  /\ \A i \in 1 .. Len(out') :
              \/ i \in 1 .. Len(prog.bytes) /\ out'[i] = prog.bytes[i]
              \/ i - Len(prog.bytes) \in 1 .. Len(data) /\ out'[i] = data[i - Len(prog.bytes)]
         /\ \A i \in 1 .. Len(prog'.bytes) :
              \/ /\ Len(out') + i \in 1 .. Len(prog.bytes)
                 /\ prog'.bytes[i] = prog.bytes[Len(out') + i]
              \/ /\ (Len(out') + i) - Len(prog.bytes) \in 1 .. Len(data)
                 /\ prog'.bytes[i] = data[(Len(out') + i) - Len(prog.bytes)]
  <1> DEFINE all == prog.bytes \o data
             n == Len(prog.bytes)
  <1>1. prog.bytes \in Seq(Values) /\ n \in Nat /\ Len(data) \in Nat
    BY DEF ProgType
  <1>2. /\ Len(all) = n + Len(data)
        /\ \A i \in 1 .. n : all[i] = prog.bytes[i]
        /\ \A i \in 1 .. Len(data) : all[n + i] = data[i]
    BY <1>1, Joined
  <1>3. /\ Len(out') + Len(prog'.bytes) = n + Len(data)
        /\ Len(out') \in Nat /\ Len(prog'.bytes) \in Nat
        /\ \A i \in 1 .. Len(out') : out'[i] = all[i]
        /\ \A i \in 1 .. Len(prog'.bytes) : prog'.bytes[i] = all[Len(out') + i]
    BY WriteBytesEffect
  <1> HIDE DEF all, n
  <1>4. ASSUME NEW j \in 1 .. n + Len(data)
        PROVE  \/ j \in 1 .. n /\ all[j] = prog.bytes[j]
               \/ j - n \in 1 .. Len(data) /\ all[j] = data[j - n]
    <2>1. CASE j <= n
      BY <1>1, <1>2, <2>1
    <2>2. CASE j > n
      <3>1. j - n \in 1 .. Len(data) /\ n + (j - n) = j
        BY <1>1, <2>2
      <3> QED BY <1>2, <3>1
    <2> QED BY <1>1, <2>1, <2>2
  <1>5. ASSUME NEW i \in 1 .. Len(out')
        PROVE  \/ i \in 1 .. n /\ out'[i] = prog.bytes[i]
               \/ i - n \in 1 .. Len(data) /\ out'[i] = data[i - n]
    <2>1. i \in 1 .. n + Len(data)
      BY <1>3
    <2> QED BY <1>3, <1>4, <2>1
  <1>6. ASSUME NEW i \in 1 .. Len(prog'.bytes)
        PROVE  \/ Len(out') + i \in 1 .. n /\ prog'.bytes[i] = prog.bytes[Len(out') + i]
               \/ /\ (Len(out') + i) - n \in 1 .. Len(data)
                  /\ prog'.bytes[i] = data[(Len(out') + i) - n]
    <2>1. Len(out') + i \in 1 .. n + Len(data)
      BY <1>3
    <2>2. \/ Len(out') + i \in 1 .. n /\ all[Len(out') + i] = prog.bytes[Len(out') + i]
          \/ /\ (Len(out') + i) - n \in 1 .. Len(data)
             /\ all[Len(out') + i] = data[(Len(out') + i) - n]
      BY <1>4, <2>1, Zenon
    <2>3. prog'.bytes[i] = all[Len(out') + i]
      BY <1>3
    <2> QED BY <2>2, <2>3, Zenon
  <1> QED BY <1>5, <1>6 DEF n

\* What is programmed differs from an erased word, in its first byte at least.
LEMMA NextOutgoing ==
  ASSUME SessionInv, Incoming, Outgoing, [Next]_vars
  PROVE  Outgoing'
  <1>0. LoaderTypes /\ Control /\ Words /\ Word \in Nat \ {0}
    BY Parameters DEF SessionInv, Lengths
  <1>20. /\ prog \in ProgType /\ prog.bytes \in Seq(Values) /\ out \in Seq(Values)
         /\ Len(prog.bytes) \in Nat /\ Len(out) \in Nat
    BY <1>0, LengthTypes DEF LoaderTypes
  <1>1. ASSUME ~Programming' PROVE Outgoing'
    BY <1>1 DEF Outgoing
  <1>2. ASSUME UNCHANGED <<prog, out>>, Programming' => Programming PROVE Outgoing'
    BY <1>2 DEF Outgoing
  <1>3. CASE ResetStep \/ RestartStep
    <2>1. upd' = "IDLE"
      BY <1>3 DEF ResetStep, Reset, RestartStep, Restarted
    <2> QED BY <1>1, <2>1 DEF Programming
  <1>4. CASE QuietStep \/ UNCHANGED vars
    <2>1. /\ UNCHANGED <<prog, out, copy>> /\ (upd' = upd \/ upd' \notin Receiving)
      BY <1>4 DEF QuietStep, vars, progVars, mainVars
    <2>2. Programming' => Programming
      BY <2>1 DEF Programming, Receiving
    <2> QED BY <1>2, <2>1, <2>2
  <1>5. CASE Connected \/ GetVersion
    <2>1. upd' # "GET_BYTES_FIRMWARE"
      BY <1>5 DEF Connected, GetVersion
    <2> QED BY <1>1, <2>1 DEF Programming
  <1>6. CASE VerifyStored \/ CopyChunk \/ VerifyCopy
    <2>1. copy' # NoCopy \/ upd' = "COMPLETED"
      BY <1>6, CopySteps
    <2> QED BY <1>1, <2>1 DEF Programming
  <1>7. CASE \/ GetCRC \/ TestRequested \/ MeterReset \/ TransmitStep \/ RequestStep \/ ClearEOF
             \/ Interrupt \/ ChipStep
    <2>1. UNCHANGED <<prog, out, upd, copy>>
      BY <1>7 DEF GetCRC, TestRequested, MeterReset, TransmitStep, RequestStep, ClearEOF,
                  Interrupt, ChipStep, progVars, mainVars
    <2> QED BY <1>2, <2>1 DEF Programming
  <1>8. ASSUME NEW name, ClearStep(name) PROVE Outgoing'
    <2>1. UNCHANGED <<prog, out, upd, copy>>
      BY <1>8 DEF ClearStep, progVars
    <2> QED BY <1>2, <2>1 DEF Programming
  <1>9. CASE PrepareStep
    <2>1. Preparing /\ UNCHANGED <<upd, copy>>
      BY <1>9, PrepareBytes
    <2>2. copy = NoCopy => upd = "GET_BYTES_CRC"
      BY <1>0, <2>1 DEF Control
    <2> QED BY <1>1, <2>1, <2>2 DEF Programming
  <1>10. CASE SetState
    <2>1. /\ todo # <<>> /\ todo[1] = "SetState" /\ ~Preparing /\ out = <<>>
          /\ UNCHANGED <<prog, out>>
      BY <1>10 DEF SetState, Statement, Writing, progVars
    <2>2. prog.bytes = <<>>
      BY <1>0, <2>1 DEF Words
    <2>3. Len(prog'.bytes) = 0 /\ Len(out') = 0
      BY <1>20, <2>1, <2>2, Empty
    <2>4. ASSUME NEW k \in Nat PROVE ~(k * Word < Len(out'))
      BY <1>0, <2>3, Product
    <2> QED BY <2>3, <2>4 DEF Outgoing
  <1>11. CASE GetLastBytes \/ GetBytes
    <2>1. \/ UNCHANGED <<prog, out, upd, copy>>
          \/ WriteBytes(Received) /\ UNCHANGED <<upd, copy>>
      BY <1>11 DEF GetLastBytes, GetBytes
    <2>2. CASE UNCHANGED <<prog, out, upd, copy>>
      BY <1>2, <2>2 DEF Programming
    <2>3. CASE WriteBytes(Received) /\ UNCHANGED <<upd, copy>>
      <3> SUFFICES ASSUME Programming
                   PROVE  /\ \A i \in 1 .. Len(prog'.bytes) : prog'.bytes[i] # Erased
                          /\ \A k \in Nat : k * Word < Len(out') => out'[k * Word + 1] # Erased
        BY <2>3 DEF Outgoing, Programming
      <3>1. Received \in Seq(Values) /\ Len(Received) = reader.pointer
        BY <1>0, ReceivedBytes
      <3>2. \A i \in 1 .. Len(Received) : Received[i] # Erased
        BY <1>0, <3>1, ReceivedAre DEF Incoming
      <3>3. \A i \in 1 .. Len(prog.bytes) : prog.bytes[i] # Erased
        BY DEF Outgoing
      <3>4. /\ \A i \in 1 .. Len(out') :
                 \/ i \in 1 .. Len(prog.bytes) /\ out'[i] = prog.bytes[i]
                 \/ i - Len(prog.bytes) \in 1 .. Len(Received) /\ out'[i] = Received[i - Len(prog.bytes)]
            /\ \A i \in 1 .. Len(prog'.bytes) :
                 \/ /\ Len(out') + i \in 1 .. Len(prog.bytes)
                    /\ prog'.bytes[i] = prog.bytes[Len(out') + i]
                 \/ /\ (Len(out') + i) - Len(prog.bytes) \in 1 .. Len(Received)
                    /\ prog'.bytes[i] = Received[(Len(out') + i) - Len(prog.bytes)]
        BY <1>20, <2>3, <3>1, WriteBytesJoin
      <3>5. \A i \in 1 .. Len(out') : out'[i] # Erased
        BY <3>2, <3>3, <3>4
      <3>6. \A i \in 1 .. Len(prog'.bytes) : prog'.bytes[i] # Erased
        BY <3>2, <3>3, <3>4, ZenonT(40)
      <3>7. Len(out') \in Nat
        BY <1>20, <2>3, <3>1, WriteBytesEffect
      <3>8. ASSUME NEW k \in Nat, k * Word < Len(out') PROVE out'[k * Word + 1] # Erased
        <4>1. k * Word \in Nat
          BY <1>0, Product
        <4>2. k * Word + 1 \in 1 .. Len(out')
          BY <3>7, <3>8, <4>1
        <4> QED BY <3>5, <4>2
      <3> QED BY <3>6, <3>8
    <2> QED BY <2>1, <2>2, <2>3
  <1>12. CASE CloseStep
    <2>1. CloseSession /\ UNCHANGED <<upd, copy>> /\ Len(prog.bytes) < Word
      BY <1>0, <1>12 DEF CloseStep, Words
    <2> SUFFICES ASSUME Programming
                 PROVE  /\ \A i \in 1 .. Len(prog'.bytes) : prog'.bytes[i] # Erased
                        /\ \A k \in Nat : k * Word < Len(out') => out'[k * Word + 1] # Erased
      BY <2>1 DEF Outgoing, Programming
    <2>2. /\ prog' = prog
          /\ \/ Len(prog.bytes) = 0 /\ Len(out') = 0
             \/ Len(prog.bytes) > 0 /\ Len(out') = Word
      BY <1>20, <2>1, CloseSessionEffect
    <2>3. \A i \in 1 .. Len(prog.bytes) : out'[i] = prog.bytes[i]
      BY <1>20, <2>1, CloseSessionBytes
    <2>4. \A i \in 1 .. Len(prog'.bytes) : prog'.bytes[i] # Erased
      BY <2>2 DEF Outgoing
    <2>5. ASSUME NEW k \in Nat, k * Word < Len(out') PROVE out'[k * Word + 1] # Erased
      <3>1. k * Word \in Nat
        BY <1>0, Product
      <3>2. Len(prog.bytes) > 0 /\ Len(out') = Word
        BY <2>2, <2>5, <3>1
      <3>3. k = 0
        <4>1. k >= 1 => 1 * Word <= k * Word
          BY <1>0, Monotone
        <4> QED BY <1>0, <2>5, <3>1, <3>2, <4>1
      <3>4. k * Word + 1 = 1 /\ 1 \in 1 .. Len(prog.bytes)
        BY <1>0, <1>20, <3>2, <3>3
      <3> QED BY <2>2, <2>3, <2>4, <3>4
    <2> QED BY <2>4, <2>5
  <1>13. CASE WordStep
    <2>1. /\ ProgramWord(TRUE) \/ ProgramWord(FALSE)
          /\ UNCHANGED <<upd, copy>>
      BY <1>13 DEF WordStep, mainVars
    <2>2. rom \in [ROM -> Values] /\ IsMultiple(Len(out))
      BY <1>0 DEF LoaderTypes, Words
    <2>3. /\ Len(out) >= Word /\ Len(out') = Len(out) - Word
          /\ \A i \in 1 .. Len(out) - Word : out'[i] = out[Word + i]
          /\ prog'.bytes = prog.bytes
      BY <1>20, <2>1, <2>2, ProgramWordEffect
    <2> SUFFICES ASSUME Programming
                 PROVE  /\ \A i \in 1 .. Len(prog'.bytes) : prog'.bytes[i] # Erased
                        /\ \A k \in Nat : k * Word < Len(out') => out'[k * Word + 1] # Erased
      BY <2>1 DEF Outgoing, Programming
    <2>4. ASSUME NEW k \in Nat, k * Word < Len(out') PROVE out'[k * Word + 1] # Erased
      <3>1. k * Word \in Nat /\ k + 1 \in Nat /\ (k + 1) * Word = k * Word + Word
        BY <1>0, Product
      <3>2. (k + 1) * Word < Len(out) /\ k * Word + 1 \in 1 .. Len(out) - Word
        BY <1>0, <1>20, <2>3, <2>4, <3>1
      <3>3. Word + (k * Word + 1) = (k + 1) * Word + 1
        BY <1>0, <3>1
      <3>4. out[(k + 1) * Word + 1] # Erased
        BY <3>1, <3>2 DEF Outgoing
      <3>5. out'[k * Word + 1] = out[Word + (k * Word + 1)]
        BY <2>3, <3>2
      <3> QED BY <3>3, <3>4, <3>5
    <2> QED BY <2>3, <2>4 DEF Outgoing
  <1> QED BY <1>3, <1>4, <1>5, <1>6, <1>7, <1>8, <1>9, <1>10, <1>11, <1>12, <1>13, StepCases

-----------------------------------------------------------------------------
(* Prepare leaves the storage erased, and a word lands in it unchanged.    *)

\* A word that is programmed behind the last one falls on erased bytes.
LEMMA WordLands ==
  ASSUME FlashInv, Prepared, WordStep, copy = NoCopy, ProgramWord(TRUE),
         prog.address < ADDR_BOOTLOADER
  PROVE  /\ prog.address \in Storage /\ prog.address + Word <= ADDR_BOOTLOADER
         /\ \A x \in prog.address .. prog.address + Word - 1 :
              x \in Storage /\ rom'[x] = out[x - prog.address + 1]
  <1> DEFINE A == prog.address
  <1>1. SessionInv /\ LoaderTypes /\ Control /\ Words /\ Word \in Nat \ {0}
    BY Parameters DEF FlashInv, SessionInv, Lengths
  <1>2. upd = "GET_BYTES_FIRMWARE" /\ Writing
    <2>1. 0 \in ROM
      BY Regions
    <2> QED BY <2>1, WordBytes
  <1>3. /\ A \in Nat /\ A = ADDR_STORAGE + prog.written /\ prog.written \in Nat
        /\ ADDR_STORAGE \in Nat /\ ADDR_BOOTLOADER \in Nat
    BY <1>1, <1>2, LengthTypes, Regions DEF Words
  <1>4. IsMultiple(A) /\ IsMultiple(ADDR_BOOTLOADER)
    BY <1>1, <1>3, Multiples, PageWords DEF Words
  <1>5. A + Word <= ADDR_BOOTLOADER
    BY <1>3, <1>4, Multiples
  <1>6. \A x \in A .. A + Word - 1 : x \in Storage
    BY <1>1, <1>3, <1>5 DEF Storage
  <1>7. \A x \in A .. A + Word - 1 : rom[x] = Erased
    <2>1. Programming
      BY <1>2 DEF Programming
    <2>2. \A x \in A .. A + Word - 1 : x >= A
      BY <1>1, <1>3
    <2> QED BY <1>6, <2>1, <2>2 DEF Prepared
  <1>8. rom' = [x \in ROM |-> IF TRUE /\ x \in A .. A + Word - 1
                                   /\ \A y \in A .. A + Word - 1 : rom[y] = Erased
                              THEN out[x - A + 1] ELSE rom[x]]
    BY DEF ProgramWord
  <1> HIDE DEF A
  <1>9. ASSUME NEW x \in A .. A + Word - 1 PROVE x \in Storage /\ rom'[x] = out[x - A + 1]
    <2>1. x \in ROM /\ x \in Storage
      BY <1>6, StoragePages
    <2> QED BY <1>7, <1>8, <2>1
  <1>10. A \in Storage
    BY <1>1, <1>3, <1>6
  <1> QED BY <1>5, <1>9, <1>10 DEF A

\* The bytes of the storage outside the word are left alone, and it is a word
\* that begins at the address.
LEMMA WordAround ==
  ASSUME FlashInv, WordStep, copy = NoCopy
  PROVE  /\ Programming /\ Writing /\ ~Switching /\ ~Preparing
         /\ UNCHANGED <<upd, todo, copy, page>>
         /\ prog.address \in Nat /\ IsMultiple(prog.address) /\ ADDR_STORAGE <= prog.address
         /\ prog'.address = prog.address + Word /\ prog'.written = prog.written + Word
         /\ Len(out) >= Word
         /\ \A x \in Storage : x \notin prog.address .. prog.address + Word - 1 => rom'[x] = rom[x]
         /\ faults' = 0 => faults = 0 /\ ProgramWord(TRUE)
  <1>1. SessionInv /\ LoaderTypes /\ Control /\ Words /\ Word \in Nat \ {0}
    BY Parameters DEF FlashInv, SessionInv, Lengths
  <1>2. /\ Writing /\ UNCHANGED <<page, upd, todo, copy>>
        /\ upd = "GET_BYTES_FIRMWARE" /\ ~Preparing /\ Len(out) >= Word
    <2>1. 0 \in ROM
      BY Regions
    <2> QED BY <2>1, WordBytes
  <1>3. Programming /\ ~Switching
    BY <1>1, <1>2 DEF Programming, Switching, Control
  <1>4. /\ prog.address \in Nat /\ prog.address = ADDR_STORAGE + prog.written
        /\ prog.written \in Nat /\ ADDR_STORAGE \in Nat
    BY <1>1, <1>2, LengthTypes, Regions DEF Words
  <1>5. IsMultiple(prog.address)
    BY <1>1, <1>4, Multiples, PageWords DEF Words
  <1>6. \A x \in Storage : x \notin prog.address .. prog.address + Word - 1 => rom'[x] = rom[x]
    BY StoragePages, WordBytes
  <1>7. ProgramWord(TRUE) \/ ProgramWord(FALSE)
    BY DEF WordStep
  <1>8. rom \in [ROM -> Values] /\ out \in Seq(Values) /\ IsMultiple(Len(out)) /\ prog \in ProgType
    BY <1>1 DEF LoaderTypes, Words
  <1>9. prog'.address = prog.address + Word /\ prog'.written = prog.written + Word
    BY <1>7, <1>8, ProgramWordEffect
  <1>10. faults \in Nat
    BY <1>1, Parameters DEF LoaderTypes
  <1>11. ASSUME faults' = 0 PROVE faults = 0 /\ ProgramWord(TRUE)
    <2>1. CASE ProgramWord(TRUE)
      BY <1>11, <2>1 DEF ProgramWord
    <2>2. CASE ProgramWord(FALSE)
      <3>1. faults' = faults + 1
        BY <2>2 DEF ProgramWord
      <3> QED BY <1>10, <1>11, <3>1
    <2> QED BY <1>7, <2>1, <2>2
  <1>12. ADDR_STORAGE <= prog.address /\ prog.address \in Nat
    BY <1>4
  <1> QED BY <1>2, <1>3, <1>5, <1>6, <1>9, <1>11, <1>12

\* Prepare and the words of the image leave the rest of the storage erased.
LEMMA NextPrepared ==
  ASSUME FlashInv, StorageInv, [Next]_vars, faults' = 0 \/ Stride = 1
  PROVE  Prepared'
  <1>0. SessionInv /\ LoaderTypes /\ Control /\ Words
    BY DEF FlashInv, SessionInv, Lengths
  <1>1. CASE ~(PrepareStep \/ WordStep)
    <2>1. /\ UNCHANGED <<rom, faults>>
          /\ Programming' => (Programming /\ prog'.address = prog.address) \/ SetState
          /\ copy' = NoCopy /\ Preparing' =>
               (copy = NoCopy /\ Preparing /\ page' = page) \/ GetCRC
          /\ Switching' /\ ~Preparing' => Switching /\ ~Preparing
      BY <1>0, <1>1, StorageQuiet
    <2>2. Prepared
      BY <2>1 DEF StorageInv
    <2>3. ASSUME copy' = NoCopy, Preparing', NEW a \in Storage, a \div Page < Visited'
          PROVE  rom'[a] = Erased
      <3>1. CASE copy = NoCopy /\ Preparing /\ page' = page
        <4>1. Visited' = Visited
          BY <3>1 DEF Visited
        <4> QED BY <2>1, <2>2, <2>3, <3>1, <4>1 DEF Prepared
      <3>2. CASE GetCRC
        <4>1. page' = [start |-> ADDR_STORAGE, left |-> NumPages]
          BY <3>2 DEF GetCRC, Prepare
        <4>2. Visited' = ADDR_STORAGE \div Page + (NumPages - NumPages)
          BY <4>1 DEF Visited
        <4>3. ADDR_STORAGE \div Page = NumPages /\ NumPages \in Nat
          <5>1. Page \in Nat \ {0} /\ NumPages \in Nat /\ ADDR_STORAGE = NumPages * Page
                /\ ADDR_STORAGE \in Nat /\ (NumPages + 1) * Page = NumPages * Page + Page
            BY Parameters, Regions
          <5>2. NumPages * Page <= ADDR_STORAGE /\ ADDR_STORAGE < (NumPages + 1) * Page
            BY <5>1
          <5> QED BY <5>1, <5>2, PageBounds
        <4> QED BY <2>3, <4>2, <4>3, StoragePages
      <3> QED BY <2>1, <2>3, <3>1, <3>2
    <2>4. ASSUME Switching', ~Preparing', NEW a \in Storage PROVE rom'[a] = Erased
      BY <2>1, <2>2, <2>4 DEF Prepared
    <2>5. ASSUME Programming', NEW a \in Storage, a >= prog'.address PROVE rom'[a] = Erased
      <3>1. CASE Programming /\ prog'.address = prog.address
        BY <2>1, <2>2, <2>5, <3>1 DEF Prepared
      <3>2. CASE SetState
        <4>1. Switching /\ ~Preparing
          BY <3>2 DEF SetState, Statement, Switching
        <4> QED BY <2>1, <2>2, <4>1 DEF Prepared
      <3> QED BY <2>1, <2>5, <3>1, <3>2
    <2> QED BY <2>3, <2>4, <2>5 DEF Prepared, Storage
  <1>2. CASE PrepareStep /\ copy # NoCopy
    <2>1. UNCHANGED <<upd, todo, copy>>
      BY <1>0, <1>2, PrepareBytes
    <2>2. todo = <<>>
      BY <1>0, <1>2 DEF Control
    <2> QED BY <1>2, <2>1, <2>2 DEF Prepared, Switching, Programming
  <1>3. CASE PrepareStep /\ copy = NoCopy
    <2>1. /\ Preparing /\ UNCHANGED <<upd, todo, copy>>
          /\ \/ rom' = rom /\ PageIsEmpty(Visited)
             \/ \A x \in ROM : rom'[x] = IF x \div Page = Visited THEN Erased ELSE rom[x]
      BY <1>0, <1>3, PrepareBytes
    <2>2. upd = "GET_BYTES_CRC"
      BY <1>0, <1>3, <2>1 DEF Control
    <2>3. /\ page' = IF page.left = 1 THEN NoPrepare ELSE [page EXCEPT !.left = @ - 1]
          /\ faults' = faults
      BY <1>3 DEF PrepareStep, PreparePage
    <2>4. Prepared /\ (faults = 0 => FromTheStart) /\ (faults = 0 \/ Stride = 1)
      BY <2>3 DEF StorageInv
    <2>5. /\ Visited \in Nat /\ page.left \in 1 .. NumPages /\ NumPages \in Nat
      <3>1. 0 \in ROM
        BY Regions
      <3> QED BY <1>0, <2>1, <3>1, VisitedPages, Parameters
    <2>6. ASSUME NEW a \in Storage, a \div Page < Visited + 1 PROVE rom'[a] = Erased
      <3>1. a \in ROM /\ a \div Page \in Nat
        BY StoragePages
      <3>2. CASE a \div Page < Visited
        <4>1. rom[a] = Erased
          BY <1>3, <2>1, <2>4, <3>2 DEF Prepared
        <4> QED BY <2>1, <3>1, <4>1
      <3>3. CASE a \div Page = Visited
        <4>1. CASE rom' = rom /\ PageIsEmpty(Visited)
          <5>1. CASE Stride = 1
            BY <2>5, <3>1, <3>3, <4>1, <5>1, EmptyThroughout
          <5>2. CASE faults = 0
            <6>1. rom[Visited * Page] = Erased
              BY <2>5, <4>1, EmptyBegins
            <6> QED BY <2>4, <3>3, <4>1, <5>2, <6>1 DEF FromTheStart
          <5> QED BY <2>4, <5>1, <5>2
        <4>2. CASE \A x \in ROM : rom'[x] = IF x \div Page = Visited THEN Erased ELSE rom[x]
          BY <3>1, <3>3, <4>2
        <4> QED BY <2>1, <4>1, <4>2
      <3> QED BY <2>5, <2>6, <3>1, <3>2, <3>3
    <2>7. page \in [start : {ADDR_APPLICATION, ADDR_STORAGE}, left : 0 .. NumPages]
      BY <1>0 DEF LoaderTypes
    <2>8. ASSUME Preparing', NEW a \in Storage, a \div Page < Visited' PROVE rom'[a] = Erased
      <3>1. page.left # 1
        BY <2>3, <2>8 DEF Preparing, NoPrepare
      <3>2. page'.start = page.start /\ page'.left = page.left - 1
        BY <2>3, <2>7, <3>1
      <3>3. Visited' = Visited + 1
        <4> DEFINE q == page.start \div Page
        <4>1. Visited = q + (NumPages - page.left) /\ Visited' = q + (NumPages - (page.left - 1))
          BY <3>2 DEF Visited
        <4>2. q \in Int
          <5>1. page.start \in Nat /\ Page \in Nat \ {0}
            BY <2>7, Regions, Parameters DEF ADDR_APPLICATION
          <5> QED BY <5>1, Remainder
        <4> HIDE DEF q
        <4> QED BY <2>5, <4>1, <4>2
      <3> QED BY <2>6, <2>8, <3>3
    <2>9. ASSUME ~Preparing', NEW a \in Storage PROVE rom'[a] = Erased
      <3>1. page.left = 1
        <4>1. CASE page.left # 1
          <5>1. page'.left = page.left - 1
            BY <2>3, <2>7, <4>1
          <5> QED BY <2>5, <2>9, <4>1, <5>1 DEF Preparing
        <4> QED BY <4>1
      <3>2. page.start = ADDR_STORAGE
        BY <1>0, <1>3, <2>1 DEF Control
      <3>3. Visited = NumPages + (NumPages - 1)
        <4>1. /\ Page \in Nat \ {0} /\ NumPages \in Nat /\ ADDR_STORAGE = NumPages * Page
              /\ ADDR_STORAGE \in Nat /\ (NumPages + 1) * Page = NumPages * Page + Page
          BY Parameters, Regions
        <4>2. NumPages * Page <= ADDR_STORAGE /\ ADDR_STORAGE < (NumPages + 1) * Page
          BY <4>1
        <4>3. ADDR_STORAGE \div Page = NumPages
          BY <4>1, <4>2, PageBounds
        <4> QED BY <3>1, <3>2, <4>3 DEF Visited
      <3>4. a \div Page < Visited + 1
        BY <2>5, <3>3, StoragePages
      <3> QED BY <2>6, <3>4
    <2> QED BY <2>1, <2>2, <2>8, <2>9 DEF Prepared, Storage, Programming
  <1>4. CASE WordStep /\ copy # NoCopy
    <2>1. UNCHANGED <<todo, copy>>
      BY <1>4 DEF WordStep, mainVars
    <2>2. todo = <<>>
      BY <1>0, <1>4 DEF Control
    <2> QED BY <1>4, <2>1, <2>2 DEF Prepared, Switching, Programming
  <1>5. CASE WordStep /\ copy = NoCopy
    <2>1. /\ Programming /\ ~Switching /\ ~Preparing /\ UNCHANGED <<todo, page>>
          /\ prog.address \in Nat /\ prog'.address = prog.address + Word
          /\ \A x \in Storage : x \notin prog.address .. prog.address + Word - 1 => rom'[x] = rom[x]
          /\ faults' = 0 => faults = 0
      BY <1>5, WordAround
    <2>2. Prepared
      BY <2>1 DEF StorageInv
    <2>3. ~Switching' /\ ~Preparing'
      BY <2>1 DEF Switching, Preparing
    <2>4. ASSUME NEW a \in Storage, a >= prog'.address PROVE rom'[a] = Erased
      <3>1. Word \in Nat /\ a \in Nat
        BY Parameters, StoragePages
      <3>2. a \notin prog.address .. prog.address + Word - 1 /\ a >= prog.address
        BY <2>1, <2>4, <3>1
      <3> QED BY <2>1, <2>2, <3>2 DEF Prepared
    <2> QED BY <2>3, <2>4 DEF Prepared, Storage
  <1> QED BY <1>1, <1>2, <1>3, <1>4, <1>5

\* While no word fails, a page of the storage is filled from its first byte on.
LEMMA NextFromTheStart ==
  ASSUME FlashInv, StorageInv, [Next]_vars, faults' = 0
  PROVE  FromTheStart'
  <1>0. /\ SessionInv /\ LoaderTypes /\ Control /\ Words
        /\ Word \in Nat \ {0} /\ Page \in Nat \ {0}
    BY Parameters DEF FlashInv, SessionInv, Lengths
  <1>1. CASE ~(PrepareStep \/ WordStep)
    <2>1. /\ UNCHANGED <<rom, faults>>
          /\ Programming' => (Programming /\ prog'.address = prog.address) \/ SetState
      BY <1>0, <1>1, StorageQuiet
    <2>2. FromTheStart
      BY <2>1 DEF StorageInv
    <2>3. ASSUME Programming', NEW p \in Nat, ADDR_STORAGE <= p * Page, p * Page < prog'.address,
                 p * Page < ADDR_BOOTLOADER
          PROVE  rom'[p * Page] # Erased
      <3>1. CASE Programming /\ prog'.address = prog.address
        BY <2>1, <2>2, <2>3, <3>1 DEF FromTheStart
      <3>2. CASE SetState
        <4>1. todo # <<>> /\ todo[1] = "SetState" /\ ~Preparing /\ prog' = prog
          BY <3>2 DEF SetState, Statement, progVars
        <4>2. prog'.address = ADDR_STORAGE
          BY <1>0, <4>1 DEF Words
        <4>3. p * Page \in Nat /\ ADDR_STORAGE \in Nat
          BY <1>0, Product, Regions
        <4> QED BY <2>3, <4>2, <4>3
      <3> QED BY <2>1, <2>3, <3>1, <3>2
    <2> QED BY <2>1, <2>2, <2>3 DEF FromTheStart, Storage
  <1>2. ASSUME \A x \in Storage : rom'[x] = rom[x], faults' = faults, ~Programming'
        PROVE  FromTheStart'
    <2>1. FromTheStart
      BY <1>2 DEF StorageInv
    <2>2. ASSUME NEW a \in Storage, rom'[(a \div Page) * Page] = Erased PROVE rom'[a] = Erased
      <3>1. (a \div Page) * Page \in Storage
        BY StoragePages
      <3> QED BY <1>2, <2>1, <2>2, <3>1 DEF FromTheStart
    <2> QED BY <1>2, <2>2 DEF FromTheStart, Storage
  <1>3. CASE (PrepareStep \/ WordStep) /\ copy # NoCopy
    <2>1. \A a \in ROM : a >= ADDR_STORAGE => rom'[a] = rom[a]
      BY <1>3, CopyKeepsImage
    <2>2. copy' = copy
      BY <1>3 DEF PrepareStep, WordStep, mainVars
    <2>3. ~Programming'
      BY <1>3, <2>2 DEF Programming
    <2>4. \A x \in Storage : rom'[x] = rom[x]
      BY <2>1, StoragePages
    <2>5. faults = 0
      <3>1. faults \in Nat /\ faults' \in {faults, faults + 1}
        BY <1>0, <1>3, Parameters DEF LoaderTypes, PrepareStep, PreparePage, WordStep, ProgramWord
      <3> QED BY <3>1
    <2> QED BY <1>2, <2>3, <2>4, <2>5
  <1>4. CASE PrepareStep /\ copy = NoCopy
    <2>1. /\ Preparing /\ UNCHANGED <<upd, todo, copy>>
          /\ \/ rom' = rom /\ PageIsEmpty(Visited)
             \/ \A x \in ROM : rom'[x] = IF x \div Page = Visited THEN Erased ELSE rom[x]
      BY <1>0, <1>4, PrepareBytes
    <2>2. upd = "GET_BYTES_CRC"
      BY <1>0, <1>4, <2>1 DEF Control
    <2>3. ~Programming' /\ faults' = faults
      BY <1>4, <2>1, <2>2 DEF Programming, PrepareStep, PreparePage
    <2>4. FromTheStart
      BY <2>3 DEF StorageInv
    <2>5. CASE rom' = rom
      BY <1>2, <2>3, <2>5
    <2>6. CASE \A x \in ROM : rom'[x] = IF x \div Page = Visited THEN Erased ELSE rom[x]
      <3>1. ASSUME NEW a \in Storage, rom'[(a \div Page) * Page] = Erased PROVE rom'[a] = Erased
        <4> DEFINE b == (a \div Page) * Page
        <4>1. a \in ROM /\ b \in ROM /\ b \div Page = a \div Page
          BY StoragePages
        <4>2. rom[b] = Erased => rom[a] = Erased
          BY <2>4 DEF FromTheStart
        <4> HIDE DEF b
        <4>3. rom'[b] = Erased
          BY <3>1 DEF b
        <4> QED BY <2>6, <4>1, <4>2, <4>3
      <3> QED BY <2>3, <3>1 DEF FromTheStart, Storage
    <2> QED BY <2>1, <2>5, <2>6
  <1>5. CASE WordStep /\ copy = NoCopy
    <2> DEFINE A == prog.address
    <2>1. /\ Programming /\ Writing
          /\ A \in Nat /\ IsMultiple(A) /\ ADDR_STORAGE <= A /\ prog'.address = A + Word
          /\ Len(out) >= Word
          /\ \A x \in Storage : x \notin A .. A + Word - 1 => rom'[x] = rom[x]
          /\ faults = 0 /\ ProgramWord(TRUE)
      BY <1>5, WordAround
    <2>2. Prepared /\ FromTheStart /\ Outgoing
      BY <2>1 DEF StorageInv
    <2>3. ADDR_STORAGE \in Nat /\ ADDR_BOOTLOADER \in Nat
      BY Regions
    <2>4. out[1] # Erased
      <3>1. 0 * Word < Len(out) /\ 0 * Word + 1 = 1 /\ 0 \in Nat
        BY <1>0, <2>1
      <3>2. out[0 * Word + 1] # Erased
        BY <2>1, <2>2, <3>1 DEF Outgoing
      <3> QED BY <3>1, <3>2
    <2>5. A < ADDR_BOOTLOADER => rom'[A] = out[1]
      <3>1. A \in A .. A + Word - 1 /\ A - A + 1 = 1
        BY <1>0, <2>1
      <3>2. ASSUME A < ADDR_BOOTLOADER
            PROVE  \A x \in A .. A + Word - 1 : rom'[x] = out[x - A + 1]
        BY <1>5, <2>1, <2>2, <3>2, WordLands
      <3>3. A < ADDR_BOOTLOADER => rom'[A] = out[A - A + 1]
        BY <3>1, <3>2
      <3> QED BY <3>1, <3>3
    <2> HIDE DEF A
    <2>6. ASSUME NEW p \in Nat, p * Page \in A .. A + Word - 1, p * Page < ADDR_BOOTLOADER
          PROVE  rom'[p * Page] # Erased
      <3>1. p * Page \in Nat /\ IsMultiple(p * Page)
        BY <1>0, Product, PageWords
      <3>2. ~(A < p * Page)
        <4>1. A < p * Page => A + Word <= p * Page
          BY <2>1, <3>1, Multiples
        <4> QED BY <1>0, <2>1, <2>6, <3>1, <4>1
      <3>3. p * Page = A
        BY <2>1, <2>6, <3>1, <3>2
      <3> QED BY <2>4, <2>5, <2>6, <3>3
    <2>7. ASSUME NEW p \in Nat, ADDR_STORAGE <= p * Page, p * Page < A + Word,
                 p * Page < ADDR_BOOTLOADER
          PROVE  rom'[p * Page] # Erased
      <3>1. p * Page \in Nat /\ p * Page \in Storage
        <4>1. p * Page \in Nat
          BY <1>0, Product
        <4> QED BY <2>3, <2>7, <4>1 DEF Storage
      <3>2. CASE p * Page < A
        <4>1. rom[p * Page] # Erased
          BY <2>1, <2>2, <2>7, <3>2 DEF FromTheStart, A
        <4>2. p * Page \notin A .. A + Word - 1
          BY <2>1, <3>1, <3>2
        <4> QED BY <2>1, <3>1, <4>1, <4>2
      <3>3. CASE p * Page >= A
        <4>1. p * Page \in A .. A + Word - 1
          BY <1>0, <2>1, <2>7, <3>1, <3>3
        <4> QED BY <2>6, <2>7, <4>1
      <3> QED BY <2>1, <3>1, <3>2, <3>3
    <2>8. ASSUME NEW a \in Storage, rom'[(a \div Page) * Page] = Erased PROVE rom'[a] = Erased
      <3> DEFINE p == a \div Page
      <3>1. /\ p \in Nat /\ p * Page <= a /\ p * Page \in Storage /\ a \in Nat
            /\ a < ADDR_BOOTLOADER
        BY StoragePages
      <3>2. ADDR_STORAGE <= p * Page /\ p * Page < ADDR_BOOTLOADER /\ p * Page \in Nat
        BY <3>1, StoragePages
      <3>3. rom[p * Page] = Erased => rom[a] = Erased
        BY <2>2 DEF FromTheStart
      <3>4. rom'[p * Page] = Erased
        BY <2>8
      <3> HIDE DEF p
      <3>5. ~(p * Page < A + Word)
        BY <2>7, <3>1, <3>2, <3>4
      <3>6. p * Page \notin A .. A + Word - 1 /\ a \notin A .. A + Word - 1
        BY <1>0, <2>1, <3>1, <3>2, <3>5
      <3> QED BY <2>1, <3>1, <3>3, <3>4, <3>6
    <2>9. \A p \in Nat : ADDR_STORAGE <= p * Page /\ p * Page < prog'.address
                          /\ p * Page < ADDR_BOOTLOADER => rom'[p * Page] # Erased
      BY <2>1, <2>7
    <2> QED BY <2>8, <2>9 DEF FromTheStart, Storage
  <1> QED BY <1>1, <1>3, <1>4, <1>5

\* A step keeps all of it.
LEMMA NextStorage ==
  ASSUME FlashInv, StorageInv, [Next]_vars
  PROVE  StorageInv'
  <1>1. SessionInv /\ Incoming /\ Outgoing
    BY DEF FlashInv, StorageInv
  <1>2. Incoming' /\ Outgoing'
    BY <1>1, NextIncoming, NextOutgoing
  <1> QED BY <1>2, NextPrepared, NextFromTheStart DEF StorageInv

\* The storage is erased when the program is loaded for the first time.
LEMMA InitStorage == Init => StorageInv
  <1> SUFFICES ASSUME Init PROVE StorageInv
    OBVIOUS
  <1>1. /\ upd = "IDLE" /\ todo = <<>> /\ page = NoPrepare /\ wire = <<>> /\ reader = ReaderInitial
        /\ rom = [a \in ROM |-> IF a < ADDR_STORAGE THEN Old
                                ELSE IF a < ADDR_BOOTLOADER THEN Erased ELSE Boot]
    BY DEF Init, LoaderInit, ProgInit, ReaderInit
  <1>2. ~Programming /\ ~Switching /\ ~Preparing
    BY <1>1, ConstantTypes DEF Programming, Switching, Preparing
  <1>3. Incoming
    <2>1. Len(wire) = 0 /\ reader.pointer = 0
      BY <1>1 DEF ReaderInitial
    <2> QED BY <2>1 DEF Incoming
  <1>4. \A a \in Storage : rom[a] = Erased
    <2> TAKE a \in Storage
    <2>1. a \in ROM /\ ~(a < ADDR_STORAGE) /\ a < ADDR_BOOTLOADER
      BY StoragePages, Regions
    <2> QED BY <1>1, <2>1
  <1>5. FromTheStart
    BY <1>2, <1>4 DEF FromTheStart
  <1>6. Prepared
    BY <1>2, <1>4 DEF Prepared
  <1> QED BY <1>2, <1>3, <1>5, <1>6 DEF StorageInv, Outgoing

-----------------------------------------------------------------------------
(* The file passes through the wire and the reader in order.               *)

\* The lines that count are the notice that more data have come and the headers.
LEMMA CountsAre ==
  ASSUME NEW p
  PROVE  Counts(p) <=> p.kind = "lf" /\ (p.text = MoreText \/ Announces(p))
  BY DEF Counts, MoreText, Announces

\* The types the arguments below need.
LEMMA CleanTypes ==
  ASSUME SessionInv
  PROVE  /\ wire \in Seq(Pieces) /\ Len(wire) \in Nat
         /\ \A i \in 1 .. Len(wire) : wire[i] \in Pieces /\ wire[i].n \in Nat
         /\ Word \in Nat \ {0} /\ Buf \in Nat \ {0} /\ FileSize \in Nat
         /\ reader \in ReaderType /\ reader.pointer \in 0 .. Buf /\ reader.from \in 0 .. Buf
         /\ ftp \in FtpType /\ ftp.pos \in 0 .. FileSize /\ ftp.ask \in 0 .. Buf
         /\ Stage \in 0 .. 14 /\ Stage # 11 /\ Idle = 14
         /\ Stored \in Nat
         /\ upd \in Receiving => Consumed \in Nat
  <1>1. LoaderTypes /\ Ordered(todo)
    BY DEF SessionInv, Control
  <1>2. wire \in Seq(Pieces) /\ reader \in ReaderType /\ ftp \in FtpType
    BY <1>1 DEF LoaderTypes
  <1>3. Word \in Nat \ {0} /\ Buf \in Nat \ {0} /\ FileSize \in Nat
    BY Parameters, Sizes
  <1>4. \A i \in 1 .. Len(wire) : wire[i] \in Pieces
    BY <1>2
  <1>5. \A p \in Pieces : p.n \in Nat
    BY <1>3 DEF Pieces
  <1>6. Stage \in 0 .. 14 /\ Stage # 11 /\ Idle = 14
    BY <1>1, StageRange, PlaceValues DEF Stage, StageOf, Idle
  <1>7. Stored \in Nat
    BY <1>1, LengthTypes
  <1>8. upd \in Receiving => Consumed \in Nat
    BY <1>3, <1>7 DEF Consumed, Receiving
  <1>9. /\ reader.pointer \in 0 .. Buf /\ reader.from \in 0 .. Buf
        /\ ftp.pos \in 0 .. FileSize /\ ftp.ask \in 0 .. Buf
    BY <1>2 DEF ReaderType, FtpType
  <1> QED BY <1>2, <1>3, <1>4, <1>5, <1>6, <1>7, <1>8, <1>9

\* The parts of the invariant in a clean session.
LEMMA CleanParts ==
  ASSUME CleanInv, Clean
  PROVE  /\ CleanWire /\ CleanCommand /\ CleanData /\ CleanRequest /\ CleanEnd /\ CleanContents
         /\ upd \in Receiving /\ copy = NoCopy /\ clean
  BY DEF CleanInv, Clean

\* A piece of a line and the piece behind it.
LEMMA FollowsFields ==
  ASSUME NEW p \in Pieces, NEW q \in Pieces, Follows(p, q)
  PROVE  /\ p.kind \in {"head", "tail", "lf", "data"}
         /\ p.kind = "head" => q.kind = "tail" /\ q.text = p.text /\ q.n = p.n
         /\ p.kind = "tail" => q.kind = "lf" /\ q.text = p.text /\ q.n = p.n
         /\ p.kind = "lf" => q.kind = IF Announces(p) THEN "data" ELSE "head"
         /\ p.kind = "data" => q.kind \in {"data", "head"}
  BY DEF Follows, Pieces

\* A line that announces data has its header on the wire.
LEMMA NoAnnouncement ==
  ASSUME SessionInv, WireShape(wire), NoHeader,
         NEW i \in 1 .. Len(wire), wire[i].kind # "data"
  PROVE  ~Announces(wire[i])
  <1>0. /\ Len(wire) \in Nat /\ \A j \in 1 .. Len(wire) : wire[j] \in Pieces
    BY CleanTypes
  <1>1. ASSUME NEW j \in 1 .. Len(wire), wire[j].kind = "lf" PROVE ~Announces(wire[j])
    BY <1>1 DEF NoHeader, Header
  <1>2. ASSUME NEW j \in 1 .. Len(wire), wire[j].kind # "lf"
        PROVE  j + 1 \in 1 .. Len(wire) /\ Follows(wire[j], wire[j + 1])
    <2>1. j # Len(wire)
      <3>1. wire # <<>>
        BY <1>0
      <3> QED BY <1>2, <3>1 DEF WireShape
    <2>2. j \in 1 .. Len(wire) - 1 /\ j + 1 \in 1 .. Len(wire)
      BY <1>0, <2>1
    <2> QED BY <2>2 DEF WireShape
  <1>3. ASSUME NEW j \in 1 .. Len(wire), wire[j].kind = "tail" PROVE ~Announces(wire[j])
    <2>1. j + 1 \in 1 .. Len(wire) /\ Follows(wire[j], wire[j + 1])
      BY <1>2, <1>3
    <2>2. wire[j + 1].kind = "lf" /\ wire[j + 1].text = wire[j].text /\ wire[j + 1].n = wire[j].n
      BY <1>0, <1>3, <2>1, FollowsFields
    <2>3. ~Announces(wire[j + 1])
      BY <1>1, <2>1, <2>2
    <2> QED BY <2>2, <2>3 DEF Announces
  <1>4. ASSUME NEW j \in 1 .. Len(wire), wire[j].kind = "head" PROVE ~Announces(wire[j])
    <2>1. j + 1 \in 1 .. Len(wire) /\ Follows(wire[j], wire[j + 1])
      BY <1>2, <1>4
    <2>2. wire[j + 1].kind = "tail" /\ wire[j + 1].text = wire[j].text /\ wire[j + 1].n = wire[j].n
      BY <1>0, <1>4, <2>1, FollowsFields
    <2>3. ~Announces(wire[j + 1])
      BY <1>3, <2>1, <2>2
    <2> QED BY <2>2, <2>3 DEF Announces
  <1>5. wire[i].kind \in {"head", "tail", "lf", "data"}
    BY <1>0 DEF Pieces
  <1> QED BY <1>1, <1>3, <1>4, <1>5

\* With nothing requested and nothing being taken, nothing is on its way.
LEMMA QuietWire ==
  ASSUME SessionInv, CleanInv, Clean, ~Answered, ~Taking
  PROVE  NoHeader /\ NoneComing /\ ftp.pos = Consumed + Kept
  <1>1. CleanWire /\ CleanData
    BY CleanParts
  <1>2. NoHeader
    BY CountsAre DEF NoHeader, Header, Answered
  <1>3. NoData
    BY <1>1, <1>2 DEF CleanData
  <1>4. \A i \in 1 .. Len(wire) : ~Announces(wire[i])
    BY <1>1, <1>2, <1>3, NoAnnouncement DEF CleanWire, NoData
  <1> QED BY <1>1, <1>2, <1>3, <1>4 DEF CleanData, NoneComing

\* Between the statement that takes the bytes and the request nothing is
\* outstanding, and nothing is in the buffer that is still to be taken.
LEMMA OutsideAnswer ==
  ASSUME SessionInv, CleanInv, Clean, ~InAnswer
  PROVE  /\ NoHeader /\ NoneComing /\ ftp.pos = Consumed /\ ~Taking /\ Kept = 0
         /\ Stage <= 7 => ftp.ask = 0 /\ ~ftp.owes
         /\ Stage \in 0 .. 7 \cup 12 .. 13
  <1>1. CleanData /\ CleanEnd /\ OneRequest
    BY CleanParts DEF SessionInv
  <1>2. Stage \in 0 .. 7 \cup 12 .. 13
    BY CleanTypes DEF InAnswer
  <1>3. ~Taking /\ Kept = 0
    BY DEF Taking, Kept
  <1>9. Consumed \in Nat /\ Stage \in 0 .. 14 /\ ftp.ask \in Nat
    BY CleanTypes, CleanParts
  <1>4. CASE Stage <= 7
    <2>1. ~Outstanding
      BY <1>1, <1>4, <1>9 DEF OneRequest
    <2>2. ~Answered /\ ftp.ask = 0 /\ ~ftp.owes
      BY <1>9, <2>1 DEF Outstanding
    <2>3. NoHeader /\ NoneComing /\ ftp.pos = Consumed + Kept
      BY <1>3, <2>2, QuietWire
    <2> QED BY <1>2, <1>3, <1>9, <2>2, <2>3
  <1>5. CASE Stage \in 12 .. 13
    <2>1. Ended
      BY <1>1, <1>5 DEF CleanEnd
    <2>2. NoneComing
      BY <2>1 DEF Ended
    <2>3. NoHeader
      BY <2>2 DEF NoHeader, NoneComing, Header
    <2> QED BY <1>1, <1>2, <1>3, <1>5, <1>9, <2>2, <2>3 DEF CleanData
  <1> QED BY <1>2, <1>4, <1>5

\* A state outside an answer with nothing on its way is as it should be.
LEMMA BecomesOutside ==
  ASSUME ~InAnswer', WireShape(wire'), EndNoticed', NoneComing',
         Fresh' => wire' = <<>> /\ ftp'.ask = 0 /\ ~ftp'.owes,
         ftp'.open \/ ftp'.pos = FileSize,
         Consumed' \in Nat, ftp'.pos = Consumed',
         LineBegins', CommandEnded'
  PROVE  CleanWire' /\ CleanCommand' /\ CleanData'
  <1>1. ~Taking' /\ Kept' = 0
    BY DEF Taking, Kept
  <1>2. NoHeader'
    BY DEF NoHeader, NoneComing, Header
  <1>3. LineTaken'
    <2>1. ASSUME wire' # <<>>, Announces(wire'[1])
          PROVE  FALSE
      <3>1. Len(wire') = 0 \/ 1 \in 1 .. Len(wire')
        OBVIOUS
      <3> QED BY <2>1, <3>1 DEF NoneComing
    <2> QED BY <2>1 DEF LineTaken
  <1>4. CleanWire'
    BY DEF CleanWire
  <1>5. Announced' /\ Arriving' /\ Buffered'
    BY <1>1, <1>2 DEF Announced, Arriving, Buffered, NoHeader
  <1>6. ftp'.pos = Consumed' + Kept'
    <2> DEFINE c == Consumed'
               k == Kept'
               f == ftp'.pos
    <2>1. c \in Nat /\ f = c /\ k = 0
      BY <1>1
    <2> HIDE DEF c, k, f
    <2>2. f = c + k
      BY <2>1
    <2> QED BY <2>2 DEF c, k, f
  <1> QED BY <1>3, <1>4, <1>5, <1>6 DEF CleanCommand, CleanData, NoneComing

\* A list of statements keeps its last one until it is executed.
LEMMA EofTail ==
  ASSUME SessionInv, todo # <<>>, todo' = Tail(todo)
  PROVE  /\ todo' # <<>> => (EofStale' <=> EofStale)
         /\ todo' = <<>> => (EofStale <=> todo[1] = "received_FTPGET_1_0") /\ ~EofStale'
  <1>1. todo \in Seq(Names)
    BY DEF SessionInv, Control, Ordered
  <1>2. Len(todo) \in Nat \ {0} /\ Len(todo') = Len(todo) - 1
    BY <1>1, NoStatements
  <1>3. \A i \in 1 .. Len(todo') : todo'[i] = todo[i + 1]
    BY <1>1
  <1>4. ASSUME todo' # <<>> PROVE todo'[Len(todo')] = todo[Len(todo)]
    <2>1. Len(todo') # 0
      BY <1>1, <1>4, NoStatements
    <2>2. Len(todo') \in 1 .. Len(todo') /\ Len(todo') + 1 = Len(todo)
      BY <1>2, <2>1
    <2> QED BY <1>3, <2>2
  <1>5. ASSUME todo' = <<>> PROVE Len(todo) = 1
    BY <1>2, <1>5
  <1> QED BY <1>4, <1>5 DEF EofStale

\* ClearEOF comes last and behind the request.
LEMMA EofStage ==
  ASSUME SessionInv, EofStale
  PROVE  Stage <= 8
  <1>1. todo # <<>> /\ todo \in Seq(Names) /\ Stage = Place(todo[1])
    BY DEF EofStale, SessionInv, Control, Ordered, Stage, StageOf
  <1>2. Len(todo) \in Nat \ {0}
    BY <1>1, NoStatements
  <1>3. Len(todo) \in 1 .. Len(todo)
    BY <1>2
  <1>4. Place(todo[Len(todo)]) = Place(todo[1]) + Len(todo) - 1
    BY <1>3 DEF SessionInv, Control, Ordered
  <1>5. Place(todo[Len(todo)]) = 8
    BY PlaceValues DEF EofStale
  <1>6. Stage \in 0 .. 14
    BY CleanTypes
  <1> QED BY <1>1, <1>2, <1>4, <1>5, <1>6

\* The list of GetCRC ends with ClearEOF.
LEMMA SwitchEnds ==
  ASSUME todo' = <<"SetState">> \o ReceiveBytes \o <<"received_FTPGET_1_0">>
  PROVE  EofStale'
  <1> DEFINE a == <<"SetState">> \o ReceiveBytes
             b == <<"received_FTPGET_1_0">>
  <1>1. "SetState" \in Names /\ "received_FTPGET_1_0" \in Names
    BY DEF Names
  <1>2. ReceiveBytes \in Seq(Names)
    BY ReceiveBytesOrdered DEF Ordered
  <1>3. a \in Seq(Names)
    BY <1>1, <1>2, OneStatement, JoinedStatements
  <1>4. b \in Seq(Names) /\ Len(b) = 1 /\ b[1] = "received_FTPGET_1_0"
    BY <1>1, OneStatement
  <1>5. todo' = a \o b
    OBVIOUS
  <1> HIDE DEF a, b
  <1>6. /\ todo' \in Seq(Names) /\ Len(todo') = Len(a) + 1 /\ Len(a) \in Nat
        /\ todo'[Len(a) + 1] = b[1]
    <2>1. a \o b \in Seq(Names) /\ Len(a \o b) = Len(a) + Len(b)
      BY <1>3, <1>4, JoinedStatements, Zenon
    <2>2. \A i \in Len(a) + 1 .. Len(a) + Len(b) : (a \o b)[i] = b[i - Len(a)]
      BY <1>3, <1>4, JoinedStatements, Zenon
    <2>3. Len(a) \in Nat
      BY <1>3
    <2>4. Len(a) + 1 \in Len(a) + 1 .. Len(a) + Len(b) /\ (Len(a) + 1) - Len(a) = 1
      BY <1>4, <2>3
    <2>5. (a \o b)[Len(a) + 1] = b[1]
      BY <2>2, <2>4, Zenon
    <2> QED BY <1>4, <1>5, <2>1, <2>3, <2>5
  <1>7. todo' # <<>>
    BY <1>6, NoStatements
  <1> QED BY <1>4, <1>6, <1>7 DEF EofStale

\* What depends on the wire and the session only.
LEMMA SameWire ==
  ASSUME wire' = wire, ftp'.open = ftp.open, ftp'.pos = ftp.pos
  PROVE  /\ WireShape(wire) => WireShape(wire')
         /\ EndNoticed => EndNoticed'
         /\ NoneComing' <=> NoneComing
         /\ NoHeader' <=> NoHeader
         /\ NoData' <=> NoData
         /\ Ended /\ (reader'.received_command => reader.received_command) => Ended'
  BY DEF EndNoticed, NoneComing, NoHeader, NoData, Ended

\* A step that leaves the wire, the reader (but for the flag of the end) and the
\* place in the protocol alone.
LEMMA StaysClean ==
  ASSUME SessionInv, CleanInv, Clean,
         UNCHANGED <<wire, ftp, upd>>, Consumed' = Consumed,
         SameReader({"cmd", "received_command", "pointer", "from", "buffer", "requested", "need"}),
         Stage' = Stage \/ (InAnswer /\ InAnswer'),
         Switching' => EofStale',
         reader'.eof /\ ~EofStale' => reader.eof /\ ~EofStale
  PROVE  CleanWire' /\ CleanCommand' /\ CleanData' /\ CleanRequest' /\ CleanEnd'
  <1>1. CleanWire /\ CleanCommand /\ CleanData /\ CleanRequest /\ CleanEnd
    BY CleanParts
  <1>2. /\ reader'.cmd = reader.cmd /\ reader'.received_command = reader.received_command
        /\ reader'.pointer = reader.pointer /\ reader'.from = reader.from
        /\ reader'.buffer = reader.buffer /\ reader'.requested = reader.requested
        /\ reader'.need = reader.need
    BY DEF SameReader
  <1>3. /\ WireShape(wire') /\ EndNoticed' /\ (NoneComing' <=> NoneComing)
        /\ (NoHeader' <=> NoHeader) /\ (NoData' <=> NoData) /\ (Ended => Ended')
    BY <1>1, <1>2, SameWire DEF CleanWire
  <1>4. /\ InAnswer' <=> InAnswer
        /\ InAnswer => Stage >= 8 /\ Stage' >= 8 /\ Stage \notin 12 .. 13 /\ Stage' \notin 12 .. 13
    BY DEF InAnswer, Idle
  <1>5. /\ Fresh' <=> Fresh
        /\ Fresh' /\ Stage' <= 1 <=> Fresh /\ Stage <= 1
    <2>1. CASE Stage' = Stage
      BY <2>1 DEF Fresh
    <2>2. CASE InAnswer /\ InAnswer'
      BY <1>4, <2>2, CleanTypes DEF Fresh, InAnswer, Idle
    <2> QED BY <2>1, <2>2
  <1>6. (Taking' <=> Taking) /\ Kept' = Kept
    BY <1>2, <1>4 DEF Taking, Kept
  <1>7. CleanWire'
    BY <1>1, <1>3, <1>5 DEF CleanWire
  <1>8. CleanCommand'
    <2>1. LineTaken'
      BY <1>1, <1>2, <1>6 DEF CleanCommand, LineTaken
    <2>2. LineBegins'
      BY <1>1, <1>2, <1>5, <1>6 DEF CleanCommand, LineBegins
    <2>3. CommandEnded'
      BY <1>1, <1>2, <1>3, <1>5 DEF CleanCommand, CommandEnded
    <2> QED BY <2>1, <2>2, <2>3 DEF CleanCommand
  <1>9. CleanData'
    <2>1. Announced'
      BY <1>1 DEF CleanData, Announced
    <2>2. Arriving'
      BY <1>1, <1>2, <1>6 DEF CleanData, Arriving
    <2>3. Buffered'
      BY <1>1, <1>2, <1>4 DEF CleanData, Buffered
    <2> QED BY <1>1, <1>3, <1>6, <2>1, <2>2, <2>3 DEF CleanData
  <1>10. CleanRequest'
    <2>1. Stage' >= 7 => Stage >= 7
      <3>2. Stage \in 0 .. 14
        BY CleanTypes
      <3>1. InAnswer => Stage >= 7
        BY <3>2 DEF InAnswer, Idle
      <3> QED BY <3>1
    <2> QED BY <1>1, <1>2, <1>4, <1>5, <2>1 DEF CleanRequest
  <1>11. CleanEnd'
    <2>1. Stage' \in 12 .. 13 => Stage \in 12 .. 13
      BY <1>4
    <2> QED BY <1>1, <1>3, <2>1 DEF CleanEnd
  <1> QED BY <1>7, <1>8, <1>9, <1>10, <1>11

\* A statement before the request.
LEMMA StatementStaysClean ==
  ASSUME SessionInv, CleanInv, Clean, Stage \in 0 .. 6, Stage' = Stage + 1,
         UNCHANGED <<wire, ftp>>, Consumed' = Consumed,
         upd' = upd \/ (upd = "GET_BYTES_CRC" /\ upd' = "GET_BYTES_FIRMWARE"),
         reader'.cmd \in {reader.cmd, "empty"}, Stage = 1 => reader'.cmd = "empty",
         reader'.received_command => reader.received_command,
         Stage = 6 /\ upd' # "GET_BYTES_FIRMWARE" => reader'.need = Word,
         ~Switching', EofStale' <=> EofStale, reader'.eof = reader.eof,
         upd' # upd => EofStale
  PROVE  CleanWire' /\ CleanCommand' /\ CleanData' /\ CleanRequest' /\ CleanEnd'
  <1>1. /\ CleanWire /\ CleanCommand /\ CleanData /\ CleanRequest /\ CleanEnd
        /\ upd \in Receiving
    BY CleanParts
  <1>2. ~InAnswer /\ ~InAnswer'
    BY DEF InAnswer, Idle
  <1>3. /\ NoneComing /\ ftp.pos = Consumed /\ ~Taking /\ ftp.ask = 0 /\ ~ftp.owes
    BY <1>2, OutsideAnswer
  <1>4. /\ WireShape(wire') /\ EndNoticed' /\ NoneComing' /\ (Ended => Ended')
    BY <1>1, <1>3, SameWire DEF CleanWire
  <1>5. Fresh' <=> Fresh
    BY DEF Fresh
  <1>6. Consumed' \in Nat
    BY <1>1, CleanTypes
  <1>7. LineBegins'
    <2>1. CASE Stage <= 1
      <3>1. Stage = 0 \/ Stage = 1
        BY <2>1
      <3>2. CASE Stage = 1
        BY <3>2 DEF LineBegins
      <3>3. CASE Stage = 0
        <4>1. Stage' <= 1 /\ Stage <= 1
          BY <3>3
        <4> QED BY <1>1, <1>3, <1>5, <4>1 DEF CleanCommand, LineBegins
      <3> QED BY <3>1, <3>2, <3>3
    <2>2. CASE ~(Stage <= 1)
      BY <1>1, <1>3, <1>5, <2>2 DEF CleanCommand, LineBegins
    <2> QED BY <2>1, <2>2
  <1>8. CommandEnded'
    <2>1. ASSUME reader'.cmd = "ended" PROVE Ended' \/ (Fresh' /\ Stage' <= 1)
      <3>1. reader.cmd = "ended" /\ Stage # 1
        BY <2>1
      <3>2. Ended \/ (Fresh /\ Stage <= 1)
        BY <1>1, <3>1 DEF CleanCommand, CommandEnded
      <3>3. Stage <= 1 => Stage' <= 1
        BY <3>1
      <3> QED BY <1>4, <1>5, <3>2, <3>3
    <2> QED BY <2>1 DEF CommandEnded
  <1>9. CleanWire' /\ CleanCommand' /\ CleanData'
    BY <1>1, <1>2, <1>3, <1>4, <1>5, <1>6, <1>7, <1>8, BecomesOutside DEF CleanWire
  <1>10. CleanRequest'
    <2>1. reader'.received_command => Fresh'
      BY <1>1, <1>2, <1>5 DEF CleanRequest
    <2>2. ASSUME upd' # "GET_BYTES_FIRMWARE"
          PROVE  /\ ftp'.pos \in {Consumed', Consumed' + Word}
                 /\ Stage' >= 7 => reader'.need = Word
                 /\ ftp'.ask \in {0, Word}
      BY <1>3, <2>2
    <2> QED BY <1>2, <2>1, <2>2 DEF CleanRequest
  <1>11. CleanEnd'
    <2>1. ASSUME upd' = "GET_BYTES_FIRMWARE", reader'.eof, ~EofStale' PROVE Ended'
      BY <1>1, <1>4, <2>1 DEF CleanEnd
    <2>2. Stage' \notin 12 .. 13
      OBVIOUS
    <2> QED BY <2>1, <2>2 DEF CleanEnd
  <1> QED BY <1>9, <1>10, <1>11

\* The bytes in the buffer are given on and the next answer is prepared for.
LEMMA TakeStaysClean ==
  ASSUME SessionInv, CleanInv, Clean, InAnswer, ~reader.received_command, NoneComing,
         UNCHANGED <<wire, ftp, reader>>, Consumed' = Consumed + reader.pointer,
         Stage' \in {0, 1, 12}, upd' \in Receiving \ {"GET_BYTES_VER"},
         Stage' = 12 => Ended /\ upd' = "GET_BYTES_FIRMWARE",
         upd' # "GET_BYTES_FIRMWARE" => upd # "GET_BYTES_FIRMWARE",
         Switching' => EofStale',
         upd' = "GET_BYTES_FIRMWARE" => upd = "GET_BYTES_FIRMWARE" /\ ~EofStale
  PROVE  CleanWire' /\ CleanCommand' /\ CleanData' /\ CleanRequest' /\ CleanEnd'
  <1>1. /\ CleanWire /\ CleanCommand /\ CleanData /\ CleanRequest /\ CleanEnd
        /\ upd \in Receiving
    BY CleanParts
  <1>2. ~InAnswer' /\ ~Taking /\ Kept = reader.pointer
    BY DEF InAnswer, Idle, Taking, Kept
  <1>3. ftp.pos = Consumed + reader.pointer
    <2>1. NoHeader
      BY DEF NoHeader, NoneComing, Header
    <2> QED BY <1>1, <1>2, <2>1 DEF CleanData
  <1>4. WireShape(wire') /\ EndNoticed' /\ NoneComing' /\ (Ended => Ended')
    BY <1>1, <1>3, SameWire DEF CleanWire
  <1>5. ~Fresh' /\ ~(Fresh /\ Stage <= 1)
    BY CleanTypes DEF Fresh, InAnswer, Idle
  <1>6. Consumed' \in Nat
    BY <1>1, CleanTypes
  <1>7. LineBegins'
    BY <1>1, <1>2, <1>5 DEF CleanCommand, LineBegins
  <1>8. CommandEnded'
    BY <1>1, <1>4, <1>5 DEF CleanCommand, CommandEnded
  <1>9. ftp'.pos = Consumed'
    BY <1>3
  <1>10. CleanWire' /\ CleanCommand' /\ CleanData'
    BY <1>1, <1>2, <1>4, <1>5, <1>6, <1>7, <1>8, <1>9, BecomesOutside DEF CleanWire
  <1>11. CleanRequest'
    <2>1. Stage' >= 7 => upd' = "GET_BYTES_FIRMWARE"
      OBVIOUS
    <2> QED BY <1>1, <1>2, <1>9, <2>1 DEF CleanRequest
  <1>12. CleanEnd'
    BY <1>1, <1>4 DEF CleanEnd
  <1> QED BY <1>10, <1>11, <1>12

\* The position depends on what was given to Programmer only.
LEMMA SameConsumed ==
  ASSUME upd' = upd, Stored' = Stored, Switching' <=> Switching
  PROVE  Consumed' = Consumed
  BY DEF Consumed

\* The request goes out.
LEMMA TransmitClean ==
  ASSUME SessionInv, CleanInv, Clean, TransmitStep
  PROVE  CleanWire' /\ CleanCommand' /\ CleanData' /\ CleanRequest' /\ CleanEnd'
  <1>0. /\ CleanWire /\ CleanCommand /\ CleanData /\ CleanRequest /\ CleanEnd
        /\ upd \in Receiving
    BY CleanParts
  <1>1. Executes("transmit")
    BY StatementExecutes DEF TransmitStep
  <1>2. /\ Stage = 7 /\ Stage' \in {8, 14} /\ todo # <<>> /\ todo[1] = "transmit"
        /\ todo' = Tail(todo) /\ ~Switching /\ ~Switching'
    <2>1. /\ todo # <<>> /\ todo[1] = "transmit" /\ todo' = Tail(todo)
          /\ \/ todo' = <<>> /\ Stage' = Idle
             \/ Stage' = Stage + 1 /\ todo'[1] # "SetState"
      BY <1>1 DEF Executes
    <2>2. Stage = 7
      BY <1>1, PlaceValues DEF Executes
    <2>3. ~Switching /\ ~Switching'
      BY <2>1 DEF Switching
    <2>4. Stage' \in {8, 14}
      BY <2>1, <2>2 DEF Idle
    <2> QED BY <2>1, <2>2, <2>3, <2>4
  <1>3. /\ UNCHANGED <<reader, wire, upd, prog, out>> /\ ftp' = [ftp EXCEPT !.ask = reader.need]
    BY DEF TransmitStep, Request, progVars
  <1>4. ftp'.open = ftp.open /\ ftp'.pos = ftp.pos /\ ftp'.ask = reader.need
    BY <1>3, CleanTypes DEF FtpType
  <1>5. Consumed' = Consumed
    <2>1. Stored' = Stored
      BY <1>3 DEF Stored
    <2> QED BY <1>2, <1>3, <2>1, SameConsumed
  <1>6. ~InAnswer /\ InAnswer'
    BY <1>2 DEF InAnswer, Idle
  <1>7. /\ reader.pointer = 0 /\ ~reader.received_command /\ ~reader.requested
    BY <1>2 DEF SessionInv, OneRequest
  <1>8. NoHeader /\ NoneComing /\ ftp.pos = Consumed
    BY <1>6, OutsideAnswer
  <1>9. WireShape(wire') /\ EndNoticed' /\ NoneComing' /\ NoHeader' /\ (Ended => Ended')
    BY <1>0, <1>3, <1>4, <1>8, SameWire DEF CleanWire
  <1>10. ~Fresh' /\ ~(Fresh /\ Stage <= 1) /\ ~Taking /\ ~Taking' /\ Kept' = 0
    BY <1>2, <1>3, <1>6, <1>7 DEF Fresh, Taking, Kept
  <1>11. CleanWire'
    BY <1>0, <1>4, <1>9, <1>10 DEF CleanWire
  <1>12. CleanCommand'
    <2>1. LineTaken'
      BY <1>0, <1>3, <1>10 DEF CleanCommand, LineTaken
    <2>2. LineBegins'
      BY <1>0, <1>3, <1>10 DEF CleanCommand, LineBegins
    <2>3. CommandEnded'
      BY <1>0, <1>3, <1>9, <1>10 DEF CleanCommand, CommandEnded
    <2> QED BY <2>1, <2>2, <2>3 DEF CleanCommand
  <1>13. CleanData'
    <2>1. Announced' /\ Arriving'
      BY <1>9, <1>10 DEF Announced, Arriving, NoHeader
    <2>2. Buffered'
      BY <1>3, <1>7 DEF Buffered
    <2>3. ftp'.pos = Consumed' + Kept'
      <3>1. Consumed \in Nat
        BY <1>0, CleanTypes
      <3>2. Consumed + 0 = Consumed
        BY <3>1
      <3> QED BY <1>4, <1>5, <1>8, <1>10, <3>2
    <2> QED BY <1>9, <2>1, <2>2, <2>3 DEF CleanData, NoneComing
  <1>14. CleanRequest'
    BY <1>0, <1>2, <1>3, <1>4, <1>5, <1>7 DEF CleanRequest
  <1>15. CleanEnd'
    <2>1. EofStale' <=> EofStale
      BY <1>2, EofTail
    <2> QED BY <1>0, <1>2, <1>3, <1>9, <2>1 DEF CleanEnd
  <1> QED BY <1>11, <1>12, <1>13, <1>14, <1>15

\* A new session.
LEMMA ConnectedClean ==
  ASSUME SessionInv, Connected
  PROVE  CleanInv'
  <1>1. /\ upd = "NEED_WAIT_CONNECT" /\ upd' = "GET_BYTES_VER" /\ todo' = ReceiveBytes
        /\ UNCHANGED <<reader, wire>>
    BY DEF Connected
  <1>2. wire = <<>>
    BY <1>1 DEF SessionInv, OneRequest, Receiving
  <1>3. Stage' = 1 /\ ~Switching' /\ Fresh'
    BY <1>1, ListsOrdered, ReceiveBytesOrdered DEF Stage, Switching, Fresh
  <1> SUFFICES ASSUME clean'
               PROVE  /\ CleanWire' /\ CleanCommand' /\ CleanData' /\ CleanRequest'
                      /\ CleanEnd' /\ CleanContents'
    BY DEF CleanInv, Clean
  <1>4. ftp' = [open |-> TRUE, pos |-> 0, ask |-> 0, owes |-> FALSE]
    BY DEF Connected
  <1>5. /\ ftp'.open /\ ftp'.pos = 0 /\ ftp'.ask = 0 /\ ~ftp'.owes
    BY <1>4
  <1>6. Consumed' = 0 /\ ~InAnswer'
    BY <1>1, <1>3 DEF Consumed, InAnswer, Idle
  <1>7. Len(wire') = 0 /\ wire' = <<>>
    BY <1>1, <1>2
  <1>8. WireShape(wire')
    <2>1. \A i : i \notin 1 .. Len(wire') /\ i \notin 1 .. Len(wire') - 1
      BY <1>7
    <2> QED BY <1>7, <2>1 DEF WireShape
  <1>9. EndNoticed' /\ NoneComing'
    BY <1>7 DEF EndNoticed, NoneComing, NoData
  <1>10. LineBegins' /\ CommandEnded'
    BY <1>3 DEF LineBegins, CommandEnded
  <1>11. CleanWire' /\ CleanCommand' /\ CleanData'
    BY <1>5, <1>6, <1>7, <1>8, <1>9, <1>10, BecomesOutside
  <1>12. CleanRequest'
    BY <1>3, <1>5, <1>6 DEF CleanRequest
  <1>13. CleanEnd' /\ CleanContents'
    BY <1>1, <1>3 DEF CleanEnd, CleanContents
  <1> QED BY <1>11, <1>12, <1>13

-----------------------------------------------------------------------------
(* The interrupt takes a piece from the wire.                              *)

\* The interrupt takes the first piece.
LEMMA WireShift ==
  ASSUME SessionInv, wire # <<>>, wire' = Tail(wire)
  PROVE  /\ Len(wire') \in Nat /\ Len(wire) = Len(wire') + 1
         /\ \A i \in 1 .. Len(wire') : i + 1 \in 1 .. Len(wire) /\ wire'[i] = wire[i + 1]
         /\ \A i \in 1 .. Len(wire) : i = 1 \/ (i - 1 \in 1 .. Len(wire') /\ wire'[i - 1] = wire[i])
         /\ 1 \in 1 .. Len(wire) /\ wire[1] \in Pieces
         /\ \A i \in 1 .. Len(wire') : wire'[i] \in Pieces
         /\ wire' \in Seq(Pieces) /\ (wire' = <<>> <=> Len(wire') = 0)
  <1>1. wire \in Seq(Pieces) /\ Len(wire) \in Nat /\ Len(wire) # 0
    BY CleanTypes, Empty
  <1>2. wire' \in Seq(Pieces) /\ Len(wire') = Len(wire) - 1
    BY <1>1
  <1>3. \A i \in 1 .. Len(wire') : i + 1 \in 1 .. Len(wire) /\ wire'[i] = wire[i + 1]
    BY <1>1, <1>2
  <1>4. ASSUME NEW i \in 1 .. Len(wire), i # 1
        PROVE  i - 1 \in 1 .. Len(wire') /\ wire'[i - 1] = wire[i]
    <2>1. i - 1 \in 1 .. Len(wire') /\ (i - 1) + 1 = i
      BY <1>1, <1>2, <1>4
    <2> QED BY <1>3, <2>1
  <1>5. wire' = <<>> <=> Len(wire') = 0
    BY <1>2, Empty
  <1> QED BY <1>1, <1>2, <1>3, <1>4, <1>5

\* What depends on the wire, when a piece has been taken from it.
LEMMA ShiftedWire ==
  ASSUME SessionInv, wire # <<>>, wire' = Tail(wire), WireShape(wire), EndNoticed,
         ftp'.open = ftp.open, ftp'.pos = ftp.pos
  PROVE  /\ WireShape(wire') /\ EndNoticed'
         /\ NoneComing => NoneComing'
         /\ NoHeader => NoHeader'
         /\ NoHeader' /\ ~Header(wire[1]) => NoHeader
         /\ NoData => NoData'
         /\ Ended /\ ~reader'.received_command => Ended'
         /\ wire' = <<>> => wire[1].kind = "lf" /\ ~Announces(wire[1])
         /\ wire' # <<>> => Follows(wire[1], wire'[1]) /\ wire'[1] \in Pieces
  <1>1. /\ Len(wire') \in Nat /\ Len(wire) = Len(wire') + 1
        /\ \A i \in 1 .. Len(wire') : i + 1 \in 1 .. Len(wire) /\ wire'[i] = wire[i + 1]
        /\ \A i \in 1 .. Len(wire) : i = 1 \/ (i - 1 \in 1 .. Len(wire') /\ wire'[i - 1] = wire[i])
        /\ \A i \in 1 .. Len(wire') : wire'[i] \in Pieces
        /\ (wire' = <<>> <=> Len(wire') = 0)
    BY WireShift
  <1>2. WireShape(wire')
    <2>1. ASSUME NEW i \in 1 .. Len(wire') - 1 PROVE Follows(wire'[i], wire'[i + 1])
      <3>1. i \in 1 .. Len(wire') /\ i + 1 \in 1 .. Len(wire') /\ i + 1 \in 1 .. Len(wire) - 1
        BY <1>1
      <3>2. wire'[i] = wire[i + 1] /\ wire'[i + 1] = wire[(i + 1) + 1]
        BY <1>1, <3>1
      <3>3. Follows(wire[i + 1], wire[(i + 1) + 1])
        BY <3>1 DEF WireShape
      <3> QED BY <3>2, <3>3
    <2>2. ASSUME wire' # <<>> PROVE wire'[Len(wire')].kind = "lf" /\ ~Announces(wire'[Len(wire')])
      <3>1. Len(wire') \in 1 .. Len(wire')
        BY <1>1, <2>2
      <3>2. wire'[Len(wire')] = wire[Len(wire)]
        BY <1>1, <3>1
      <3> QED BY <3>2 DEF WireShape
    <2>3. \A i \in 1 .. Len(wire') : wire'[i].text # FailText
      BY <1>1 DEF WireShape
    <2> QED BY <2>1, <2>2, <2>3 DEF WireShape
  <1>3. EndNoticed'
    <2>1. ASSUME NEW i \in 1 .. Len(wire'), wire'[i].text = EndText
          PROVE  /\ ~ftp'.open /\ ftp'.pos = FileSize
                 /\ \A j \in i .. Len(wire') : wire'[j].kind # "data" /\ ~Announces(wire'[j])
      <3>1. i + 1 \in 1 .. Len(wire) /\ wire[i + 1].text = EndText
        BY <1>1, <2>1
      <3>2. /\ ~ftp.open /\ ftp.pos = FileSize
            /\ \A j \in i + 1 .. Len(wire) : wire[j].kind # "data" /\ ~Announces(wire[j])
        BY <3>1 DEF EndNoticed
      <3>3. ASSUME NEW j \in i .. Len(wire')
            PROVE  wire'[j].kind # "data" /\ ~Announces(wire'[j])
        <4>1. j \in 1 .. Len(wire') /\ j + 1 \in i + 1 .. Len(wire)
          BY <1>1, <2>1
        <4> QED BY <1>1, <3>2, <4>1
      <3> QED BY <3>2, <3>3
    <2> QED BY <2>1 DEF EndNoticed
  <1>4. NoneComing => NoneComing'
    BY <1>1 DEF NoneComing, NoData
  <1>5. (NoHeader => NoHeader') /\ (NoData => NoData')
    BY <1>1 DEF NoHeader, NoData
  <1>6. NoHeader' /\ ~Header(wire[1]) => NoHeader
    <2>1. ASSUME NoHeader', ~Header(wire[1]), NEW i \in 1 .. Len(wire) PROVE ~Header(wire[i])
      <3>1. CASE i = 1
        BY <2>1, <3>1
      <3>2. CASE i # 1
        BY <1>1, <2>1, <3>2 DEF NoHeader
      <3> QED BY <3>1, <3>2
    <2> QED BY <2>1 DEF NoHeader
  <1>7. Ended /\ ~reader'.received_command => Ended'
    BY <1>4 DEF Ended
  <1>8. wire' = <<>> => wire[1].kind = "lf" /\ ~Announces(wire[1])
    <2>1. wire' = <<>> => Len(wire) = 1
      BY <1>1
    <2> QED BY <2>1 DEF WireShape
  <1>9. ASSUME wire' # <<>> PROVE Follows(wire[1], wire'[1]) /\ wire'[1] \in Pieces
    <2>1. 1 \in 1 .. Len(wire') /\ 1 \in 1 .. Len(wire) - 1
      BY <1>1, <1>9
    <2>2. wire'[1] = wire[1 + 1] /\ Follows(wire[1], wire[1 + 1])
      BY <1>1, <2>1 DEF WireShape
    <2> QED BY <1>1, <2>1, <2>2
  <1> QED BY <1>2, <1>3, <1>4, <1>5, <1>6, <1>7, <1>8, <1>9

\* A block of data moves with the wire, or begins to be taken.
LEMMA ShiftedBlock ==
  ASSUME SessionInv, wire # <<>>, wire' = Tail(wire), NEW n \in Nat, NEW b \in Nat
  PROVE  /\ \A h \in Nat : Block(wire, h + 1, n, b) => Block(wire', h, n, b)
         /\ Block(wire, 0, n + 1, b) => wire[1] = Piece("data", "", b + 1) /\ Block(wire', 0, n, b + 1)
  <1>1. /\ Len(wire') \in Nat /\ Len(wire) = Len(wire') + 1
        /\ \A i \in 1 .. Len(wire') : i + 1 \in 1 .. Len(wire) /\ wire'[i] = wire[i + 1]
    BY WireShift
  <1>2. ASSUME NEW h \in Nat, Block(wire, h + 1, n, b) PROVE Block(wire', h, n, b)
    <2>1. h + n <= Len(wire')
      <3>1. (h + 1) + n <= Len(wire)
        BY <1>2 DEF Block
      <3> QED BY <1>1, <3>1
    <2>2. ASSUME NEW i \in 1 .. n PROVE wire'[h + i] = Piece("data", "", b + i)
      <3>1. h + i \in 1 .. Len(wire') /\ (h + i) + 1 = (h + 1) + i
        BY <1>1, <2>1
      <3>2. wire[(h + 1) + i] = Piece("data", "", b + i)
        BY <1>2 DEF Block
      <3>3. wire'[h + i] = wire[(h + i) + 1]
        BY <1>1, <3>1
      <3> QED BY <3>1, <3>2, <3>3
    <2>3. ASSUME NEW j \in 1 .. Len(wire'), wire'[j].kind = "data" PROVE j \in h + 1 .. h + n
      <3>1. j + 1 \in 1 .. Len(wire) /\ wire[j + 1].kind = "data"
        BY <1>1, <2>3
      <3>2. j + 1 \in (h + 1) + 1 .. (h + 1) + n
        BY <1>2, <3>1 DEF Block
      <3> QED BY <3>2
    <2> QED BY <2>1, <2>2, <2>3 DEF Block
  <1>3. ASSUME Block(wire, 0, n + 1, b)
        PROVE  wire[1] = Piece("data", "", b + 1) /\ Block(wire', 0, n, b + 1)
    <2>1. /\ 0 + (n + 1) <= Len(wire)
          /\ \A i \in 1 .. n + 1 : wire[0 + i] = Piece("data", "", b + i)
          /\ \A j \in 1 .. Len(wire) : wire[j].kind = "data" => j \in 0 + 1 .. 0 + (n + 1)
      BY <1>3 DEF Block
    <2>2. wire[1] = Piece("data", "", b + 1)
      <3>1. 1 \in 1 .. n + 1 /\ 0 + 1 = 1
        OBVIOUS
      <3>2. wire[0 + 1] = Piece("data", "", b + 1)
        BY <2>1, <3>1
      <3> QED BY <3>1, <3>2
    <2>3. 0 + n <= Len(wire')
      <3>1. 0 + (n + 1) <= Len(wire)
        BY <2>1
      <3> QED BY <1>1, <3>1
    <2>4. ASSUME NEW i \in 1 .. n PROVE wire'[0 + i] = Piece("data", "", (b + 1) + i)
      <3>1. i + 1 \in 1 .. n + 1 /\ 0 + (i + 1) = i + 1 /\ b + (i + 1) = (b + 1) + i /\ 0 + i = i
            /\ i \in 1 .. Len(wire')
        BY <1>1, <2>3
      <3>2. wire[0 + (i + 1)] = Piece("data", "", b + (i + 1))
        BY <2>1, <3>1
      <3>3. wire'[i] = wire[i + 1]
        BY <1>1, <3>1
      <3> QED BY <3>1, <3>2, <3>3
    <2>5. ASSUME NEW j \in 1 .. Len(wire'), wire'[j].kind = "data" PROVE j \in 0 + 1 .. 0 + n
      <3>1. j + 1 \in 1 .. Len(wire) /\ wire[j + 1].kind = "data"
        BY <1>1, <2>5
      <3>2. j + 1 \in 0 + 1 .. 0 + (n + 1)
        BY <2>1, <3>1
      <3> QED BY <3>2
    <2> QED BY <2>2, <2>3, <2>4, <2>5 DEF Block
  <1> QED BY <1>2, <1>3

\* What every byte that the interrupt takes leaves as it is.
InterruptKeeps ==
    /\ wire # <<>> /\ wire' = Tail(wire) /\ wire[1] \in Pieces /\ upd' = upd
    /\ Stage' = Stage /\ Consumed' = Consumed /\ Consumed \in Nat
    /\ (InAnswer' <=> InAnswer) /\ (Switching' <=> Switching) /\ (EofStale' <=> EofStale)
    /\ ~Fresh /\ ~Fresh' /\ CleanWire'
    /\ ftp'.open = ftp.open /\ ftp'.pos = ftp.pos

\* See InterruptKeeps.
LEMMA InterruptBase ==
  ASSUME SessionInv, CleanInv, Clean, Interrupt
  PROVE  /\ InterruptKeeps
         /\ AppendsData \/ AppendsChar \/ EndsLine \/ EndsNotice \/ EndsSession \/ EndsHeader
  <1>1. AppendByte /\ UNCHANGED <<prog, out, upd, todo>>
    BY DEF Interrupt, progVars, mainVars
  <1>2. /\ wire # <<>> /\ wire' = Tail(wire) /\ wire[1] \in Pieces
        /\ AppendsData \/ AppendsChar \/ EndsLine \/ EndsNotice \/ EndsSession \/ EndsHeader
    BY <1>1, AppendCases
  <1>3. CleanWire /\ upd \in Receiving
    BY CleanParts
  <1>4. ftp'.open = ftp.open /\ ftp'.pos = ftp.pos
    <2>1. ftp' = ftp \/ ftp' = [ftp EXCEPT !.ask = reader.need]
      BY <1>2 DEF AppendsData, AppendsChar, EndsLine, EndsNotice, EndsSession, EndsHeader
    <2> QED BY <2>1, CleanTypes DEF FtpType
  <1>5. /\ Stage' = Stage /\ (Switching' <=> Switching) /\ (EofStale' <=> EofStale)
    BY <1>1 DEF Stage, Switching, EofStale
  <1>6. Consumed' = Consumed
    <2>1. Stored' = Stored
      BY <1>1 DEF Stored
    <2> QED BY <1>1, <1>5, <2>1, SameConsumed
  <1>7. Consumed \in Nat
    BY <1>3, CleanTypes
  <1>8. ~Fresh /\ ~Fresh'
    <2>1. ~Fresh
      BY <1>2, <1>3 DEF CleanWire
    <2> QED BY <1>1, <1>5, <2>1 DEF Fresh
  <1>9. InAnswer' <=> InAnswer
    BY <1>5 DEF InAnswer
  <1>10. CleanWire'
    <2>1. WireShape(wire') /\ EndNoticed'
      BY <1>2, <1>3, <1>4, ShiftedWire DEF CleanWire
    <2> QED BY <1>3, <1>4, <1>8, <2>1 DEF CleanWire
  <1> QED BY <1>1, <1>2, <1>4, <1>5, <1>6, <1>7, <1>8, <1>9, <1>10 DEF InterruptKeeps

\* What is on the wire is shifted, and the notes on it with it.
LEMMA InterruptShift ==
  ASSUME SessionInv, CleanInv, Clean, InterruptKeeps
  PROVE  /\ NoneComing => NoneComing'
         /\ NoHeader => NoHeader'
         /\ NoHeader' /\ ~Header(wire[1]) => NoHeader
         /\ NoData => NoData'
         /\ Ended /\ ~reader'.received_command => Ended'
         /\ wire' = <<>> => wire[1].kind = "lf" /\ ~Announces(wire[1])
         /\ wire' # <<>> => Follows(wire[1], wire'[1]) /\ wire'[1] \in Pieces
  <1>1. WireShape(wire) /\ EndNoticed
    BY CleanParts DEF CleanWire
  <1> QED BY <1>1, ShiftedWire DEF InterruptKeeps

\* Data are first on the wire only while they are taken.
LEMMA FirstNotData ==
  ASSUME SessionInv, CleanInv, Clean, ~Taking, wire # <<>>
  PROVE  wire[1].kind # "data"
  <1>1. CleanData
    BY CleanParts
  <1>2. wire \in Seq(Pieces) /\ Len(wire) \in Nat /\ 1 \in 1 .. Len(wire)
    BY CleanTypes, Empty
  <1>3. CASE NoHeader
    BY <1>1, <1>2, <1>3 DEF CleanData, NoData
  <1>4. CASE ~NoHeader
    <2>1. PICK h \in 1 .. Len(wire) : Header(wire[h])
      BY <1>4 DEF NoHeader
    <2>2. Block(wire, h, wire[h].n, Consumed) /\ wire[h].n \in Nat
      BY <1>1, <2>1, CleanTypes DEF CleanData, Announced
    <2>3. wire[1].kind = "data" => 1 \in h + 1 .. h + wire[h].n
      BY <1>2, <2>2 DEF Block
    <2> QED BY <2>1, <2>2, <2>3
  <1> QED BY <1>3, <1>4

\* A piece of a line that is no header passes, with what the reader has of data
\* left alone.
LEMMA TextPasses ==
  ASSUME SessionInv, CleanInv, Clean, InterruptKeeps, ~reader.received_command,
         SameReader({"received_command", "pointer", "buffer", "requested", "need"}),
         ~Header(wire[1])
  PROVE  /\ CleanData' /\ ~Taking /\ ~Taking' /\ ~reader'.received_command
         /\ ftp'.ask \in {ftp.ask, Word} => CleanRequest'
         /\ (reader'.eof => reader.eof \/ Ended') => CleanEnd'
  <1>0. /\ CleanData /\ CleanRequest /\ CleanEnd
    BY CleanParts
  <1>1. /\ reader'.received_command = reader.received_command /\ reader'.pointer = reader.pointer
        /\ reader'.buffer = reader.buffer /\ reader'.requested = reader.requested
        /\ reader'.need = reader.need
    BY DEF SameReader
  <1>2. /\ wire # <<>> /\ wire' = Tail(wire) /\ upd' = upd
        /\ Stage' = Stage /\ Consumed' = Consumed /\ Consumed \in Nat
        /\ (InAnswer' <=> InAnswer) /\ (Switching' <=> Switching) /\ (EofStale' <=> EofStale)
        /\ ~Fresh /\ ~Fresh' /\ ftp'.pos = ftp.pos
    BY DEF InterruptKeeps
  <1>3. ~Taking /\ ~Taking' /\ Kept' = Kept
    BY <1>1, <1>2 DEF Taking, Kept
  <1>4. /\ NoHeader' => NoHeader
        /\ NoData => NoData'
        /\ Ended => Ended'
    BY <1>1, InterruptShift
  <1>5. Announced'
    <2>1. ASSUME NEW h \in 1 .. Len(wire'), Header(wire'[h])
          PROVE  Block(wire', h, wire'[h].n, Consumed) /\ ftp'.pos = Consumed + wire'[h].n
      <3>1. h + 1 \in 1 .. Len(wire) /\ wire'[h] = wire[h + 1] /\ Len(wire') \in Nat
        BY <1>2, WireShift
      <3>2. /\ Block(wire, h + 1, wire[h + 1].n, Consumed) /\ ftp.pos = Consumed + wire[h + 1].n
            /\ wire[h + 1].n \in Nat /\ h \in Nat
        BY <1>0, <2>1, <3>1, CleanTypes DEF CleanData, Announced
      <3>3. Block(wire', h, wire[h + 1].n, Consumed)
        BY <1>2, <3>2, ShiftedBlock
      <3> QED BY <1>2, <3>1, <3>2, <3>3
    <2> QED BY <1>2, <2>1 DEF Announced
  <1>6. Arriving' /\ Buffered'
    BY <1>0, <1>1, <1>2, <1>3 DEF CleanData, Arriving, Buffered
  <1>7. CleanData'
    <2>1. NoHeader' => ftp'.pos = Consumed' + Kept'
      BY <1>0, <1>2, <1>3, <1>4 DEF CleanData
    <2>2. NoHeader' => NoData'
      BY <1>0, <1>3, <1>4 DEF CleanData
    <2> QED BY <1>5, <1>6, <2>1, <2>2 DEF CleanData
  <1>8. ftp'.ask \in {ftp.ask, Word} => CleanRequest'
    BY <1>0, <1>1, <1>2 DEF CleanRequest
  <1>9. (reader'.eof => reader.eof \/ Ended') => CleanEnd'
    BY <1>0, <1>2, <1>4 DEF CleanEnd
  <1> QED BY <1>1, <1>3, <1>7, <1>8, <1>9

\* A character of a line.
LEMMA CharClean ==
  ASSUME SessionInv, CleanInv, Clean, InterruptKeeps, AppendsChar
  PROVE  CleanCommand' /\ CleanData' /\ CleanRequest' /\ CleanEnd'
  <1>0. CleanCommand /\ ~Fresh /\ ~Fresh' /\ wire # <<>> /\ wire[1] \in Pieces
    BY CleanParts DEF InterruptKeeps
  <1>1. /\ ~reader.received_command /\ ftp' = ftp /\ wire[1].kind # "lf"
        /\ reader'.eof = reader.eof
        /\ SameReader({"received_command", "pointer", "buffer", "requested", "need"})
    BY DEF AppendsChar, SameReader
  <1>2. ~Header(wire[1])
    BY <1>1 DEF Header
  <1>3. /\ CleanData' /\ ~Taking /\ ~Taking' /\ ~reader'.received_command
        /\ CleanRequest' /\ CleanEnd'
    BY <1>1, <1>2, TextPasses
  <1>4. wire[1].kind \in {"head", "tail"}
    <2>1. wire[1].kind # "data"
      BY <1>0, <1>3, FirstNotData
    <2> QED BY <1>0, <1>1, <2>1 DEF Pieces
  <1>5. /\ wire' # <<>> /\ wire'[1] \in Pieces /\ Follows(wire[1], wire'[1])
        /\ (Ended => Ended')
    BY <1>1, <1>3, InterruptShift
  <1>6. /\ wire[1].kind = "head" => wire'[1].kind = "tail"
        /\ wire[1].kind = "tail" => wire'[1].kind = "lf"
        /\ Announces(wire'[1]) <=> Announces(wire[1])
    BY <1>0, <1>4, <1>5, FollowsFields DEF Announces
  <1>7. reader.cmd = "ended" => Ended
    BY <1>0 DEF CleanCommand, CommandEnded
  <1>8. LineBegins'
    BY <1>4, <1>5, <1>6 DEF LineBegins
  <1>9. CommandEnded'
    <2>1. reader'.cmd = "ended" => reader.cmd = "ended"
      BY DEF AppendsChar
    <2> QED BY <1>5, <1>7, <2>1 DEF CommandEnded
  <1>10. LineTaken'
    <2> SUFFICES ASSUME Announces(wire'[1])
                 PROVE  /\ wire'[1].kind = "tail" => reader'.cmd = "begun"
                        /\ wire'[1].kind = "lf" => reader'.cmd = "whole"
      BY DEF LineTaken
    <2>1. reader.cmd # "ended"
      <3>1. 1 \in 1 .. Len(wire)
        BY <1>0, CleanTypes, Empty
      <3>2. ~Ended
        BY <1>6, <3>1 DEF Ended, NoneComing
      <3> QED BY <1>7, <3>2
    <2>2. CASE wire[1].kind = "head"
      <3>1. reader.cmd = "empty"
        BY <1>0, <1>3, <2>1, <2>2 DEF CleanCommand, LineBegins
      <3>2. reader'.cmd = "begun"
        BY <2>2, <3>1 DEF AppendsChar
      <3> QED BY <1>6, <2>2, <3>2
    <2>3. CASE wire[1].kind = "tail"
      <3>1. reader.cmd = "begun"
        BY <1>0, <1>3, <1>6, <2>3 DEF CleanCommand, LineTaken
      <3>2. reader'.cmd = "whole"
        BY <2>3, <3>1 DEF AppendsChar
      <3> QED BY <1>6, <2>3, <3>2
    <2> QED BY <1>4, <2>2, <2>3
  <1> QED BY <1>3, <1>8, <1>9, <1>10 DEF CleanCommand

\* The end of a line that announces no data.
LEMMA LineClean ==
  ASSUME SessionInv, CleanInv, Clean, InterruptKeeps, EndsLine \/ EndsNotice \/ EndsSession
  PROVE  CleanCommand' /\ CleanData' /\ CleanRequest' /\ CleanEnd'
  <1>0. /\ CleanCommand /\ CleanWire /\ CleanRequest /\ ~Fresh /\ ~Fresh'
        /\ wire # <<>> /\ wire[1] \in Pieces
    BY CleanParts DEF InterruptKeeps
  <1>1. /\ ~reader.received_command /\ wire[1].kind = "lf"
        /\ SameReader({"received_command", "pointer", "buffer", "requested", "need"})
    BY DEF EndsLine, EndsNotice, EndsSession, SameReader
  <1>2. ~Taking /\ 1 \in 1 .. Len(wire)
    BY <1>0, <1>1, CleanTypes, Empty DEF Taking
  <1>3. reader.cmd = "ended" => Ended
    BY <1>0 DEF CleanCommand, CommandEnded
  <1>4. EndsSession => ~ftp.open /\ ftp.pos = FileSize /\ NoneComing
    <2> SUFFICES ASSUME EndsSession PROVE ~ftp.open /\ ftp.pos = FileSize /\ NoneComing
      OBVIOUS
    <2>1. CASE reader.cmd = "ended"
      BY <1>3, <2>1 DEF Ended
    <2>2. CASE reader.cmd # "ended"
      <3>1. wire[1].text = EndText
        BY <1>0, <1>2, <2>2 DEF EndsSession, CleanWire, WireShape
      <3>2. /\ ~ftp.open /\ ftp.pos = FileSize
            /\ \A j \in 1 .. Len(wire) : wire[j].kind # "data" /\ ~Announces(wire[j])
        BY <1>0, <1>2, <3>1 DEF CleanWire, EndNoticed
      <3> QED BY <3>2 DEF NoneComing, NoData
    <2> QED BY <2>1, <2>2
  <1>5. ~Announces(wire[1])
    <2>1. CASE EndsLine
      BY <1>0, <1>1, <1>2, <2>1 DEF EndsLine, CleanCommand, LineTaken
    <2>2. CASE EndsNotice
      BY <2>2, TextNames DEF EndsNotice, Announces
    <2>3. CASE EndsSession
      BY <1>2, <1>4, <2>3 DEF NoneComing
    <2> QED BY <2>1, <2>2, <2>3
  <1>6. ~Header(wire[1])
    BY <1>5 DEF Header
  <1>7. /\ CleanData' /\ ~Taking' /\ ~reader'.received_command
        /\ ftp'.ask \in {ftp.ask, Word} => CleanRequest'
        /\ (reader'.eof => reader.eof \/ Ended') => CleanEnd'
    BY <1>1, <1>6, TextPasses
  <1>8. /\ NoneComing => NoneComing'
        /\ wire' # <<>> => Follows(wire[1], wire'[1]) /\ wire'[1] \in Pieces
    BY InterruptShift
  <1>9. wire' # <<>> => wire'[1].kind = "head"
    BY <1>0, <1>1, <1>5, <1>8, FollowsFields
  <1>10. EndsSession => Ended'
    BY <1>4, <1>7, <1>8 DEF Ended, InterruptKeeps
  <1>11. LineTaken'
    BY <1>9 DEF LineTaken
  <1>12. LineBegins'
    BY DEF LineBegins, EndsLine, EndsNotice, EndsSession
  <1>13. CommandEnded'
    <2>1. reader'.cmd = "ended" => EndsSession
      BY DEF EndsLine, EndsNotice
    <2> QED BY <1>10, <2>1 DEF CommandEnded
  <1>14. CleanEnd'
    <2>1. EndsLine \/ EndsNotice => reader'.eof = reader.eof
      BY DEF EndsLine, EndsNotice, SameReader
    <2> QED BY <1>7, <1>10, <2>1
  <1>15. CleanRequest'
    <2>1. CASE ~EndsNotice
      <3>1. ftp' = ftp
        BY <2>1 DEF EndsLine, EndsSession
      <3> QED BY <1>7, <3>1
    <2>2. CASE EndsNotice
      <3>1. Counts(wire[1])
        BY <2>2, CountsAre DEF EndsNotice
      <3>2. Stage > 7
        BY <1>2, <3>1 DEF SessionInv, OneRequest, Outstanding, Answered
      <3>3. ftp'.ask = reader.need
        BY <2>2, CleanTypes DEF EndsNotice, FtpType
      <3>4. upd # "GET_BYTES_FIRMWARE" => reader.need = Word
        <4>2. Stage \in 0 .. 14
          BY CleanTypes
        <4>1. Stage >= 7
          BY <3>2, <4>2
        <4> QED BY <1>0, <4>1 DEF CleanRequest
      <3>5. CASE upd # "GET_BYTES_FIRMWARE"
        BY <1>7, <3>3, <3>4, <3>5
      <3>6. CASE upd = "GET_BYTES_FIRMWARE"
        <4>1. upd' = "GET_BYTES_FIRMWARE" /\ (InAnswer' <=> InAnswer)
          BY <3>6 DEF InterruptKeeps
        <4>2. reader'.requested = reader.requested /\ reader'.pointer = reader.pointer
          BY <1>1 DEF SameReader
        <4> QED BY <1>0, <1>7, <4>1, <4>2 DEF CleanRequest
      <3> QED BY <3>5, <3>6
    <2> QED BY <2>1, <2>2
  <1> QED BY <1>7, <1>11, <1>12, <1>13, <1>14, <1>15 DEF CleanCommand

\* A byte of the file.
LEMMA DataClean ==
  ASSUME SessionInv, CleanInv, Clean, InterruptKeeps, AppendsData
  PROVE  CleanCommand' /\ CleanData' /\ CleanRequest' /\ CleanEnd'
  <1>0. /\ CleanCommand /\ CleanData /\ CleanRequest /\ CleanEnd
    BY CleanParts
  <1>1. /\ wire # <<>> /\ wire' = Tail(wire) /\ wire[1] \in Pieces /\ upd' = upd
        /\ Stage' = Stage /\ Consumed' = Consumed /\ Consumed \in Nat
        /\ (InAnswer' <=> InAnswer) /\ (Switching' <=> Switching) /\ (EofStale' <=> EofStale)
        /\ ~Fresh /\ ~Fresh'
    BY DEF InterruptKeeps
  <1>2. /\ reader.received_command /\ ftp' = ftp
        /\ reader'.buffer = [reader.buffer EXCEPT ![reader.pointer + 1] =
                                IF wire[1].kind = "data" THEN wire[1].n ELSE Junk]
        /\ reader.pointer + 1 \in 1 .. Buf /\ reader'.pointer = reader.pointer + 1
        /\ reader'.received_command = (reader.pointer + 1 # reader.from)
        /\ reader'.requested = (reader.requested \/ reader.pointer + 1 = reader.from)
        /\ reader'.cmd = IF reader.pointer + 1 = reader.from THEN "empty" ELSE reader.cmd
        /\ reader'.need = reader.need /\ reader'.from = reader.from /\ reader'.eof = reader.eof
    BY DEF AppendsData, SameReader
  <1>3. InAnswer /\ Taking /\ InAnswer'
    BY <1>0, <1>1, <1>2 DEF CleanRequest, Taking
  <1>4. NoHeader
    <2>1. ~Answered
      BY <1>2 DEF SessionInv, OneRequest, Outstanding
    <2> QED BY <2>1, CountsAre DEF NoHeader, Header, Answered
  <1>5. ~Ended /\ reader.cmd # "ended"
    BY <1>0, <1>1, <1>2 DEF Ended, CleanCommand, CommandEnded
  <1>6. Stage \notin 12 .. 13 /\ ~reader.requested
    BY <1>0, <1>2, <1>3, <1>5 DEF CleanRequest, CleanEnd
  <1> DEFINE n == (reader.from - reader.pointer) - 1
             b == Consumed + reader.pointer
  <1>7. /\ reader.pointer \in Nat /\ reader.from \in Nat /\ reader.pointer < reader.from
        /\ reader.buffer \in [1 .. Buf -> Values]
    <2>1. reader \in ReaderType /\ Buf \in Nat
      BY CleanTypes
    <2>2. reader.pointer < reader.from
      BY <1>2 DEF SessionInv, OneRequest, DataCanEnd
    <2> QED BY <2>1, <2>2 DEF ReaderType
  <1>8. n \in Nat /\ b \in Nat /\ reader.from - reader.pointer = n + 1
    BY <1>1, <1>7
  <1>9. Block(wire, 0, n + 1, b)
    BY <1>0, <1>3, <1>8 DEF CleanData, Arriving
  <1>10. wire[1] = Piece("data", "", b + 1) /\ Block(wire', 0, n, b + 1)
    <2> HIDE DEF n, b
    <2> QED BY <1>1, <1>8, <1>9, ShiftedBlock
  <1>11. wire[1].kind = "data" /\ wire[1].n = b + 1
    <2>1. Piece("data", "", b + 1).kind = "data" /\ Piece("data", "", b + 1).n = b + 1
      BY DEF Piece
    <2> QED BY <1>10, <2>1, Zenon
  <1>12. /\ NoHeader'
         /\ wire' # <<>> => Follows(wire[1], wire'[1]) /\ wire'[1] \in Pieces
    BY <1>4, InterruptShift
  <1>13. wire' # <<>> => wire'[1].kind \in {"data", "head"}
    BY <1>1, <1>11, <1>12, FollowsFields
  <1>14. ftp'.pos = Consumed + reader.from
    BY <1>0, <1>2, <1>3, <1>4 DEF CleanData, Kept
  <1>15. Kept' = reader.from
    <2>1. CASE reader.pointer + 1 = reader.from
      BY <1>2, <1>3, <2>1 DEF Kept, Taking
    <2>2. CASE reader.pointer + 1 # reader.from
      BY <1>2, <1>3, <2>2 DEF Kept, Taking
    <2> QED BY <2>1, <2>2
  <1>16. Announced'
    BY <1>12 DEF Announced, NoHeader
  <1>17. Arriving'
    <2> SUFFICES ASSUME Taking'
                 PROVE  Block(wire', 0, reader'.from - reader'.pointer, Consumed' + reader'.pointer)
      BY DEF Arriving
    <2>1. reader'.from - reader'.pointer = n /\ Consumed' + reader'.pointer = b + 1
      BY <1>1, <1>2, <1>7
    <2> QED BY <1>10, <2>1
  <1>18. Buffered'
    <2> SUFFICES ASSUME NEW i \in 1 .. reader.pointer + 1
                 PROVE  reader'.buffer[i] = Consumed + i
      BY <1>1, <1>2 DEF Buffered
    <2>1. CASE i = reader.pointer + 1
      <3>1. reader'.buffer[i] = b + 1
        BY <1>2, <1>7, <1>11, <2>1
      <3> QED BY <1>1, <1>7, <2>1, <3>1
    <2>2. CASE i # reader.pointer + 1
      <3>1. i \in 1 .. reader.pointer
        BY <1>7, <2>2
      <3>2. reader.buffer[i] = Consumed + i
        BY <1>0, <1>3, <3>1 DEF CleanData, Buffered
      <3>3. i \in 1 .. Buf
        <4>1. Buf \in Nat /\ reader.pointer + 1 <= Buf
          BY <1>2, Parameters
        <4> QED BY <1>7, <4>1
      <3> QED BY <1>2, <1>7, <2>2, <3>2, <3>3
    <2> QED BY <2>1, <2>2
  <1>19. ~Taking' => NoData'
    <2> SUFFICES ASSUME ~Taking' PROVE NoData'
      OBVIOUS
    <2>1. reader.pointer + 1 = reader.from
      BY <1>2, <1>3 DEF Taking
    <2>2. n = 0
      BY <1>7, <2>1
    <2>3. \A j \in 1 .. Len(wire') : wire'[j].kind = "data" => j \in 0 + 1 .. 0 + 0
      BY <1>10, <2>2 DEF Block
    <2>4. \A j : j \notin 0 + 1 .. 0 + 0
      OBVIOUS
    <2> QED BY <2>3, <2>4 DEF NoData
  <1>20. CleanData'
    BY <1>1, <1>14, <1>15, <1>16, <1>17, <1>18, <1>19 DEF CleanData
  <1>21. CleanCommand'
    <2>1. LineTaken'
      BY <1>13 DEF LineTaken
    <2>2. LineBegins'
      BY <1>2, <1>3 DEF LineBegins, Taking
    <2>3. CommandEnded'
      BY <1>2, <1>5 DEF CommandEnded
    <2> QED BY <2>1, <2>2, <2>3 DEF CleanCommand
  <1>22. CleanRequest'
    <2>1. reader'.requested => reader'.pointer > 0 /\ ~reader'.received_command
      <3>1. CASE reader.pointer + 1 = reader.from
        <4>1. reader.pointer + 1 > 0
          BY <1>7
        <4> QED BY <1>2, <3>1, <4>1
      <3>2. CASE reader.pointer + 1 # reader.from
        BY <1>2, <1>6, <3>2
      <3> QED BY <3>1, <3>2
    <2> QED BY <1>0, <1>1, <1>2, <1>3, <2>1 DEF CleanRequest
  <1>23. CleanEnd'
    BY <1>0, <1>1, <1>2, <1>5, <1>6 DEF CleanEnd
  <1> QED BY <1>20, <1>21, <1>22, <1>23

\* The end of a line that announces data.
LEMMA HeaderClean ==
  ASSUME SessionInv, CleanInv, Clean, InterruptKeeps, EndsHeader
  PROVE  CleanCommand' /\ CleanData' /\ CleanRequest' /\ CleanEnd'
  <1>0. /\ CleanCommand /\ CleanData /\ CleanRequest /\ CleanEnd
    BY CleanParts
  <1>1. /\ wire # <<>> /\ wire' = Tail(wire) /\ wire[1] \in Pieces /\ upd' = upd
        /\ Stage' = Stage /\ Consumed' = Consumed /\ Consumed \in Nat
        /\ (InAnswer' <=> InAnswer) /\ (Switching' <=> Switching) /\ (EofStale' <=> EofStale)
        /\ ~Fresh /\ ~Fresh'
    BY DEF InterruptKeeps
  <1>2. /\ ~reader.received_command /\ ftp' = ftp /\ wire[1].kind = "lf" /\ Announces(wire[1])
        /\ reader'.received_command = TRUE /\ reader'.from = wire[1].n
        /\ reader'.cmd = "whole" /\ reader'.need = reader.need /\ reader'.eof = reader.eof
        /\ reader'.pointer = reader.pointer /\ reader'.requested = reader.requested
    BY DEF EndsHeader, SameReader
  <1>3. 1 \in 1 .. Len(wire) /\ wire[1].n \in Nat /\ Stage \in 0 .. 14 /\ Stage # 11
    BY <1>1, CleanTypes, Empty
  <1>4. Counts(wire[1]) /\ Header(wire[1])
    BY <1>2, CountsAre DEF Header
  <1>5. Outstanding
    BY <1>3, <1>4 DEF Outstanding, Answered
  <1>6. Stage > 7 /\ reader.pointer = 0 /\ ~reader.requested
    BY <1>5 DEF SessionInv, OneRequest
  <1>7. ~Ended
    BY <1>2, <1>3 DEF Ended, NoneComing
  <1>8. Stage \notin 12 .. 13
    BY <1>0, <1>7 DEF CleanEnd
  <1>9. InAnswer /\ InAnswer' /\ Taking'
    <2>1. InAnswer
      BY <1>3, <1>6, <1>8 DEF InAnswer, Idle
    <2> QED BY <1>1, <1>2, <2>1 DEF Taking
  <1> DEFINE n == wire[1].n
  <1>10. Block(wire, 1, n, Consumed) /\ ftp.pos = Consumed + n
    BY <1>0, <1>3, <1>4 DEF CleanData, Announced
  <1>11. Block(wire', 0, n, Consumed)
    <2>1. Block(wire, 0 + 1, n, Consumed) /\ n \in Nat
      BY <1>3, <1>10
    <2> HIDE DEF n
    <2> QED BY <1>1, <2>1, ShiftedBlock
  <1>12. NoHeader'
    <2>1. ASSUME NEW i \in 1 .. Len(wire'), Header(wire'[i]) PROVE FALSE
      <3>1. i + 1 \in 1 .. Len(wire) /\ wire'[i] = wire[i + 1] /\ Len(wire') \in Nat
        BY <1>1, WireShift
      <3>2. Counts(wire[i + 1])
        BY <2>1, <3>1, CountsAre DEF Header
      <3>3. i + 1 = 1
        BY <1>3, <1>4, <3>1, <3>2 DEF SessionInv, OneRequest
      <3> QED BY <3>3
    <2> QED BY <2>1 DEF NoHeader
  <1>13. Announced' /\ Buffered'
    BY <1>2, <1>6, <1>12 DEF Announced, NoHeader, Buffered
  <1>14. Arriving'
    <2>1. reader'.from - reader'.pointer = n /\ Consumed' + reader'.pointer = Consumed
      BY <1>1, <1>2, <1>3, <1>6
    <2> QED BY <1>11, <2>1 DEF Arriving
  <1>15. CleanData'
    <2>1. Kept' = n
      BY <1>2, <1>9 DEF Kept
    <2> QED BY <1>1, <1>2, <1>9, <1>10, <1>13, <1>14, <2>1 DEF CleanData
  <1>16. CleanCommand'
    BY <1>2, <1>9 DEF CleanCommand, LineTaken, LineBegins, CommandEnded
  <1>17. CleanRequest'
    BY <1>0, <1>1, <1>2, <1>6, <1>9 DEF CleanRequest
  <1>18. CleanEnd'
    BY <1>0, <1>1, <1>2, <1>7, <1>8 DEF CleanEnd
  <1> QED BY <1>15, <1>16, <1>17, <1>18

\* The interrupt keeps a session clean.
LEMMA InterruptClean ==
  ASSUME SessionInv, CleanInv, Clean, Interrupt
  PROVE  CleanWire' /\ CleanCommand' /\ CleanData' /\ CleanRequest' /\ CleanEnd'
  <1>1. /\ InterruptKeeps
        /\ AppendsData \/ AppendsChar \/ EndsLine \/ EndsNotice \/ EndsSession \/ EndsHeader
    BY InterruptBase
  <1>2. CleanWire'
    BY <1>1 DEF InterruptKeeps
  <1> QED BY <1>1, <1>2, DataClean, CharClean, LineClean, HeaderClean

\* What the chip leaves as it is.
ChipKeeps ==
    /\ reader' = reader /\ upd' = upd /\ Stage' = Stage
    /\ Consumed' = Consumed /\ Consumed \in Nat
    /\ (InAnswer' <=> InAnswer) /\ (Switching' <=> Switching) /\ (EofStale' <=> EofStale)
    /\ (Fresh' <=> Fresh) /\ (Taking' <=> Taking) /\ Kept' = Kept

-----------------------------------------------------------------------------
(* The chip continues the file.                                            *)

\* See ChipKeeps.
LEMMA ChipBase ==
  ASSUME SessionInv, CleanInv, Clean, ChipStep
  PROVE  /\ ChipKeeps /\ wire \in Seq(Pieces)
         /\ (\E m \in Nat : ChipGives(m)) \/ (\E text : ChipSays(text))
  <1>1. Chip /\ UNCHANGED <<prog, out, upd, todo>>
    BY DEF ChipStep, progVars, mainVars
  <1>2. /\ reader' = reader /\ wire \in Seq(Pieces)
        /\ (\E m \in Nat : ChipGives(m)) \/ (\E text : ChipSays(text))
    BY <1>1, ChipWire
  <1>3. Stage' = Stage /\ (Switching' <=> Switching) /\ (EofStale' <=> EofStale)
    BY <1>1 DEF Stage, Switching, EofStale
  <1>4. Consumed' = Consumed
    <2>1. Stored' = Stored
      BY <1>1 DEF Stored
    <2> QED BY <1>1, <1>3, <2>1, SameConsumed
  <1>5. Consumed \in Nat
    BY CleanParts, CleanTypes
  <1>6. (InAnswer' <=> InAnswer) /\ (Fresh' <=> Fresh)
    BY <1>1, <1>3 DEF InAnswer, Fresh
  <1>7. (Taking' <=> Taking) /\ Kept' = Kept
    BY <1>2, <1>6 DEF Taking, Kept
  <1> QED BY <1>1, <1>2, <1>3, <1>4, <1>5, <1>6, <1>7 DEF ChipKeeps

\* Lines come behind lines.
LEMMA ShapeGrows ==
  ASSUME WireShape(wire), wire \in Seq(Pieces), NEW b \in Seq(Pieces), WireShape(b),
         Len(b) > 0, b[1].kind = "head", wire' = wire \o b
  PROVE  WireShape(wire')
  <1>1. /\ Len(wire') = Len(wire) + Len(b) /\ Len(wire) \in Nat /\ Len(b) \in Nat
        /\ \A i \in 1 .. Len(wire) : wire'[i] = wire[i]
        /\ \A i \in 1 .. Len(b) : wire'[Len(wire) + i] = b[i]
        /\ \A i \in 1 .. Len(wire') :
             i \notin 1 .. Len(wire) => i - Len(wire) \in 1 .. Len(b) /\ wire'[i] = b[i - Len(wire)]
    BY WireGrows
  <1>2. ASSUME NEW i \in 1 .. Len(wire') - 1 PROVE Follows(wire'[i], wire'[i + 1])
    <2>1. CASE i < Len(wire)
      <3>1. i \in 1 .. Len(wire) - 1 /\ i \in 1 .. Len(wire) /\ i + 1 \in 1 .. Len(wire)
        BY <1>1, <2>1
      <3>2. Follows(wire[i], wire[i + 1])
        BY <3>1 DEF WireShape
      <3> QED BY <1>1, <3>1, <3>2
    <2>2. CASE i = Len(wire)
      <3>1. wire # <<>> /\ i \in 1 .. Len(wire) /\ 1 \in 1 .. Len(b)
        BY <1>1, <2>2, Empty
      <3>2. wire[i].kind = "lf" /\ ~Announces(wire[i])
        BY <2>2, <3>1 DEF WireShape
      <3>3. wire'[i + 1] = b[1] /\ wire'[i] = wire[i]
        BY <1>1, <2>2, <3>1
      <3> QED BY <3>2, <3>3 DEF Follows
    <2>3. CASE i > Len(wire)
      <3> DEFINE j == i - Len(wire)
      <3>1. /\ j \in 1 .. Len(b) - 1 /\ j \in 1 .. Len(b) /\ j + 1 \in 1 .. Len(b)
            /\ Len(wire) + j = i /\ Len(wire) + (j + 1) = i + 1
        BY <1>1, <2>3
      <3> HIDE DEF j
      <3>2. Follows(b[j], b[j + 1])
        BY <3>1 DEF WireShape
      <3>3. wire'[Len(wire) + j] = b[j] /\ wire'[Len(wire) + (j + 1)] = b[j + 1]
        BY <1>1, <3>1
      <3> QED BY <3>1, <3>2, <3>3
    <2> QED BY <1>1, <2>1, <2>2, <2>3
  <1>3. wire'[Len(wire')].kind = "lf" /\ ~Announces(wire'[Len(wire')])
    <2>1. Len(b) \in 1 .. Len(b) /\ b # <<>>
      BY <1>1, Empty
    <2>2. wire'[Len(wire')] = b[Len(b)]
      BY <1>1, <2>1
    <2> QED BY <2>1, <2>2 DEF WireShape
  <1>4. ASSUME NEW i \in 1 .. Len(wire') PROVE wire'[i].text # FailText
    <2>1. CASE i \in 1 .. Len(wire)
      BY <1>1, <2>1 DEF WireShape
    <2>2. CASE i \notin 1 .. Len(wire)
      BY <1>1, <2>2 DEF WireShape
    <2> QED BY <2>1, <2>2
  <1> QED BY <1>2, <1>3, <1>4 DEF WireShape

\* The line that is being taken is still the first one.
LEMMA LineGrows ==
  ASSUME SessionInv, CleanCommand, ChipKeeps, ~Fresh, NEW b \in Seq(Pieces),
         Len(b) > 0, b[1].kind = "head", wire' = wire \o b
  PROVE  LineTaken' /\ LineBegins'
  <1>1. wire \in Seq(Pieces)
    BY CleanTypes
  <1>2. /\ Len(wire') = Len(wire) + Len(b) /\ Len(wire) \in Nat /\ Len(b) \in Nat
        /\ \A i \in 1 .. Len(wire) : wire'[i] = wire[i]
        /\ \A i \in 1 .. Len(b) : wire'[Len(wire) + i] = b[i]
    BY <1>1, WireGrows
  <1>3. reader' = reader /\ (Taking' <=> Taking) /\ ~Fresh'
    BY DEF ChipKeeps
  <1>4. CASE wire = <<>>
    <2>1. Len(wire) = 0 /\ 1 \in 1 .. Len(b)
      BY <1>1, <1>2, <1>4, Empty
    <2>2. wire'[0 + 1].kind = "head" /\ 0 + 1 = 1
      BY <1>2, <2>1
    <2>3. wire'[1].kind = "head"
      BY <2>2
    <2>4. LineTaken'
      BY <2>3 DEF LineTaken
    <2>5. LineBegins'
      BY <1>3, <1>4 DEF LineBegins, CleanCommand
    <2> QED BY <2>4, <2>5
  <1>5. CASE wire # <<>>
    <2>1. 1 \in 1 .. Len(wire)
      BY <1>1, <1>2, <1>5, Empty
    <2>2. wire'[1] = wire[1] /\ wire' # <<>>
      BY <1>2, <2>1
    <2>3. LineTaken'
      BY <1>3, <1>5, <2>2 DEF LineTaken, CleanCommand
    <2>4. LineBegins'
      BY <1>3, <1>5, <2>2 DEF LineBegins, CleanCommand
    <2> QED BY <2>3, <2>4
  <1> QED BY <1>4, <1>5

\* Before the first request the chip has nothing to say.
LEMMA FreshChip ==
  ASSUME SessionInv, CleanInv, Clean, Fresh, NEW text
  PROVE  /\ ftp.ask = 0 /\ ~(ChipSays(text) /\ clean')
  <1>1. ftp.ask = 0 /\ ~ftp.owes
    BY CleanParts DEF CleanWire
  <1>2. Stage \in 0 .. 7
    <2>1. Stage \in 0 .. 14
      BY CleanTypes
    <2> QED BY <2>1 DEF Fresh
  <1>3. ~InAnswer
    BY <1>2 DEF InAnswer, Idle
  <1>4. ftp.pos = Consumed
    BY <1>3, OutsideAnswer
  <1>5. Consumed = 0
    BY DEF Consumed, Fresh
  <1>6. FileSize # 0
    BY Parameters DEF FileSize
  <1> QED BY <1>1, <1>4, <1>5, <1>6 DEF ChipSays

\* The chip sends a line.
LEMMA SaysClean ==
  ASSUME SessionInv, CleanInv, Clean, ChipKeeps, NEW text, ChipSays(text), clean'
  PROVE  CleanWire' /\ CleanCommand' /\ CleanData' /\ CleanRequest' /\ CleanEnd'
  <1>0. /\ CleanWire /\ CleanCommand /\ CleanData /\ CleanRequest /\ CleanEnd
    BY CleanParts
  <1>1. /\ text \in {"ERROR", MoreText, EndText, FailText} /\ text # FailText
        /\ wire' = wire \o Line(text, 0) /\ ftp'.pos = ftp.pos /\ ftp'.ask \in {0, ftp.ask}
        /\ ~ftp.open => ~ftp'.open
        /\ ftp'.open = ftp.open \/ ftp.pos = FileSize
        /\ text = EndText => ~ftp'.open /\ ftp.pos = FileSize
    BY DEF ChipSays
  <1>2. ~Fresh
    BY FreshChip
  <1>3. /\ reader' = reader /\ upd' = upd /\ Stage' = Stage
        /\ Consumed' = Consumed /\ Consumed \in Nat
        /\ (InAnswer' <=> InAnswer) /\ (Switching' <=> Switching) /\ (EofStale' <=> EofStale)
        /\ ~Fresh' /\ (Taking' <=> Taking) /\ Kept' = Kept
    BY <1>2 DEF ChipKeeps
  <1> DEFINE b == Line(text, 0)
  <1>4. IsLine(b, text)
    BY <1>1, LineShape
  <1> HIDE DEF b
  <1>5. /\ b \in Seq(Pieces) /\ Len(b) = 3 /\ b[1].kind = "head" /\ WireShape(b)
        /\ \A i \in 1 .. 3 : b[i].kind # "data" /\ ~Announces(b[i]) /\ b[i].text = text
    BY <1>1, <1>4 DEF IsLine
  <1>6. wire' = wire \o b /\ wire \in Seq(Pieces) /\ Len(b) > 0
    BY <1>1, <1>5, CleanTypes DEF b
  <1>7. /\ Len(wire') = Len(wire) + Len(b) /\ Len(wire) \in Nat
        /\ \A i \in 1 .. Len(wire) : i \in 1 .. Len(wire') /\ wire'[i] = wire[i]
    <2>1. /\ Len(wire') = Len(wire) + Len(b) /\ Len(wire) \in Nat /\ Len(b) \in Nat
          /\ \A i \in 1 .. Len(wire) : wire'[i] = wire[i]
      BY <1>5, <1>6, WireGrows
    <2>2. \A i \in 1 .. Len(wire) : i \in 1 .. Len(wire')
      BY <2>1
    <2> QED BY <2>1, <2>2
  <1>8. \A i \in 1 .. Len(wire') : i \notin 1 .. Len(wire) =>
           wire'[i].kind # "data" /\ ~Announces(wire'[i]) /\ wire'[i].text = text
    <2> SUFFICES ASSUME NEW i \in 1 .. Len(wire'), i \notin 1 .. Len(wire)
                 PROVE  wire'[i].kind # "data" /\ ~Announces(wire'[i]) /\ wire'[i].text = text
      OBVIOUS
    <2>1. i - Len(wire) \in 1 .. Len(b) /\ wire'[i] = b[i - Len(wire)]
      BY <1>5, <1>6, WireGrows
    <2> QED BY <1>5, <2>1
  <1>9. (NoneComing => NoneComing') /\ (NoData => NoData') /\ (NoHeader' => NoHeader)
    <2>1. NoneComing => NoneComing'
      BY <1>7, <1>8 DEF NoneComing, NoData
    <2>2. NoData => NoData'
      BY <1>7, <1>8 DEF NoData
    <2>3. NoHeader' => NoHeader
      BY <1>7 DEF NoHeader
    <2> QED BY <2>1, <2>2, <2>3
  <1>10. Ended => Ended'
    BY <1>1, <1>3, <1>9 DEF Ended
  <1>11. EndNoticed'
    <2> SUFFICES ASSUME NEW i \in 1 .. Len(wire'), wire'[i].text = EndText
                 PROVE  /\ ~ftp'.open /\ ftp'.pos = FileSize
                        /\ \A j \in i .. Len(wire') : wire'[j].kind # "data" /\ ~Announces(wire'[j])
      BY DEF EndNoticed
    <2>1. CASE i \in 1 .. Len(wire)
      <3>1. /\ ~ftp.open /\ ftp.pos = FileSize
            /\ \A j \in i .. Len(wire) : wire[j].kind # "data" /\ ~Announces(wire[j])
        BY <1>0, <1>7, <2>1 DEF CleanWire, EndNoticed
      <3>2. ASSUME NEW j \in i .. Len(wire')
            PROVE  wire'[j].kind # "data" /\ ~Announces(wire'[j])
        <4>1. CASE j <= Len(wire)
          <5>1. j \in i .. Len(wire) /\ j \in 1 .. Len(wire)
            BY <1>7, <2>1, <4>1
          <5> QED BY <1>7, <3>1, <5>1
        <4>2. CASE ~(j <= Len(wire))
          <5>1. j \in 1 .. Len(wire') /\ j \notin 1 .. Len(wire)
            BY <1>7, <2>1, <4>2
          <5> QED BY <1>8, <5>1
        <4> QED BY <4>1, <4>2
      <3> QED BY <1>1, <3>1, <3>2
    <2>2. CASE i \notin 1 .. Len(wire)
      <3>1. text = EndText
        BY <1>8, <2>2
      <3>2. ASSUME NEW j \in i .. Len(wire')
            PROVE  j \in 1 .. Len(wire') /\ j \notin 1 .. Len(wire)
        BY <1>5, <1>7, <2>2
      <3> QED BY <1>1, <1>8, <3>1, <3>2
    <2> QED BY <2>1, <2>2
  <1>12. CleanWire'
    <2>1. WireShape(wire')
      BY <1>0, <1>5, <1>6, ShapeGrows DEF CleanWire
    <2> QED BY <1>0, <1>1, <1>3, <1>11, <2>1 DEF CleanWire
  <1>13. CleanCommand'
    <2>1. LineTaken' /\ LineBegins'
      BY <1>0, <1>2, <1>5, <1>6, LineGrows
    <2>2. CommandEnded'
      BY <1>0, <1>2, <1>3, <1>10 DEF CleanCommand, CommandEnded
    <2> QED BY <2>1, <2>2 DEF CleanCommand
  <1>14. ASSUME NEW h \in Nat, NEW n \in Nat, NEW c, Block(wire, h, n, c)
         PROVE  Block(wire', h, n, c)
    <2>1. h + n <= Len(wire')
      <3>1. h + n <= Len(wire)
        BY <1>14 DEF Block
      <3> QED BY <1>5, <1>7, <3>1
    <2>2. ASSUME NEW i \in 1 .. n PROVE wire'[h + i] = Piece("data", "", c + i)
      <3>1. h + i \in 1 .. Len(wire)
        <4>1. h + n <= Len(wire)
          BY <1>14 DEF Block
        <4> QED BY <1>7, <4>1
      <3> QED BY <1>7, <1>14, <3>1 DEF Block
    <2>3. ASSUME NEW j \in 1 .. Len(wire'), wire'[j].kind = "data" PROVE j \in h + 1 .. h + n
      BY <1>7, <1>8, <1>14, <2>3 DEF Block
    <2> QED BY <2>1, <2>2, <2>3 DEF Block
  <1>15. CleanData'
    <2>1. Announced'
      <3> SUFFICES ASSUME NEW h \in 1 .. Len(wire'), Header(wire'[h])
                   PROVE  Block(wire', h, wire'[h].n, Consumed) /\ ftp'.pos = Consumed + wire'[h].n
        BY <1>3 DEF Announced
      <3>1. h \in 1 .. Len(wire) /\ wire'[h] = wire[h]
        BY <1>7, <1>8 DEF Header
      <3>2. Block(wire, h, wire[h].n, Consumed) /\ ftp.pos = Consumed + wire[h].n
        BY <1>0, <3>1 DEF CleanData, Announced
      <3>3. wire[h].n \in Nat /\ h \in Nat
        BY <3>1, CleanTypes
      <3> QED BY <1>1, <1>14, <3>1, <3>2, <3>3
    <2>2. Arriving'
      <3> SUFFICES ASSUME Taking
                   PROVE  Block(wire', 0, reader.from - reader.pointer, Consumed + reader.pointer)
        BY <1>3 DEF Arriving
      <3>1. Block(wire, 0, reader.from - reader.pointer, Consumed + reader.pointer)
        BY <1>0 DEF CleanData, Arriving
      <3>2. reader.from - reader.pointer \in Nat
        <4>1. reader.pointer < reader.from
          BY DEF Taking, SessionInv, OneRequest, DataCanEnd
        <4>2. reader.pointer \in Nat /\ reader.from \in Nat
          BY LengthTypes DEF SessionInv
        <4> QED BY <4>1, <4>2
      <3> QED BY <1>14, <3>1, <3>2
    <2>3. Buffered'
      BY <1>0, <1>3 DEF CleanData, Buffered
    <2> QED BY <1>0, <1>1, <1>3, <1>9, <2>1, <2>2, <2>3 DEF CleanData
  <1>16. CleanRequest'
    BY <1>0, <1>1, <1>2, <1>3 DEF CleanRequest
  <1>17. CleanEnd'
    BY <1>0, <1>3, <1>10 DEF CleanEnd
  <1> QED BY <1>12, <1>13, <1>15, <1>16, <1>17

\* The chip answers with bytes of the file.
LEMMA GivesClean ==
  ASSUME SessionInv, CleanInv, Clean, ChipKeeps, NEW m \in Nat, ChipGives(m), clean'
  PROVE  CleanWire' /\ CleanCommand' /\ CleanData' /\ CleanRequest' /\ CleanEnd'
  <1>0. /\ CleanWire /\ CleanCommand /\ CleanData /\ CleanRequest /\ CleanEnd
        /\ upd \in Receiving
    BY CleanParts
  <1>1. /\ ftp.open /\ ftp.ask > 0 /\ m <= Buf /\ ftp.pos + m <= FileSize
        /\ wire' = wire \o (Line("2", m) \o Data(m, ftp.pos) \o Line("OK", 0))
        /\ ftp' = [ftp EXCEPT !.pos = @ + m, !.ask = 0, !.owes = (m = 0)]
        /\ ftp.pos < 2 * Word => m \in {0, ftp.ask}
    BY DEF ChipGives
  <1>2. ftp'.open /\ ftp'.pos = ftp.pos + m /\ ftp'.ask = 0 /\ ftp.pos \in Nat
    <2>1. ftp \in FtpType /\ FileSize \in Nat
      BY CleanTypes
    <2> QED BY <1>1, <2>1 DEF FtpType
  <1>3. Outstanding /\ ~Answered
    BY <1>1 DEF Outstanding, SessionInv, OneRequest
  <1>4. Stage > 7 /\ reader.pointer = 0 /\ ~reader.received_command /\ ~reader.requested
    BY <1>3 DEF SessionInv, OneRequest
  <1>5. ~Ended /\ Stage \notin 12 .. 13
    BY <1>0, <1>1 DEF Ended, CleanEnd
  <1>6. InAnswer /\ ~Taking /\ ~Fresh /\ Kept = 0
    <2>1. Stage \in 0 .. 14 /\ Stage # 11
      BY CleanTypes
    <2>2. InAnswer
      BY <1>4, <1>5, <2>1 DEF InAnswer, Idle
    <2>3. ~Fresh
      BY <1>4, <2>1 DEF Fresh
    <2> QED BY <1>4, <2>2, <2>3 DEF Taking, Kept
  <1>7. /\ reader' = reader /\ upd' = upd /\ Stage' = Stage
        /\ Consumed' = Consumed /\ Consumed \in Nat
        /\ InAnswer' /\ (Switching' <=> Switching) /\ (EofStale' <=> EofStale)
        /\ ~Fresh' /\ ~Taking' /\ Kept' = 0
    BY <1>6 DEF ChipKeeps
  <1>8. NoHeader /\ NoData /\ ftp.pos = Consumed
    <2>1. NoHeader /\ NoneComing /\ ftp.pos = Consumed + Kept
      BY <1>3, <1>6, QuietWire
    <2> QED BY <1>6, <1>7, <2>1 DEF NoneComing
  <1> DEFINE b == Line("2", m) \o Data(m, ftp.pos) \o Line("OK", 0)
  <1>9. IsAnswer(b, m, ftp.pos)
    BY <1>1, <1>2, AnswerShape
  <1>10. wire' = wire \o b
    BY <1>1
  <1> HIDE DEF b
  <1>11. /\ b \in Seq(Pieces) /\ Len(b) = m + 6 /\ b[1].kind = "head" /\ WireShape(b)
         /\ \A i \in 1 .. m : b[3 + i] = Piece("data", "", ftp.pos + i)
         /\ \A i \in 1 .. m + 6 : b[i].kind = "data" => i - 3 \in 1 .. m
         /\ \A i \in 1 .. m + 6 : Header(b[i]) => i = 3 /\ b[i].n = m /\ m > 0
         /\ \A i \in 1 .. m + 6 : b[i].text # EndText
         /\ m > 0 => Header(b[3])
    BY <1>9 DEF IsAnswer
  <1>12. wire \in Seq(Pieces) /\ Len(b) > 0
    <2>1. Len(b) = m + 6
      BY <1>11
    <2> QED BY <2>1, CleanTypes
  <1> DEFINE k == Len(wire)
  <1>13. /\ Len(wire') = k + (m + 6) /\ k \in Nat
         /\ \A i \in 1 .. k : wire'[i] = wire[i]
         /\ \A i \in 1 .. m + 6 : wire'[k + i] = b[i]
         /\ \A i \in 1 .. Len(wire') :
              i \notin 1 .. k => i - k \in 1 .. m + 6 /\ wire'[i] = b[i - k]
    BY <1>10, <1>11, <1>12, WireGrows
  <1> HIDE DEF k
  <1>14. CleanWire'
    <2>1. WireShape(wire')
      BY <1>0, <1>10, <1>11, <1>12, ShapeGrows DEF CleanWire
    <2>2. EndNoticed'
      <3>1. ASSUME NEW i \in 1 .. Len(wire') PROVE wire'[i].text # EndText
        <4>1. CASE i \in 1 .. k
          <5>1. wire[i].text # EndText
            BY <1>0, <1>1, <4>1 DEF CleanWire, EndNoticed, k
          <5> QED BY <1>13, <4>1, <5>1
        <4>2. CASE i \notin 1 .. k
          <5>1. i - k \in 1 .. m + 6 /\ wire'[i] = b[i - k]
            BY <1>13, <4>2
          <5>2. \A j \in 1 .. m + 6 : b[j].text # EndText
            BY <1>11
          <5> QED BY <5>1, <5>2
        <4> QED BY <4>1, <4>2
      <3> QED BY <3>1 DEF EndNoticed
    <2> QED BY <1>2, <1>7, <2>1, <2>2 DEF CleanWire
  <1>15. CleanCommand'
    <2>1. LineTaken' /\ LineBegins'
      BY <1>0, <1>6, <1>10, <1>11, <1>12, LineGrows
    <2>2. CommandEnded'
      BY <1>0, <1>5, <1>6, <1>7 DEF CleanCommand, CommandEnded
    <2> QED BY <2>1, <2>2 DEF CleanCommand
  <1>16. Block(wire', k + 3, m, Consumed)
    <2>1. (k + 3) + m <= Len(wire')
      BY <1>13
    <2>2. ASSUME NEW i \in 1 .. m PROVE wire'[(k + 3) + i] = Piece("data", "", Consumed + i)
      <3>1. 3 + i \in 1 .. m + 6 /\ k + (3 + i) = (k + 3) + i
        BY <1>13
      <3>2. wire'[k + (3 + i)] = b[3 + i]
        BY <1>13, <3>1
      <3>3. b[3 + i] = Piece("data", "", ftp.pos + i)
        BY <1>11
      <3> QED BY <1>8, <3>1, <3>2, <3>3
    <2>3. ASSUME NEW j \in 1 .. Len(wire'), wire'[j].kind = "data"
          PROVE  j \in (k + 3) + 1 .. (k + 3) + m
      <3>1. j \notin 1 .. k
        BY <1>8, <1>13, <2>3 DEF NoData, k
      <3>2. j - k \in 1 .. m + 6 /\ wire'[j] = b[j - k]
        BY <1>13, <3>1
      <3>3. (j - k) - 3 \in 1 .. m
        BY <1>11, <2>3, <3>2
      <3>4. j \in Nat /\ k \in Nat
        BY <1>13
      <3> QED BY <3>3, <3>4
    <2> QED BY <2>1, <2>2, <2>3 DEF Block
  <1>17. Announced'
    <2> SUFFICES ASSUME NEW h \in 1 .. Len(wire'), Header(wire'[h])
                 PROVE  Block(wire', h, wire'[h].n, Consumed) /\ ftp'.pos = Consumed + wire'[h].n
      BY <1>7 DEF Announced
    <2>1. h \notin 1 .. k
      BY <1>8, <1>13 DEF NoHeader, k
    <2>2. h - k \in 1 .. m + 6 /\ wire'[h] = b[h - k]
      BY <1>13, <2>1
    <2>3. h - k = 3 /\ wire'[h].n = m
      BY <1>11, <2>2
    <2>4. h = k + 3
      BY <1>13, <2>3
    <2> QED BY <1>2, <1>8, <1>16, <2>3, <2>4
  <1>18. ASSUME NoHeader' PROVE m = 0
    <2>1. 3 \in 1 .. m + 6 /\ k + 3 \in 1 .. Len(wire')
      BY <1>13
    <2>2. wire'[k + 3] = b[3]
      BY <1>13, <2>1
    <2>3. ~Header(b[3])
      BY <1>18, <2>1, <2>2 DEF NoHeader
    <2>4. ~(m > 0)
      BY <1>11, <2>3
    <2> QED BY <2>4
  <1>19. CleanData'
    <2>1. Arriving' /\ Buffered'
      BY <1>4, <1>7 DEF Arriving, Buffered
    <2>2. NoHeader' => ftp'.pos = Consumed' + Kept'
      <3>1. NoHeader' => ftp'.pos = Consumed
        BY <1>2, <1>7, <1>8, <1>18
      <3>2. Consumed + 0 = Consumed
        BY <1>7
      <3> QED BY <1>7, <3>1, <3>2
    <2>3. NoHeader' => NoData'
      <3> SUFFICES ASSUME NoHeader' PROVE NoData'
        OBVIOUS
      <3>1. m = 0
        BY <1>18
      <3>2. \A j \in 1 .. Len(wire') : wire'[j].kind = "data" => j \in (k + 3) + 1 .. (k + 3) + 0
        BY <1>16, <3>1 DEF Block
      <3>3. \A j : j \notin (k + 3) + 1 .. (k + 3) + 0
        BY <1>13
      <3> QED BY <3>2, <3>3 DEF NoData
    <2> QED BY <1>17, <2>1, <2>2, <2>3 DEF CleanData
  <1>20. CleanRequest'
    <2>1. ASSUME upd # "GET_BYTES_FIRMWARE" PROVE ftp'.pos \in {Consumed, Consumed + Word}
      <3>1. Word \in Nat \ {0} /\ ftp.ask \in {0, Word}
        BY <1>0, <2>1, Parameters DEF CleanRequest
      <3>2. ~Switching
        <4>1. todo # <<>> /\ todo[1] = "SetState" => Stage = 0
          BY PlaceValues DEF Stage, StageOf
        <4> QED BY <1>4, <4>1 DEF Switching
      <3>3. Consumed \in {0, Word}
        BY <1>0, <2>1, <3>2 DEF Consumed, Receiving
      <3>4. m \in {0, Word}
        BY <1>1, <1>8, <3>1, <3>3
      <3> QED BY <1>2, <1>7, <1>8, <3>1, <3>4
    <2> QED BY <1>0, <1>2, <1>4, <1>7, <2>1 DEF CleanRequest
  <1>21. CleanEnd'
    BY <1>0, <1>5, <1>7 DEF CleanEnd
  <1> QED BY <1>14, <1>15, <1>19, <1>20, <1>21

\* The chip keeps a session clean, or ends it.
LEMMA ChipClean ==
  ASSUME SessionInv, CleanInv, Clean, ChipStep, clean'
  PROVE  CleanWire' /\ CleanCommand' /\ CleanData' /\ CleanRequest' /\ CleanEnd'
  <1>1. /\ ChipKeeps
        /\ (\E m \in Nat : ChipGives(m)) \/ (\E text : ChipSays(text))
    BY ChipBase
  <1>2. CASE \E m \in Nat : ChipGives(m)
    <2>1. PICK m \in Nat : ChipGives(m)
      BY <1>2
    <2> QED BY <1>1, <2>1, GivesClean
  <1>3. CASE \E text : ChipSays(text)
    <2>1. PICK text : ChipSays(text)
      BY <1>3
    <2> QED BY <1>1, <2>1, SaysClean
  <1> QED BY <1>1, <1>2, <1>3

-----------------------------------------------------------------------------
(* The steps of the main loop.                                             *)

\* What has been proved of the interrupt and the chip is to be proved of every
\* step.
InOrder == CleanWire /\ CleanCommand /\ CleanData /\ CleanRequest /\ CleanEnd

\* The bytes of an answer that has come whole are all there is of the file.
LEMMA AnswerWhole ==
  ASSUME SessionInv, CleanInv, Clean, InAnswer, reader.requested
  PROVE  /\ ~reader.received_command /\ NoneComing
         /\ upd # "GET_BYTES_FIRMWARE" => reader.pointer = Word
  <1>0. CleanRequest /\ Consumed \in Nat /\ Word \in Nat \ {0} /\ reader.pointer \in Nat
    BY CleanParts, CleanTypes, Parameters, LengthTypes DEF SessionInv
  <1>1. ~reader.received_command /\ reader.pointer > 0
    BY <1>0 DEF CleanRequest
  <1>2. ~Answered
    BY DEF SessionInv, OneRequest, Outstanding
  <1>3. ~Taking /\ Kept = reader.pointer
    BY <1>1 DEF Taking, Kept
  <1>4. NoneComing /\ ftp.pos = Consumed + reader.pointer
    BY <1>2, <1>3, QuietWire
  <1>5. ASSUME upd # "GET_BYTES_FIRMWARE" PROVE reader.pointer = Word
    <2>1. ftp.pos \in {Consumed, Consumed + Word}
      BY <1>0, <1>5 DEF CleanRequest
    <2> QED BY <1>0, <1>1, <1>4, <2>1
  <1> QED BY <1>1, <1>4, <1>5

\* Nothing of the main loop is under way: an answer may be coming.
LEMMA UpdateStage ==
  ASSUME todo = <<>>
  PROVE  Stage = 14 /\ InAnswer /\ ~Switching /\ ~EofStale
  BY DEF Stage, StageOf, Idle, InAnswer, Switching, EofStale

\* The version, the checksum and the firmware are taken.
LEMMA GetVersionClean ==
  ASSUME SessionInv, CleanInv, Clean, GetVersion
  PROVE  InOrder'
  <1>1. /\ todo = <<>> /\ upd = "GET_BYTES_VER" /\ reader.requested
        /\ upd' = "GET_BYTES_CRC" /\ todo' = ReceiveBytes /\ UNCHANGED <<wire, ftp, reader>>
    BY DEF GetVersion, AtUpdate, readerVars
  <1>2. InAnswer
    BY <1>1, UpdateStage
  <1>3. ~reader.received_command /\ NoneComing /\ reader.pointer = Word
    BY <1>1, <1>2, AnswerWhole
  <1>4. Stage' = 1 /\ ~Switching'
    BY <1>1, ListsOrdered, ReceiveBytesOrdered DEF Stage, Switching
  <1>5. Consumed' = Consumed + reader.pointer
    <2>1. Consumed = 0
      BY <1>1 DEF Consumed
    <2>2. Consumed' = Word
      BY <1>1, <1>4 DEF Consumed
    <2> QED BY <1>3, <2>1, <2>2, Parameters
  <1>6. upd' \in Receiving \ {"GET_BYTES_VER"}
    BY <1>1 DEF Receiving
  <1> QED BY <1>1, <1>2, <1>3, <1>4, <1>5, <1>6, TakeStaysClean DEF InOrder

\* See GetVersionClean.
LEMMA GetCRCClean ==
  ASSUME SessionInv, CleanInv, Clean, GetCRC
  PROVE  InOrder'
  <1>1. /\ todo = <<>> /\ upd = "GET_BYTES_CRC" /\ reader.requested
        /\ upd' = upd /\ UNCHANGED <<wire, ftp, reader>>
        /\ todo' = <<"SetState">> \o ReceiveBytes \o <<"received_FTPGET_1_0">>
    BY DEF GetCRC, AtUpdate, readerVars
  <1>2. InAnswer /\ ~Switching
    BY <1>1, UpdateStage
  <1>3. ~reader.received_command /\ NoneComing /\ reader.pointer = Word
    BY <1>1, <1>2, AnswerWhole
  <1>4. Stage' = 0 /\ Switching' /\ EofStale'
    <2>1. Stage' = 0 /\ todo'[1] = "SetState"
      BY <1>1, ListsOrdered DEF Stage
    <2>2. EofStale'
      BY <1>1, SwitchEnds
    <2>3. todo' # <<>>
      BY <2>2 DEF EofStale
    <2> QED BY <2>1, <2>2, <2>3 DEF Switching
  <1>5. Consumed' = Consumed + reader.pointer
    <2>1. Consumed = Word
      BY <1>1, <1>2 DEF Consumed
    <2>2. Consumed' = 2 * Word
      BY <1>1, <1>4 DEF Consumed
    <2> QED BY <1>3, <2>1, <2>2, Parameters
  <1>6. upd' \in Receiving \ {"GET_BYTES_VER"}
    BY <1>1 DEF Receiving
  <1> QED BY <1>1, <1>2, <1>3, <1>4, <1>5, <1>6, TakeStaysClean DEF InOrder

\* Programmer is given the bytes of the reader.
LEMMA WritesReceived ==
  ASSUME SessionInv, CleanInv, Clean, ~Writing, WriteBytes(Received),
         upd = "GET_BYTES_FIRMWARE", upd' = upd
  PROVE  Consumed' = Consumed + reader.pointer
  <1>1. /\ Received \in Seq(Values) /\ Len(Received) = reader.pointer
        /\ reader.pointer \in 0 .. Buf
    BY ReceivedBytes DEF SessionInv
  <1>2. Len(Received) <= Buf
    <2>1. Buf \in Nat
      BY Parameters
    <2> QED BY <1>1, <2>1
  <1>3. Stored' = Stored + reader.pointer
    <2>1. Stored' = Stored + Len(Received)
      BY <1>1, <1>2, WriteWords
    <2> QED BY <1>1, <2>1
  <1>4. Consumed = 2 * Word + Stored
    BY DEF Consumed
  <1>5. Consumed' = 2 * Word + Stored'
    BY DEF Consumed
  <1>6. Stored \in Nat /\ reader.pointer \in Nat /\ 2 * Word \in Nat
    <2>1. Word \in Nat
      BY Parameters
    <2> QED BY <2>1, LengthTypes DEF SessionInv
  <1> QED BY <1>3, <1>4, <1>5, <1>6

\* See GetVersionClean.
LEMMA GetLastBytesClean ==
  ASSUME SessionInv, CleanInv, Clean, GetLastBytes
  PROVE  InOrder'
  <1>1. /\ todo = <<>> /\ upd = "GET_BYTES_FIRMWARE" /\ reader.eof /\ ~Writing
        /\ upd' = upd /\ UNCHANGED <<wire, ftp, reader>> /\ WriteBytes(Received)
        /\ todo' = Verify
    BY DEF GetLastBytes, AtUpdate, readerVars
  <1>2. InAnswer /\ ~EofStale
    BY <1>1, UpdateStage
  <1>3. Ended
    BY <1>1, <1>2, CleanParts DEF CleanEnd
  <1>4. ~reader.received_command /\ NoneComing
    BY <1>3 DEF Ended
  <1>5. Stage' = 12
    BY <1>1, ListsOrdered DEF Stage
  <1>6. ~Switching'
    <2>1. todo'[1] = "CloseSession"
      BY <1>1 DEF Verify
    <2> QED BY <2>1 DEF Switching
  <1>7. Consumed' = Consumed + reader.pointer
    BY <1>1, WritesReceived
  <1>8. upd' \in Receiving \ {"GET_BYTES_VER"}
    BY <1>1 DEF Receiving
  <1> QED BY <1>1, <1>2, <1>3, <1>4, <1>5, <1>6, <1>7, <1>8, TakeStaysClean DEF InOrder

\* See GetVersionClean.
LEMMA GetBytesClean ==
  ASSUME SessionInv, CleanInv, Clean, GetBytes
  PROVE  InOrder'
  <1>1. /\ ~Writing /\ todo # <<>> /\ todo[1] = "requested_bytes_received"
        /\ upd' = upd /\ UNCHANGED <<wire, ftp, reader>>
    BY DEF GetBytes, readerVars
  <1>2. Stage = 10
    BY <1>1, PlaceValues DEF Stage, StageOf
  <1>3. upd = "GET_BYTES_FIRMWARE" /\ InAnswer /\ ~Switching /\ ~EofStale
    <2>1. upd = "GET_BYTES_FIRMWARE"
      BY <1>2 DEF SessionInv, Control
    <2>2. ~EofStale
      BY <1>2, EofStage
    <2> QED BY <1>1, <1>2, <2>1, <2>2 DEF InAnswer, Switching
  <1>4. CASE reader.requested
    <2>1. WriteBytes(Received) /\ todo' = <<"state_meter">> \o ReceiveBytes
      BY <1>4 DEF GetBytes
    <2>2. ~reader.received_command /\ NoneComing
      BY <1>3, <1>4, AnswerWhole
    <2>3. Stage' = 0 /\ ~Switching'
      BY <2>1, ListsOrdered DEF Stage, Switching
    <2>4. Consumed' = Consumed + reader.pointer
      BY <1>1, <1>3, <2>1, WritesReceived
    <2>5. upd' \in Receiving \ {"GET_BYTES_VER"}
      BY <1>1, <1>3 DEF Receiving
    <2> QED BY <1>1, <1>3, <2>2, <2>3, <2>4, <2>5, TakeStaysClean DEF InOrder
  <1>5. CASE ~reader.requested
    <2>1. todo' = <<>> /\ UNCHANGED <<prog, out>>
      BY <1>5 DEF GetBytes
    <2>2. InAnswer' /\ ~Switching' /\ ~EofStale'
      BY <2>1 DEF Stage, StageOf, Idle, InAnswer, Switching, EofStale
    <2>3. Consumed' = Consumed
      <3>1. Stored' = Stored
        BY <2>1 DEF Stored
      <3> QED BY <1>1, <1>3, <2>2, <3>1, SameConsumed
    <2>4. SameReader({"cmd", "received_command", "pointer", "from", "buffer", "requested", "need"})
      BY <1>1 DEF SameReader
    <2> QED BY <1>1, <1>3, <2>2, <2>3, <2>4, StaysClean DEF InOrder
  <1> QED BY <1>4, <1>5

\* A step that changes neither the session nor what has been given on.
LEMMA NothingMoves ==
  ASSUME SessionInv, CleanInv, Clean, UNCHANGED <<wire, ftp, upd, reader>>, Consumed' = Consumed,
         todo' = todo \/ (todo = <<>> /\ todo' = <<"requested_bytes_received">>)
  PROVE  InOrder'
  <1>1. SameReader({"cmd", "received_command", "pointer", "from", "buffer", "requested", "need"})
    BY DEF SameReader
  <1>2. CASE todo' = todo
    <2>1. Stage' = Stage /\ (Switching' <=> Switching) /\ (EofStale' <=> EofStale)
      BY <1>2 DEF Stage, Switching, EofStale
    <2>2. Switching => EofStale
      BY CleanParts DEF CleanEnd
    <2> QED BY <1>1, <2>1, <2>2, StaysClean DEF InOrder
  <1>3. CASE todo = <<>> /\ todo' = <<"requested_bytes_received">>
    <2>1. InAnswer /\ ~EofStale
      BY <1>3, UpdateStage
    <2>2. Stage' = 10
      BY <1>3, ListsOrdered DEF Stage
    <2>3. InAnswer'
      BY <2>2 DEF InAnswer
    <2>4. ~Switching'
      <3>1. todo'[1] = "requested_bytes_received"
        BY <1>3
      <3> QED BY <3>1 DEF Switching
    <2> QED BY <1>1, <2>1, <2>3, <2>4, StaysClean DEF InOrder
  <1> QED BY <1>2, <1>3

\* The statements that clear the reader, and those around them.
LEMMA StatementClean ==
  ASSUME SessionInv, CleanInv, Clean, NEW name, Executes(name), Place(name) \in 0 .. 6,
         UNCHANGED <<wire, ftp, prog, out>>,
         upd' = IF name = "SetState" THEN "GET_BYTES_FIRMWARE" ELSE upd,
         reader'.cmd \in {reader.cmd, "empty"}, name = "pointer_command" => reader'.cmd = "empty",
         reader'.received_command => reader.received_command,
         Place(name) = 6 /\ upd # "GET_BYTES_FIRMWARE" => reader'.need = Word,
         reader'.eof = reader.eof
  PROVE  InOrder'
  <1>1. /\ todo # <<>> /\ todo[1] = name /\ Stage = Place(name) /\ todo' = Tail(todo) /\ ~Writing
        /\ Stage \in 0 .. 6 /\ todo' # <<>> /\ Stage' = Stage + 1 /\ todo'[1] # "SetState"
        /\ ~Preparing
    BY DEF Executes
  <1>2. ~Switching' /\ (EofStale' <=> EofStale)
    BY <1>1, EofTail DEF Switching
  <1>3. Stored' = Stored
    BY DEF Stored
  <1>4. /\ Consumed' = Consumed
        /\ upd' = upd \/ (upd = "GET_BYTES_CRC" /\ upd' = "GET_BYTES_FIRMWARE")
        /\ upd' # upd => EofStale
    <2>1. CASE name # "SetState"
      <3>1. ~Switching /\ upd' = upd
        BY <1>1, <2>1 DEF Switching
      <3> QED BY <1>2, <1>3, <3>1, SameConsumed
    <2>2. CASE name = "SetState"
      <3>1. Switching /\ upd = "GET_BYTES_CRC" /\ upd' = "GET_BYTES_FIRMWARE"
        BY <1>1, <2>2 DEF Switching, SessionInv, Control
      <3>2. EofStale
        BY <3>1, CleanParts DEF CleanEnd
      <3>3. prog = [address |-> ADDR_STORAGE, written |-> 0, bytes |-> <<>>] /\ out = <<>>
        BY <1>1, <2>2 DEF SessionInv, Lengths, Words, Writing
      <3>4. prog.written = 0 /\ Len(prog.bytes) = 0 /\ Len(out) = 0
        BY <3>3
      <3>5. Stored = 0
        BY <3>4 DEF Stored
      <3>6. Consumed = 2 * Word
        BY <3>1 DEF Consumed
      <3>7. Consumed' = 2 * Word + Stored'
        BY <3>1 DEF Consumed
      <3>8. 2 * Word + 0 = 2 * Word
        BY Parameters
      <3> QED BY <1>3, <3>1, <3>2, <3>5, <3>6, <3>7, <3>8
    <2> QED BY <2>1, <2>2
  <1>5. Stage = 1 => reader'.cmd = "empty"
    <2>1. Stage = 1 => name = "pointer_command"
      BY <1>1 DEF Place
    <2> QED BY <2>1
  <1>6. Stage = 6 /\ upd' # "GET_BYTES_FIRMWARE" => reader'.need = Word
    BY <1>1
  <1> QED BY <1>1, <1>2, <1>4, <1>5, <1>6, StatementStaysClean DEF InOrder

\* See StatementClean.
LEMMA StatementsClean ==
  ASSUME SessionInv, CleanInv, Clean,
         \/ MeterReset \/ SetState \/ RequestStep
         \/ ClearStep("pointer_command") \/ ClearStep("received_command")
         \/ ClearStep("pointer_data") \/ ClearStep("need_bytes") \/ ClearStep("requested")
  PROVE  InOrder'
  <1>0. reader \in ReaderType
    BY CleanTypes
  <1>1. CASE MeterReset
    <2>1. Executes("state_meter") /\ Place("state_meter") = 0
      BY <1>1, StatementExecutes, PlaceValues DEF MeterReset
    <2>2. UNCHANGED <<wire, ftp, prog, out, upd, reader>>
      BY <1>1 DEF MeterReset, progVars, readerVars
    <2> QED BY <2>1, <2>2, StatementClean
  <1>2. CASE SetState
    <2>1. Executes("SetState") /\ Place("SetState") = 0
      BY <1>2, StatementExecutes, PlaceValues DEF SetState
    <2>2. UNCHANGED <<wire, ftp, prog, out, reader>> /\ upd' = "GET_BYTES_FIRMWARE"
      BY <1>2 DEF SetState, progVars, readerVars
    <2> QED BY <2>1, <2>2, StatementClean
  <1>3. CASE RequestStep
    <2>1. Executes("request") /\ Place("request") = 6
      BY <1>3, StatementExecutes, PlaceValues DEF RequestStep
    <2>2. /\ UNCHANGED <<wire, ftp, prog, out, upd>>
          /\ reader' = [reader EXCEPT !.need = IF upd = "GET_BYTES_FIRMWARE" THEN Buf ELSE Word]
      BY <1>3 DEF RequestStep, progVars
    <2>3. /\ reader'.cmd = reader.cmd /\ reader'.received_command = reader.received_command
          /\ reader'.eof = reader.eof /\ (upd # "GET_BYTES_FIRMWARE" => reader'.need = Word)
      BY <1>0, <2>2 DEF ReaderType
    <2> QED BY <2>1, <2>2, <2>3, StatementClean
  <1>4. ASSUME NEW name \in {"pointer_command", "received_command", "pointer_data",
                             "need_bytes", "requested"}, ClearStep(name)
        PROVE  InOrder'
    <2>1. Executes(name) /\ Place(name) \in 1 .. 5 /\ name # "SetState"
      BY <1>4, StatementExecutes, PlaceValues DEF ClearStep
    <2>2. UNCHANGED <<wire, ftp, prog, out, upd>> /\ reader' = Cleared(name)
      BY <1>4 DEF ClearStep, progVars
    <2>3. /\ reader'.cmd = IF name = "pointer_command" THEN "empty" ELSE reader.cmd
          /\ reader'.received_command => reader.received_command
          /\ reader'.eof = reader.eof
      BY <1>0, <2>2, ClearedFields
    <2>4. Place(name) \in 0 .. 6 /\ Place(name) # 6
      BY <2>1
    <2> QED BY <2>1, <2>2, <2>3, <2>4, StatementClean
  <1> QED BY <1>1, <1>2, <1>3, <1>4

\* received_FTPGET_1_0 is cleared.
LEMMA ClearEOFClean ==
  ASSUME SessionInv, CleanInv, Clean, ClearEOF
  PROVE  InOrder'
  <1>1. Executes("received_FTPGET_1_0")
    BY StatementExecutes DEF ClearEOF
  <1>2. /\ UNCHANGED <<wire, ftp, prog, out, upd>> /\ reader' = [reader EXCEPT !.eof = FALSE]
    BY DEF ClearEOF, progVars
  <1>3. Stage = 8 /\ Stage' \in {9, 14} /\ ~Switching /\ ~Switching'
    <2>1. Stage = 8
      BY <1>1, PlaceValues DEF Executes
    <2>2. /\ todo # <<>> /\ todo[1] = "received_FTPGET_1_0"
          /\ \/ todo' = <<>> /\ Stage' = Idle
             \/ Stage' = Stage + 1 /\ todo'[1] # "SetState"
      BY <1>1 DEF Executes
    <2> QED BY <2>1, <2>2 DEF Switching, Idle
  <1>4. InAnswer /\ InAnswer'
    BY <1>3 DEF InAnswer, Idle
  <1>5. Consumed' = Consumed
    <2>1. Stored' = Stored
      BY <1>2 DEF Stored
    <2> QED BY <1>2, <1>3, <2>1, SameConsumed
  <1>6. reader \in ReaderType
    BY CleanTypes
  <1>7. /\ SameReader({"cmd", "received_command", "pointer", "from", "buffer", "requested", "need"})
        /\ ~reader'.eof
    BY <1>2, <1>6 DEF SameReader, ReaderType
  <1> QED BY <1>2, <1>3, <1>4, <1>5, <1>7, StaysClean DEF InOrder

\* At the end of the session Programmer has been given the whole firmware, and
\* keeps nothing of it when the firmware is whole words.
LEMMA SessionIsWhole ==
  ASSUME FirmwareSize % Word = 0, SessionInv, CleanInv, Clean, Stage \in 12 .. 13, ~Writing
  PROVE  /\ Ended /\ upd = "GET_BYTES_FIRMWARE" /\ ~InAnswer /\ NoneComing /\ ftp.pos = Consumed
         /\ prog.written = FirmwareSize /\ Len(prog.bytes) = 0 /\ Len(out) = 0
  <1>1. Ended /\ upd = "GET_BYTES_FIRMWARE"
    BY CleanParts DEF CleanEnd, SessionInv, Control
  <1>2. ~InAnswer
    BY DEF InAnswer, Idle
  <1>3. NoneComing /\ ftp.pos = Consumed
    BY <1>2, OutsideAnswer
  <1>4. /\ prog.written \in Nat /\ Len(prog.bytes) \in Nat /\ Len(out) = 0
        /\ Word \in Nat \ {0} /\ FirmwareSize \in Nat
    BY LengthTypes, Parameters DEF SessionInv, Writing
  <1>5. prog.written + Len(prog.bytes) = FirmwareSize
    <2>1. 2 * Word + Stored = 2 * Word + FirmwareSize
      BY <1>1, <1>3 DEF Ended, Consumed, FileSize
    <2>2. Stored \in Nat
      BY LengthTypes DEF SessionInv
    <2>3. Stored = FirmwareSize
      BY <1>4, <2>1, <2>2
    <2> QED BY <1>4, <2>3 DEF Stored
  <1>6. IsMultiple(prog.written) /\ Len(prog.bytes) < Word
    BY DEF SessionInv, Lengths, Words
  <1>7. IsMultiple(FirmwareSize)
    <2>1. IsMultiple(FirmwareSize - (FirmwareSize % Word))
      BY <1>4, Whole
    <2>2. FirmwareSize - 0 = FirmwareSize
      BY <1>4
    <2> QED BY <2>1, <2>2
  <1>8. Len(prog.bytes) = 0
    <2>1. prog.written <= FirmwareSize /\ FirmwareSize - prog.written = Len(prog.bytes)
      BY <1>4, <1>5
    <2>2. IsMultiple(Len(prog.bytes))
      BY <1>4, <1>6, <1>7, <2>1, Multiples
    <2>3. Len(prog.bytes) > 0 => Len(prog.bytes) >= Word
      BY <1>4, <2>2, SmallMultiples
    <2> QED BY <1>4, <1>6, <2>3
  <1> QED BY <1>1, <1>2, <1>3, <1>4, <1>5, <1>8

\* CloseSession finds nothing to fill up.
LEMMA CloseClean ==
  ASSUME FirmwareSize % Word = 0, SessionInv, CleanInv, Clean, CloseStep
  PROVE  /\ InOrder' /\ Len(out') = 0 /\ prog' = prog /\ Len(prog.bytes) = 0
         /\ upd = "GET_BYTES_FIRMWARE"
  <1>0. CleanWire /\ CleanCommand /\ CleanEnd
    BY CleanParts
  <1>1. Executes("CloseSession")
    BY StatementExecutes DEF CloseStep
  <1>2. Stage = 12 /\ Stage' = 13 /\ ~Writing /\ ~Switching'
    <2>1. Stage = 12
      BY <1>1, PlaceValues DEF Executes
    <2> QED BY <1>1, <2>1 DEF Executes, Switching
  <1>3. /\ Ended /\ upd = "GET_BYTES_FIRMWARE" /\ ~InAnswer /\ NoneComing /\ ftp.pos = Consumed
        /\ Len(prog.bytes) = 0 /\ Len(out) = 0
    BY <1>2, SessionIsWhole
  <1>4. CloseSession /\ UNCHANGED <<wire, ftp, reader, upd>>
    BY DEF CloseStep, readerVars
  <1>5. Len(out') = 0 /\ prog' = prog
    <2>1. prog.bytes \in Seq(Values) /\ Len(prog.bytes) < Word
      BY LengthTypes DEF SessionInv, Lengths, Words
    <2>2. prog' = prog /\ (Len(prog.bytes) > 0 \/ Len(out') = 0)
      BY <1>4, <2>1, CloseSessionEffect
    <2> QED BY <1>3, <2>2
  <1>6. Consumed' = Consumed
    <2>1. Stored' = Stored
      BY <1>3, <1>5 DEF Stored
    <2>2. ~Switching
      BY <1>1 DEF Executes, Switching
    <2> QED BY <1>2, <1>4, <2>1, <2>2, SameConsumed
  <1>7. WireShape(wire') /\ EndNoticed' /\ NoneComing' /\ Ended'
    BY <1>0, <1>3, <1>4, SameWire DEF CleanWire
  <1>8. ~InAnswer' /\ ~Fresh' /\ ~Fresh
    BY <1>2, <1>3, <1>4 DEF InAnswer, Idle, Fresh
  <1>9. LineBegins' /\ CommandEnded'
    <2>1. ~Taking
      BY <1>3 DEF Taking
    <2> QED BY <1>0, <1>4, <1>7, <1>8, <2>1 DEF CleanCommand, LineBegins, CommandEnded
  <1>10. Consumed' \in Nat
    BY <1>6, CleanTypes, CleanParts
  <1>11. CleanWire' /\ CleanCommand' /\ CleanData'
    BY <1>0, <1>3, <1>4, <1>6, <1>7, <1>8, <1>9, <1>10, BecomesOutside DEF CleanWire
  <1>12. CleanRequest'
    <2>1. ~reader'.received_command
      BY <1>3, <1>4 DEF Ended
    <2> QED BY <1>3, <1>4, <1>8, <2>1 DEF CleanRequest
  <1>13. CleanEnd'
    BY <1>2, <1>7 DEF CleanEnd
  <1> QED BY <1>3, <1>5, <1>11, <1>12, <1>13 DEF InOrder

\* A word is programmed: what has been given to Programmer stays the same.
LEMMA WordKeeps ==
  ASSUME SessionInv, CleanInv, Clean, WordStep
  PROVE  /\ Consumed' = Consumed /\ Stored' = Stored
         /\ UNCHANGED <<wire, ftp, upd, reader, todo, source_crc>>
         /\ Len(out) >= Word /\ Len(out') = Len(out) - Word
         /\ \A i \in 1 .. Len(out) - Word : out'[i] = out[Word + i]
         /\ prog'.written = prog.written + Word /\ prog'.bytes = prog.bytes
         /\ upd = "GET_BYTES_FIRMWARE"
         /\ clean' => ProgramWord(TRUE) /\ faults' = faults
  <1>1. /\ rom \in [ROM -> Values] /\ out \in Seq(Values) /\ IsMultiple(Len(out)) /\ prog \in ProgType
    BY DEF SessionInv, LoaderTypes, Lengths, Words
  <1>2. PICK works \in BOOLEAN : ProgramWord(works) /\ (clean' => works)
    BY DEF WordStep
  <1>3. UNCHANGED <<wire, ftp, upd, reader, todo, source_crc>>
    BY DEF WordStep, mainVars
  <1>4. /\ Len(out) >= Word /\ Len(out') = Len(out) - Word
        /\ \A i \in 1 .. Len(out) - Word : out'[i] = out[Word + i]
        /\ prog'.written = prog.written + Word /\ prog'.bytes = prog.bytes
        /\ faults' = IF works THEN faults ELSE faults + 1
    BY <1>1, <1>2, ProgramWordEffect
  <1>5. Stored' = Stored
    <2>1. prog.written \in Nat /\ Len(out) \in Nat /\ Len(prog.bytes) \in Nat /\ Word \in Nat
      BY LengthTypes, Parameters DEF SessionInv
    <2>2. (prog.written + Word) + (Len(out) - Word) + Len(prog.bytes)
            = prog.written + Len(out) + Len(prog.bytes)
      BY <2>1
    <2> QED BY <1>4, <2>2 DEF Stored
  <1>6. Consumed' = Consumed
    <2>1. Switching' <=> Switching
      BY <1>3 DEF Switching
    <2> QED BY <1>3, <1>5, <2>1, SameConsumed
  <1>7. upd = "GET_BYTES_FIRMWARE"
    BY <1>2 DEF ProgramWord, SessionInv, Control
  <1>8. clean' => ProgramWord(TRUE) /\ faults' = faults
    BY <1>2, <1>4
  <1> QED BY <1>3, <1>4, <1>5, <1>6, <1>7, <1>8

\* A page is prepared: Programmer has been given nothing yet.
LEMMA PrepareKeeps ==
  ASSUME SessionInv, CleanInv, Clean, PrepareStep
  PROVE  /\ Consumed' = Consumed /\ UNCHANGED <<wire, ftp, upd, reader, todo, source_crc>>
         /\ upd = "GET_BYTES_CRC"
  <1>1. Preparing /\ UNCHANGED <<wire, ftp, upd, reader, todo, source_crc>>
    BY DEF PrepareStep, PreparePage, readerVars, mainVars
  <1>2. copy = NoCopy
    BY CleanParts
  <1>3. todo # <<>> /\ todo[1] = "SetState"
    BY <1>1, <1>2 DEF SessionInv, Control
  <1>4. upd = "GET_BYTES_CRC" /\ Switching /\ Switching'
    BY <1>1, <1>3 DEF SessionInv, Control, Switching
  <1>5. Consumed = 2 * Word
    BY <1>4 DEF Consumed
  <1>6. Consumed' = 2 * Word
    BY <1>1, <1>4 DEF Consumed
  <1> QED BY <1>1, <1>4, <1>5, <1>6

\* In a session that stays clean the bytes stay in their order.
LEMMA NextInOrder ==
  ASSUME FirmwareSize % Word = 0, SessionInv, CleanInv, [Next]_vars, Clean', ~Connected
  PROVE  Clean /\ InOrder'
  <1>0. clean' /\ upd' \in Receiving /\ copy' = NoCopy
    BY DEF Clean
  <1>1. ~ResetStep /\ ~RestartStep
    BY <1>0 DEF ResetStep, Reset, RestartStep, Restarted
  <1>2. ~VerifyStored /\ ~CopyChunk /\ ~VerifyCopy
    <2>1. "COMPLETED" \notin Receiving
      BY DEF Receiving
    <2> QED BY <1>0, <2>1, CopySteps
  <1>3. CASE QuietStep \/ UNCHANGED vars
    <2>1. UNCHANGED <<wire, ftp, upd, reader, todo, clean, copy, prog, out>>
      <3>1. CASE QuietStep
        BY <1>0, <3>1 DEF QuietStep, progVars, readerVars
      <3>2. CASE UNCHANGED vars
        BY <3>2 DEF vars, progVars, readerVars, mainVars
      <3> QED BY <1>3, <3>1, <3>2
    <2>2. Clean
      BY <1>0, <2>1 DEF Clean
    <2>3. Consumed' = Consumed
      <3>1. Stored' = Stored /\ (Switching' <=> Switching)
        BY <2>1 DEF Stored, Switching
      <3> QED BY <2>1, <3>1, SameConsumed
    <2> QED BY <2>1, <2>2, <2>3, NothingMoves
  <1>4. CASE TestRequested
    <2>1. /\ UNCHANGED <<wire, ftp, upd, reader, clean, copy, prog, out>>
          /\ todo = <<>> /\ todo' = <<"requested_bytes_received">>
      BY <1>4 DEF TestRequested, AtUpdate, progVars, readerVars
    <2>2. Clean
      BY <1>0, <2>1 DEF Clean
    <2>3. Consumed' = Consumed
      <3>1. Stored' = Stored
        BY <2>1 DEF Stored
      <3>2. ~Switching
        BY <2>1 DEF Switching
      <3>3. ~Switching'
        <4>1. todo'[1] = "requested_bytes_received"
          BY <2>1
        <4> QED BY <4>1 DEF Switching
      <3> QED BY <2>1, <3>1, <3>2, <3>3, SameConsumed
    <2> QED BY <2>1, <2>2, <2>3, NothingMoves
  <1>5. CASE GetVersion
    <2>1. Clean
      BY <1>0, <1>5 DEF Clean, GetVersion, readerVars, Receiving
    <2> QED BY <1>5, <2>1, GetVersionClean
  <1>6. CASE GetCRC
    <2>1. Clean
      BY <1>0, <1>6 DEF Clean, GetCRC, readerVars
    <2> QED BY <1>6, <2>1, GetCRCClean
  <1>7. CASE GetLastBytes
    <2>1. Clean
      BY <1>0, <1>7 DEF Clean, GetLastBytes, readerVars
    <2> QED BY <1>7, <2>1, GetLastBytesClean
  <1>8. CASE GetBytes
    <2>1. Clean
      BY <1>0, <1>8 DEF Clean, GetBytes, readerVars
    <2> QED BY <1>8, <2>1, GetBytesClean
  <1>9. CASE \/ MeterReset \/ SetState \/ RequestStep
             \/ ClearStep("pointer_command") \/ ClearStep("received_command")
             \/ ClearStep("pointer_data") \/ ClearStep("need_bytes") \/ ClearStep("requested")
    <2>1. clean' = clean /\ copy' = copy
      BY <1>9 DEF MeterReset, SetState, RequestStep, ClearStep, readerVars
    <2>2. todo # <<>>
      BY <1>9 DEF MeterReset, SetState, RequestStep, ClearStep, Statement
    <2>3. Clean
      BY <1>0, <2>1, <2>2 DEF Clean, SessionInv, Control
    <2> QED BY <1>9, <2>3, StatementsClean
  <1>10. CASE TransmitStep
    <2>1. Clean
      BY <1>0, <1>10 DEF Clean, TransmitStep
    <2> QED BY <1>10, <2>1, TransmitClean DEF InOrder
  <1>11. CASE ClearEOF
    <2>1. Clean
      BY <1>0, <1>11 DEF Clean, ClearEOF
    <2> QED BY <1>11, <2>1, ClearEOFClean
  <1>12. CASE CloseStep
    <2>1. Clean
      BY <1>0, <1>12 DEF Clean, CloseStep, readerVars
    <2> QED BY <1>12, <2>1, CloseClean
  <1>13. CASE PrepareStep
    <2>1. Clean
      BY <1>0, <1>13 DEF Clean, PrepareStep, readerVars, mainVars
    <2>2. Consumed' = Consumed /\ UNCHANGED <<wire, ftp, upd, reader, todo>>
      BY <1>13, <2>1, PrepareKeeps
    <2> QED BY <2>1, <2>2, NothingMoves
  <1>14. CASE WordStep
    <2>1. Clean
      BY <1>0, <1>14 DEF Clean, WordStep, mainVars
    <2>2. Consumed' = Consumed /\ UNCHANGED <<wire, ftp, upd, reader, todo>>
      BY <1>14, <2>1, WordKeeps
    <2> QED BY <2>1, <2>2, NothingMoves
  <1>15. CASE Interrupt
    <2>1. Clean
      BY <1>0, <1>15 DEF Clean, Interrupt, AppendByte, mainVars
    <2> QED BY <1>15, <2>1, InterruptClean DEF InOrder
  <1>16. CASE ChipStep
    <2>1. clean
      <3>1. Chip
        BY <1>16 DEF ChipStep
      <3> QED BY <1>0, <3>1 DEF Chip, ChipData, ChipError, ChipMore, ChipEnd, ChipFail
    <2>2. Clean
      BY <1>0, <1>16, <2>1 DEF Clean, ChipStep, mainVars
    <2> QED BY <1>0, <1>16, <2>2, ChipClean DEF InOrder
  <1> QED BY <1>1, <1>2, <1>3, <1>4, <1>5, <1>6, <1>7, <1>8, <1>9, <1>10, <1>11, <1>12, <1>13,
             <1>14, <1>15, <1>16, StepCases

-----------------------------------------------------------------------------
(* The bytes that are given on are those of the file.                      *)

\* What is given to Programmer is in the file.
LEMMA GivenInFile ==
  ASSUME SessionInv, CleanInv, Clean, upd = "GET_BYTES_FIRMWARE"
  PROVE  Stored <= FirmwareSize /\ FirmwareSize <= ADDR_STORAGE
  <1>1. CleanData
    BY CleanParts
  <1>2. /\ Consumed \in Nat /\ FileSize \in Nat /\ Stored \in Nat /\ Word \in Nat
        /\ FirmwareSize \in Nat /\ FirmwareSize <= ADDR_STORAGE
    BY CleanTypes, CleanParts, FirmwareBytes, Parameters
  <1>3. ftp.pos <= FileSize
    BY CleanTypes
  <1>4. Consumed <= ftp.pos
    <2>1. CASE NoHeader
      <3>1. Kept \in Nat
        BY LengthTypes DEF Kept, SessionInv
      <3>2. ftp.pos = Consumed + Kept
        BY <1>1, <2>1 DEF CleanData
      <3> QED BY <1>2, <3>1, <3>2
    <2>2. CASE ~NoHeader
      <3>1. PICK h \in 1 .. Len(wire) : Header(wire[h])
        BY <2>2 DEF NoHeader
      <3>2. ftp.pos = Consumed + wire[h].n
        BY <1>1, <3>1 DEF CleanData, Announced
      <3>3. wire[h].n \in Nat
        BY <3>1, CleanTypes
      <3> QED BY <1>2, <3>2, <3>3
    <2> QED BY <2>1, <2>2
  <1>5. Consumed = 2 * Word + Stored
    BY DEF Consumed
  <1>6. ftp.pos \in Nat
    BY LengthTypes DEF SessionInv
  <1>7. 2 * Word + Stored <= 2 * Word + FirmwareSize
    BY <1>2, <1>3, <1>4, <1>5, <1>6 DEF FileSize
  <1> QED BY <1>2, <1>7

\* A step that leaves Programmer and the flash alone.
LEMMA ContentsStay ==
  ASSUME CleanContents, UNCHANGED <<upd, source_crc, prog, out, rom, faults>>,
         Switching' => Switching
  PROVE  CleanContents'
  BY DEF CleanContents

\* The checksum is the file's.
LEMMA GetCRCContents ==
  ASSUME SessionInv, CleanInv, Clean, GetCRC
  PROVE  CleanContents'
  <1>1. /\ todo = <<>> /\ upd = "GET_BYTES_CRC" /\ reader.requested /\ upd' = upd
        /\ source_crc' = [i \in 1 .. Word |-> reader.buffer[i]]
    BY DEF GetCRC, AtUpdate
  <1>2. InAnswer /\ ~Switching
    BY <1>1, UpdateStage
  <1>3. reader.pointer = Word
    BY <1>1, <1>2, AnswerWhole
  <1>4. Consumed = Word
    BY <1>1, <1>2 DEF Consumed
  <1>5. \A i \in 1 .. Word : reader.buffer[i] = Word + i
    BY <1>2, <1>3, <1>4, CleanParts DEF CleanData, Buffered
  <1>6. source_crc' = FileCRC
    BY <1>1, <1>5 DEF FileCRC
  <1> QED BY <1>1, <1>6 DEF CleanContents

\* The bytes of the reader continue those that Programmer has.
LEMMA WriteContents ==
  ASSUME SessionInv, CleanInv, Clean, InAnswer, ~Writing, WriteBytes(Received),
         upd = "GET_BYTES_FIRMWARE", UNCHANGED <<upd, source_crc, rom, faults>>
  PROVE  CleanContents'
  <1>0. CleanContents /\ CleanData
    BY CleanParts
  <1>1. /\ Received \in Seq(Values) /\ Len(Received) = reader.pointer
    BY ReceivedBytes DEF SessionInv
  <1>2. prog \in ProgType
    BY DEF SessionInv, LoaderTypes
  <1> DEFINE n == Len(prog.bytes)
             s == 2 * Word + prog.written
  <1>3. /\ prog'.written = prog.written
        /\ Len(out') \in Nat /\ Len(prog'.bytes) \in Nat
    BY <1>1, <1>2, WriteBytesEffect
  <1>4. n \in Nat /\ s \in Nat /\ Len(out) = 0
    <2>1. prog.written \in Nat /\ Len(prog.bytes) \in Nat /\ Len(out) = 0 /\ Word \in Nat
      BY LengthTypes, Parameters DEF SessionInv, Writing
    <2> QED BY <2>1
  <1>5. ASSUME NEW i \in 1 .. n PROVE prog.bytes[i] = s + i
    <2>1. prog.bytes[i] = 2 * Word + prog.written + Len(out) + i
      BY <1>0 DEF CleanContents
    <2>2. s + Len(out) + i = s + i
      BY <1>4
    <2> QED BY <2>1, <2>2
  <1>6. ASSUME NEW i \in 1 .. reader.pointer PROVE Received[i] = (s + n) + i
    <2>1. Received[i] = Consumed + i
      BY <1>0, ReceivedAre DEF CleanData, Buffered, SessionInv
    <2>2. Consumed = s + n
      <3>1. Consumed = 2 * Word + (prog.written + Len(out) + n)
        BY DEF Consumed, Stored
      <3>2. prog.written \in Nat /\ 2 * Word \in Nat
        BY LengthTypes, Parameters DEF SessionInv
      <3> QED BY <1>4, <3>1, <3>2
    <2> QED BY <2>1, <2>2
  <1> HIDE DEF s
  <1>7. ASSUME NEW i \in 1 .. Len(out') PROVE out'[i] = s + i
    <2>1. \/ i \in 1 .. n /\ out'[i] = prog.bytes[i]
          \/ i - n \in 1 .. Len(Received) /\ out'[i] = Received[i - n]
      BY <1>1, <1>2, WriteBytesJoin
    <2>2. CASE i \in 1 .. n /\ out'[i] = prog.bytes[i]
      BY <1>5, <2>2
    <2>3. CASE i - n \in 1 .. Len(Received) /\ out'[i] = Received[i - n]
      <3>1. out'[i] = (s + n) + (i - n)
        BY <1>1, <1>6, <2>3
      <3>2. i \in Nat
        BY <1>3
      <3>3. (s + n) + (i - n) = s + i
        <4> HIDE DEF n
        <4> QED BY <1>4, <3>2
      <3> QED BY <3>1, <3>3
    <2> QED BY <2>1, <2>2, <2>3
  <1>8. ASSUME NEW i \in 1 .. Len(prog'.bytes) PROVE prog'.bytes[i] = s + Len(out') + i
    <2> DEFINE j == Len(out') + i
    <2>1. \/ j \in 1 .. n /\ prog'.bytes[i] = prog.bytes[j]
          \/ j - n \in 1 .. Len(Received) /\ prog'.bytes[i] = Received[j - n]
      BY <1>1, <1>2, WriteBytesJoin
    <2>2. j \in Nat /\ s + Len(out') + i = s + j
      BY <1>3, <1>4
    <2> HIDE DEF j
    <2>3. CASE j \in 1 .. n /\ prog'.bytes[i] = prog.bytes[j]
      BY <1>5, <2>2, <2>3
    <2>4. CASE j - n \in 1 .. Len(Received) /\ prog'.bytes[i] = Received[j - n]
      <3>1. prog'.bytes[i] = (s + n) + (j - n)
        BY <1>1, <1>6, <2>4
      <3>2. (s + n) + (j - n) = s + j
        <4> HIDE DEF n
        <4> QED BY <1>4, <2>2
      <3> QED BY <2>2, <3>1, <3>2
    <2> QED BY <2>1, <2>3, <2>4
  <1>9. s = 2 * Word + prog'.written
    BY <1>3 DEF s
  <1> QED BY <1>0, <1>3, <1>7, <1>8, <1>9 DEF CleanContents

\* A word reaches the storage where it belongs.
LEMMA WordContents ==
  ASSUME FlashInv, StorageInv, CleanInv, Clean, WordStep, clean'
  PROVE  CleanContents'
  <1>0. CleanContents /\ SessionInv /\ copy = NoCopy
    BY CleanParts DEF FlashInv
  <1>1. /\ UNCHANGED <<upd, todo, source_crc>>
        /\ Len(out) >= Word /\ Len(out') = Len(out) - Word
        /\ \A i \in 1 .. Len(out) - Word : out'[i] = out[Word + i]
        /\ prog'.written = prog.written + Word /\ prog'.bytes = prog.bytes
        /\ upd = "GET_BYTES_FIRMWARE" /\ ProgramWord(TRUE) /\ faults' = faults
    BY <1>0, WordKeeps
  <1> DEFINE w == prog.written
             s == 2 * Word + w
  <1>2. /\ w \in Nat /\ Len(out) \in Nat /\ Len(prog.bytes) \in Nat /\ Word \in Nat \ {0}
        /\ ADDR_STORAGE \in Nat /\ ADDR_BOOTLOADER = ADDR_STORAGE + ADDR_STORAGE
    BY <1>0, LengthTypes, Parameters, Regions DEF SessionInv
  <1>3. s \in Nat /\ 2 * Word + prog'.written = s + Word
    BY <1>1, <1>2
  <1>4. \A i \in 1 .. Len(out) : out[i] = s + i
    BY <1>0, <1>1 DEF CleanContents
  <1>5. \A i \in 1 .. Len(prog.bytes) : prog.bytes[i] = s + Len(out) + i
    BY <1>0, <1>1 DEF CleanContents
  <1>6. ASSUME faults = 0 \/ Stride = 1
        PROVE  \A i \in 1 .. w : rom[ADDR_STORAGE + i - 1] = 2 * Word + i
    BY <1>0, <1>1, <1>6 DEF CleanContents
  <1> HIDE DEF s
  <1>7. ASSUME NEW i \in 1 .. Len(out') PROVE out'[i] = (s + Word) + i
    <2>1. i \in 1 .. Len(out) - Word /\ Word + i \in 1 .. Len(out)
      BY <1>1, <1>2
    <2>2. out'[i] = out[Word + i]
      BY <1>1, <2>1
    <2>3. out[Word + i] = s + (Word + i)
      BY <1>4, <2>1
    <2> QED BY <1>2, <1>3, <2>2, <2>3
  <1>8. ASSUME NEW i \in 1 .. Len(prog'.bytes)
        PROVE  prog'.bytes[i] = (s + Word) + Len(out') + i
    <2>1. prog'.bytes[i] = s + Len(out) + i
      BY <1>1, <1>5
    <2>2. (s + Word) + (Len(out) - Word) + i = s + Len(out) + i
      BY <1>1, <1>2, <1>3
    <2> QED BY <1>1, <2>1, <2>2
  <1>9. ASSUME faults = 0 \/ Stride = 1, NEW i \in 1 .. w + Word
        PROVE  rom'[ADDR_STORAGE + i - 1] = 2 * Word + i
    <2> DEFINE A == prog.address
               x == ADDR_STORAGE + i - 1
    <2>1. Prepared
      BY <1>9 DEF StorageInv
    <2>2. A = ADDR_STORAGE + w
      BY <1>0, <1>1 DEF SessionInv, Lengths, Words
    <2>3. A < ADDR_BOOTLOADER
      <3>1. Stored <= FirmwareSize /\ FirmwareSize <= ADDR_STORAGE /\ FirmwareSize \in Nat
        BY <1>0, <1>1, GivenInFile, Parameters
      <3>2. w + Len(out) + Len(prog.bytes) <= FirmwareSize
        BY <3>1 DEF Stored
      <3>3. w < ADDR_STORAGE
        BY <1>1, <1>2, <3>1, <3>2
      <3> QED BY <1>2, <2>2, <3>3
    <2>4. /\ A + Word <= ADDR_BOOTLOADER
          /\ \A y \in A .. A + Word - 1 : y \in Storage /\ rom'[y] = out[y - A + 1]
      BY <1>0, <1>1, <2>1, <2>3, WordLands
    <2>5. \A y \in Storage : y \notin A .. A + Word - 1 => rom'[y] = rom[y]
      BY <1>0, WordAround
    <2>6. x \in Nat
      BY <1>2
    <2>7. CASE i <= w
      <3>1. i \in 1 .. w
        BY <1>2, <2>7
      <3>2. x \in Storage /\ x \notin A .. A + Word - 1
        BY <1>2, <2>2, <2>3, <2>7 DEF Storage
      <3>3. rom[x] = 2 * Word + i
        BY <1>6, <1>9, <3>1
      <3> HIDE DEF x
      <3>4. rom'[x] = 2 * Word + i
        BY <2>5, <3>2, <3>3
      <3> QED BY <3>4 DEF x
    <2>8. CASE i > w
      <3>1. x \in A .. A + Word - 1 /\ x - A + 1 = i - w /\ i - w \in 1 .. Len(out)
        <4>1. Len(out) >= Word
          BY <1>1
        <4>2. i - w \in 1 .. Word /\ i - w \in 1 .. Len(out)
          BY <1>2, <2>8, <4>1
        <4>3. x = (A + (i - w)) - 1
          BY <1>2, <2>2
        <4>4. A \in Nat
          BY <1>2, <2>2
        <4> HIDE DEF x, A, w
        <4> QED BY <1>2, <4>2, <4>3, <4>4
      <3> HIDE DEF x
      <3>2. rom'[x] = out[i - w]
        BY <2>4, <3>1
      <3>3. out[i - w] = s + (i - w)
        BY <1>4, <3>1
      <3>4. s + (i - w) = 2 * Word + i
        BY <1>2 DEF s
      <3> QED BY <3>2, <3>3, <3>4 DEF x
    <2> QED BY <1>2, <2>7, <2>8
  <1>10. \A i \in 1 .. Len(out') : out'[i] = 2 * Word + prog'.written + i
    BY <1>3, <1>7
  <1>11. \A i \in 1 .. Len(prog'.bytes) : prog'.bytes[i] = 2 * Word + prog'.written + Len(out') + i
    BY <1>3, <1>8
  <1>12. faults' = 0 \/ Stride = 1 =>
           \A i \in 1 .. prog'.written : rom'[ADDR_STORAGE + i - 1] = 2 * Word + i
    BY <1>1, <1>9
  <1>13. source_crc' = FileCRC
    BY <1>0, <1>1 DEF CleanContents
  <1> QED BY <1>10, <1>11, <1>12, <1>13 DEF CleanContents

\* A statement is executed that leaves Programmer alone.
LEMMA StatementContents ==
  ASSUME SessionInv, CleanContents, NEW name, Statement(name),
         UNCHANGED <<progVars, upd, source_crc>>
  PROVE  CleanContents'
  <1>1. ~Switching'
    BY StatementExecutes DEF Executes, Switching
  <1> QED BY <1>1, ContentsStay DEF progVars

\* Programmer has been given nothing when the state of the firmware is entered.
LEMMA SetStateContents ==
  ASSUME SessionInv, CleanContents, SetState
  PROVE  CleanContents'
  <1>1. Executes("SetState") /\ UNCHANGED <<prog, out, source_crc>>
    BY StatementExecutes DEF SetState, progVars
  <1>2. Switching /\ ~Writing /\ ~Preparing
    BY <1>1 DEF Executes, Switching
  <1>3. prog.written = 0 /\ Len(prog.bytes) = 0
    BY <1>2 DEF Switching, SessionInv, Lengths, Words
  <1>4. Len(out) = 0
    BY <1>2, LengthTypes DEF Writing, SessionInv
  <1>5. source_crc' = FileCRC
    BY <1>1, <1>2 DEF CleanContents
  <1> QED BY <1>1, <1>3, <1>4, <1>5 DEF CleanContents

\* In a session that stays clean the bytes stay those of the file.
LEMMA NextContents ==
  ASSUME FirmwareSize % Word = 0, FlashInv, StorageInv, CleanInv, [Next]_vars, Clean', ~Connected
  PROVE  CleanContents'
  <1>0. SessionInv /\ clean' /\ upd' \in Receiving /\ copy' = NoCopy
    BY DEF Clean, FlashInv
  <1>c. Clean
    BY <1>0, NextInOrder
  <1>i. CleanContents
    BY <1>c, CleanParts
  <1>1. ~ResetStep /\ ~RestartStep
    BY <1>0 DEF ResetStep, Reset, RestartStep, Restarted
  <1>2. ~VerifyStored /\ ~CopyChunk /\ ~VerifyCopy
    <2>1. "COMPLETED" \notin Receiving
      BY DEF Receiving
    <2> QED BY <1>0, <2>1, CopySteps
  <1>3. CASE QuietStep \/ UNCHANGED vars \/ Interrupt \/ ChipStep
    <2>1. UNCHANGED <<upd, source_crc, prog, out, rom, faults, todo>>
      BY <1>0, <1>3 DEF QuietStep, vars, progVars, mainVars, Interrupt, ChipStep
    <2>2. Switching' => Switching
      BY <2>1 DEF Switching
    <2> QED BY <1>i, <2>1, <2>2, ContentsStay
  <1>4. CASE TestRequested
    <2>1. /\ UNCHANGED <<upd, source_crc, prog, out, rom, faults>>
          /\ todo' = <<"requested_bytes_received">>
      BY <1>4 DEF TestRequested, progVars
    <2>2. todo'[1] = "requested_bytes_received"
      BY <2>1
    <2>3. ~Switching'
      BY <2>2 DEF Switching
    <2> QED BY <1>i, <2>1, <2>3, ContentsStay
  <1>5. CASE GetVersion
    <2>1. upd' = "GET_BYTES_CRC" /\ todo' = ReceiveBytes
      BY <1>5 DEF GetVersion
    <2>2. ~Switching'
      BY <2>1, ReceiveBytesOrdered DEF Switching
    <2> QED BY <2>1, <2>2 DEF CleanContents
  <1>6. CASE GetCRC
    BY <1>0, <1>c, <1>6, GetCRCContents
  <1>7. CASE GetLastBytes
    <2>1. /\ todo = <<>> /\ upd = "GET_BYTES_FIRMWARE" /\ ~Writing /\ WriteBytes(Received)
          /\ UNCHANGED <<upd, source_crc, rom, faults>>
      BY <1>7 DEF GetLastBytes, AtUpdate
    <2>2. InAnswer
      BY <2>1, UpdateStage
    <2> QED BY <1>0, <1>c, <2>1, <2>2, WriteContents
  <1>8. CASE GetBytes
    <2>1. /\ todo # <<>> /\ todo[1] = "requested_bytes_received" /\ ~Writing
          /\ UNCHANGED <<upd, source_crc, rom, faults>>
      BY <1>8 DEF GetBytes
    <2>2. Stage = 10
      BY <2>1, PlaceValues DEF Stage, StageOf
    <2>3. InAnswer /\ upd = "GET_BYTES_FIRMWARE"
      BY <1>0, <2>2 DEF InAnswer, SessionInv, Control
    <2>4. CASE reader.requested
      <3>1. WriteBytes(Received)
        BY <1>8, <2>4 DEF GetBytes
      <3> QED BY <1>0, <1>c, <2>1, <2>3, <3>1, WriteContents
    <2>5. CASE ~reader.requested
      <3>1. UNCHANGED <<prog, out>> /\ todo' = <<>>
        BY <1>8, <2>5 DEF GetBytes
      <3>2. ~Switching'
        BY <3>1 DEF Switching
      <3> QED BY <1>i, <2>1, <3>1, <3>2, ContentsStay
    <2> QED BY <2>4, <2>5
  <1>9. CASE MeterReset
    BY <1>0, <1>i, <1>9, StatementContents DEF MeterReset
  <1>10. CASE SetState
    BY <1>0, <1>i, <1>10, SetStateContents
  <1>11. CASE RequestStep \/ TransmitStep \/ ClearEOF
    <2>1. CASE RequestStep
      BY <1>0, <1>i, <2>1, StatementContents DEF RequestStep
    <2>2. CASE TransmitStep
      BY <1>0, <1>i, <2>2, StatementContents DEF TransmitStep
    <2>3. CASE ClearEOF
      BY <1>0, <1>i, <2>3, StatementContents DEF ClearEOF
    <2> QED BY <1>11, <2>1, <2>2, <2>3
  <1>12. ASSUME NEW name, ClearStep(name) PROVE CleanContents'
    BY <1>0, <1>i, <1>12, StatementContents DEF ClearStep
  <1>13. CASE CloseStep
    <2>1. /\ Len(out') = 0 /\ prog' = prog /\ Len(prog.bytes) = 0
          /\ upd = "GET_BYTES_FIRMWARE"
      BY <1>0, <1>c, <1>13, CloseClean
    <2>2. UNCHANGED <<upd, source_crc, rom, faults>>
      BY <1>13 DEF CloseStep
    <2> QED BY <1>i, <2>1, <2>2 DEF CleanContents
  <1>14. CASE PrepareStep
    <2>1. UNCHANGED <<upd, todo, source_crc>> /\ upd = "GET_BYTES_CRC"
      BY <1>0, <1>c, <1>14, PrepareKeeps
    <2>2. Switching' => Switching
      BY <2>1 DEF Switching
    <2> QED BY <1>i, <2>1, <2>2 DEF CleanContents
  <1>15. CASE WordStep
    BY <1>0, <1>c, <1>15, WordContents
  <1> QED BY <1>0, <1>1, <1>2, <1>3, <1>4, <1>5, <1>6, <1>7, <1>8, <1>9, <1>10, <1>11, <1>12,
             <1>13, <1>14, <1>15, StepCases

\* A step keeps all of it.
LEMMA NextClean ==
  ASSUME FirmwareSize % Word = 0, FlashInv, StorageInv, CleanInv, [Next]_vars
  PROVE  CleanInv'
  <1>0. SessionInv
    BY DEF FlashInv
  <1>1. CASE Connected
    BY <1>0, <1>1, ConnectedClean
  <1>2. CASE ~Connected
    <2> SUFFICES ASSUME Clean'
                 PROVE  /\ CleanWire' /\ CleanCommand' /\ CleanData' /\ CleanRequest'
                        /\ CleanEnd' /\ CleanContents'
      BY DEF CleanInv
    <2>1. InOrder'
      BY <1>0, <1>2, NextInOrder
    <2>2. CleanContents'
      BY <1>2, NextContents
    <2> QED BY <2>1, <2>2 DEF InOrder
  <1> QED BY <1>1, <1>2

\* A sum agrees with itself.
LEMMA SumOfItself ==
  ASSUME NEW s
  PROVE  SameSum(s, s)
  BY DEF SameSum

\* When the checksum is compared, the storage holds the firmware.
LEMMA CleanIsAgreed ==
  ASSUME FirmwareSize % Word = 0, SessionInv, CleanInv, faults = 0 \/ Stride = 1
  PROVE  CleanSessionAgrees
  <1> SUFFICES ASSUME todo # <<>>, Head(todo) = "Verify", ~Writing, clean
               PROVE  /\ Read(ADDR_STORAGE, prog.written) = Firmware
                      /\ Agrees(ADDR_STORAGE, prog.written)
    BY DEF CleanSessionAgrees
  <1>1. Clean
    BY DEF Clean, SessionInv, Control
  <1>2. Stage = 13
    <2>1. todo[1] = "Verify"
      OBVIOUS
    <2> QED BY <2>1, PlaceValues DEF Stage, StageOf
  <1>3. prog.written = FirmwareSize /\ upd = "GET_BYTES_FIRMWARE"
    BY <1>1, <1>2, SessionIsWhole
  <1>4. CleanContents
    BY <1>1, CleanParts
  <1>5. /\ source_crc = FileCRC
        /\ \A i \in 1 .. FirmwareSize : rom[ADDR_STORAGE + i - 1] = 2 * Word + i
    BY <1>3, <1>4 DEF CleanContents
  <1>6. Read(ADDR_STORAGE, FirmwareSize) = Firmware
    BY <1>5 DEF Read, Firmware
  <1>7. SameSum(source_crc, FileCRC) /\ SameSum(Firmware, Firmware)
    BY <1>5, SumOfItself
  <1> QED BY <1>3, <1>6, <1>7 DEF Agrees

\* A session from the beginning of the file in which nothing failed ends with
\* a checksum that agrees (Updater::Update at GET_BYTES_FIRMWARE), provided
\* that the firmware is whole words (Programmer::CloseSession fills up the
\* last one) and that no word failed in the flash before, or PageIsEmpty looks
\* at every word: otherwise a page that is not empty may pass for an empty one.
THEOREM CleanAgrees ==
  ASSUME FirmwareSize % Word = 0
  PROVE  Spec => [](faults = 0 \/ Stride = 1 => CleanSessionAgrees)
  <1>1. Init => StorageInv
    BY InitStorage
  <1>2. Init => CleanInv
    BY DEF Init, LoaderInit, CleanInv, Clean, Receiving
  <1>3. FlashInv /\ StorageInv /\ [Next]_vars => StorageInv'
    BY NextStorage
  <1>4. FlashInv /\ StorageInv /\ CleanInv /\ [Next]_vars => CleanInv'
    BY NextClean
  <1>5. FlashInv /\ CleanInv => (faults = 0 \/ Stride = 1 => CleanSessionAgrees)
    BY CleanIsAgreed DEF FlashInv
  <1> QED BY <1>1, <1>2, <1>3, <1>4, <1>5, FlashInvHolds, PTL DEF Spec
=============================================================================
