----------------------------- MODULE Programmer -----------------------------
(***************************************************************************)
(* The flash memory of the controller and the Programmer of the loader     *)
(* (common/Hardware/HAL/HAL_ROM.cpp, Loader/src/Hardware/Programmer.cpp).  *)
(*                                                                         *)
(* The flash is three regions of whole pages: the application at address   *)
(* 0, where the processor starts, the storage for a new image, and the     *)
(* loader itself.  A byte of the flash is Erased, Old (of the application  *)
(* that was there before), Boot (of the loader), or what was programmed    *)
(* into it: the position in the server's file of a byte of that file, or   *)
(* one of the other values of the buffer it came from (see ReaderFTP).     *)
(*                                                                         *)
(* Erasing a page and programming a word are steps of their own: a reset   *)
(* may come between any two of them.                                       *)
(***************************************************************************)
EXTENDS Integers, Sequences, FiniteSetsExt, SequencesExt

CONSTANTS
    Word,           \* bytes of a flash word, and of each field of the header: 4
    Buf,            \* ReaderFTP::SIZE_DATA_BUFFER: 64
    Page,           \* HAL_ROM::SIZE_PAGE: 2048
    NumPages,       \* MAX_SIZE_STORAGE / SIZE_PAGE: 38
    Stride,         \* PageIsEmpty reads one word in so many: 4
    Span,           \* PageIsEmpty reads so many pages: 4
    FirmwareSize,   \* bytes of the firmware in the file
    Zeros,          \* positions of the file whose byte is zero
    MaxFaults       \* bound on the words that fail to be programmed

ASSUME ProgrammerAssumption ==
    /\ {Word, Buf, Page, NumPages, Stride, Span, FirmwareSize} \subseteq Nat \ {0}
    /\ MaxFaults \in Nat
    /\ Buf % Word = 0 /\ Page % (Word * Stride) = 0
    /\ FirmwareSize <= NumPages * Page
    /\ 2 * Word <= Span * Page

Erased == 0
Old    == -1
Boot   == -2
Nil    == -4    \* the zero that a static buffer starts with

ADDR_APPLICATION == 0
ADDR_STORAGE     == NumPages * Page
ADDR_BOOTLOADER  == 2 * NumPages * Page
ROM == 0 .. ADDR_BOOTLOADER + Span * Page - 1

FileSize == 2 * Word + FirmwareSize      \* version, checksum, firmware
Firmware == [i \in 1 .. FirmwareSize |-> 2 * Word + i]
FileCRC  == [i \in 1 .. Word |-> Word + i]

\* Math::Hash is a polynomial in 65599 whose coefficients are the bytes, and it
\* starts at 0: zeros in front do not count, and the sum of no bytes or of
\* zeros is 0.  Value is the coefficient of a byte, FromEnd(s, k) that of the
\* power k - 1.
Value(b) == IF b \in Zeros \cup {Nil} THEN Nil ELSE b

FromEnd(s, k) == IF k <= Len(s) THEN Value(s[Len(s) + 1 - k]) ELSE Nil

SameSum(s, t) == \A k \in 1 .. Len(s) + Len(t) : FromEnd(s, k) = FromEnd(t, k)

\* The checksum in the file is zero when the sum of the firmware is.
ASSUME FileAssumption ==
    /\ Zeros \subseteq 1 .. FileSize
    /\ SameSum(FileCRC, <<>>) <=> SameSum(Firmware, <<>>)

VARIABLES
    rom,        \* contents of the flash
    page,       \* pages Prepare has still to visit: start, and how many are done
    prog,       \* address, written_bytes, the bytes kept for the next word
    out,        \* what Write has still to program
    faults      \* words that failed so far

progVars == <<rom, page, prog, out, faults>>

NoPrepare == [start |-> 0, left |-> 0]
ProgReset == [address |-> 0, written |-> 0, bytes |-> <<>>]

ProgInit ==
    /\ rom = [a \in ROM |-> IF a < ADDR_STORAGE THEN Old
                            ELSE IF a < ADDR_BOOTLOADER THEN Erased ELSE Boot]
    /\ page = NoPrepare /\ prog = ProgReset /\ out = <<>> /\ faults = 0

Read(a, n) == [i \in 1 .. n |-> rom[a + i - 1]]

\* HAL_ROM::PageIsEmpty: `start + SIZE_PAGE` and `address += 4` count words.
PageIsEmpty(p) ==
    \A k \in 0 .. (Span * Page) \div (Word * Stride) - 1 :
        \A b \in 0 .. Word - 1 : rom[p * Page + k * Word * Stride + b] = Erased

ErasePage(p) ==
    rom' = [a \in ROM |-> IF a \div Page = p THEN Erased ELSE rom[a]]

\* Programmer::Prepare is called; the pages are visited one by one.
Prepare(start) == page' = [start |-> start, left |-> NumPages]

Preparing == page.left > 0

\* Mutant: the pages are counted from one.
VisitedNext == page.start \div Page + (NumPages - page.left) + 1

\* The page of this iteration of the loop of Prepare.
Visited == page.start \div Page + (NumPages - page.left)

\* Mutant: the test of PageIsEmpty is inverted.
PreparePageInverted ==
    /\ Preparing
    /\ \/ ~PageIsEmpty(Visited) /\ UNCHANGED rom
       \/ PageIsEmpty(Visited) /\ ErasePage(Visited)
    /\ page' = IF page.left = 1 THEN NoPrepare ELSE [page EXCEPT !.left = @ - 1]
    /\ prog' = IF page.left = 1
               THEN [address |-> page.start, written |-> 0, bytes |-> <<>>]
               ELSE prog
    /\ UNCHANGED <<out, faults>>

\* One iteration of the loop of Prepare, and the assignments after the last.
PreparePage ==
    /\ Preparing
    /\ \/ PageIsEmpty(Visited) /\ UNCHANGED rom
       \/ ~PageIsEmpty(Visited) /\ ErasePage(Visited)
    /\ page' = IF page.left = 1 THEN NoPrepare ELSE [page EXCEPT !.left = @ - 1]
    /\ prog' = IF page.left = 1
               THEN [address |-> page.start, written |-> 0, bytes |-> <<>>]
               ELSE prog
    /\ UNCHANGED <<out, faults>>

\* Mutant: what was given to Write is kept as well.
WriteBytesKeepsAll(data) ==
    LET all == prog.bytes \o data
    IN  /\ out' = SubSeq(all, 1, Len(all) - (Len(all) % Word))
        /\ prog' = [prog EXCEPT !.bytes = all]

\* Programmer::WriteBytes: whole words go to Write, the rest is kept.
WriteBytes(data) ==
    LET all   == prog.bytes \o data
        whole == Len(all) - (Len(all) % Word)
    IN  /\ out' = SubSeq(all, 1, whole)
        /\ prog' = [prog EXCEPT !.bytes = SubSeq(all, whole + 1, Len(all))]

\* Programmer::CloseSession: the last word is filled up with 0xFF.
CloseSession ==
    LET n == Len(prog.bytes)
    IN  /\ out' = IF n = 0 THEN <<>>
                  ELSE prog.bytes \o [i \in 1 .. Word - n |-> Erased]
        /\ UNCHANGED prog

Writing == out # <<>>

\* One word of HAL_ROM::WriteData.  A word that is not erased cannot be
\* programmed (PGERR); the flags are cleared and nobody looks at them.
ProgramWord(works) ==
    LET a == prog.address
    IN  /\ Writing
        /\ rom' = [x \in ROM |->
                     IF works /\ x \in a .. a + Word - 1
                              /\ \A y \in a .. a + Word - 1 : rom[y] = Erased
                     THEN out[x - a + 1] ELSE rom[x]]
        /\ out' = SubSeq(out, Word + 1, Len(out))
        /\ prog' = [prog EXCEPT !.address = @ + Word, !.written = @ + Word]
        /\ faults' = IF works THEN faults ELSE faults + 1
        /\ UNCHANGED page

-----------------------------------------------------------------------------

AppArea == [a \in 0 .. ADDR_STORAGE - 1 |-> rom[a]]
OldApp  == [a \in 0 .. ADDR_STORAGE - 1 |-> Old]
NewApp  == [a \in 0 .. ADDR_STORAGE - 1 |->
              IF a < FirmwareSize THEN Firmware[a + 1] ELSE Erased]

\* The region the processor starts from holds a complete program.
Bootable == AppArea \in {OldApp, NewApp}

\* The storage holds the complete new image.
ImageStored == Read(ADDR_STORAGE, FirmwareSize) = Firmware
=============================================================================
