-------------------------- MODULE LoaderRefinement --------------------------
(***************************************************************************)
(* What the flash holds, for every size of the flash, the file and the     *)
(* buffer, every number of failing words and a reset at every step: the    *)
(* loader is never damaged, the application only while the image is stored *)
(* or equal sums have misled the loader, and Loader implements             *)
(* FirmwareUpdate.                                                         *)
(***************************************************************************)
EXTENDS LoaderProofs

\* The pages that the copy has still to prepare may hold the old application;
\* every other byte is erased, or is the one the new application has there.
AppShape ==
    \A a \in 0 .. ADDR_STORAGE - 1 :
        \/ rom[a] \in {Erased, NewApp[a]}
        \/ /\ Preparing /\ a \div Page >= Visited
           /\ \A b \in ROM : b \div Page = a \div Page => rom[b] = Old

\* What Write has still to program, and what is kept, continues the firmware.
Continues ==
    /\ \A i \in 1 .. Len(out) : out[i] = Firmware[prog.address + i]
    /\ \A i \in 1 .. Len(prog.bytes) :
         prog.bytes[i] = Firmware[prog.address + Len(out) + i]

\* Without an accident of the checksum the image is stored wherever the
\* application may be incomplete, and what is copied is the image.
Honest ==
    /\ mode # "stone" /\ copy = NoCopy => Bootable
    /\ mode = "stone" => ImageStored
    /\ copy # NoCopy =>
         /\ copy.size = FirmwareSize
         /\ ImageStored /\ AppShape /\ (~Preparing => Continues)

Flash ==
    /\ LoaderIntact /\ misled \in BOOLEAN
    /\ mode = "application" => Bootable /\ ~misled
    /\ copy # NoCopy => copy.size <= ADDR_STORAGE
    /\ misled \/ Honest

FlashInv == SessionInv /\ Flash

-----------------------------------------------------------------------------
(* Addresses and pages.                                                    *)

\* More pages, more bytes.
LEMMA Monotone ==
  ASSUME NEW a \in Nat, NEW b \in Nat, NEW d \in Nat, a <= b
  PROVE  a * d <= b * d
  <1>1. b - a \in Nat /\ b = a + (b - a)
    OBVIOUS
  <1>2. b * d = a * d + (b - a) * d
    BY <1>1
  <1>3. (b - a) * d \in Nat /\ a * d \in Nat
    BY <1>1, Product
  <1> QED BY <1>2, <1>3

\* The addresses of a page.
LEMMA PageBounds ==
  ASSUME NEW a \in Nat, NEW p \in Nat
  PROVE  /\ a \div Page \in Nat
         /\ a \div Page = p <=> p * Page <= a /\ a < (p + 1) * Page
  <1> DEFINE q == a \div Page
             r == a % Page
  <1>1. Page \in Nat \ {0}
    BY Parameters
  <1>2. r \in 0 .. Page - 1 /\ q \in Nat /\ a = q * Page + r
    BY <1>1, Remainder
  <1> HIDE DEF q, r
  <1>3. q * Page \in Nat /\ p * Page \in Nat /\ (p + 1) * Page = p * Page + Page
        /\ (q + 1) * Page = q * Page + Page
    BY <1>1, <1>2, Product
  <1>4. ASSUME q = p PROVE p * Page <= a /\ a < (p + 1) * Page
    BY <1>1, <1>2, <1>3, <1>4
  <1>5. ASSUME p * Page <= a, a < (p + 1) * Page PROVE q = p
    <2>1. CASE q < p
      <3>1. (q + 1) * Page <= p * Page
        BY <1>1, <1>2, <2>1, Monotone
      <3> QED BY <1>1, <1>2, <1>3, <1>5, <3>1
    <2>2. CASE q > p
      <3>1. (p + 1) * Page <= q * Page
        BY <1>1, <1>2, <2>2, Monotone
      <3> QED BY <1>1, <1>2, <1>3, <1>5, <3>1
    <2> QED BY <1>2, <2>1, <2>2
  <1>6. q \in Nat /\ (q = p <=> p * Page <= a /\ a < (p + 1) * Page)
    BY <1>2, <1>4, <1>5
  <1> QED BY <1>6 DEF q

\* Application, storage and loader follow each other, in whole pages.
LEMMA Regions ==
  /\ ADDR_STORAGE \in Nat \ {0} /\ ADDR_BOOTLOADER \in Nat
  /\ ADDR_BOOTLOADER = ADDR_STORAGE + ADDR_STORAGE
  /\ ADDR_STORAGE = NumPages * Page /\ ADDR_BOOTLOADER = (NumPages + NumPages) * Page
  /\ Span * Page \in Nat \ {0}
  /\ \A a \in ROM : a \in Nat
  /\ \A a \in 0 .. ADDR_BOOTLOADER : a \in ROM
  <1>1. /\ ADDR_STORAGE \in Nat \ {0} /\ ADDR_BOOTLOADER \in Nat
        /\ ADDR_BOOTLOADER = ADDR_STORAGE + ADDR_STORAGE
    BY Sizes
  <1>2. /\ NumPages \in Nat /\ Page \in Nat \ {0} /\ Span \in Nat \ {0}
    BY Parameters
  <1>3. ADDR_STORAGE = NumPages * Page /\ ADDR_BOOTLOADER = (NumPages + NumPages) * Page
    BY <1>2 DEF ADDR_STORAGE, ADDR_BOOTLOADER
  <1>4. Span * Page \in Nat \ {0}
    BY <1>2
  <1>5. \A a \in ROM : a \in Nat
    BY <1>1, <1>4 DEF ROM
  <1>6. \A a \in 0 .. ADDR_BOOTLOADER : a \in ROM
    BY <1>1, <1>4 DEF ROM
  <1> QED BY <1>1, <1>3, <1>4, <1>5, <1>6

\* A page whose first byte is programmed is not taken for empty.
LEMMA EmptyBegins ==
  ASSUME NEW p \in Nat, PageIsEmpty(p)
  PROVE  rom[p * Page] = Erased
  <1> DEFINE g == Word * Stride
             n == Span * Page
  <1>1. Word \in Nat \ {0} /\ Stride \in Nat \ {0} /\ Page \in Nat \ {0} /\ Span \in Nat \ {0}
    BY Parameters
  <1>2. g \in Nat \ {0} /\ Page % g = 0
    BY <1>1, ProgrammerAssumption
  <1>3. n \in Nat /\ n >= Page
    <2>1. 1 * Page <= Span * Page
      BY <1>1, Monotone
    <2> QED BY <1>1, <2>1, Product
  <1> HIDE DEF g, n
  <1>4. Page >= g
    <2> DEFINE k == Page \div g
    <2>1. Page = k * g + (Page % g) /\ k \in Nat
      BY <1>1, <1>2, Remainder
    <2> HIDE DEF k
    <2>2. Page = k * g /\ k # 0
      BY <1>1, <1>2, <2>1
    <2>3. 1 * g <= k * g
      BY <1>2, <2>1, <2>2, Monotone
    <2> QED BY <1>2, <2>2, <2>3
  <1>5. n \div g >= 1 /\ n \div g \in Nat
    <2>1. n = (n \div g) * g + (n % g) /\ n \div g \in Nat /\ n % g \in 0 .. g - 1
      BY <1>2, <1>3, Remainder
    <2>2. n \div g # 0
      <3>1. ASSUME n \div g = 0 PROVE FALSE
        <4>1. n = 0 * g + (n % g)
          BY <2>1, <3>1
        <4> QED BY <1>1, <1>2, <1>3, <1>4, <2>1, <4>1
      <3> QED BY <3>1
    <2> QED BY <2>1, <2>2
  <1>6. 0 \in 0 .. n \div g - 1 /\ 0 \in 0 .. Word - 1
    BY <1>1, <1>5
  <1>7. rom[p * Page + 0 * Word * Stride + 0] = Erased
    BY <1>6 DEF PageIsEmpty, n, g
  <1>8. p * Page + 0 * Word * Stride + 0 = p * Page
    BY <1>1, Product
  <1> QED BY <1>7, <1>8

\* The pages that Prepare visits.
LEMMA VisitedPages ==
  ASSUME SessionInv, Preparing, NEW a \in ROM
  PROVE  /\ Visited \in Nat /\ page.left \in 1 .. NumPages /\ a \div Page \in Nat
         /\ copy = NoCopy /\ a \div Page = Visited => ADDR_STORAGE <= a /\ a < ADDR_BOOTLOADER
         /\ copy # NoCopy => Visited = NumPages - page.left /\ Visited < NumPages
         /\ copy # NoCopy /\ a \div Page = Visited => a < ADDR_STORAGE
  <1>1. /\ page.left \in 1 .. NumPages /\ NumPages \in Nat \ {0} /\ Page \in Nat \ {0} /\ a \in Nat
    BY Parameters, Regions DEF SessionInv, LoaderTypes, Preparing
  <1>2. Visited = page.start \div Page + (NumPages - page.left)
    BY DEF Visited
  <1>3. a \div Page \in Nat
    BY <1>1, PageBounds
  <1>4. CASE copy = NoCopy
    <2>1. page.start = ADDR_STORAGE
      BY <1>4 DEF SessionInv, Control
    <2>2. ADDR_STORAGE \div Page = NumPages
      <3>1. ADDR_STORAGE = NumPages * Page /\ ADDR_STORAGE \in Nat
        BY Regions
      <3>2. (NumPages + 1) * Page = NumPages * Page + Page
        BY <1>1
      <3>3. NumPages * Page <= ADDR_STORAGE /\ ADDR_STORAGE < (NumPages + 1) * Page
        BY <1>1, <3>1, <3>2
      <3> QED BY <1>1, <3>1, <3>3, PageBounds
    <2>3. Visited = NumPages + (NumPages - page.left)
      BY <1>2, <2>1, <2>2
    <2>4. Visited \in Nat /\ Visited >= NumPages /\ Visited + 1 <= NumPages + NumPages
      BY <1>1, <2>3
    <2>5. ASSUME a \div Page = Visited PROVE ADDR_STORAGE <= a /\ a < ADDR_BOOTLOADER
      <3>1. Visited * Page <= a /\ a < (Visited + 1) * Page
        BY <1>1, <2>4, <2>5, PageBounds
      <3>2. NumPages * Page <= Visited * Page
        BY <1>1, <2>4, Monotone
      <3>3. (Visited + 1) * Page <= (NumPages + NumPages) * Page
        BY <1>1, <2>4, Monotone
      <3>4. Visited * Page \in Nat /\ (Visited + 1) * Page \in Nat
        BY <1>1, <2>4, Product
      <3> QED BY <1>1, <3>1, <3>2, <3>3, <3>4, Regions
    <2> QED BY <1>1, <1>3, <1>4, <2>4, <2>5
  <1>5. CASE copy # NoCopy
    <2>1. page.start = 0
      BY <1>5 DEF SessionInv, Control, ADDR_APPLICATION
    <2>2. 0 \div Page = 0
      <3>1. 0 * Page <= 0 /\ 0 < (0 + 1) * Page
        BY <1>1
      <3> QED BY <3>1, PageBounds
    <2>3. Visited = NumPages - page.left
      BY <1>1, <1>2, <2>1, <2>2
    <2>4. Visited \in Nat /\ Visited + 1 <= NumPages
      BY <1>1, <2>3
    <2>5. ASSUME a \div Page = Visited PROVE a < ADDR_STORAGE
      <3>1. Visited * Page <= a /\ a < (Visited + 1) * Page
        BY <1>1, <2>4, <2>5, PageBounds
      <3>2. (Visited + 1) * Page <= NumPages * Page
        BY <1>1, <2>4, Monotone
      <3>3. (Visited + 1) * Page \in Nat
        BY <1>1, <2>4, Product
      <3> QED BY <1>1, <3>1, <3>2, <3>3, Regions
    <2> QED BY <1>1, <1>3, <1>5, <2>3, <2>4, <2>5
  <1> QED BY <1>4, <1>5

\* The pages of the application.
LEMMA AppPages ==
  ASSUME NEW a \in 0 .. ADDR_STORAGE - 1
  PROVE  /\ a \in ROM /\ a \in Nat /\ a \div Page \in 0 .. NumPages - 1
         /\ \A b \in ROM : b \div Page = a \div Page => b \in 0 .. ADDR_STORAGE - 1
         /\ (a \div Page) * Page \in 0 .. ADDR_STORAGE - 1
         /\ (a \div Page) * Page \in ROM
         /\ ((a \div Page) * Page) \div Page = a \div Page
  <1> DEFINE q == a \div Page
  <1>1. /\ ADDR_STORAGE \in Nat \ {0} /\ ADDR_STORAGE = NumPages * Page
        /\ ADDR_BOOTLOADER = ADDR_STORAGE + ADDR_STORAGE
        /\ Page \in Nat \ {0} /\ NumPages \in Nat
    BY Regions, Parameters
  <1>2. a \in Nat /\ a < ADDR_STORAGE /\ a \in ROM
    BY <1>1, Regions
  <1>3. q \in Nat
    BY <1>2, PageBounds
  <1>4. q * Page <= a /\ a < (q + 1) * Page
    <2>1. \A p \in Nat : q = p => p * Page <= a /\ a < (p + 1) * Page
      BY <1>2, PageBounds
    <2> HIDE DEF q
    <2> QED BY <1>3, <2>1
  <1> HIDE DEF q
  <1>5. q * Page \in Nat /\ (q + 1) * Page = q * Page + Page
    BY <1>1, <1>3, Product
  <1>6. q < NumPages
    <2>1. ASSUME NumPages <= q PROVE FALSE
      <3>1. NumPages * Page <= q * Page
        BY <1>1, <1>3, <2>1, Monotone
      <3> QED BY <1>1, <1>2, <1>4, <1>5, <3>1
    <2> QED BY <1>1, <1>3, <2>1
  <1>7. (q + 1) * Page <= ADDR_STORAGE
    BY <1>1, <1>3, <1>6, Monotone
  <1>8. ASSUME NEW b \in ROM, b \div Page = q
        PROVE  b \in 0 .. ADDR_STORAGE - 1
    <2>1. b \in Nat
      BY Regions
    <2>2. b < (q + 1) * Page
      BY <1>3, <1>8, <2>1, PageBounds
    <2> QED BY <1>1, <1>5, <1>7, <2>1, <2>2
  <1>9. q * Page \in 0 .. ADDR_STORAGE - 1 /\ q * Page \in ROM
    BY <1>1, <1>2, <1>4, <1>5, Regions
  <1>10. (q * Page) \div Page = q
    <2>1. q * Page <= q * Page /\ q * Page < (q + 1) * Page
      BY <1>1, <1>5
    <2> QED BY <1>3, <1>5, <2>1, PageBounds
  <1>11. q \in 0 .. NumPages - 1
    BY <1>1, <1>3, <1>6
  <1> QED BY <1>2, <1>8, <1>9, <1>10, <1>11 DEF q

-----------------------------------------------------------------------------
(* Contents of the regions.                                                *)

\* The bytes of the firmware are positions in the file behind the header.
LEMMA FirmwareBytes ==
  /\ FirmwareSize \in Nat \ {0} /\ FirmwareSize <= ADDR_STORAGE
  /\ \A i \in 1 .. FirmwareSize : Firmware[i] = 2 * Word + i /\ Firmware[i] > 0
  <1>1. Word \in Nat /\ FirmwareSize \in Nat \ {0} /\ FirmwareSize <= ADDR_STORAGE
    BY Parameters, Sizes
  <1> QED BY <1>1 DEF Firmware

\* The new application: the firmware, and erased flash behind it.
LEMMA NewAppBytes ==
  ASSUME NEW a \in 0 .. ADDR_STORAGE - 1
  PROVE  /\ a < FirmwareSize => a + 1 \in 1 .. FirmwareSize /\ NewApp[a] = Firmware[a + 1]
         /\ a >= FirmwareSize => NewApp[a] = Erased
         /\ NewApp[a] # Old /\ Erased # Old
  <1>1. ADDR_STORAGE \in Nat /\ FirmwareSize \in Nat
    BY Regions, FirmwareBytes
  <1>2. NewApp[a] = IF a < FirmwareSize THEN Firmware[a + 1] ELSE Erased
    BY DEF NewApp
  <1>3. a < FirmwareSize => a + 1 \in 1 .. FirmwareSize
    BY <1>1
  <1>4. a < FirmwareSize => Firmware[a + 1] # -1
    BY <1>3, FirmwareBytes
  <1> QED BY <1>1, <1>2, <1>3, <1>4 DEF Old, Erased

\* The state of the application depends on its region only.
LEMMA SameApp ==
  ASSUME \A a \in 0 .. ADDR_STORAGE - 1 : rom'[a] = rom[a]
  PROVE  AppArea' = AppArea /\ (Bootable' <=> Bootable) /\ Installed' = Installed
  <1>1. AppArea' = AppArea
    BY DEF AppArea
  <1>2. OldApp' = OldApp /\ NewApp' = NewApp
    BY DEF OldApp, NewApp, Firmware
  <1> QED BY <1>1, <1>2 DEF Bootable, Installed

\* Whether the image is stored depends on the storage only.
LEMMA SameImage ==
  ASSUME \A a \in ADDR_STORAGE .. ADDR_BOOTLOADER - 1 : rom'[a] = rom[a]
  PROVE  ImageStored' <=> ImageStored
  <1>1. \A i \in 1 .. FirmwareSize : ADDR_STORAGE + i - 1 \in ADDR_STORAGE .. ADDR_BOOTLOADER - 1
    BY Regions, FirmwareBytes
  <1>2. \A i \in 1 .. FirmwareSize : rom'[ADDR_STORAGE + i - 1] = rom[ADDR_STORAGE + i - 1]
    BY <1>1
  <1>3. Read(ADDR_STORAGE, FirmwareSize)' = Read(ADDR_STORAGE, FirmwareSize)
    BY <1>2 DEF Read
  <1> QED BY <1>3 DEF ImageStored

\* What the copy reads from a stored image is the firmware.
LEMMA ImageBytes ==
  ASSUME ImageStored, NEW i \in 1 .. FirmwareSize
  PROVE  rom[ADDR_STORAGE + i - 1] = Firmware[i]
  <1>1. Read(ADDR_STORAGE, FirmwareSize)[i] = rom[ADDR_STORAGE + i - 1]
    BY DEF Read
  <1>2. Read(ADDR_STORAGE, FirmwareSize) = Firmware
    BY DEF ImageStored
  <1> QED BY <1>1, <1>2

\* A new application, byte by byte.
LEMMA WholeApp ==
  ASSUME \A a \in 0 .. ADDR_STORAGE - 1 : rom[a] = NewApp[a]
  PROVE  Bootable
  <1>1. \A a \in 0 .. ADDR_STORAGE - 1 :
          NewApp[a] = IF a < FirmwareSize THEN Firmware[a + 1] ELSE Erased
    BY DEF NewApp
  <1>2. AppArea = [a \in 0 .. ADDR_STORAGE - 1 |-> NewApp[a]]
    BY DEF AppArea
  <1>3. NewApp = [a \in 0 .. ADDR_STORAGE - 1 |-> NewApp[a]]
    BY <1>1 DEF NewApp
  <1> QED BY <1>2, <1>3 DEF Bootable

\* The bytes that a step of Write may change.
LEMMA WordBytes ==
  ASSUME FlashInv, WordStep, NEW x \in ROM
  PROVE  /\ Writing /\ UNCHANGED <<page, upd, todo, copy, mode, misled>>
         /\ upd = "GET_BYTES_FIRMWARE" /\ ~Preparing /\ Len(out) >= Word
         /\ \/ rom'[x] = rom[x]
            \/ /\ x \in prog.address .. prog.address + Word - 1 /\ rom[x] = Erased
               /\ rom'[x] = out[x - prog.address + 1]
               /\ x - prog.address + 1 \in 1 .. Word
  <1>1. LoaderTypes /\ Control /\ Words
    BY DEF FlashInv, SessionInv, Lengths
  <1>2. /\ Writing /\ UNCHANGED <<upd, todo, copy, mode, misled>>
        /\ ProgramWord(TRUE) \/ ProgramWord(FALSE)
    BY DEF WordStep, ProgramWord, mainVars
  <1>3. Len(out) >= Word /\ page' = page
    BY <1>1, <1>2, ProgramWordEffect DEF Words, LoaderTypes
  <1>4. upd = "GET_BYTES_FIRMWARE" /\ ~Preparing
    BY <1>1, <1>2 DEF Control
  <1> DEFINE a == prog.address
  <1>5. \/ rom'[x] = rom[x]
        \/ /\ x \in a .. a + Word - 1 /\ \A y \in a .. a + Word - 1 : rom[y] = Erased
           /\ rom'[x] = out[x - a + 1]
    BY <1>2 DEF ProgramWord
  <1>6. a \in Nat /\ x \in Nat /\ Word \in Nat
    BY <1>1, LengthTypes, Regions, Parameters
  <1> HIDE DEF a
  <1>7. x \in a .. a + Word - 1 => x - a + 1 \in 1 .. Word
    BY <1>6
  <1> QED BY <1>2, <1>3, <1>4, <1>5, <1>7 DEF a

\* A step of Prepare leaves the flash alone, or erases the page it visits.
LEMMA PrepareBytes ==
  ASSUME SessionInv, PrepareStep
  PROVE  /\ Preparing /\ UNCHANGED <<upd, todo, copy, mode, out>> /\ out = <<>>
         /\ mode = "loader"
         /\ \/ rom' = rom /\ PageIsEmpty(Visited)
            \/ \A x \in ROM : rom'[x] = IF x \div Page = Visited THEN Erased ELSE rom[x]
  <1>1. Preparing /\ UNCHANGED <<upd, todo, copy, mode, out>> /\ mode = "loader"
    BY DEF PrepareStep, PreparePage, mainVars
  <1>2. out = <<>>
    BY <1>1 DEF SessionInv, Control, Writing
  <1>3. \/ PageIsEmpty(Visited) /\ UNCHANGED rom
        \/ ErasePage(Visited)
    BY DEF PrepareStep, PreparePage
  <1> QED BY <1>1, <1>2, <1>3 DEF ErasePage

\* While the image is received the application is not touched.
LEMMA StorageStep ==
  ASSUME FlashInv, copy = NoCopy, PrepareStep \/ WordStep
  PROVE  /\ \A a \in 0 .. ADDR_STORAGE - 1 : rom'[a] = rom[a]
         /\ LoaderIntact'
  <1>0. SessionInv /\ LoaderIntact /\ LoaderTypes /\ Words
    BY DEF FlashInv, Flash, SessionInv, Lengths
  <1>1. /\ ADDR_STORAGE \in Nat \ {0} /\ ADDR_BOOTLOADER = ADDR_STORAGE + ADDR_STORAGE
        /\ \A a \in ROM : a \in Nat
        /\ \A a \in 0 .. ADDR_STORAGE - 1 : a \in ROM
    BY Regions
  <1>2. ASSUME NEW x \in ROM, rom'[x] # rom[x]
        PROVE  x >= ADDR_STORAGE /\ x < ADDR_BOOTLOADER
    <2>1. CASE PrepareStep
      <3>1. x \div Page = Visited /\ Preparing
        BY <1>0, <1>2, <2>1, PrepareBytes
      <3> QED BY <1>0, <3>1, VisitedPages
    <2>2. CASE WordStep
      <3>1. /\ x \in prog.address .. prog.address + Word - 1 /\ rom[x] = Erased
            /\ upd = "GET_BYTES_FIRMWARE"
        BY <1>2, <2>2, WordBytes
      <3>2. prog.address = ADDR_STORAGE + prog.written
        BY <1>0, <3>1 DEF Words
      <3>3. prog.written \in Nat /\ x \in Nat /\ Word \in Nat
        BY <1>0, <1>1, LengthTypes, Parameters
      <3>4. x >= ADDR_STORAGE
        BY <1>1, <3>1, <3>2, <3>3
      <3>5. ~(x >= ADDR_BOOTLOADER)
        BY <1>0, <3>1 DEF LoaderIntact, Boot, Erased
      <3> QED BY <1>1, <3>3, <3>4, <3>5
    <2> QED BY <2>1, <2>2
  <1>3. \A a \in 0 .. ADDR_STORAGE - 1 : rom'[a] = rom[a]
    <2> TAKE a \in 0 .. ADDR_STORAGE - 1
    <2>1. a \in ROM /\ ~(a >= ADDR_STORAGE)
      BY <1>1
    <2> QED BY <1>2, <2>1
  <1>4. LoaderIntact'
    <2>1. ASSUME NEW a \in ROM, a >= ADDR_BOOTLOADER PROVE rom'[a] = Boot
      <3>1. ~(a < ADDR_BOOTLOADER)
        BY <1>1, <2>1
      <3>2. rom'[a] = rom[a]
        BY <1>2, <3>1
      <3> QED BY <1>0, <2>1, <3>2 DEF LoaderIntact
    <2> QED BY <2>1 DEF LoaderIntact
  <1> QED BY <1>3, <1>4

\* While the image is copied nothing but the application is touched.
LEMMA CopyKeepsImage ==
  ASSUME FlashInv, copy # NoCopy, PrepareStep \/ WordStep
  PROVE  /\ \A a \in ROM : a >= ADDR_STORAGE => rom'[a] = rom[a]
         /\ LoaderIntact' /\ (ImageStored' <=> ImageStored)
  <1>0. SessionInv /\ LoaderIntact /\ copy.size <= ADDR_STORAGE /\ LoaderTypes /\ Words
    BY DEF FlashInv, Flash, SessionInv, Lengths
  <1>1. /\ ADDR_STORAGE \in Nat \ {0} /\ ADDR_BOOTLOADER = ADDR_STORAGE + ADDR_STORAGE
        /\ \A a \in ROM : a \in Nat
        /\ \A a \in 0 .. ADDR_BOOTLOADER : a \in ROM
    BY Regions
  <1>2. ASSUME NEW x \in ROM, rom'[x] # rom[x]
        PROVE  x < ADDR_STORAGE
    <2>1. CASE PrepareStep
      <3>1. x \div Page = Visited /\ Preparing
        BY <1>0, <1>2, <2>1, PrepareBytes
      <3> QED BY <1>0, <3>1, VisitedPages
    <2>2. CASE WordStep
      <3>1. /\ x \in prog.address .. prog.address + Word - 1
            /\ ~Preparing /\ Len(out) >= Word
        BY <1>2, <2>2, WordBytes
      <3>2. prog.address = prog.written /\ Stored = copy.done /\ copy.done <= copy.size
        BY <1>0, <3>1 DEF Words
      <3>3. prog.written \in Nat /\ x \in Nat /\ Word \in Nat /\ Len(out) \in Nat
            /\ Len(prog.bytes) \in Nat /\ copy.size \in Nat
        BY <1>0, <1>1, LengthTypes, CopyFields, Parameters
      <3>4. prog.written + Len(out) <= copy.size
        <4>1. prog.written + Len(out) + Len(prog.bytes) <= copy.size
          BY <3>2 DEF Stored
        <4> QED BY <3>3, <4>1
      <3> QED BY <1>0, <1>1, <3>1, <3>2, <3>3, <3>4
    <2> QED BY <2>1, <2>2
  <1>3. \A a \in ROM : a >= ADDR_STORAGE => rom'[a] = rom[a]
    <2>1. \A a \in ROM : a >= ADDR_STORAGE => ~(a < ADDR_STORAGE)
      BY <1>1
    <2> QED BY <1>2, <2>1
  <1>4. LoaderIntact'
    <2>1. ASSUME NEW a \in ROM, a >= ADDR_BOOTLOADER PROVE rom'[a] = Boot
      <3>1. a >= ADDR_STORAGE
        BY <1>1, <2>1
      <3> QED BY <1>0, <1>3, <2>1, <3>1 DEF LoaderIntact
    <2> QED BY <2>1 DEF LoaderIntact
  <1>5. \A a \in ADDR_STORAGE .. ADDR_BOOTLOADER - 1 : rom'[a] = rom[a]
    <2>1. \A a \in ADDR_STORAGE .. ADDR_BOOTLOADER - 1 : a \in ROM /\ a >= ADDR_STORAGE
      BY <1>1
    <2> QED BY <1>3, <2>1
  <1> QED BY <1>3, <1>4, <1>5, SameImage

\* A page of the old application is erased, and what was erased stays so.
LEMMA PrepareShape ==
  ASSUME FlashInv, ~misled, copy # NoCopy, PrepareStep
  PROVE  /\ AppShape' /\ (~Preparing' => Continues')
         /\ rom' = rom \/ AppArea' # OldApp
  <1>0. SessionInv /\ AppShape /\ LoaderTypes
    BY DEF FlashInv, Flash, Honest, SessionInv
  <1>1. /\ Preparing /\ out = <<>> /\ out' = <<>>
        /\ \/ rom' = rom /\ PageIsEmpty(Visited)
           \/ \A x \in ROM : rom'[x] = IF x \div Page = Visited THEN Erased ELSE rom[x]
    BY <1>0, PrepareBytes
  <1>2. /\ page' = IF page.left = 1 THEN NoPrepare ELSE [page EXCEPT !.left = @ - 1]
        /\ prog' = IF page.left = 1
                   THEN [address |-> page.start, written |-> 0, bytes |-> <<>>]
                   ELSE prog
    BY DEF PrepareStep, PreparePage
  <1>3. 0 \in ROM
    BY Regions
  <1>4. /\ Visited \in Nat /\ page.left \in 1 .. NumPages
        /\ Visited = NumPages - page.left /\ Visited < NumPages /\ NumPages \in Nat
    BY <1>0, <1>1, <1>3, VisitedPages, Parameters
  <1>5. page.left # 1 => Preparing' /\ Visited' = Visited + 1
    <2> SUFFICES ASSUME page.left # 1 PROVE Preparing' /\ Visited' = Visited + 1
      OBVIOUS
    <2>1. page' = [page EXCEPT !.left = @ - 1]
      BY <1>2
    <2>2. page'.left = page.left - 1 /\ page'.start = page.start
      BY <1>0, <2>1 DEF LoaderTypes
    <2>3. Preparing'
      BY <1>4, <2>2 DEF Preparing
    <2>4. page.start = 0 /\ 0 \div Page \in Nat
      BY <1>0, <1>1, PageBounds DEF SessionInv, Control, ADDR_APPLICATION
    <2>5. Visited' = (0 \div Page) + (NumPages - (page.left - 1))
      BY <2>2, <2>4 DEF Visited
    <2>6. Visited = (0 \div Page) + (NumPages - page.left)
      BY <2>4 DEF Visited
    <2> HIDE DEF Visited
    <2>7. \A z, n, l \in Int : z + (n - (l - 1)) = (z + (n - l)) + 1
      OBVIOUS
    <2>8. (0 \div Page) + (NumPages - (page.left - 1)) = ((0 \div Page) + (NumPages - page.left)) + 1
      BY <1>4, <2>4, <2>7
    <2> QED BY <2>3, <2>5, <2>6, <2>8
  <1>6. ~Preparing' => Continues'
    <2>1. ASSUME ~Preparing' PROVE Len(out') = 0 /\ Len(prog'.bytes) = 0
      <3>1. page.left = 1
        BY <1>5, <2>1
      <3>2. prog'.bytes = <<>>
        BY <1>2, <3>1
      <3> QED BY <1>1, <3>2
    <2> QED BY <2>1 DEF Continues
  <1>7. ASSUME NEW a \in 0 .. ADDR_STORAGE - 1
        PROVE  \/ rom'[a] \in {Erased, NewApp[a]}
               \/ /\ Preparing' /\ a \div Page >= Visited'
                  /\ \A b \in ROM : b \div Page = a \div Page => rom'[b] = Old
    <2>1. /\ a \in ROM /\ a \div Page \in 0 .. NumPages - 1
          /\ (a \div Page) * Page \in ROM
          /\ ((a \div Page) * Page) \div Page = a \div Page
      BY AppPages
    <2>2. CASE rom[a] \in {Erased, NewApp[a]}
      BY <1>1, <2>1, <2>2
    <2>3. CASE /\ a \div Page >= Visited
               /\ \A b \in ROM : b \div Page = a \div Page => rom[b] = Old
      <3>1. CASE a \div Page = Visited
        <4>1. rom[Visited * Page] = Old
          BY <2>1, <2>3, <3>1
        <4>2. ~PageIsEmpty(Visited)
          BY <1>4, <4>1, EmptyBegins DEF Old, Erased
        <4>3. rom'[a] = Erased
          BY <1>1, <2>1, <3>1, <4>2
        <4> QED BY <4>3
      <3>2. CASE a \div Page > Visited
        <4>1. page.left # 1
          BY <1>4, <2>1, <3>2
        <4>2. a \div Page >= Visited'
          BY <1>4, <1>5, <2>1, <3>2, <4>1
        <4>3. a \div Page # Visited
          BY <1>4, <2>1, <3>2
        <4>4. \A b \in ROM : b \div Page = a \div Page => rom'[b] = Old
          BY <1>1, <2>3, <4>3
        <4> QED BY <1>5, <4>1, <4>2, <4>4
      <3> QED BY <1>4, <2>1, <2>3, <3>1, <3>2
    <2> QED BY <1>0, <2>2, <2>3 DEF AppShape
  <1>8. AppShape'
    <2>1. \A a \in 0 .. ADDR_STORAGE - 1 : NewApp'[a] = NewApp[a]
      BY DEF NewApp, Firmware
    <2> QED BY <1>7 DEF AppShape
  <1>9. ASSUME rom' # rom PROVE AppArea' # OldApp
    <2> DEFINE v == Visited * Page
    <2>0. Page \in Nat \ {0} /\ v \in Nat /\ (Visited + 1) * Page = v + Page
      BY <1>4, Parameters, Product
    <2>1. v \div Page = Visited
      BY <1>4, <2>0, PageBounds
    <2>2. (Visited + 1) * Page <= ADDR_STORAGE
      BY <1>4, <2>0, Monotone, Regions
    <2> HIDE DEF v
    <2>3. v \in 0 .. ADDR_STORAGE - 1
      BY <2>0, <2>2, Regions
    <2>4. v \in ROM
      BY <2>3, AppPages
    <2>5. rom'[v] = Erased
      BY <1>1, <1>9, <2>1, <2>4
    <2>6. AppArea'[v] = Erased /\ OldApp[v] = Old
      BY <2>3, <2>5 DEF AppArea, OldApp
    <2> QED BY <2>6 DEF Erased, Old
  <1> QED BY <1>6, <1>8, <1>9

\* A word of the firmware goes to its place.
LEMMA WordShape ==
  ASSUME FlashInv, ~misled, copy # NoCopy, WordStep
  PROVE  /\ AppShape' /\ (~Preparing' => Continues')
         /\ AppArea' # OldApp
  <1>0. /\ SessionInv /\ AppShape /\ LoaderTypes /\ Words
        /\ (~Preparing => Continues) /\ copy.size = FirmwareSize
    BY DEF FlashInv, Flash, Honest, SessionInv, Lengths
  <1>1. 0 \in ROM /\ ADDR_STORAGE \in Nat \ {0}
    BY Regions
  <1>2. Writing /\ UNCHANGED <<page, copy>> /\ ~Preparing /\ Len(out) >= Word
    BY <1>1, WordBytes
  <1>3. Continues /\ ~Preparing'
    BY <1>0, <1>2 DEF Preparing
  <1>4. /\ Len(out') = Len(out) - Word
        /\ \A i \in 1 .. Len(out) - Word : out'[i] = out[Word + i]
        /\ prog'.address = prog.address + Word /\ prog'.bytes = prog.bytes
    BY <1>0, ProgramWordEffect DEF WordStep, Words, LoaderTypes
  <1>5. prog.address = prog.written /\ Stored = copy.done /\ copy.done <= FirmwareSize
    BY <1>0, <1>2 DEF Words
  <1>6. /\ prog.written \in Nat /\ prog.address \in Nat /\ Word \in Nat /\ Len(out) \in Nat
        /\ Len(prog.bytes) \in Nat /\ FirmwareSize \in Nat /\ FirmwareSize <= ADDR_STORAGE
    BY <1>0, LengthTypes, Parameters, FirmwareBytes
  <1>7. prog.address + Len(out) + Len(prog.bytes) <= FirmwareSize
    BY <1>5 DEF Stored
  <1>8. ASSUME NEW a \in 0 .. ADDR_STORAGE - 1 PROVE rom'[a] \in {Erased, NewApp[a]}
    <2>1. a \in ROM /\ rom[a] \in {Erased, NewApp[a]}
      BY <1>0, <1>2, AppPages DEF AppShape
    <2>2. CASE rom'[a] = rom[a]
      BY <2>1, <2>2
    <2>3. CASE rom'[a] # rom[a]
      <3> DEFINE i == a - prog.address + 1
      <3>1. rom'[a] = out[i] /\ i \in 1 .. Word /\ a \in prog.address .. prog.address + Word - 1
        BY <2>1, <2>3, WordBytes
      <3>2. a \in Nat /\ prog.address + i = a + 1 /\ i \in 1 .. Len(out) /\ a < FirmwareSize
        <4>1. i \in 1 .. Len(out)
          BY <1>2, <1>6, <3>1
        <4>2. a \in Nat /\ prog.address + i = a + 1
          BY <1>1, <1>6
        <4> HIDE DEF i
        <4> QED BY <1>6, <1>7, <4>1, <4>2
      <3>3. out[i] = Firmware[prog.address + i]
        BY <1>3, <3>2 DEF Continues
      <3>4. out[i] = Firmware[a + 1]
        BY <3>2, <3>3
      <3>5. NewApp[a] = Firmware[a + 1]
        BY <3>2, NewAppBytes
      <3> QED BY <3>1, <3>4, <3>5
    <2> QED BY <2>2, <2>3
  <1>9. AppShape'
    BY <1>8 DEF AppShape
  <1>10. Continues'
    <2>1. ASSUME NEW i \in 1 .. Len(out') PROVE out'[i] = Firmware[prog'.address + i]
      <3>1. i \in 1 .. Len(out) - Word /\ Word + i \in 1 .. Len(out)
        BY <1>4, <1>6, <2>1
      <3>2. out'[i] = out[Word + i] /\ out[Word + i] = Firmware[prog.address + (Word + i)]
        BY <1>3, <1>4, <3>1 DEF Continues
      <3>3. \A x, y, z \in Int : x + (y + z) = (x + y) + z
        OBVIOUS
      <3>4. prog.address + (Word + i) = prog'.address + i
        BY <1>4, <1>6, <3>1, <3>3
      <3> QED BY <3>2, <3>4
    <2>2. ASSUME NEW i \in 1 .. Len(prog'.bytes)
          PROVE  prog'.bytes[i] = Firmware[prog'.address + Len(out') + i]
      <3>1. i \in 1 .. Len(prog.bytes) /\ i \in Int
        BY <1>4, <2>2
      <3>2. prog.bytes[i] = Firmware[prog.address + Len(out) + i]
        BY <1>3, <3>1 DEF Continues
      <3>3. \A x, y, z, w \in Int : x + y + z = (x + w) + (y - w) + z
        OBVIOUS
      <3>4. prog.address + Len(out) + i = (prog.address + Word) + (Len(out) - Word) + i
        BY <1>6, <3>1, <3>3
      <3> QED BY <1>4, <3>2, <3>4
    <2> QED BY <2>1, <2>2 DEF Continues
  <1>11. AppArea' # OldApp
    <2>1. 0 \in 0 .. ADDR_STORAGE - 1
      BY <1>1
    <2>2. rom'[0] # Old
      BY <1>8, <2>1, NewAppBytes
    <2>3. AppArea'[0] = rom'[0] /\ OldApp[0] = Old
      BY <2>1 DEF AppArea, OldApp
    <2> QED BY <2>2, <2>3
  <1> QED BY <1>9, <1>10, <1>11

\* The next bytes of the image continue the firmware.
LEMMA ChunkContinues ==
  ASSUME FlashInv, ~misled, CopyChunk
  PROVE  Continues'
  <1>0. SessionInv /\ LoaderTypes /\ Words
    BY DEF FlashInv, SessionInv, Lengths
  <1> DEFINE n == Min({Buf, copy.size - copy.done})
             data == Read(ADDR_STORAGE + copy.done, n)
             all == prog.bytes \o data
  <1>1. /\ copy # NoCopy /\ ~Preparing /\ ~Writing /\ copy.done < copy.size
        /\ WriteBytes(data)
    BY DEF CopyChunk, Copying
  <1>2. copy.size \in Nat /\ copy.done \in Nat /\ Buf \in Nat
    BY <1>0, <1>1, CopyFields, Parameters
  <1>3. ImageStored /\ Continues /\ copy.size = FirmwareSize
    BY <1>1 DEF FlashInv, Flash, Honest
  <1>4. copy.size = FirmwareSize /\ prog.address = prog.written /\ Stored = copy.done
    BY <1>0, <1>1, <1>3 DEF Words
  <1>5. /\ prog.address \in Nat /\ prog.written \in Nat /\ Len(out) = 0
        /\ Len(prog.bytes) \in Nat /\ prog.bytes \in Seq(Values)
        /\ FirmwareSize \in Nat /\ ADDR_STORAGE \in Nat /\ FirmwareSize <= ADDR_STORAGE
        /\ ADDR_BOOTLOADER = ADDR_STORAGE + ADDR_STORAGE
    BY <1>0, <1>1, LengthTypes, FirmwareBytes, Regions DEF Writing
  <1>6. n \in Nat /\ copy.done + n <= FirmwareSize
    BY <1>1, <1>2, <1>4, Lesser
  <1> HIDE DEF n
  <1>7. /\ data \in Seq(Values) /\ Len(data) = n
        /\ \A i \in 1 .. n : data[i] = rom[(ADDR_STORAGE + copy.done) + i - 1]
    <2>1. ADDR_STORAGE + copy.done \in Nat /\ (ADDR_STORAGE + copy.done) + n <= ADDR_BOOTLOADER + 2 * Word
      BY <1>2, <1>5, <1>6, Parameters
    <2> QED BY <1>0, <1>6, <2>1, ReadBytes DEF LoaderTypes
  <1>8. \A i \in 1 .. n : data[i] = Firmware[copy.done + i]
    <2> TAKE i \in 1 .. n
    <2>1. copy.done + i \in 1 .. FirmwareSize
      BY <1>2, <1>5, <1>6, SMTT(30)
    <2>2. rom[ADDR_STORAGE + (copy.done + i) - 1] = Firmware[copy.done + i]
      BY <1>3, <2>1, ImageBytes
    <2>3. \A x, y, z \in Int : (x + y) + z - 1 = x + (y + z) - 1
      OBVIOUS
    <2>4. (ADDR_STORAGE + copy.done) + i - 1 = ADDR_STORAGE + (copy.done + i) - 1
      BY <1>2, <1>5, <2>3
    <2> QED BY <1>7, <2>2, <2>4
  <1> HIDE DEF data
  <1>9. /\ Len(all) = Len(prog.bytes) + n
        /\ \A i \in 1 .. Len(prog.bytes) : all[i] = prog.bytes[i]
        /\ \A i \in 1 .. n : all[Len(prog.bytes) + i] = data[i]
    <2> DEFINE kept == prog.bytes
    <2>1. kept \in Seq(Values) /\ data \in Seq(Values)
      BY <1>5, <1>7
    <2> HIDE DEF kept
    <2>2. /\ Len(kept \o data) = Len(kept) + Len(data)
          /\ \A i \in 1 .. Len(kept) : (kept \o data)[i] = kept[i]
          /\ \A i \in 1 .. Len(data) : (kept \o data)[Len(kept) + i] = data[i]
      BY <2>1, Joined
    <2> QED BY <1>7, <2>2 DEF kept
  <1>10. copy.done = prog.address + Len(prog.bytes)
    <2>1. copy.done = prog.address + 0 + Len(prog.bytes)
      BY <1>4, <1>5 DEF Stored
    <2> QED BY <1>5, <2>1
  <1>11. ASSUME NEW i \in 1 .. Len(prog.bytes) + n PROVE all[i] = Firmware[prog.address + i]
    <2>1. CASE i \in 1 .. Len(prog.bytes)
      <3>1. prog.bytes[i] = Firmware[prog.address + Len(out) + i]
        BY <1>3, <2>1 DEF Continues
      <3>2. prog.address + Len(out) + i = prog.address + i
        BY <1>5
      <3> QED BY <1>9, <2>1, <3>1, <3>2
    <2>2. CASE i \notin 1 .. Len(prog.bytes)
      <3> DEFINE j == i - Len(prog.bytes)
      <3>1. j \in 1 .. n /\ i = Len(prog.bytes) + j
        BY <1>5, <1>6, <2>2
      <3> HIDE DEF j
      <3>2. all[i] = Firmware[copy.done + j]
        BY <1>8, <1>9, <3>1
      <3>3. \A x, y, z \in Int : (x + y) + z = x + (y + z)
        OBVIOUS
      <3>4. copy.done + j = prog.address + i
        BY <1>5, <1>6, <1>10, <3>1, <3>3
      <3> QED BY <3>2, <3>4
    <2> QED BY <2>1, <2>2
  <1>12. /\ prog'.address = prog.address
         /\ Len(out') + Len(prog'.bytes) = Len(prog.bytes) + n
         /\ Len(out') \in Nat /\ Len(prog'.bytes) \in Nat
         /\ \A i \in 1 .. Len(out') : out'[i] = all[i]
         /\ \A i \in 1 .. Len(prog'.bytes) : prog'.bytes[i] = all[Len(out') + i]
    <2>1. prog \in ProgType
      BY <1>0 DEF LoaderTypes
    <2> QED BY <1>1, <1>7, <2>1, WriteBytesEffect
  <1> HIDE DEF all
  <1> DEFINE l == Len(out')
             k == Len(prog'.bytes)
             m == Len(prog.bytes)
  <1>13. l + k = m + n /\ l \in Nat /\ k \in Nat /\ m \in Nat
    BY <1>5, <1>12
  <1>14. ASSUME NEW i \in 1 .. l PROVE out'[i] = Firmware[prog.address + i]
    <2>1. i \in 1 .. m + n
      <3> HIDE DEF l, k, m
      <3> QED BY <1>6, <1>13
    <2> QED BY <1>11, <1>12, <2>1
  <1>15. ASSUME NEW i \in 1 .. k PROVE prog'.bytes[i] = Firmware[prog.address + l + i]
    <2>1. l + i \in 1 .. m + n
      <3> HIDE DEF l, k, m
      <3> QED BY <1>6, <1>13
    <2>2. prog'.bytes[i] = all[l + i]
      BY <1>12
    <2>3. all[l + i] = Firmware[prog.address + (l + i)]
      BY <1>11, <2>1
    <2>4. prog.address + (l + i) = prog.address + l + i
      <3> HIDE DEF l, k, m
      <3> QED BY <1>5, <1>13
    <2> QED BY <2>2, <2>3, <2>4
  <1> QED BY <1>12, <1>14, <1>15 DEF Continues

-----------------------------------------------------------------------------
(* The sums.                                                               *)

\* Zeros of the file and of the buffers are one coefficient; erased flash and the
\* bytes of the loader are another each.
LEMMA Coefficients ==
  /\ Value(Erased) = Erased /\ Value(Boot) = Boot
  /\ Erased # Nil /\ Boot # Nil
  /\ \A i \in 1 .. FirmwareSize : Value(Firmware[i]) \notin {Erased, Boot}
  <1>1. \A z \in Zeros : z \in Nat /\ z > 0
    BY FileAssumption, Sizes
  <1>2. Erased \notin Zeros /\ Boot \notin Zeros /\ Erased # Nil /\ Boot # Nil
    BY <1>1 DEF Erased, Boot, Nil
  <1>3. \A b : Value(b) = Nil \/ Value(b) = b
    BY DEF Value
  <1>4. \A i \in 1 .. FirmwareSize : Firmware[i] \notin {Erased, Boot}
    BY FirmwareBytes, Sizes, Parameters DEF Erased, Boot
  <1>5. \A i \in 1 .. FirmwareSize : Value(Firmware[i]) \notin {Erased, Boot}
    BY <1>2, <1>3, <1>4
  <1> QED BY <1>2, <1>5 DEF Value

\* Sums that agree have the same coefficients, counted from the end.
LEMMA SumsAgree ==
  ASSUME NEW s \in Seq(Values), NEW t \in Seq(Values), SameSum(s, t), NEW i \in 1 .. Len(s)
  PROVE  \/ Value(s[i]) = Nil
         \/ \E j \in 1 .. Len(t) : Value(s[i]) = Value(t[j])
  <1> DEFINE k == Len(s) + 1 - i
  <1>1. Len(s) \in Nat /\ Len(t) \in Nat
    OBVIOUS
  <1>2. k \in 1 .. Len(s) + Len(t) /\ k <= Len(s) /\ Len(s) + 1 - k = i
    BY <1>1
  <1> HIDE DEF k
  <1>3. FromEnd(s, k) = Value(s[i])
    BY <1>2 DEF FromEnd
  <1>4. FromEnd(s, k) = FromEnd(t, k)
    BY <1>2 DEF SameSum
  <1>5. CASE k <= Len(t)
    <2>1. Len(t) + 1 - k \in 1 .. Len(t)
      BY <1>1, <1>2, <1>5
    <2>2. FromEnd(t, k) = Value(t[Len(t) + 1 - k])
      BY <1>5 DEF FromEnd
    <2> QED BY <1>3, <1>4, <2>1, <2>2
  <1>6. CASE ~(k <= Len(t))
    <2>1. FromEnd(t, k) = Nil
      BY <1>6 DEF FromEnd
    <2> QED BY <1>3, <1>4, <2>1
  <1> QED BY <1>5, <1>6

\* The firmware is a sequence of values.
LEMMA FirmwareValues == Firmware \in Seq(Values) /\ Len(Firmware) = FirmwareSize
  <1>1. /\ FirmwareSize \in Nat /\ FileSize \in Nat /\ Word \in Nat
        /\ FileSize = 2 * Word + FirmwareSize
    BY Parameters, Sizes DEF FileSize
  <1>2. \A i \in 1 .. FirmwareSize : 2 * Word + i \in Values
    BY <1>1 DEF Values, Nil
  <1>3. Firmware \in [1 .. FirmwareSize -> Values]
    BY <1>2 DEF Firmware
  <1> QED BY <1>1, <1>3, Listed

\* Where the checksum agrees there is neither erased flash nor a byte of the loader.
LEMMA AgreedBytes ==
  ASSUME LoaderTypes, NEW a \in Nat, NEW n \in Nat, a + n <= ADDR_BOOTLOADER + 2 * Word,
         Agrees(a, n), NEW i \in 1 .. n
  PROVE  rom[a + i - 1] \notin {Erased, Boot}
  <1> DEFINE s == Read(a, n)
  <1>1. s \in Seq(Values) /\ Len(s) = n /\ s[i] = rom[a + i - 1]
    BY ReadBytes DEF LoaderTypes
  <1>2. SameSum(s, Firmware) \/ SameSum(s, <<>>)
    BY DEF Agrees
  <1>3. <<>> \in Seq(Values) /\ Len(<<>>) = 0
    BY Empty, ConstantTypes
  <1> HIDE DEF s
  <1>4. \/ Value(s[i]) = Nil
        \/ \E j \in 1 .. FirmwareSize : Value(s[i]) = Value(Firmware[j])
    <2>1. CASE SameSum(s, Firmware)
      BY <1>1, <2>1, FirmwareValues, SumsAgree
    <2>2. CASE SameSum(s, <<>>)
      <3>1. PICK t \in Seq(Values) : t = <<>>
        BY <1>3
      <3>2. SameSum(s, t) /\ Len(t) = 0
        BY <1>3, <2>2, <3>1
      <3>3. \/ Value(s[i]) = Nil
            \/ \E j \in 1 .. Len(t) : Value(s[i]) = Value(t[j])
        BY <1>1, <3>2, SumsAgree
      <3> QED BY <3>2, <3>3
    <2> QED BY <1>2, <2>1, <2>2
  <1>5. Value(s[i]) \notin {Erased, Boot}
    BY <1>4, Coefficients
  <1>6. s[i] \notin {Erased, Boot}
    BY <1>5, Coefficients
  <1> QED BY <1>1, <1>6

\* A copy whose checksum agrees ends before the loader begins.
LEMMA CopyFits ==
  ASSUME SessionInv, LoaderIntact, VerifyStored
  PROVE  prog.written <= ADDR_STORAGE
  <1>1. LoaderTypes /\ Words /\ prog.written \in Nat
    BY LengthTypes DEF SessionInv, Lengths
  <1>2. /\ ADDR_STORAGE \in Nat /\ ADDR_BOOTLOADER = ADDR_STORAGE + ADDR_STORAGE
        /\ ADDR_BOOTLOADER \in ROM /\ ADDR_BOOTLOADER \in Nat /\ 2 * Word \in Nat
    BY Regions, Parameters
  <1>3. ADDR_STORAGE + prog.written <= ADDR_BOOTLOADER + 2 * Word
    BY <1>1, <1>2 DEF Words, Limit
  <1>4. Agrees(ADDR_STORAGE, prog.written)
    BY DEF VerifyStored
  <1>5. ASSUME ~(prog.written <= ADDR_STORAGE) PROVE FALSE
    <2>1. ADDR_STORAGE + 1 \in 1 .. prog.written
          /\ ADDR_STORAGE + (ADDR_STORAGE + 1) - 1 = ADDR_BOOTLOADER
      BY <1>1, <1>2, <1>5
    <2>2. rom[ADDR_STORAGE + (ADDR_STORAGE + 1) - 1] \notin {Erased, Boot}
      BY <1>1, <1>2, <1>3, <1>4, <2>1, AgreedBytes
    <2>3. rom[ADDR_BOOTLOADER] = Boot
      BY <1>2 DEF LoaderIntact
    <2> QED BY <2>1, <2>2, <2>3
  <1> QED BY <1>1, <1>2, <1>5

-----------------------------------------------------------------------------
(* The invariant.                                                          *)

\* The flash and the copy are left alone.
QuietFlash ==
    /\ UNCHANGED <<rom, mode, copy, misled>>
    /\ copy # NoCopy => UNCHANGED <<page, prog, out>>

\* The steps that touch the flash or the copy.
LEMMA FlashSteps ==
  ASSUME SessionInv, [Next]_vars
  PROVE  \/ QuietFlash
         \/ VerifyStored \/ CopyChunk \/ VerifyCopy \/ PrepareStep \/ WordStep
         \/ RunApplication \/ Crash \/ RunBootloader
  <1>1. CASE Update
    <2>1. UNCHANGED <<rom, mode, copy, misled>>
      BY <1>1 DEF Update, Unsolicited, Timeout, Reset, SessionUpdate, GetVersion, GetCRC,
                  GetLastBytes, TestRequested, SimUpdate, SetupUpdate, Connected, NoFile, progVars
    <2>2. copy = NoCopy
      BY <1>1 DEF Update, Unsolicited, Timeout, SessionUpdate, GetVersion, GetCRC,
                  GetLastBytes, TestRequested, SimUpdate, SetupUpdate, Connected, NoFile, AtUpdate
    <2> QED BY <2>1, <2>2 DEF QuietFlash
  <1>2. CASE \/ GetBytes \/ MeterReset \/ SetState \/ RequestStep \/ TransmitStep
             \/ (\E i \in 1 .. 5 : ClearStep(ReceiveBytes[i]))
             \/ ClearEOF \/ CloseStep \/ Mismatch
    <2>1. UNCHANGED <<rom, mode, copy, misled>>
      BY <1>2 DEF GetBytes, MeterReset, SetState, RequestStep, TransmitStep, ClearStep,
                  ClearEOF, CloseStep, Mismatch, Reset, progVars
    <2>2. todo # <<>>
      BY <1>2 DEF GetBytes, MeterReset, SetState, RequestStep, TransmitStep, ClearStep,
                  ClearEOF, CloseStep, Mismatch, Statement
    <2>3. copy = NoCopy
      BY <2>2 DEF SessionInv, Control
    <2> QED BY <2>1, <2>3 DEF QuietFlash
  <1>3. CASE Interrupt \/ Tick \/ ChipStep \/ UNCHANGED vars
    BY <1>3 DEF Interrupt, Tick, ChipStep, vars, progVars, mainVars, QuietFlash
  <1> QED BY <1>1, <1>2, <1>3 DEF Next, Main, Statements

\* The device begins with the old application and nothing stored.
LEMMA InitFlash == Init => Flash /\ Installed = "old" /\ ~ImageStored
  <1> SUFFICES ASSUME Init PROVE Flash /\ Installed = "old" /\ ~ImageStored
    OBVIOUS
  <1>1. /\ rom = [a \in ROM |-> IF a < ADDR_STORAGE THEN Old
                                ELSE IF a < ADDR_BOOTLOADER THEN Erased ELSE Boot]
        /\ mode = "loader" /\ copy = NoCopy /\ misled = FALSE
    BY DEF Init, ProgInit, LoaderInit
  <1>2. /\ ADDR_STORAGE \in Nat \ {0} /\ ADDR_BOOTLOADER = ADDR_STORAGE + ADDR_STORAGE
        /\ \A a \in ROM : a \in Nat
        /\ \A a \in 0 .. ADDR_BOOTLOADER : a \in ROM
    BY Regions
  <1>3. LoaderIntact
    <2>1. ASSUME NEW a \in ROM, a >= ADDR_BOOTLOADER PROVE rom[a] = Boot
      <3>1. ~(a < ADDR_STORAGE) /\ ~(a < ADDR_BOOTLOADER)
        BY <1>2, <2>1
      <3> QED BY <1>1, <3>1
    <2> QED BY <2>1 DEF LoaderIntact
  <1>4. AppArea = OldApp
    <2>1. \A a \in 0 .. ADDR_STORAGE - 1 : a \in ROM /\ a < ADDR_STORAGE
      BY <1>2
    <2>2. \A a \in 0 .. ADDR_STORAGE - 1 : rom[a] = Old
      BY <1>1, <2>1
    <2> QED BY <2>2 DEF AppArea, OldApp
  <1>5. ~ImageStored
    <2>1. 1 \in 1 .. FirmwareSize /\ ADDR_STORAGE + 1 - 1 = ADDR_STORAGE
      BY <1>2, FirmwareBytes
    <2>2. ADDR_STORAGE \in ROM /\ ~(ADDR_STORAGE < ADDR_STORAGE) /\ ADDR_STORAGE < ADDR_BOOTLOADER
      BY <1>2
    <2>3. rom[ADDR_STORAGE] = Erased
      BY <1>1, <2>2
    <2>4. Firmware[1] # Erased
      BY <2>1, FirmwareBytes DEF Erased
    <2>5. ImageStored => rom[ADDR_STORAGE] = Firmware[1]
      BY <2>1, ImageBytes
    <2> QED BY <2>3, <2>4, <2>5
  <1>6. Bootable /\ Installed = "old"
    BY <1>4 DEF Bootable, Installed
  <1> QED BY <1>1, <1>3, <1>5, <1>6 DEF Flash, Honest

\* Every step keeps the shape of the flash, a reset between any two included.
LEMMA NextFlash ==
  ASSUME FlashInv, [Next]_vars
  PROVE  Flash'
  <1>0. SessionInv /\ Flash /\ LoaderTypes /\ Control /\ Words
    BY DEF FlashInv, SessionInv, Lengths
  <1>1. ASSUME UNCHANGED rom
        PROVE  /\ LoaderIntact' /\ (Bootable' <=> Bootable) /\ (ImageStored' <=> ImageStored)
               /\ AppArea' = AppArea
    <2>1. LoaderIntact'
      BY <1>0, <1>1 DEF Flash, LoaderIntact
    <2> QED BY <1>1, <2>1, SameApp, SameImage
  <1>2. mode # "loader" => copy = NoCopy
    BY <1>0 DEF Control
  <1>3. CASE QuietFlash
    <2>1. UNCHANGED <<rom, mode, copy, misled>>
      BY <1>3 DEF QuietFlash
    <2>2. CASE copy = NoCopy
      BY <1>0, <1>1, <2>1, <2>2 DEF Flash, Honest
    <2>3. CASE copy # NoCopy
      <3>1. UNCHANGED <<page, prog, out>>
        BY <1>3, <2>3 DEF QuietFlash
      <3>2. Preparing' = Preparing /\ Visited' = Visited
        BY <3>1 DEF Preparing, Visited
      <3>3. AppShape' <=> AppShape
        BY <2>1, <3>2 DEF AppShape
      <3>4. Continues' <=> Continues
        BY <3>1 DEF Continues
      <3> QED BY <1>0, <1>1, <2>1, <2>3, <3>2, <3>3, <3>4 DEF Flash, Honest
    <2> QED BY <2>2, <2>3
  <1>4. CASE VerifyStored
    <2>1. /\ todo # <<>> /\ mode = "loader" /\ Agrees(ADDR_STORAGE, prog.written)
          /\ Prepare(ADDR_APPLICATION) /\ copy' = [size |-> prog.written, done |-> 0]
          /\ misled' = (misled \/ Read(ADDR_STORAGE, prog.written) # Firmware)
          /\ UNCHANGED <<rom, mode>>
      BY <1>4 DEF VerifyStored, Statement
    <2>2. copy = NoCopy
      BY <1>0, <2>1 DEF Control
    <2>3. /\ copy' # NoCopy /\ copy'.size = prog.written /\ copy'.size <= ADDR_STORAGE
          /\ LoaderIntact' /\ misled' \in BOOLEAN
      BY <1>0, <1>1, <1>4, <2>1, CopyBegins, CopyFits DEF Flash
    <2> SUFFICES ASSUME ~misled' PROVE Honest'
      BY <2>1, <2>3 DEF Flash
    <2>4. Read(ADDR_STORAGE, prog.written) = Firmware /\ Honest
      BY <1>0, <2>1 DEF Flash
    <2>9. prog.written = FirmwareSize
      <3>1. 1 .. prog.written = 1 .. FirmwareSize
        BY <2>4 DEF Read, Firmware
      <3> QED BY <1>0, <3>1, FirmwareBytes, LengthTypes
    <2>5. ImageStored' /\ Bootable
      BY <1>1, <2>1, <2>2, <2>4, <2>9 DEF ImageStored, Honest
    <2>6. Preparing' /\ Visited' = 0
      <3>1. NumPages \in Nat \ {0} /\ Page \in Nat \ {0}
        BY Parameters
      <3>2. page' = [start |-> 0, left |-> NumPages]
        BY <2>1 DEF Prepare, ADDR_APPLICATION
      <3>3. page'.start = 0 /\ page'.left = NumPages
        BY <3>2
      <3>4. 0 \div Page = 0
        <4>1. 0 * Page <= 0 /\ 0 < (0 + 1) * Page
          BY <3>1
        <4> QED BY <4>1, PageBounds
      <3>5. Visited' = 0 \div Page + (NumPages - NumPages)
        BY <3>3 DEF Visited
      <3> QED BY <3>1, <3>3, <3>4, <3>5 DEF Preparing
    <2>7. ASSUME NEW a \in 0 .. ADDR_STORAGE - 1
          PROVE  \/ rom'[a] \in {Erased, NewApp[a]}
                 \/ /\ Preparing' /\ a \div Page >= Visited'
                    /\ \A b \in ROM : b \div Page = a \div Page => rom'[b] = Old
      <3>1. /\ a \div Page \in 0 .. NumPages - 1
            /\ \A b \in ROM : b \div Page = a \div Page => b \in 0 .. ADDR_STORAGE - 1
        BY AppPages
      <3>2. CASE AppArea = OldApp
        <4>1. \A b \in 0 .. ADDR_STORAGE - 1 : AppArea[b] = rom[b] /\ OldApp[b] = Old
          BY DEF AppArea, OldApp
        <4>2. \A b \in 0 .. ADDR_STORAGE - 1 : rom[b] = Old
          BY <3>2, <4>1
        <4>3. \A b \in ROM : b \div Page = a \div Page => rom'[b] = Old
          BY <2>1, <3>1, <4>2
        <4>4. a \div Page >= 0
          BY <3>1
        <4> QED BY <2>6, <4>3, <4>4
      <3>3. CASE AppArea = NewApp
        <4>1. AppArea[a] = rom[a]
          BY DEF AppArea
        <4> QED BY <2>1, <3>3, <4>1
      <3> QED BY <2>5, <3>2, <3>3 DEF Bootable
    <2>8. AppShape'
      BY <2>7 DEF AppShape
    <2> QED BY <2>1, <2>3, <2>5, <2>6, <2>8, <2>9 DEF Honest
  <1>5. CASE CopyChunk
    <2>1. /\ mode = "loader" /\ copy # NoCopy /\ ~Preparing
          /\ UNCHANGED <<rom, page, mode, misled>>
      BY <1>5 DEF CopyChunk, Copying
    <2>2. Preparing' = Preparing /\ Visited' = Visited
      BY <2>1 DEF Preparing, Visited
    <2>3. copy' # NoCopy /\ copy'.size = copy.size
      <3> DEFINE n == Min({Buf, copy.size - copy.done})
      <3>1. copy' = [copy EXCEPT !.done = @ + n]
        BY <1>5 DEF CopyChunk
      <3>2. copy \in [size : Nat, done : Nat]
        BY <1>0, <2>1, CopyFields
      <3> HIDE DEF n
      <3>3. copy'.size = copy.size /\ NoCopy.size = -1
        BY <3>1, <3>2 DEF NoCopy
      <3> QED BY <3>2, <3>3
    <2>4. LoaderIntact' /\ misled' \in BOOLEAN /\ copy'.size <= ADDR_STORAGE
      BY <1>0, <1>1, <2>1, <2>3 DEF Flash
    <2> SUFFICES ASSUME ~misled PROVE Honest'
      BY <2>1, <2>4 DEF Flash
    <2>5. Honest
      BY <1>0 DEF Flash
    <2>6. AppShape'
      <3>1. AppShape
        BY <2>1, <2>5 DEF Honest
      <3> QED BY <2>1, <2>2, <3>1 DEF AppShape
    <2> QED BY <1>1, <1>5, <2>1, <2>3, <2>5, <2>6, ChunkContinues DEF Honest
  <1>6. CASE VerifyCopy
    <2>1. /\ mode = "loader" /\ copy # NoCopy /\ copy.done = copy.size
          /\ ~Preparing /\ ~Writing /\ UNCHANGED <<rom, mode, misled>>
      BY <1>6 DEF VerifyCopy, Copying
    <2>2. \/ Agrees(ADDR_APPLICATION, copy.size) /\ copy' = NoCopy
          \/ /\ Prepare(ADDR_APPLICATION) /\ copy' = [size |-> prog.written, done |-> 0]
             /\ copy' # NoCopy /\ copy'.size = copy.size
      <3>1. prog.written = copy.size
        BY <1>0, <2>1, CopyIsWhole
      <3> QED BY <1>0, <1>6, <3>1, CopyBegins DEF VerifyCopy
    <2>7. LoaderIntact' /\ misled' \in BOOLEAN /\ (copy' # NoCopy => copy'.size <= ADDR_STORAGE)
      BY <1>0, <1>1, <2>1, <2>2 DEF Flash
    <2> SUFFICES ASSUME ~misled PROVE Honest'
      BY <2>1, <2>7 DEF Flash
    <2>8. Honest
      BY <1>0 DEF Flash
    <2>3. ImageStored /\ AppShape /\ copy.size = FirmwareSize
      BY <2>1, <2>8 DEF Honest
    <2>4. \A a \in 0 .. ADDR_STORAGE - 1 : rom[a] \in {Erased, NewApp[a]}
      BY <2>1, <2>3 DEF AppShape
    <2>5. CASE Agrees(ADDR_APPLICATION, copy.size) /\ copy' = NoCopy
      <3>1. ASSUME NEW a \in 0 .. ADDR_STORAGE - 1 PROVE rom[a] = NewApp[a]
        <4>1. CASE a < FirmwareSize
          <5>1. a + 1 \in 1 .. FirmwareSize /\ 0 + (a + 1) - 1 = a
            BY <4>1, NewAppBytes
          <5>2. 0 + FirmwareSize <= ADDR_BOOTLOADER + 2 * Word /\ 0 \in Nat /\ FirmwareSize \in Nat
            BY FirmwareBytes, Regions, Parameters
          <5>3. Agrees(0, FirmwareSize)
            BY <2>3, <2>5 DEF ADDR_APPLICATION
          <5>4. rom[0 + (a + 1) - 1] \notin {Erased, Boot}
            BY <1>0, <5>1, <5>2, <5>3, AgreedBytes
          <5>5. rom[a] # Erased
            BY <5>1, <5>4
          <5> QED BY <2>4, <5>5
        <4>2. CASE a >= FirmwareSize
          BY <2>4, <4>2, NewAppBytes
        <4> QED BY <4>1, <4>2, FirmwareBytes
      <3>2. Bootable
        BY <3>1, WholeApp
      <3> QED BY <1>1, <2>1, <2>5, <3>2 DEF Honest
    <2>6. CASE /\ Prepare(ADDR_APPLICATION) /\ copy' # NoCopy
               /\ copy'.size = copy.size
      <3>1. Preparing'
        BY <2>6, Parameters DEF Prepare, Preparing
      <3>2. AppShape'
        BY <2>1, <2>4 DEF AppShape
      <3> QED BY <1>1, <2>1, <2>3, <2>6, <3>1, <3>2 DEF Honest
    <2> QED BY <2>2, <2>5, <2>6
  <1>7. CASE PrepareStep \/ WordStep
    <2>1. mode = "loader" /\ UNCHANGED <<mode, copy, misled>>
      BY <1>7 DEF PrepareStep, WordStep, mainVars
    <2>2. CASE copy = NoCopy
      <3>1. (\A a \in 0 .. ADDR_STORAGE - 1 : rom'[a] = rom[a]) /\ LoaderIntact'
        BY <1>7, <2>2, StorageStep
      <3>2. misled \/ Bootable
        BY <1>0, <2>1, <2>2 DEF Flash, Honest
      <3> QED BY <1>0, <2>1, <2>2, <3>1, <3>2, SameApp DEF Flash, Honest
    <2>3. CASE copy # NoCopy
      <3>1. LoaderIntact' /\ (ImageStored' <=> ImageStored)
        BY <1>7, <2>3, CopyKeepsImage
      <3>2. ~misled => AppShape' /\ (~Preparing' => Continues')
        BY <1>7, <2>3, PrepareShape, WordShape
      <3> QED BY <1>0, <2>1, <2>3, <3>1, <3>2 DEF Flash, Honest
    <2> QED BY <2>2, <2>3
  <1>8. CASE RunApplication \/ Crash \/ RunBootloader
    <2>1. copy' = NoCopy /\ UNCHANGED rom /\ misled' = (misled /\ ~Bootable)
      BY <1>8 DEF RunApplication, Crash, RunBootloader, Restarted
    <2>2. \/ mode = "loader" /\ mode' = IF Bootable THEN "application" ELSE "stone"
          \/ mode = "application" /\ mode' = "loader"
      BY <1>8 DEF RunApplication, AtUpdate, Crash, RunBootloader
    <2>3. mode = "application" => Bootable
      BY <1>0 DEF Flash
    <2>4. ~misled /\ ~Bootable /\ mode = "loader" => ImageStored
      BY <1>0 DEF Flash, Honest
    <2> QED BY <1>0, <1>1, <2>1, <2>2, <2>3, <2>4 DEF Flash, Honest
  <1> QED BY <1>0, <1>3, <1>4, <1>5, <1>6, <1>7, <1>8, FlashSteps

\* The inductive invariant of the flash.
LEMMA FlashInvHolds == Spec => []FlashInv
  <1>1. Init => FlashInv
    BY InitTypes, InitControl, InitOneRequest, InitLengths, InitFlash DEF FlashInv, SessionInv
  <1>2. FlashInv /\ [Next]_vars => FlashInv'
    <2> SUFFICES ASSUME FlashInv, [Next]_vars PROVE FlashInv'
      OBVIOUS
    <2>1. SessionInv'
      BY NextTypes, NextControl, NextOneRequest, NextWords, NextAccount
         DEF FlashInv, SessionInv, Lengths
    <2> QED BY <2>1, NextFlash DEF FlashInv
  <1> QED BY <1>1, <1>2, PTL DEF Spec

-----------------------------------------------------------------------------
(* The theorems.                                                           *)

\* The loader never erases or overwrites itself, whatever it is given to write:
\* Prepare visits the pages of one region only, and a word that reaches past the
\* storage is not erased and therefore not programmed.
THEOREM LoaderStaysIntact == Spec => []LoaderIntact
  <1>1. FlashInv => LoaderIntact
    BY DEF FlashInv, Flash
  <1> QED BY <1>1, FlashInvHolds, PTL

\* Whenever the region the processor starts from is incomplete, after a failing
\* word or a reset at any step, the storage holds the image, unless equal sums of
\* zeros misled the loader.
THEOREM DamagedAppRecovers == Spec => []DamagedAppHasImage
  <1>1. FlashInv => DamagedAppHasImage
    BY DEF FlashInv, Flash, Honest, DamagedAppHasImage
  <1> QED BY <1>1, FlashInvHolds, PTL

\* Application::Run is reached only with a complete application, with the same
\* exception.
THEOREM CompletedWhole == Spec => []CompletedIsWhole
  <1>1. FlashInv => CompletedIsWhole
    <2> SUFFICES ASSUME FlashInv, ~misled, upd = "COMPLETED" PROVE Bootable
      BY DEF CompletedIsWhole
    <2>1. mode = "loader" /\ copy = NoCopy
      BY DEF FlashInv, SessionInv, Control
    <2> QED BY <2>1 DEF FlashInv, Flash, Honest
  <1> QED BY <1>1, FlashInvHolds, PTL

\* A complete application is the old or the new one.
LEMMA InstalledValues ==
  /\ Bootable <=> Installed # "damaged"
  /\ AppArea # OldApp => Installed \in {"damaged", "new"}
  BY DEF Bootable, Installed

\* The application and the image are left alone.
LEMMA UpdateStutters ==
  ASSUME Installed' = Installed, ImageStored' <=> ImageStored, mode' = mode, misled' = misled
  PROVE  UNCHANGED Abstract!updateVars
  <1>1. ImageStored' = ImageStored
    BY DEF ImageStored
  <1> QED BY <1>1 DEF Abstract!updateVars

\* The loader implements the specification of an update, for every size of the
\* flash, the file and the buffer: the application changes only while the image
\* is stored or equal sums of zeros have misled the loader, the image only while
\* the application is complete or the loader was misled before, and no step
\* changes both.
THEOREM ImplementsFirmwareUpdate == Spec => ImplementsUpdate
  <1>1. Init => Abstract!Init
    <2> SUFFICES ASSUME Init PROVE Abstract!Init
      OBVIOUS
    <2>1. Installed = "old" /\ ~ImageStored /\ mode = "loader" /\ misled = FALSE
      BY InitFlash DEF Init
    <2> QED BY <2>1 DEF Abstract!Init
  <1>2. FlashInv /\ [Next]_vars => [Abstract!Next]_Abstract!updateVars
    <2> SUFFICES ASSUME FlashInv, [Next]_vars
                 PROVE  [Abstract!Next]_Abstract!updateVars
      OBVIOUS
    <2>0. SessionInv /\ Flash /\ Control
      BY DEF FlashInv, SessionInv
    <2>1. ASSUME UNCHANGED <<rom, mode, misled>> PROVE UNCHANGED Abstract!updateVars
      BY <2>1, SameApp, SameImage, UpdateStutters
    <2>2. CASE QuietFlash \/ CopyChunk \/ VerifyCopy
      BY <2>1, <2>2 DEF QuietFlash, CopyChunk, VerifyCopy
    <2>3. CASE VerifyStored
      <3>1. /\ mode = "loader" /\ todo # <<>> /\ UNCHANGED <<rom, mode>>
            /\ misled' = (misled \/ Read(ADDR_STORAGE, prog.written) # Firmware)
        BY <2>3 DEF VerifyStored, Statement
      <3>2. CASE misled' = misled
        BY <2>1, <3>1, <3>2
      <3>3. CASE misled' # misled
        <4>1. misled' = TRUE /\ ~misled
          BY <2>0, <3>1, <3>3 DEF Flash
        <4>2. copy = NoCopy
          BY <2>0, <3>1 DEF Control
        <4>3. Installed # "damaged"
          BY <2>0, <3>1, <4>1, <4>2, InstalledValues DEF Flash, Honest
        <4>4. Installed' = Installed /\ (ImageStored' <=> ImageStored)
          BY <3>1, SameApp, SameImage
        <4>5. ImageStored' = ImageStored
          BY <4>4 DEF ImageStored
        <4>6. Abstract!Mislead
          BY <3>1, <4>1, <4>3, <4>4, <4>5 DEF Abstract!Mislead
        <4> QED BY <4>6 DEF Abstract!Next
      <3> QED BY <3>2, <3>3
    <2>4. CASE PrepareStep \/ WordStep
      <3>1. mode = "loader" /\ UNCHANGED <<mode, misled>> /\ misled \in BOOLEAN
        BY <2>0, <2>4 DEF PrepareStep, WordStep, mainVars, Flash
      <3>2. CASE copy = NoCopy
        <4>1. Installed' = Installed
          BY <2>4, <3>2, StorageStep, SameApp
        <4>2. Installed # "damaged" \/ misled
          BY <2>0, <3>1, <3>2, InstalledValues DEF Flash, Honest
        <4>3. CASE ImageStored' <=> ImageStored
          BY <3>1, <4>1, <4>3, UpdateStutters
        <4>4. CASE ~(ImageStored' <=> ImageStored)
          <5>1. ImageStored \in BOOLEAN /\ ImageStored' \in BOOLEAN
            BY DEF ImageStored
          <5>2. ImageStored' = ~ImageStored
            BY <4>4, <5>1
          <5>3. Abstract!ChangeImage
            BY <3>1, <4>1, <4>2, <5>2 DEF Abstract!ChangeImage
          <5> QED BY <5>3 DEF Abstract!Next
        <4> QED BY <4>3, <4>4
      <3>3. CASE copy # NoCopy
        <4>1. ImageStored' = ImageStored
          <5>1. ImageStored' <=> ImageStored
            BY <2>4, <3>3, CopyKeepsImage
          <5> QED BY <5>1 DEF ImageStored
        <4>2. Installed' \in {"old", "damaged", "new"}
          BY DEF Installed
        <4>3. CASE misled
          BY <3>1, <4>1, <4>2, <4>3 DEF Abstract!Next, Abstract!ChangeApp
        <4>4. CASE ~misled
          <5>1. ImageStored
            BY <2>0, <3>3, <4>4 DEF Flash, Honest
          <5>2. rom' = rom \/ AppArea' # OldApp
            BY <2>4, <3>3, <4>4, PrepareShape, WordShape
          <5>3. CASE rom' = rom
            BY <2>1, <3>1, <5>3
          <5>4. CASE AppArea' # OldApp
            <6>1. Installed' \in {"damaged", "new"}
              BY <5>4 DEF Installed
            <6> QED BY <3>1, <4>1, <5>1, <6>1 DEF Abstract!Next, Abstract!ChangeApp
          <5> QED BY <5>2, <5>3, <5>4
        <4> QED BY <3>1, <4>3, <4>4
      <3> QED BY <3>2, <3>3
    <2>5. CASE RunApplication \/ Crash \/ RunBootloader
      <3>1. UNCHANGED rom /\ misled' = (misled /\ ~Bootable) /\ misled \in BOOLEAN
        BY <2>0, <2>5 DEF RunApplication, Crash, RunBootloader, Restarted, Flash
      <3>2. Installed' = Installed /\ ImageStored' = ImageStored
        <4>1. Installed' = Installed /\ (ImageStored' <=> ImageStored)
          BY <3>1, SameApp, SameImage
        <4> QED BY <4>1 DEF ImageStored
      <3>3. CASE RunApplication \/ Crash
        <4>1. mode = "loader" /\ mode' = IF Bootable THEN "application" ELSE "stone"
          BY <3>3 DEF RunApplication, AtUpdate, Crash
        <4>2. CASE Bootable
          <5>1. misled' = FALSE /\ Installed # "damaged" /\ mode' = "application"
            BY <3>1, <4>1, <4>2, InstalledValues
          <5> QED BY <3>2, <4>1, <5>1 DEF Abstract!Next, Abstract!StartApp
        <4>3. CASE ~Bootable
          <5>1. misled' = misled /\ Installed = "damaged" /\ mode' = "stone"
            BY <3>1, <4>1, <4>3, InstalledValues
          <5> QED BY <3>2, <4>1, <5>1 DEF Abstract!Next, Abstract!StartDamaged
        <4> QED BY <4>2, <4>3
      <3>4. CASE RunBootloader
        <4>1. mode = "application" /\ mode' = "loader"
          BY <3>4 DEF RunBootloader
        <4>2. misled' = misled
          BY <2>0, <3>1, <4>1 DEF Flash
        <4> QED BY <3>2, <4>1, <4>2 DEF Abstract!Next, Abstract!StartLoader
      <3> QED BY <2>5, <3>3, <3>4
    <2> QED BY <2>0, <2>2, <2>3, <2>4, <2>5, FlashSteps
  <1> QED BY <1>1, <1>2, FlashInvHolds, PTL DEF Spec, ImplementsUpdate, Abstract!Spec
=============================================================================
