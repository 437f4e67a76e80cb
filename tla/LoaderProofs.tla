---------------------------- MODULE LoaderProofs ----------------------------
(***************************************************************************)
(* The loader's session, for every size of the flash, the file and the     *)
(* buffer: where the main loop is, how many requests are outstanding, and  *)
(* how many bytes have gone where.  What the flash holds is proved about   *)
(* in LoaderRefinement.                                                    *)
(***************************************************************************)
EXTENDS Loader, TLAPS

\* Values of a byte of the flash, and what the chip sends.
Values == Nil .. FileSize

Texts == {"", "2", "OK", "ERROR", "1,1", "1,0", "1,6x"}

Pieces == {p \in [kind : {"head", "tail", "lf", "data"}, text : Texts, n : 0 .. FileSize] :
             p.text = "2" => p.n <= Buf}

\* The statements of the session.
Names == {"state_meter", "SetState", "pointer_command", "received_command",
          "pointer_data", "need_bytes", "requested", "request", "transmit",
          "received_FTPGET_1_0", "requested_bytes_received", "CloseSession", "Verify"}

\* The place of a statement in the order in which the main loop executes them.
\* 9 and 11 are left free: nothing follows the statements before them.
Place(statement) ==
    CASE statement = "state_meter"              -> 0
      [] statement = "SetState"                 -> 0
      [] statement = "pointer_command"          -> 1
      [] statement = "received_command"         -> 2
      [] statement = "pointer_data"             -> 3
      [] statement = "need_bytes"               -> 4
      [] statement = "requested"                -> 5
      [] statement = "request"                  -> 6
      [] statement = "transmit"                 -> 7
      [] statement = "received_FTPGET_1_0"      -> 8
      [] statement = "requested_bytes_received" -> 10
      [] statement = "CloseSession"             -> 12
      [] statement = "Verify"                   -> 13
      [] OTHER                                  -> 9

Idle == 14

\* The place of the next statement.
StageOf(t) == IF t = <<>> THEN Idle ELSE Place(t[1])
Stage == StageOf(todo)

\* A list of statements in their order, none of them skipped.
Ordered(t) ==
    /\ t \in Seq(Names)
    /\ \A i \in 1 .. Len(t) : Place(t[i]) = Place(t[1]) + i - 1 /\ Place(t[i]) # 9
    /\ t # <<>> => Place(t[Len(t)]) \in {7, 8, 10, 13}

IsMultiple(n) == \E k \in Nat : n = k * Word

ReaderType ==
    [received_command : BOOLEAN, need : {0, Word, Buf}, from : 0 .. Buf,
     cmd : {"empty", "begun", "whole", "torn", "ended"},
     pointer : 0 .. Buf, buffer : [1 .. Buf -> Values],
     requested : BOOLEAN, eof : BOOLEAN]

FtpType == [open : BOOLEAN, pos : 0 .. FileSize, ask : 0 .. Buf, owes : BOOLEAN]

ProgType == [address : Nat, written : Nat, bytes : Seq(Values)]

LoaderTypes ==
    /\ rom \in [ROM -> Values]
    /\ page \in [start : {ADDR_APPLICATION, ADDR_STORAGE}, left : 0 .. NumPages]
    /\ prog \in ProgType
    /\ out \in Seq(Values)
    /\ faults \in 0 .. MaxFaults
    /\ reader \in ReaderType
    /\ wire \in Seq(Pieces)
    /\ ftp \in FtpType
    /\ clean \in BOOLEAN
    /\ mode \in {"loader", "application", "stone"}
    /\ sim \in SimStates /\ upd \in UpdStates
    /\ late \in BOOLEAN
    /\ sessions \in 0 .. MaxSessions
    /\ copy \in [size : Nat, done : Nat] \cup {NoCopy}

\* Where the main loop is.
Control ==
    /\ Ordered(todo)
    /\ upd # "IDLE" => sim = "RUNNING_UPDATER" /\ mode = "loader"
    /\ todo # <<>> => upd \in Receiving
    /\ todo # <<>> /\ todo[1] = "SetState" => upd = "GET_BYTES_CRC"
    /\ Stage \in 10 .. 13 => upd = "GET_BYTES_FIRMWARE"
    /\ Preparing =>
         IF copy = NoCopy
         THEN page.start = ADDR_STORAGE /\ todo # <<>> /\ todo[1] = "SetState"
         ELSE page.start = ADDR_APPLICATION /\ copy.done = 0
    /\ Writing => upd = "GET_BYTES_FIRMWARE" /\ ~Preparing
    /\ copy # NoCopy => upd = "GET_BYTES_FIRMWARE" /\ todo = <<>>

\* An answer that makes the reader take data or ask again.
Counts(piece) ==
    piece.kind = "lf" /\ (piece.text = "1,1" \/ (piece.text = "2" /\ piece.n > 0))

Answered == \E i \in 1 .. Len(wire) : Counts(wire[i])
Outstanding == ftp.ask > 0 \/ ftp.owes \/ Answered

OneRequest ==
    /\ upd \notin Receiving \cup {"COMPLETED"} => wire = <<>> /\ ftp = NoSession
    /\ ftp.ask > 0 => ~ftp.owes /\ ~Answered
    /\ ftp.owes => ~Answered
    /\ \A i, j \in 1 .. Len(wire) : Counts(wire[i]) /\ Counts(wire[j]) => i = j
    /\ Outstanding => /\ Stage > 7 /\ reader.pointer = 0
                      /\ ~reader.received_command /\ ~reader.requested
    /\ Stage \in 3 .. 7 => ~reader.received_command
    /\ Stage \in 4 .. 7 => reader.pointer = 0
    /\ Stage \in 6 .. 7 => ~reader.requested
    /\ DataCanEnd

\* Bytes given to the Programmer in this session, and bytes the reader holds or
\* has been promised that are still to be given.
Stored == prog.written + Len(out) + Len(prog.bytes)
GivenBytes == IF upd = "GET_BYTES_FIRMWARE" THEN Stored ELSE 0
Held ==
    IF Stage \in 0 .. 3 \cup {12} THEN 0
    ELSE IF reader.received_command THEN reader.from ELSE reader.pointer

Limit == ADDR_STORAGE + 2 * Word

\* What Programmer keeps and Write has still to program, and where.
Words ==
    /\ IsMultiple(prog.written) /\ IsMultiple(Len(out))
    /\ Len(prog.bytes) < Word /\ Len(out) <= Buf + Word
    /\ prog.written <= Limit /\ prog.address <= ADDR_STORAGE + Limit
    /\ todo # <<>> /\ todo[1] = "SetState" /\ ~Preparing =>
         prog = [address |-> ADDR_STORAGE, written |-> 0, bytes |-> <<>>]
    /\ upd = "GET_BYTES_FIRMWARE" /\ copy = NoCopy => prog.address = ADDR_STORAGE + prog.written
    /\ Stage = 13 => prog.written + Len(out) <= Limit
    /\ copy # NoCopy =>
         /\ copy.size <= Limit /\ copy.done <= copy.size /\ IsMultiple(copy.size)
         /\ ~Preparing => prog.address = prog.written /\ Stored = copy.done

\* No byte is stored that the chip has not read from the file.
Account ==
    upd \in Receiving /\ copy = NoCopy /\ Stage # 13 =>
        /\ GivenBytes + Held <= ftp.pos
        /\ \A i \in 1 .. Len(wire) : Counts(wire[i]) => GivenBytes + wire[i].n <= ftp.pos

Lengths == Words /\ Account

-----------------------------------------------------------------------------
(* Numbers.                                                                *)

\* Division with remainder.
LEMMA Remainder ==
  ASSUME NEW n \in Nat, NEW d \in Nat \ {0}
  PROVE  /\ n % d \in 0 .. d - 1 /\ n \div d \in Nat
         /\ n = (n \div d) * d + (n % d)
  OBVIOUS

\* The parameters are positive naturals; faults and sessions may be none.
LEMMA Parameters ==
  /\ Word \in Nat \ {0} /\ Buf \in Nat \ {0} /\ Page \in Nat \ {0}
  /\ NumPages \in Nat \ {0} /\ Stride \in Nat \ {0} /\ Span \in Nat \ {0}
  /\ FirmwareSize \in Nat \ {0} /\ MaxFaults \in Nat /\ MaxSessions \in Nat
  BY ProgrammerAssumption, LoaderAssumption

\* Products stay naturals.
LEMMA Product ==
  ASSUME NEW a \in Nat, NEW b \in Nat
  PROVE  a * b \in Nat
  OBVIOUS

\* Sums and differences of whole words are whole words; one that is less
\* than another is so by a word at least.
LEMMA Multiples ==
  ASSUME NEW a \in Nat, NEW b \in Nat, IsMultiple(a), IsMultiple(b)
  PROVE  /\ IsMultiple(a + b)
         /\ a < b => a + Word <= b
         /\ a <= b => IsMultiple(b - a)
  <1>1. PICK j \in Nat : a = j * Word
    BY DEF IsMultiple
  <1>2. PICK k \in Nat : b = k * Word
    BY DEF IsMultiple
  <1>3. Word \in Nat \ {0}
    BY Parameters
  <1>4. a + b = (j + k) * Word
    BY <1>1, <1>2, <1>3
  <1>5. ASSUME a < b PROVE a + Word <= b
    <2>1. j < k
      BY <1>1, <1>2, <1>3, <1>5
    <2>2. k = j + 1 + (k - j - 1) /\ k - j - 1 \in Nat
      BY <2>1
    <2>3. b = j * Word + Word + (k - j - 1) * Word
      BY <1>2, <1>3, <2>1
    <2>4. (k - j - 1) * Word \in Nat
      BY <2>2, <1>3, Product
    <2> QED BY <1>1, <2>3, <2>4, <1>3
  <1>6. ASSUME a <= b PROVE IsMultiple(b - a)
    <2>1. j <= k
      BY <1>1, <1>2, <1>3, <1>6
    <2>2. k - j \in Nat /\ b - a = (k - j) * Word
      BY <1>1, <1>2, <1>3, <2>1
    <2> QED BY <2>2 DEF IsMultiple
  <1>7. j + k \in Nat
    OBVIOUS
  <1>8. IsMultiple(a + b)
    BY <1>4, <1>7 DEF IsMultiple
  <1> QED BY <1>5, <1>6, <1>8

\* The smallest numbers of whole words.
LEMMA SmallMultiples ==
  /\ IsMultiple(0) /\ IsMultiple(Word)
  /\ \A a \in Nat : IsMultiple(a) /\ a > 0 => a >= Word
  <1>1. Word \in Nat \ {0} /\ 0 = 0 * Word /\ Word = 1 * Word
    BY Parameters
  <1>2. IsMultiple(0) /\ IsMultiple(Word)
    BY <1>1 DEF IsMultiple
  <1>3. \A a \in Nat : IsMultiple(a) /\ a > 0 => a >= Word
    BY <1>1, <1>2, Multiples
  <1> QED BY <1>2, <1>3

\* What WriteBytes keeps back for the next call is less than a word.
LEMMA Whole ==
  ASSUME NEW n \in Nat
  PROVE  /\ n % Word \in 0 .. Word - 1 /\ n - (n % Word) \in 0 .. n
         /\ IsMultiple(n - (n % Word))
  <1>1. Word \in Nat \ {0}
    BY Parameters
  <1>2. n % Word \in 0 .. Word - 1 /\ n \div Word \in Nat
        /\ n = (n \div Word) * Word + (n % Word)
    BY <1>1, Remainder
  <1>3. (n \div Word) * Word \in Nat
    BY <1>1, <1>2, Product
  <1>4. n - (n % Word) = (n \div Word) * Word
    BY <1>2, <1>3
  <1>5. IsMultiple(n - (n % Word))
    BY <1>4, <1>2 DEF IsMultiple
  <1> QED BY <1>1, <1>2, <1>3, <1>4, <1>5

\* The firmware fits into a region, and two words more hold the whole file.
LEMMA Sizes ==
  /\ Word <= Buf
  /\ ADDR_STORAGE \in Nat \ {0} /\ Limit \in Nat /\ FileSize \in Nat
  /\ FirmwareSize <= ADDR_STORAGE /\ FileSize <= Limit
  /\ ADDR_BOOTLOADER = 2 * ADDR_STORAGE
  /\ IsMultiple(Limit)
  /\ Span * Page \in Nat /\ 2 * Word <= Span * Page
  <1> USE Parameters
  <1>1. Buf % Word = 0 /\ Page % (Word * Stride) = 0 /\ FirmwareSize <= NumPages * Page
    BY ProgrammerAssumption
  <1>2. Buf = (Buf \div Word) * Word /\ Buf \div Word \in Nat
    BY <1>1, Remainder
  <1>3. Buf \div Word >= 1
    BY <1>2
  <1>4. Word <= Buf
    BY <1>2, SmallMultiples DEF IsMultiple
  <1>5. Word * Stride \in Nat \ {0}
    OBVIOUS
  <1>6. Page = (Page \div (Word * Stride)) * (Word * Stride) /\ Page \div (Word * Stride) \in Nat
    <2> DEFINE g == Word * Stride
    <2>1. g \in Nat \ {0} /\ Page % g = 0
      BY <1>1, <1>5
    <2> HIDE DEF g
    <2>2. Page = (Page \div g) * g + (Page % g) /\ Page \div g \in Nat
      BY <2>1, Remainder
    <2>3. Page = (Page \div g) * g /\ Page \div g \in Nat
      BY <2>1, <2>2
    <2> QED BY <2>3 DEF g
  <1>7. ADDR_STORAGE = (NumPages * (Page \div (Word * Stride)) * Stride) * Word
    BY <1>6 DEF ADDR_STORAGE
  <1>8. NumPages * (Page \div (Word * Stride)) * Stride \in Nat
    BY <1>6, Product
  <1>9. IsMultiple(ADDR_STORAGE)
    BY <1>7, <1>8 DEF IsMultiple
  <1>10. ADDR_STORAGE \in Nat \ {0} /\ ADDR_BOOTLOADER = 2 * ADDR_STORAGE
    BY DEF ADDR_STORAGE, ADDR_BOOTLOADER
  <1>11. IsMultiple(Word + Word) /\ Word + Word = 2 * Word
    BY SmallMultiples, Multiples
  <1>12. IsMultiple(Limit)
    BY <1>9, <1>10, <1>11, Multiples DEF Limit
  <1>13. Span * Page \in Nat /\ 2 * Word <= Span * Page
    BY ProgrammerAssumption, Product
  <1> QED BY <1>1, <1>4, <1>10, <1>12, <1>13 DEF Limit, FileSize, ADDR_STORAGE

-----------------------------------------------------------------------------
(* Lists of statements.                                                    *)

\* The places of the statements in the body of Updater::Update.
LEMMA PlaceValues ==
  /\ \A s : Place(s) \in 0 .. 13 /\ Place(s) # 11
  /\ Place("state_meter") = 0 /\ Place("SetState") = 0
  /\ Place("pointer_command") = 1 /\ Place("received_command") = 2
  /\ Place("pointer_data") = 3 /\ Place("need_bytes") = 4 /\ Place("requested") = 5
  /\ Place("request") = 6 /\ Place("transmit") = 7
  /\ Place("received_FTPGET_1_0") = 8 /\ Place("requested_bytes_received") = 10
  /\ Place("CloseSession") = 12 /\ Place("Verify") = 13
  <1>1. \A s : Place(s) \in 0 .. 13 /\ Place(s) # 11
    BY DEF Place
  <1>2. Place("state_meter") = 0 /\ Place("SetState") = 0 /\ Place("pointer_command") = 1
    BY DEF Place
  <1>3. Place("received_command") = 2 /\ Place("pointer_data") = 3 /\ Place("need_bytes") = 4
    BY DEF Place
  <1>4. Place("requested") = 5 /\ Place("request") = 6 /\ Place("transmit") = 7
    BY DEF Place
  <1>5. Place("received_FTPGET_1_0") = 8 /\ Place("requested_bytes_received") = 10
    BY DEF Place
  <1>6. Place("CloseSession") = 12 /\ Place("Verify") = 13
    BY DEF Place
  <1> QED BY <1>1, <1>2, <1>3, <1>4, <1>5, <1>6

\* A list of statements without length is empty.
LEMMA NoStatements ==
  ASSUME NEW s \in Seq(Names)
  PROVE  s = <<>> <=> Len(s) = 0
  OBVIOUS

\* The rest of a list is a list, and it begins at the next place.
LEMMA TailOrdered ==
  ASSUME NEW t, Ordered(t), t # <<>>
  PROVE  /\ Ordered(Tail(t))
         /\ StageOf(t) \in 0 .. 13 /\ StageOf(t) \notin {9, 11}
         /\ Tail(t) # <<>> => /\ StageOf(Tail(t)) = StageOf(t) + 1
                             /\ Tail(t)[1] # "SetState"
         /\ Tail(t) = <<>> => StageOf(t) \in {7, 8, 10, 13}
  <1>1. /\ t \in Seq(Names) /\ Len(t) \in Nat /\ Len(t) > 0
        /\ Tail(t) \in Seq(Names) /\ Len(Tail(t)) = Len(t) - 1
        /\ \A i \in 1 .. Len(t) - 1 : Tail(t)[i] = t[i + 1]
        /\ \A i \in 1 .. Len(t) : t[i] \in Names
    BY DEF Ordered
  <1>2. \A i \in 1 .. Len(t) : Place(t[i]) = Place(t[1]) + i - 1 /\ Place(t[i]) # 9
    BY DEF Ordered
  <1>3. Place(t[Len(t)]) \in {7, 8, 10, 13}
    BY DEF Ordered
  <1>4. StageOf(t) = Place(t[1]) /\ StageOf(t) \in 0 .. 13 /\ StageOf(t) \notin {9, 11}
    BY <1>1, <1>2, PlaceValues DEF StageOf
  <1>5. CASE Len(t) = 1
    <2>0. Tail(t) \in Seq(Names) /\ Len(Tail(t)) = 0
      BY <1>1, <1>5
    <2>1. Tail(t) = <<>>
      BY <2>0, NoStatements
    <2>2. Place(t[1]) \in {7, 8, 10, 13}
      BY <1>3, <1>5
    <2> QED BY <2>1, <2>2, <1>1, <1>4 DEF Ordered
  <1>6. CASE Len(t) > 1
    <2>0. Tail(t) \in Seq(Names) /\ Len(Tail(t)) # 0 /\ 1 \in 1 .. Len(t) - 1 /\ 1 + 1 = 2
      BY <1>1, <1>6
    <2>1. Tail(t) # <<>> /\ Tail(t)[1] = t[2]
      <3>1. Tail(t) # <<>>
        BY <2>0, NoStatements
      <3>2. Tail(t)[1] = t[1 + 1]
        BY <1>1, <2>0
      <3> QED BY <2>0, <3>1, <3>2
    <2>2. Place(t[2]) = Place(t[1]) + 1 /\ t[2] \in Names /\ t[1] \in Names
      BY <1>1, <1>2, <1>6
    <2>3. StageOf(Tail(t)) = StageOf(t) + 1
      BY <2>1, <2>2, <1>4 DEF StageOf
    <2>4. Tail(t)[1] # "SetState"
      BY <2>1, <2>2, PlaceValues, SMTT(30)
    <2>5. \A i \in 1 .. Len(t) - 1 : Place(t[i + 1]) = Place(t[1]) + i /\ Place(t[i + 1]) # 9
      <3> TAKE i \in 1 .. Len(t) - 1
      <3>1. i + 1 \in 1 .. Len(t) /\ (i + 1) - 1 = i
        BY <1>1
      <3>2. Place(t[i + 1]) = Place(t[1]) + (i + 1) - 1 /\ Place(t[i + 1]) # 9
        BY <3>1, <1>2
      <3>3. Place(t[1]) \in Nat
        BY <2>2, PlaceValues
      <3> QED BY <3>1, <3>2, <3>3
    <2>6. \A i \in 1 .. Len(t) - 1 :
            Place(Tail(t)[i]) = Place(Tail(t)[1]) + i - 1 /\ Place(Tail(t)[i]) # 9
      <3> TAKE i \in 1 .. Len(t) - 1
      <3>1. Tail(t)[i] = t[i + 1]
        BY <1>1
      <3>2. Place(t[1]) \in Nat
        BY <2>2, PlaceValues
      <3>3. Place(t[i + 1]) = Place(t[1]) + i /\ Place(t[i + 1]) # 9
        BY <2>5
      <3>4. Place(Tail(t)[1]) = Place(t[1]) + 1
        BY <2>1, <2>2
      <3>5. i \in Int
        OBVIOUS
      <3>6. Place(t[1]) + i = (Place(t[1]) + 1) + i - 1
        BY <3>2, <3>5
      <3> QED BY <3>1, <3>3, <3>4, <3>6
    <2>7. Tail(t)[Len(Tail(t))] = t[Len(t)]
      BY <1>1, <1>6
    <2> QED BY <2>1, <2>3, <2>4, <2>6, <2>7, <1>1, <1>3, <1>4 DEF Ordered
  <1> QED BY <1>1, <1>5, <1>6

\* A list of one statement.
LEMMA OneStatement ==
  ASSUME NEW s \in Names
  PROVE  <<s>> \in Seq(Names) /\ Len(<<s>>) = 1 /\ <<s>>[1] = s /\ <<s>> # <<>>
  OBVIOUS

\* Two lists of statements one after the other.
LEMMA JoinedStatements ==
  ASSUME NEW a \in Seq(Names), NEW b \in Seq(Names)
  PROVE  /\ a \o b \in Seq(Names) /\ Len(a \o b) = Len(a) + Len(b)
         /\ \A i \in 1 .. Len(a) : (a \o b)[i] = a[i]
         /\ \A i \in Len(a) + 1 .. Len(a) + Len(b) : (a \o b)[i] = b[i - Len(a)]
  OBVIOUS

\* One list after another, when the second begins where the first ends.
LEMMA JoinOrdered ==
  ASSUME NEW a \in Seq(Names), NEW b, Ordered(b), a # <<>>, b # <<>>,
         \A i \in 1 .. Len(a) : Place(a[i]) = Place(a[1]) + i - 1 /\ Place(a[i]) # 9,
         Place(b[1]) = Place(a[1]) + Len(a)
  PROVE  Ordered(a \o b) /\ StageOf(a \o b) = Place(a[1]) /\ (a \o b)[1] = a[1]
  <1> DEFINE t == a \o b
  <1>1. /\ b \in Seq(Names) /\ Len(a) \in Nat \ {0} /\ Len(b) \in Nat \ {0}
        /\ \A i \in 1 .. Len(b) : Place(b[i]) = Place(b[1]) + i - 1 /\ Place(b[i]) # 9
        /\ Place(b[Len(b)]) \in {7, 8, 10, 13}
    BY DEF Ordered
  <1>2. /\ t \in Seq(Names) /\ Len(t) = Len(a) + Len(b)
        /\ \A i \in 1 .. Len(a) : t[i] = a[i]
        /\ \A i \in Len(a) + 1 .. Len(a) + Len(b) : t[i] = b[i - Len(a)]
    BY <1>1, JoinedStatements
  <1> HIDE DEF t
  <1>3. t[1] = a[1] /\ t # <<>>
    BY <1>1, <1>2
  <1>4. Place(a[1]) \in Nat
    BY PlaceValues, SMTT(30)
  <1>5. ASSUME NEW i \in 1 .. Len(t)
        PROVE  Place(t[i]) = Place(t[1]) + i - 1 /\ Place(t[i]) # 9
    <2>1. CASE i \in 1 .. Len(a)
      BY <2>1, <1>2, <1>3
    <2>2. CASE i \in Len(a) + 1 .. Len(a) + Len(b)
      <3>1. i - Len(a) \in 1 .. Len(b) /\ t[i] = b[i - Len(a)]
        BY <2>2, <1>1, <1>2
      <3>2. Place(t[i]) = Place(b[1]) + (i - Len(a)) - 1 /\ Place(t[i]) # 9
        BY <3>1, <1>1
      <3> QED BY <3>2, <1>1, <1>3, <1>4, <2>2
    <2> QED BY <2>1, <2>2, <1>1, <1>2
  <1>6. t[Len(t)] = b[Len(b)]
    <2>1. Len(t) \in Len(a) + 1 .. Len(a) + Len(b) /\ Len(t) - Len(a) = Len(b)
      BY <1>1, <1>2
    <2> QED BY <2>1, <1>2
  <1>7. Ordered(t)
    BY <1>1, <1>2, <1>5, <1>6 DEF Ordered
  <1>8. StageOf(t) = Place(a[1])
    BY <1>3 DEF StageOf
  <1> QED BY <1>3, <1>7, <1>8 DEF t

\* ReceiveBytes clears the reader in the order of the code.
LEMMA ReceiveBytesOrdered ==
  Ordered(ReceiveBytes) /\ ReceiveBytes # <<>> /\ ReceiveBytes[1] = "pointer_command"
  <1>1. ReceiveBytes \in Seq(Names) /\ Len(ReceiveBytes) = 7
    BY DEF ReceiveBytes, Names
  <1>2. /\ ReceiveBytes[1] = "pointer_command" /\ ReceiveBytes[2] = "received_command"
        /\ ReceiveBytes[3] = "pointer_data" /\ ReceiveBytes[4] = "need_bytes"
        /\ ReceiveBytes[5] = "requested" /\ ReceiveBytes[6] = "request"
        /\ ReceiveBytes[7] = "transmit"
    BY DEF ReceiveBytes
  <1> DEFINE t == ReceiveBytes
  <1>3. /\ Place(t[1]) = 1 /\ Place(t[2]) = 2 /\ Place(t[3]) = 3 /\ Place(t[4]) = 4
        /\ Place(t[5]) = 5 /\ Place(t[6]) = 6 /\ Place(t[7]) = 7
    BY <1>2, PlaceValues
  <1> HIDE DEF t
  <1>4. \A i \in 1 .. 7 : i = 1 \/ i = 2 \/ i = 3 \/ i = 4 \/ i = 5 \/ i = 6 \/ i = 7
    OBVIOUS
  <1>5. \A i \in 1 .. 7 : Place(t[i]) = i
    BY <1>3, <1>4
  <1>6. \A i \in 1 .. 7 : Place(t[i]) = Place(t[1]) + i - 1 /\ Place(t[i]) # 9
    BY <1>3, <1>5
  <1>7. t \in Seq(Names) /\ Len(t) = 7
    BY <1>1 DEF t
  <1>8. t # <<>>
    BY <1>7
  <1>9. Ordered(t)
    BY <1>3, <1>6, <1>7 DEF Ordered
  <1> QED BY <1>2, <1>8, <1>9 DEF t

\* A statement before a list.
LEMMA ConsOrdered ==
  ASSUME NEW s \in Names, NEW b, Ordered(b), b # <<>>,
         Place(s) # 9, Place(b[1]) = Place(s) + 1
  PROVE  Ordered(<<s>> \o b) /\ StageOf(<<s>> \o b) = Place(s) /\ (<<s>> \o b)[1] = s
  <1>0. Place(s) \in Nat
    BY PlaceValues
  <1>1. \A i \in 1 .. Len(<<s>>) :
          Place(<<s>>[i]) = Place(<<s>>[1]) + i - 1 /\ Place(<<s>>[i]) # 9
    <2>1. \A i \in 1 .. Len(<<s>>) : i = 1
      BY OneStatement
    <2> QED BY <2>1, OneStatement, <1>0
  <1>2. Place(b[1]) = Place(<<s>>[1]) + Len(<<s>>)
    BY OneStatement
  <1>3. <<s>> \in Seq(Names) /\ <<s>> # <<>> /\ <<s>>[1] = s
    BY OneStatement
  <1> QED BY <1>1, <1>2, <1>3, JoinOrdered

\* A list of one statement.
LEMMA OneOrdered ==
  ASSUME NEW s \in Names, Place(s) \in {7, 8, 10, 13}
  PROVE  Ordered(<<s>>) /\ StageOf(<<s>>) = Place(s)
  <1>1. \A i \in 1 .. Len(<<s>>) : i = 1
    BY OneStatement
  <1>2. Place(<<s>>[Len(<<s>>)]) \in {7, 8, 10, 13}
    BY OneStatement
  <1>3. \A i \in 1 .. Len(<<s>>) :
          Place(<<s>>[i]) = Place(<<s>>[1]) + i - 1 /\ Place(<<s>>[i]) # 9
    BY <1>1, OneStatement
  <1>4. StageOf(<<s>>) = Place(s)
    BY OneStatement DEF StageOf
  <1> QED BY <1>2, <1>3, <1>4, OneStatement DEF Ordered

\* The lists that the main loop begins.
LEMMA ListsOrdered ==
  /\ Ordered(<<>>) /\ StageOf(<<>>) = Idle
  /\ Ordered(ReceiveBytes) /\ StageOf(ReceiveBytes) = 1
  /\ Ordered(<<"SetState">> \o ReceiveBytes \o <<"received_FTPGET_1_0">>)
  /\ StageOf(<<"SetState">> \o ReceiveBytes \o <<"received_FTPGET_1_0">>) = 0
  /\ (<<"SetState">> \o ReceiveBytes \o <<"received_FTPGET_1_0">>)[1] = "SetState"
  /\ Ordered(<<"state_meter">> \o ReceiveBytes)
  /\ StageOf(<<"state_meter">> \o ReceiveBytes) = 0
  /\ (<<"state_meter">> \o ReceiveBytes)[1] = "state_meter"
  /\ Ordered(Verify) /\ StageOf(Verify) = 12
  /\ Ordered(<<"requested_bytes_received">>)
  /\ StageOf(<<"requested_bytes_received">>) = 10
  <1>1. Ordered(<<>>) /\ StageOf(<<>>) = Idle
    BY DEF Ordered, StageOf
  <1>2. Ordered(ReceiveBytes) /\ StageOf(ReceiveBytes) = 1
    BY ReceiveBytesOrdered, PlaceValues DEF StageOf
  <1>3. /\ Ordered(<<"SetState">> \o ReceiveBytes \o <<"received_FTPGET_1_0">>)
        /\ StageOf(<<"SetState">> \o ReceiveBytes \o <<"received_FTPGET_1_0">>) = 0
        /\ (<<"SetState">> \o ReceiveBytes \o <<"received_FTPGET_1_0">>)[1] = "SetState"
    <2> DEFINE a == <<"SetState">> \o ReceiveBytes
               b == <<"received_FTPGET_1_0">>
    <2>1. Ordered(a) /\ StageOf(a) = 0 /\ a[1] = "SetState"
      BY ReceiveBytesOrdered, ConsOrdered, PlaceValues DEF Names
    <2>2. Ordered(b) /\ b # <<>> /\ b[1] = "received_FTPGET_1_0" /\ Place(b[1]) = 8
      BY OneOrdered, OneStatement, PlaceValues DEF Names
    <2>3. Len(a) = 8
      <3>1. Len(ReceiveBytes) = 7 /\ ReceiveBytes \in Seq(Names)
        BY DEF ReceiveBytes, Names
      <3>2. <<"SetState">> \in Seq(Names) /\ Len(<<"SetState">>) = 1
        BY OneStatement DEF Names
      <3>3. Len(a) = Len(<<"SetState">>) + Len(ReceiveBytes)
        BY <3>1, <3>2, JoinedStatements, Zenon
      <3> QED BY <3>1, <3>2, <3>3
    <2>4. Place(a[1]) = 0
      BY <2>1, PlaceValues
    <2> HIDE DEF a, b
    <2>5. a \in Seq(Names) /\ a # <<>>
      BY <2>1, <2>3 DEF Ordered
    <2>6. \A i \in 1 .. Len(a) : Place(a[i]) = Place(a[1]) + i - 1 /\ Place(a[i]) # 9
      BY <2>1 DEF Ordered
    <2>7. Place(b[1]) = Place(a[1]) + Len(a)
      BY <2>2, <2>3, <2>4
    <2>8. Ordered(a \o b) /\ StageOf(a \o b) = 0 /\ (a \o b)[1] = "SetState"
      BY <2>1, <2>2, <2>4, <2>5, <2>6, <2>7, JoinOrdered
    <2> QED BY <2>8 DEF a, b
  <1>4. /\ Ordered(<<"state_meter">> \o ReceiveBytes)
        /\ StageOf(<<"state_meter">> \o ReceiveBytes) = 0
        /\ (<<"state_meter">> \o ReceiveBytes)[1] = "state_meter"
    BY ReceiveBytesOrdered, ConsOrdered, PlaceValues DEF Names
  <1>5. Ordered(Verify) /\ StageOf(Verify) = 12
    <2>1. Ordered(<<"Verify">>) /\ <<"Verify">> # <<>> /\ <<"Verify">>[1] = "Verify"
      BY OneOrdered, OneStatement, PlaceValues DEF Names
    <2>2. Ordered(<<"CloseSession">> \o <<"Verify">>)
          /\ StageOf(<<"CloseSession">> \o <<"Verify">>) = 12
      BY <2>1, ConsOrdered, PlaceValues DEF Names
    <2>3. Verify = <<"CloseSession">> \o <<"Verify">>
      BY DEF Verify
    <2> QED BY <2>2, <2>3
  <1>6. Ordered(<<"requested_bytes_received">>)
        /\ StageOf(<<"requested_bytes_received">>) = 10
    BY OneOrdered, PlaceValues DEF Names
  <1> QED BY <1>1, <1>2, <1>3, <1>4, <1>5, <1>6

-----------------------------------------------------------------------------
(* Steps that the parts of the invariant do not tell apart.                *)

SessionInv == LoaderTypes /\ Control /\ OneRequest /\ Lengths

\* Nothing of the main loop is under way.
AtRest == mode = "loader" /\ todo = <<>> /\ ~Preparing /\ ~Writing /\ copy = NoCopy

\* The session is given up.
ResetStep == AtRest' /\ ~Preparing /\ ~Writing /\ copy = NoCopy /\ Reset

\* The dialog goes on; the session has not begun.
QuietStep ==
    /\ AtRest
    /\ UNCHANGED <<progVars, readerVars, mode, todo, source_crc, sessions, copy, misled>>
    /\ sim' \in SimStates /\ upd' \in UpdStates /\ late' \in BOOLEAN
    /\ upd' # "IDLE" => sim' = "RUNNING_UPDATER"
    /\ upd' # upd => upd \notin Receiving \cup {"COMPLETED"} /\ upd' \notin Receiving

\* The processor starts again.
RestartStep == Restarted /\ mode' \in {"loader", "application", "stone"}

\* The next statement of the list is name.
Executes(name) ==
    /\ mode = "loader" /\ ~Preparing /\ ~Writing /\ copy = NoCopy
    /\ todo # <<>> /\ todo[1] = name /\ Stage = Place(name)
    /\ Ordered(todo') /\ todo' = Tail(todo)
    /\ \/ todo' = <<>> /\ Stage' = Idle /\ Stage \in {7, 8, 10, 13}
       \/ todo' # <<>> /\ Stage' = Stage + 1 /\ todo'[1] # "SetState"

\* Every answer SIM868::Update waits for leads to a state of its dialog.
LEMMA DialogStates ==
  /\ \A i \in DOMAIN Expected : i \in 1 .. 6 /\ Dialog[i + 1] \in SimStates
  /\ "WAIT_ATE0" \in SimStates /\ "RUNNING_UPDATER" \in SimStates /\ "START" \in SimStates
  <1>1. DOMAIN Expected = 1 .. 6
    BY DEF Expected
  <1>2. DOMAIN Dialog = 1 .. 7 /\ Dialog[1] = "WAIT_ATE0" /\ Dialog[7] = "RUNNING_UPDATER"
    BY DEF Dialog
  <1>3. \A i \in 1 .. 7 : Dialog[i] \in Range(Dialog)
    BY <1>2 DEF Range
  <1>4. \A i \in 1 .. 6 : i + 1 \in 1 .. 7
    OBVIOUS
  <1>5. \A i \in 1 .. 6 : Dialog[i + 1] \in Range(Dialog)
    BY <1>3, <1>4
  <1> QED BY <1>1, <1>2, <1>3, <1>5 DEF SimStates

\* The twelve states before the FTP session are none of those that receive.
LEMMA SetupStates ==
  /\ Len(Setup) = 12 /\ Setup[12] = "NEED_WAIT_CONNECT"
  /\ Setup[1] \in UpdStates /\ Setup[1] \notin Receiving \cup {"COMPLETED", "IDLE"}
  /\ \A i \in 1 .. 11 : /\ Setup[i] \notin Receiving \cup {"COMPLETED", "IDLE"}
                       /\ Setup[i + 1] \notin Receiving \cup {"COMPLETED", "IDLE"}
                       /\ Setup[i + 1] \in UpdStates
  <1>1. Len(Setup) = 12 /\ DOMAIN Setup = 1 .. 12 /\ Setup[12] = "NEED_WAIT_CONNECT"
    BY DEF Setup
  <1>2. \A i \in 1 .. 12 : Setup[i] \notin Receiving \cup {"COMPLETED", "IDLE"}
    BY DEF Setup, Receiving
  <1>3. \A i \in 1 .. 12 : Setup[i] \in UpdStates
    BY <1>1 DEF UpdStates, Range
  <1>4. \A i \in 1 .. 11 : i \in 1 .. 12 /\ i + 1 \in 1 .. 12
    OBVIOUS
  <1>5. \A i \in 1 .. 11 : Setup[i + 1] \notin Receiving \cup {"COMPLETED", "IDLE"}
                         /\ Setup[i + 1] \in UpdStates
    BY <1>2, <1>3, <1>4
  <1>6. 1 \in 1 .. 12 /\ Setup[1] \in UpdStates /\ Setup[1] \notin Receiving \cup {"COMPLETED", "IDLE"}
    BY <1>2, <1>3
  <1> QED BY <1>1, <1>2, <1>4, <1>5, <1>6

\* A statement is executed at its place, and the one behind it is the next.
LEMMA StatementExecutes ==
  ASSUME SessionInv, NEW name, Statement(name)
  PROVE  Executes(name)
  <1>1. Ordered(todo) /\ todo # <<>> /\ todo' = Tail(todo)
    BY DEF SessionInv, Control, Statement
  <1>2. todo[1] = name
    BY <1>1 DEF Statement, Ordered
  <1>3. copy = NoCopy
    BY <1>1 DEF SessionInv, Control
  <1>4. Stage = Place(name)
    BY <1>1, <1>2 DEF Stage, StageOf
  <1>5. /\ Ordered(todo')
        /\ todo' # <<>> => StageOf(todo') = StageOf(todo) + 1 /\ todo'[1] # "SetState"
        /\ todo' = <<>> => StageOf(todo) \in {7, 8, 10, 13}
    BY <1>1, TailOrdered
  <1>6. Stage' = StageOf(todo') /\ Stage = StageOf(todo)
    BY DEF Stage
  <1>7. todo' = <<>> => Stage' = Idle
    BY <1>6 DEF StageOf
  <1>8. mode = "loader" /\ ~Preparing /\ ~Writing
    BY DEF Statement
  <1> QED BY <1>1, <1>2, <1>3, <1>4, <1>5, <1>6, <1>7, <1>8 DEF Executes

\* Whatever gives a session up, an answer, the meter or a checksum, resets
\* reader, programmer and dialogs together.
LEMMA ResetSteps ==
  ASSUME SessionInv, Unsolicited \/ Timeout \/ Mismatch
  PROVE  ResetStep
  <1>1. CASE Unsolicited \/ Timeout
    BY <1>1 DEF Unsolicited, Timeout, AtUpdate, ResetStep, AtRest, Reset, Preparing, Writing
  <1>2. CASE Mismatch
    <2>1. Executes("Verify") /\ Reset
      BY <1>2, StatementExecutes DEF Mismatch
    <2>2. Stage = 13
      BY <2>1, PlaceValues DEF Executes
    <2>3. todo' = <<>>
      <3>1. ASSUME todo' # <<>> PROVE FALSE
        <4>1. Stage' = 14
          BY <3>1, <2>1, <2>2 DEF Executes
        <4>2. Stage' = Place(todo'[1])
          BY <3>1 DEF Stage, StageOf
        <4> QED BY <4>1, <4>2, PlaceValues
      <3> QED BY <3>1
    <2> QED BY <2>1, <2>3 DEF Executes, ResetStep, AtRest, Reset, Preparing, Writing
  <1> QED BY <1>1, <1>2

\* The dialogs and the clock touch neither reader nor programmer.
LEMMA QuietSteps ==
  ASSUME SessionInv, NEW answer,
         SimUpdate(answer) \/ SetupUpdate(answer) \/ NoFile \/ Tick
  PROVE  QuietStep
  <1>0. /\ sim \in SimStates /\ upd \in UpdStates /\ late \in BOOLEAN
        /\ upd # "IDLE" => sim = "RUNNING_UPDATER"
    BY DEF SessionInv, LoaderTypes, Control
  <1>1. CASE SimUpdate(answer)
    <2>1. upd = "IDLE" /\ upd' = upd
      BY <1>0, <1>1 DEF SimUpdate
    <2>2. sim' \in SimStates
      BY <1>1, DialogStates DEF SimUpdate
    <2> QED BY <1>0, <1>1, <2>1, <2>2 DEF SimUpdate, AtUpdate, QuietStep, AtRest
  <1>2. CASE SetupUpdate(answer)
    <2>1. sim' = sim /\ sim = "RUNNING_UPDATER"
      BY <1>2 DEF SetupUpdate
    <2>2. /\ upd' \in UpdStates /\ late' \in BOOLEAN
          /\ upd \notin Receiving \cup {"COMPLETED"} /\ upd' \notin Receiving
      <3>1. CASE upd = "IDLE" /\ upd' = "NEED_SAPBR_3_GPRS" /\ UNCHANGED late
        BY <1>0, <3>1 DEF UpdStates, Receiving
      <3>2. CASE upd = "NEED_SAPBR_3_GPRS" /\ upd' = Setup[1] /\ late' = FALSE
        BY <3>2, SetupStates DEF Receiving
      <3>3. CASE \E i \in 1 .. Len(Setup) - 1 :
                   /\ upd = Setup[i] /\ ~late /\ answer = "OK"
                   /\ upd' = Setup[i + 1] /\ late' = FALSE
        <4>1. PICK i \in 1 .. 11 : upd = Setup[i] /\ upd' = Setup[i + 1] /\ late' = FALSE
          BY <3>3, SetupStates
        <4> QED BY <4>1, SetupStates
      <3> QED BY <1>2, <3>1, <3>2, <3>3 DEF SetupUpdate
    <2> QED BY <1>0, <1>2, <2>1, <2>2 DEF SetupUpdate, AtUpdate, QuietStep, AtRest
  <1>3. CASE NoFile
    BY <1>0, <1>3 DEF NoFile, AtUpdate, QuietStep, AtRest, UpdStates, Receiving
  <1>4. CASE Tick
    BY <1>0, <1>4 DEF Tick, AtUpdate, QuietStep, AtRest
  <1> QED BY <1>1, <1>2, <1>3, <1>4

\* The processor starts a program: nothing of the loader is under way.
LEMMA RestartSteps ==
  ASSUME RunApplication \/ Crash \/ RunBootloader
  PROVE  RestartStep
  BY DEF RunApplication, Crash, RunBootloader, RestartStep

\* Every step of the loader is of one of these kinds.
LEMMA StepCases ==
  ASSUME SessionInv, [Next]_vars
  PROVE  \/ ResetStep \/ QuietStep \/ RestartStep \/ UNCHANGED vars
         \/ Connected \/ GetVersion \/ GetCRC \/ GetLastBytes \/ TestRequested
         \/ GetBytes \/ MeterReset \/ SetState \/ RequestStep \/ TransmitStep
         \/ ClearStep("pointer_command") \/ ClearStep("received_command")
         \/ ClearStep("pointer_data") \/ ClearStep("need_bytes") \/ ClearStep("requested")
         \/ ClearEOF \/ CloseStep \/ VerifyStored \/ CopyChunk \/ VerifyCopy
         \/ PrepareStep \/ WordStep \/ Interrupt \/ ChipStep
  <1>1. CASE Update
    BY <1>1, ResetSteps, QuietSteps DEF Update, SessionUpdate
  <1>2. CASE Statements
    <2>1. ASSUME NEW i \in 1 .. 5, ClearStep(ReceiveBytes[i])
          PROVE  \/ ClearStep("pointer_command") \/ ClearStep("received_command")
                 \/ ClearStep("pointer_data") \/ ClearStep("need_bytes") \/ ClearStep("requested")
      <3>1. i = 1 \/ i = 2 \/ i = 3 \/ i = 4 \/ i = 5
        OBVIOUS
      <3>2. /\ ReceiveBytes[1] = "pointer_command" /\ ReceiveBytes[2] = "received_command"
            /\ ReceiveBytes[3] = "pointer_data" /\ ReceiveBytes[4] = "need_bytes"
            /\ ReceiveBytes[5] = "requested"
        BY DEF ReceiveBytes
      <3> QED BY <2>1, <3>1, <3>2
    <2> QED BY <1>2, <2>1, ResetSteps DEF Statements
  <1>3. CASE Interrupt \/ ChipStep \/ UNCHANGED vars
    BY <1>3
  <1>4. CASE Tick
    BY <1>4, QuietSteps
  <1>5. CASE RunApplication \/ Crash \/ RunBootloader
    BY <1>5, RestartSteps
  <1> QED BY <1>1, <1>2, <1>3, <1>4, <1>5 DEF Next, Main

-----------------------------------------------------------------------------
(* Sequences.                                                              *)

\* A part of a sequence.
LEMMA Part ==
  ASSUME NEW S, NEW s \in Seq(S), NEW m \in 1 .. Len(s) + 1, NEW n \in m - 1 .. Len(s)
  PROVE  /\ SubSeq(s, m, n) \in Seq(S) /\ Len(SubSeq(s, m, n)) = n - m + 1
         /\ \A i \in 1 .. n - m + 1 : SubSeq(s, m, n)[i] = s[m + i - 1]
  OBVIOUS

\* Two sequences one after the other.
LEMMA Joined ==
  ASSUME NEW S, NEW a \in Seq(S), NEW b \in Seq(S)
  PROVE  /\ a \o b \in Seq(S) /\ Len(a \o b) = Len(a) + Len(b)
         /\ \A i \in 1 .. Len(a) : (a \o b)[i] = a[i]
         /\ \A i \in 1 .. Len(b) : (a \o b)[Len(a) + i] = b[i]
  OBVIOUS

\* A function on 1 .. n is a sequence.
LEMMA Listed ==
  ASSUME NEW S, NEW n \in Nat, NEW f \in [1 .. n -> S]
  PROVE  f \in Seq(S) /\ Len(f) = n
  OBVIOUS

\* The empty sequence.
LEMMA Empty ==
  ASSUME NEW S, NEW s \in Seq(S)
  PROVE  <<>> \in Seq(S) /\ Len(<<>>) = 0 /\ (s = <<>> <=> Len(s) = 0)
  OBVIOUS

\* Min of SequencesExt for two numbers.
LEMMA Lesser ==
  ASSUME NEW a \in Int, NEW b \in Int
  PROVE  Min({a, b}) = IF a <= b THEN a ELSE b
  <1>1. CASE a <= b
    <2>1. \A y \in {a, b} : a <= y
      BY <1>1
    <2>2. \A x \in {a, b} : (\A y \in {a, b} : x <= y) => x = a
      BY <1>1
    <2> QED BY <1>1, <2>1, <2>2 DEF Min
  <1>2. CASE b < a
    <2>1. \A y \in {a, b} : b <= y
      BY <1>2
    <2>2. \A x \in {a, b} : (\A y \in {a, b} : x <= y) => x = b
      BY <1>2
    <2> QED BY <1>2, <2>1, <2>2 DEF Min
  <1> QED BY <1>1, <1>2

\* WriteBytes: nothing is lost, whole words go to Write.
LEMMA WriteBytesEffect ==
  ASSUME prog \in ProgType,
         NEW data \in Seq(Values), WriteBytes(data)
  PROVE  /\ out' \in Seq(Values)
         /\ prog' \in ProgType
         /\ prog'.address = prog.address /\ prog'.written = prog.written
         /\ Len(out') + Len(prog'.bytes) = Len(prog.bytes) + Len(data)
         /\ IsMultiple(Len(out')) /\ Len(prog'.bytes) < Word
         /\ Len(out') \in Nat /\ Len(prog'.bytes) \in Nat
         /\ \A i \in 1 .. Len(out') : out'[i] = (prog.bytes \o data)[i]
         /\ \A i \in 1 .. Len(prog'.bytes) :
              prog'.bytes[i] = (prog.bytes \o data)[Len(out') + i]
  <1> USE DEF ProgType
  <1> DEFINE all   == prog.bytes \o data
             n     == Len(all)
             whole == n - (n % Word)
  <1>1. all \in Seq(Values) /\ n = Len(prog.bytes) + Len(data) /\ n \in Nat
    BY Joined
  <1>2. /\ out' = SubSeq(all, 1, whole)
        /\ prog' = [prog EXCEPT !.bytes = SubSeq(all, whole + 1, n)]
    BY DEF WriteBytes
  <1>3. n % Word \in 0 .. Word - 1 /\ whole \in 0 .. n /\ IsMultiple(whole)
    BY <1>1, Whole
  <1> HIDE DEF all
  <1>4. Word \in Nat \ {0} /\ n - whole \in 0 .. Word - 1
    <2> HIDE DEF n
    <2>1. \A r \in Int : n - (n - r) = r
      BY <1>1
    <2> QED BY <1>1, <1>3, <2>1, Parameters
  <1> HIDE DEF whole, n
  <1>10. n = Len(all)
    BY DEF n
  <1>5. /\ SubSeq(all, 1, whole) \in Seq(Values) /\ Len(SubSeq(all, 1, whole)) = whole
        /\ \A i \in 1 .. whole : SubSeq(all, 1, whole)[i] = all[i]
    <2>1. 1 \in 1 .. Len(all) + 1 /\ whole \in 1 - 1 .. Len(all)
      BY <1>1, <1>3, <1>10
    <2>2. /\ SubSeq(all, 1, whole) \in Seq(Values) /\ Len(SubSeq(all, 1, whole)) = whole - 1 + 1
          /\ \A i \in 1 .. whole - 1 + 1 : SubSeq(all, 1, whole)[i] = all[1 + i - 1]
      BY <1>1, <2>1, Part
    <2>3. whole - 1 + 1 = whole /\ \A i \in 1 .. whole : 1 + i - 1 = i
      BY <1>3, <1>1
    <2> QED BY <2>2, <2>3
  <1>6. /\ SubSeq(all, whole + 1, n) \in Seq(Values) /\ Len(SubSeq(all, whole + 1, n)) = n - whole
        /\ \A i \in 1 .. n - whole : SubSeq(all, whole + 1, n)[i] = all[whole + i]
    <2>1. whole + 1 \in 1 .. Len(all) + 1 /\ n \in (whole + 1) - 1 .. Len(all)
      BY <1>1, <1>3, <1>10
    <2>2. /\ SubSeq(all, whole + 1, n) \in Seq(Values)
          /\ Len(SubSeq(all, whole + 1, n)) = n - (whole + 1) + 1
          /\ \A i \in 1 .. n - (whole + 1) + 1 :
               SubSeq(all, whole + 1, n)[i] = all[(whole + 1) + i - 1]
      BY <1>1, <2>1, Part
    <2>3. n - (whole + 1) + 1 = n - whole /\ \A i \in 1 .. n - whole : (whole + 1) + i - 1 = whole + i
      BY <1>3, <1>1
    <2> QED BY <2>2, <2>3
  <1>7. /\ out' \in Seq(Values) /\ Len(out') = whole
        /\ \A i \in 1 .. whole : out'[i] = all[i]
    BY <1>2, <1>5
  <1>8. /\ prog' \in ProgType
        /\ prog'.address = prog.address /\ prog'.written = prog.written
        /\ prog'.bytes = SubSeq(all, whole + 1, n)
    BY <1>2, <1>6
  <1>9. /\ Len(prog'.bytes) = n - whole
        /\ \A i \in 1 .. n - whole : prog'.bytes[i] = all[whole + i]
    BY <1>6, <1>8
  <1>11. Len(out') + Len(prog'.bytes) = Len(prog.bytes) + Len(data)
    BY <1>1, <1>3, <1>7, <1>9
  <1>12. Len(prog'.bytes) < Word /\ Len(out') \in Nat /\ Len(prog'.bytes) \in Nat
    BY <1>1, <1>3, <1>4, <1>7, <1>9
  <1> QED BY <1>3, <1>7, <1>8, <1>9, <1>11, <1>12 DEF all

\* CloseSession: the kept bytes become a whole word.
LEMMA CloseSessionEffect ==
  ASSUME prog.bytes \in Seq(Values), Len(prog.bytes) < Word, CloseSession
  PROVE  /\ out' \in Seq(Values) /\ prog' = prog
         /\ \/ Len(prog.bytes) = 0 /\ Len(out') = 0
            \/ Len(prog.bytes) > 0 /\ Len(out') = Word
  <1> DEFINE n   == Len(prog.bytes)
             pad == [i \in 1 .. Word - n |-> Erased]
  <1>1. n \in Nat /\ Word \in Nat \ {0} /\ n < Word
    BY Parameters
  <1>2. Erased \in Values
    BY Sizes DEF Erased, Values, Nil
  <1>3. out' = (IF n = 0 THEN <<>> ELSE prog.bytes \o pad) /\ prog' = prog
    BY DEF CloseSession
  <1>4. Word - n \in Nat /\ pad \in [1 .. Word - n -> Values]
    BY <1>1, <1>2
  <1> HIDE DEF pad
  <1>5. pad \in Seq(Values) /\ Len(pad) = Word - n
    BY <1>4, Listed
  <1>6. prog.bytes \o pad \in Seq(Values) /\ Len(prog.bytes \o pad) = n + Len(pad)
    BY <1>5, Joined
  <1> HIDE DEF n
  <1>7. Len(prog.bytes \o pad) = Word
    BY <1>1, <1>5, <1>6
  <1>8. CASE n = 0
    BY <1>3, <1>8, Empty DEF n
  <1>9. CASE n > 0
    BY <1>3, <1>6, <1>7, <1>9 DEF n
  <1> QED BY <1>1, <1>8, <1>9

\* ProgramWord takes one word of what Write has to program.
LEMMA ProgramWordEffect ==
  ASSUME rom \in [ROM -> Values], out \in Seq(Values), IsMultiple(Len(out)),
         prog \in ProgType,
         NEW works, ProgramWord(works)
  PROVE  /\ rom' \in [ROM -> Values]
         /\ out' \in Seq(Values) /\ Len(out) >= Word /\ Len(out') = Len(out) - Word
         /\ IsMultiple(Len(out'))
         /\ \A i \in 1 .. Len(out) - Word : out'[i] = out[Word + i]
         /\ prog' \in ProgType
         /\ prog'.address = prog.address + Word /\ prog'.written = prog.written + Word
         /\ prog'.bytes = prog.bytes /\ page' = page
         /\ faults' = IF works THEN faults ELSE faults + 1
  <1> USE DEF ProgType
  <1>1. Word \in Nat \ {0} /\ Len(out) \in Nat
    BY Parameters
  <1>2. Len(out) # 0
    BY Empty DEF ProgramWord, Writing
  <1>3. Len(out) >= Word
    BY <1>1, <1>2, SmallMultiples
  <1>4. out' = SubSeq(out, Word + 1, Len(out))
    BY DEF ProgramWord
  <1>5. Word + 1 \in 1 .. Len(out) + 1 /\ Len(out) \in (Word + 1) - 1 .. Len(out)
    BY <1>1, <1>3
  <1>6. /\ out' \in Seq(Values) /\ Len(out') = Len(out) - (Word + 1) + 1
        /\ \A i \in 1 .. Len(out) - (Word + 1) + 1 : out'[i] = out[(Word + 1) + i - 1]
    BY <1>4, <1>5, Part
  <1>7. /\ Len(out) - (Word + 1) + 1 = Len(out) - Word
        /\ \A i \in 1 .. Len(out) - Word : (Word + 1) + i - 1 = Word + i
    BY <1>1
  <1>8. IsMultiple(Len(out) - Word)
    BY <1>1, <1>3, Multiples, SmallMultiples
  <1>9. /\ prog' = [prog EXCEPT !.address = @ + Word, !.written = @ + Word]
        /\ page' = page /\ faults' = IF works THEN faults ELSE faults + 1
    BY DEF ProgramWord
  <1>10. /\ prog' \in ProgType
         /\ prog'.address = prog.address + Word /\ prog'.written = prog.written + Word
         /\ prog'.bytes = prog.bytes
    <2>1. /\ prog.address + Word \in Nat /\ prog.written + Word \in Nat
          /\ prog.bytes \in Seq(Values)
      BY <1>1
    <2>2. prog' = [address |-> prog.address + Word, written |-> prog.written + Word,
                   bytes |-> prog.bytes]
      BY <1>9
    <2> QED BY <2>1, <2>2
  <1>11. rom' \in [ROM -> Values]
    <2> DEFINE a == prog.address
               free == \A y \in a .. a + Word - 1 : rom[y] = Erased
               new(x) == IF works /\ x \in a .. a + Word - 1 /\ free
                         THEN out[x - a + 1] ELSE rom[x]
    <2>1. rom' = [x \in ROM |-> new(x)]
      BY DEF ProgramWord
    <2>2. ASSUME NEW x \in ROM PROVE new(x) \in Values
      <3>1. CASE x \in a .. a + Word - 1
        <4>1. a \in Nat /\ x \in Int
          BY DEF ROM
        <4>2. x - a + 1 \in 1 .. Len(out)
          BY <4>1, <3>1, <1>1, <1>3
        <4>3. out[x - a + 1] \in Values
          BY <4>2
        <4> QED BY <4>3
      <3>2. CASE x \notin a .. a + Word - 1
        BY <3>2
      <3> QED BY <3>1, <3>2
    <2> HIDE DEF new
    <2> QED BY <2>1, <2>2
  <1> QED BY <1>3, <1>6, <1>7, <1>8, <1>9, <1>10, <1>11

\* What ReceiveBytes gives on is what AppendByte has put into the buffer.
LEMMA ReceivedBytes ==
  ASSUME LoaderTypes
  PROVE  Received \in Seq(Values) /\ Len(Received) = reader.pointer /\ reader.pointer \in 0 .. Buf
  <1>1. reader.pointer \in 0 .. Buf /\ reader.buffer \in [1 .. Buf -> Values] /\ Buf \in Nat
    BY Parameters DEF LoaderTypes, ReaderType
  <1>2. Min({reader.pointer, Buf}) = reader.pointer
    BY <1>1, Lesser
  <1>3. Received = [i \in 1 .. reader.pointer |-> reader.buffer[i]]
    BY <1>2 DEF Received
  <1>4. Received \in [1 .. reader.pointer -> Values]
    BY <1>1, <1>3
  <1> QED BY <1>1, <1>4, Listed

\* What is read from the flash stands there.
LEMMA ReadBytes ==
  ASSUME rom \in [ROM -> Values], NEW a \in Nat, NEW n \in Nat,
         a + n <= ADDR_BOOTLOADER + 2 * Word
  PROVE  /\ Read(a, n) \in Seq(Values) /\ Len(Read(a, n)) = n
         /\ \A i \in 1 .. n : Read(a, n)[i] = rom[a + i - 1]
  <1>1. ADDR_BOOTLOADER \in Nat /\ Span * Page \in Nat /\ 2 * Word \in Nat
        /\ 2 * Word <= Span * Page
    BY Sizes, Parameters
  <1>2. \A i \in 1 .. n : a + i - 1 \in ROM
    BY <1>1 DEF ROM
  <1>3. Read(a, n) \in [1 .. n -> Values]
    BY <1>2 DEF Read
  <1>4. Read(a, n) \in Seq(Values) /\ Len(Read(a, n)) = n
    BY <1>3, Listed
  <1>5. \A i \in 1 .. n : Read(a, n)[i] = rom[a + i - 1]
    BY DEF Read
  <1> QED BY <1>4, <1>5

-----------------------------------------------------------------------------
(* The wire.                                                               *)

\* A line is three pieces, of which only the last can count.
LEMMA LinePieces ==
  ASSUME NEW text \in Texts, NEW n \in 0 .. FileSize, text = "2" => n <= Buf
  PROVE  /\ Line(text, n) \in Seq(Pieces) /\ Len(Line(text, n)) = 3
         /\ Line(text, n)[3] = [kind |-> "lf", text |-> text, n |-> n]
         /\ \A i \in 1 .. 3 : Counts(Line(text, n)[i]) => i = 3
  <1> DEFINE h == [kind |-> "head", text |-> text, n |-> n]
             t == [kind |-> "tail", text |-> text, n |-> n]
             f == [kind |-> "lf", text |-> text, n |-> n]
  <1>1. h \in Pieces /\ t \in Pieces /\ f \in Pieces
    BY DEF Pieces
  <1>2. ~Counts(h) /\ ~Counts(t)
    BY DEF Counts
  <1>3. Line(text, n) = <<h, t, f>>
    BY DEF Line, Piece
  <1> HIDE DEF h, t, f
  <1>4. /\ <<h, t, f>> \in Seq(Pieces) /\ Len(<<h, t, f>>) = 3
        /\ <<h, t, f>>[1] = h /\ <<h, t, f>>[2] = t /\ <<h, t, f>>[3] = f
    BY <1>1
  <1>5. \A i \in 1 .. 3 : i = 1 \/ i = 2 \/ i = 3
    OBVIOUS
  <1>6. \A i \in 1 .. 3 : Counts(<<h, t, f>>[i]) => i = 3
    BY <1>2, <1>4, <1>5
  <1> QED BY <1>3, <1>4, <1>6 DEF f

\* Pieces that do not count are added.
LEMMA NothingCounts ==
  ASSUME NEW a \in Seq(Pieces), NEW b \in Seq(Pieces),
         \A i \in 1 .. Len(b) : ~Counts(b[i])
  PROVE  /\ a \o b \in Seq(Pieces)
         /\ \A i \in 1 .. Len(a \o b) :
              Counts((a \o b)[i]) => i \in 1 .. Len(a) /\ (a \o b)[i] = a[i]
  <1> DEFINE w == a \o b
  <1>1. /\ w \in Seq(Pieces) /\ Len(w) = Len(a) + Len(b)
        /\ \A i \in 1 .. Len(a) : w[i] = a[i]
        /\ \A i \in 1 .. Len(b) : w[Len(a) + i] = b[i]
    BY Joined
  <1>2. Len(a) \in Nat /\ Len(b) \in Nat
    OBVIOUS
  <1> HIDE DEF w
  <1>3. ASSUME NEW i \in 1 .. Len(w), Counts(w[i]), i \notin 1 .. Len(a)
        PROVE  FALSE
    <2>1. i - Len(a) \in 1 .. Len(b) /\ i = Len(a) + (i - Len(a))
      BY <1>1, <1>2, <1>3
    <2>2. w[i] = b[i - Len(a)]
      BY <1>1, <2>1
    <2> QED BY <1>3, <2>1, <2>2
  <1>4. \A i \in 1 .. Len(w) : Counts(w[i]) => i \in 1 .. Len(a) /\ w[i] = a[i]
    BY <1>1, <1>3
  <1> QED BY <1>1, <1>4 DEF w

\* A line is added where nothing counts.
LEMMA LineCounts ==
  ASSUME NEW a \in Seq(Pieces), \A i \in 1 .. Len(a) : ~Counts(a[i]),
         NEW text \in Texts, NEW n \in 0 .. FileSize, text = "2" => n <= Buf
  PROVE  /\ a \o Line(text, n) \in Seq(Pieces)
         /\ \A i \in 1 .. Len(a \o Line(text, n)) :
              Counts((a \o Line(text, n))[i]) =>
                i = Len(a) + 3 /\ (a \o Line(text, n))[i] = [kind |-> "lf", text |-> text, n |-> n]
  <1> DEFINE l == Line(text, n)
             w == a \o l
  <1>1. /\ l \in Seq(Pieces) /\ Len(l) = 3 /\ l[3] = [kind |-> "lf", text |-> text, n |-> n]
        /\ \A i \in 1 .. 3 : Counts(l[i]) => i = 3
    BY LinePieces
  <1> HIDE DEF l
  <1>2. /\ w \in Seq(Pieces) /\ Len(w) = Len(a) + 3 /\ Len(a) \in Nat
        /\ \A i \in 1 .. Len(a) : w[i] = a[i]
        /\ \A i \in 1 .. 3 : w[Len(a) + i] = l[i]
    <2>0. l \in Seq(Pieces)
      BY <1>1
    <2>1. /\ w \in Seq(Pieces) /\ Len(w) = Len(a) + Len(l)
          /\ \A i \in 1 .. Len(a) : w[i] = a[i]
          /\ \A i \in 1 .. Len(l) : w[Len(a) + i] = l[i]
      BY <2>0, Joined
    <2>2. Len(a) \in Nat
      OBVIOUS
    <2> HIDE DEF w
    <2> QED BY <1>1, <2>1, <2>2
  <1> HIDE DEF w
  <1>3. ASSUME NEW i \in 1 .. Len(w), Counts(w[i])
        PROVE  i = Len(a) + 3 /\ w[i] = l[3]
    <2>1. i \notin 1 .. Len(a)
      BY <1>2, <1>3
    <2>2. i - Len(a) \in 1 .. 3 /\ i = Len(a) + (i - Len(a))
      BY <1>2, <2>1
    <2>3. w[i] = l[i - Len(a)]
      BY <1>2, <2>2
    <2>4. i - Len(a) = 3
      BY <1>1, <1>3, <2>2, <2>3
    <2>5. i = Len(a) + 3
      BY <1>2, <2>2, <2>4
    <2> QED BY <2>3, <2>4, <2>5
  <1> QED BY <1>1, <1>2, <1>3 DEF w, l

\* The beginning of the file is a position and a value.
LEMMA ZeroInFile == 0 \in 0 .. FileSize /\ 0 \in Values
  BY Sizes DEF Values, Nil

\* Lines that have no effect on the reader but to end a session.
LEMMA OtherLines ==
  ASSUME NEW a \in Seq(Pieces), NEW text \in Texts, text # "2", text # "1,1"
  PROVE  /\ a \o Line(text, 0) \in Seq(Pieces)
         /\ \A i \in 1 .. Len(a \o Line(text, 0)) :
              Counts((a \o Line(text, 0))[i]) =>
                i \in 1 .. Len(a) /\ (a \o Line(text, 0))[i] = a[i]
  <1>0. 0 \in 0 .. FileSize
    BY ZeroInFile
  <1>2. /\ Line(text, 0) \in Seq(Pieces) /\ Len(Line(text, 0)) = 3
        /\ Line(text, 0)[3] = [kind |-> "lf", text |-> text, n |-> 0]
        /\ \A i \in 1 .. 3 : Counts(Line(text, 0)[i]) => i = 3
    BY <1>0, LinePieces
  <1>3. ~Counts(Line(text, 0)[3])
    <2> DEFINE r == [kind |-> "lf", text |-> text, n |-> 0]
    <2>1. ~Counts(r)
      BY DEF Counts
    <2>2. Line(text, 0)[3] = r
      BY <1>2
    <2> HIDE DEF r
    <2> QED BY <2>1, <2>2
  <1>4. \A i \in 1 .. Len(Line(text, 0)) : ~Counts(Line(text, 0)[i])
    BY <1>2, <1>3
  <1> QED BY <1>2, <1>4, NothingCounts

\* What the chip puts on the wire, and what becomes of the request.
ChipAnswers(m) ==
    /\ ftp.ask > 0 /\ m \in 0 .. FileSize
    /\ ftp'.pos = ftp.pos + m /\ ftp'.ask = 0 /\ ftp'.owes = (m = 0)
    /\ \A i \in 1 .. Len(wire') :
         Counts(wire'[i]) => i = Len(wire) + 3 /\ wire'[i].n = m /\ m > 0

ChipTellsMore ==
    /\ ftp.owes /\ ftp'.pos = ftp.pos /\ ftp'.ask = ftp.ask /\ ftp'.owes = FALSE
    /\ \A i \in 1 .. Len(wire') : Counts(wire'[i]) => i = Len(wire) + 3 /\ wire'[i].n = 0

ChipTellsNothing ==
    /\ ftp'.pos = ftp.pos /\ ftp'.ask \in {0, ftp.ask} /\ ftp'.owes = ftp.owes
    /\ \A i \in 1 .. Len(wire') :
         Counts(wire'[i]) => i \in 1 .. Len(wire) /\ wire'[i] = wire[i]

\* An answer of the chip with data: it gives none, some or all bytes that it
\* was asked for and that are left of the file.
LEMMA ChipDataEffect ==
  ASSUME SessionInv, ChipData
  PROVE  /\ wire' \in Seq(Pieces) /\ ftp' \in FtpType /\ clean' \in BOOLEAN
         /\ \E m \in 0 .. FileSize : ChipAnswers(m)
  <1>1. /\ wire \in Seq(Pieces) /\ ftp \in FtpType /\ clean \in BOOLEAN
        /\ ftp.ask > 0 /\ \A i \in 1 .. Len(wire) : ~Counts(wire[i])
    BY DEF SessionInv, LoaderTypes, ChipData, OneRequest, Answered
  <1>2. FileSize \in Nat /\ Buf \in Nat
    BY Sizes, Parameters
  <1>3. ftp.ask \in 0 .. Buf /\ ftp.pos \in 0 .. FileSize
    BY <1>1 DEF FtpType
  <1> DEFINE most == Min({ftp.ask, FileSize - ftp.pos})
  <1>4. PICK m \in Given(most) :
          /\ wire' = wire \o Line("2", m)
                          \o [i \in 1 .. m |-> Piece("data", "", ftp.pos + i)]
                          \o Line("OK", 0)
          /\ ftp' = [ftp EXCEPT !.pos = @ + m, !.ask = 0, !.owes = m = 0]
          /\ clean' = (clean /\ (ftp.pos < 2 * Word => m \in {0, ftp.ask}))
    BY DEF ChipData
  <1>5. most \in 0 .. Buf /\ most <= FileSize - ftp.pos
    BY <1>2, <1>3, Lesser
  <1>6. Min({1, most}) \in 0 .. most
    <2> HIDE DEF most
    <2> QED BY <1>2, <1>5, Lesser
  <1>7. m \in 0 .. Buf /\ m <= FileSize - ftp.pos /\ m \in 0 .. FileSize
    <2>1. m = 0 \/ m = Min({1, most}) \/ m = most
      BY DEF Given
    <2> HIDE DEF most
    <2> QED BY <1>2, <1>3, <1>5, <1>6, <2>1
  <1> DEFINE w1 == wire \o Line("2", m)
             d  == [i \in 1 .. m |-> Piece("data", "", ftp.pos + i)]
             w2 == w1 \o d
             w3 == w2 \o Line("OK", 0)
  <1>8. /\ w1 \in Seq(Pieces)
        /\ \A i \in 1 .. Len(w1) :
             Counts(w1[i]) => i = Len(wire) + 3 /\ w1[i] = [kind |-> "lf", text |-> "2", n |-> m]
    <2>1. "2" \in Texts /\ m <= Buf
      BY <1>2, <1>7 DEF Texts
    <2> QED BY <1>1, <1>7, <2>1, LineCounts
  <1>9. d \in Seq(Pieces) /\ \A i \in 1 .. Len(d) : ~Counts(d[i])
    <2>1. ASSUME NEW i \in 1 .. m
          PROVE  Piece("data", "", ftp.pos + i) \in Pieces /\ ~Counts(Piece("data", "", ftp.pos + i))
      <3>1. ftp.pos + i \in 0 .. FileSize
        BY <1>2, <1>3, <1>7
      <3>2. "" \in Texts
        BY DEF Texts
      <3> QED BY <3>1, <3>2 DEF Pieces, Piece, Counts
    <2>2. d \in [1 .. m -> Pieces]
      BY <2>1
    <2>3. m \in Nat
      BY <1>2, <1>7
    <2>4. \A i \in 1 .. m : ~Counts(d[i])
      BY <2>1
    <2> HIDE DEF d
    <2>5. d \in Seq(Pieces) /\ Len(d) = m
      BY <2>2, <2>3, Listed
    <2> QED BY <2>4, <2>5
  <1> HIDE DEF d
  <1>10. /\ w2 \in Seq(Pieces)
         /\ \A i \in 1 .. Len(w2) : Counts(w2[i]) => i \in 1 .. Len(w1) /\ w2[i] = w1[i]
    <2> HIDE DEF w1
    <2> QED BY <1>8, <1>9, NothingCounts
  <1>11. /\ w3 \in Seq(Pieces)
         /\ \A i \in 1 .. Len(w3) : Counts(w3[i]) => i \in 1 .. Len(w2) /\ w3[i] = w2[i]
    <2>1. "OK" \in Texts /\ "OK" # "2" /\ "OK" # "1,1"
      BY DEF Texts
    <2> HIDE DEF w2
    <2> QED BY <1>10, <2>1, OtherLines
  <1>12. wire' = w3
    BY <1>4 DEF d
  <1> HIDE DEF w1, w2, w3
  <1>13. \A i \in 1 .. Len(wire') :
           Counts(wire'[i]) => i = Len(wire) + 3 /\ wire'[i].n = m /\ m > 0
    <2>1. ASSUME NEW i \in 1 .. Len(w3), Counts(w3[i])
          PROVE  i = Len(wire) + 3 /\ w3[i] = [kind |-> "lf", text |-> "2", n |-> m]
      <3>1. i \in 1 .. Len(w2) /\ w3[i] = w2[i]
        BY <1>11, <2>1
      <3>2. i \in 1 .. Len(w1) /\ w2[i] = w1[i]
        BY <1>10, <2>1, <3>1
      <3> QED BY <1>8, <2>1, <3>1, <3>2
    <2>2. ASSUME NEW i \in 1 .. Len(w3), Counts(w3[i])
          PROVE  i = Len(wire) + 3 /\ w3[i].n = m /\ m > 0
      <3>1. i = Len(wire) + 3 /\ w3[i] = [kind |-> "lf", text |-> "2", n |-> m]
        BY <2>1, <2>2
      <3>2. w3[i].n = m /\ w3[i].text = "2"
        BY <3>1
      <3> QED BY <2>2, <3>1, <3>2 DEF Counts
    <2> QED BY <1>12, <2>2
  <1>14. ftp' \in FtpType /\ ftp'.pos = ftp.pos + m /\ ftp'.ask = 0 /\ ftp'.owes = (m = 0)
    <2>1. ftp.pos + m \in 0 .. FileSize /\ 0 \in 0 .. Buf
      BY <1>2, <1>3, <1>7
    <2>2. ftp' = [open |-> ftp.open, pos |-> ftp.pos + m, ask |-> 0, owes |-> (m = 0)]
      BY <1>1, <1>4 DEF FtpType
    <2> QED BY <1>1, <2>1, <2>2 DEF FtpType
  <1>15. clean' \in BOOLEAN
    BY <1>1, <1>4
  <1> QED BY <1>1, <1>7, <1>11, <1>12, <1>13, <1>14, <1>15 DEF ChipAnswers

\* Every step of the chip is one of these.
LEMMA ChipEffect ==
  ASSUME SessionInv, Chip
  PROVE  /\ wire' \in Seq(Pieces) /\ ftp' \in FtpType /\ clean' \in BOOLEAN /\ reader' = reader
         /\ \/ \E m \in 0 .. FileSize : ChipAnswers(m)
            \/ ChipTellsMore
            \/ ChipTellsNothing
  <1>1. wire \in Seq(Pieces) /\ ftp \in FtpType /\ clean \in BOOLEAN
    BY DEF SessionInv, LoaderTypes
  <1>2. ftp.ask \in 0 .. Buf /\ 0 \in 0 .. Buf
    BY <1>1, Parameters DEF FtpType
  <1>3. CASE ChipData
    BY <1>3, ChipDataEffect DEF ChipData
  <1>4. CASE ChipError
    <2>1. "ERROR" \in Texts /\ "ERROR" # "2" /\ "ERROR" # "1,1"
      BY DEF Texts
    <2>2. wire' = wire \o Line("ERROR", 0) /\ ftp' = [ftp EXCEPT !.ask = 0]
          /\ UNCHANGED <<reader, clean>>
      BY <1>4 DEF ChipError
    <2>3. /\ wire' \in Seq(Pieces)
          /\ \A i \in 1 .. Len(wire') : Counts(wire'[i]) => i \in 1 .. Len(wire) /\ wire'[i] = wire[i]
      BY <1>1, <2>1, <2>2, OtherLines
    <2>4. ftp' \in FtpType /\ ftp'.pos = ftp.pos /\ ftp'.ask = 0 /\ ftp'.owes = ftp.owes
      BY <1>1, <1>2, <2>2 DEF FtpType
    <2> QED BY <1>1, <2>2, <2>3, <2>4 DEF ChipTellsNothing
  <1>5. CASE ChipMore
    <2>1. "1,1" \in Texts /\ "1,1" # "2"
      BY DEF Texts
    <2>2. ftp.owes /\ wire' = wire \o Line("1,1", 0) /\ ftp' = [ftp EXCEPT !.owes = FALSE]
          /\ UNCHANGED <<reader, clean>>
      BY <1>5 DEF ChipMore
    <2>3. \A i \in 1 .. Len(wire) : ~Counts(wire[i])
      BY <2>2 DEF SessionInv, OneRequest, Answered
    <2>4. ASSUME NEW text \in Texts, text # "2", wire' = wire \o Line(text, 0)
          PROVE  /\ wire' \in Seq(Pieces)
                 /\ \A i \in 1 .. Len(wire') : Counts(wire'[i]) => i = Len(wire) + 3 /\ wire'[i].n = 0
      <3> DEFINE r == [kind |-> "lf", text |-> text, n |-> 0]
      <3>1. 0 \in 0 .. FileSize
        BY ZeroInFile
      <3>2. r.n = 0
        OBVIOUS
      <3>3. /\ wire' \in Seq(Pieces)
            /\ \A i \in 1 .. Len(wire') : Counts(wire'[i]) => i = Len(wire) + 3 /\ wire'[i] = r
        BY <1>1, <2>3, <2>4, <3>1, LineCounts
      <3> HIDE DEF r
      <3> QED BY <3>2, <3>3
    <2>5. /\ wire' \in Seq(Pieces)
          /\ \A i \in 1 .. Len(wire') : Counts(wire'[i]) => i = Len(wire) + 3 /\ wire'[i].n = 0
      BY <2>1, <2>2, <2>4
    <2>6. ftp' \in FtpType /\ ftp'.pos = ftp.pos /\ ftp'.ask = ftp.ask /\ ftp'.owes = FALSE
      BY <1>1, <1>2, <2>2 DEF FtpType
    <2> QED BY <1>1, <2>2, <2>5, <2>6 DEF ChipTellsMore
  <1>6. ASSUME NEW text \in Texts, text # "2", text # "1,1",
               wire' = wire \o Line(text, 0), ftp' = [ftp EXCEPT !.open = FALSE]
        PROVE  wire' \in Seq(Pieces) /\ ftp' \in FtpType /\ ChipTellsNothing
    <2>1. /\ wire' \in Seq(Pieces)
          /\ \A i \in 1 .. Len(wire') : Counts(wire'[i]) => i \in 1 .. Len(wire) /\ wire'[i] = wire[i]
      BY <1>1, <1>6, OtherLines
    <2>2. ftp' \in FtpType /\ ftp'.pos = ftp.pos /\ ftp'.ask = ftp.ask /\ ftp'.owes = ftp.owes
      BY <1>1, <1>2, <1>6 DEF FtpType
    <2> QED BY <2>1, <2>2 DEF ChipTellsNothing
  <1>7. CASE ChipEnd
    <2>1. "1,0" \in Texts /\ "1,0" # "2" /\ "1,0" # "1,1"
      BY DEF Texts
    <2> QED BY <1>1, <1>6, <1>7, <2>1 DEF ChipEnd
  <1>8. CASE ChipFail
    <2>1. "1,6x" \in Texts /\ "1,6x" # "2" /\ "1,6x" # "1,1"
      BY DEF Texts
    <2> QED BY <1>1, <1>6, <1>8, <2>1 DEF ChipFail
  <1> QED BY <1>3, <1>4, <1>5, <1>7, <1>8 DEF Chip

\* What AppendByte does to the reader: it takes a byte of the data, or a piece of
\* a line that leaves the data alone, or one that makes it ask again, or the
\* header of an answer.
TakesData ==
    /\ reader.received_command /\ ftp' = ftp
    /\ reader'.pointer = reader.pointer + 1 /\ reader'.from = reader.from
    /\ reader'.received_command = (reader.pointer + 1 # reader.from)

TakesText ==
    /\ ftp' = ftp
    /\ reader'.pointer = reader.pointer /\ reader'.from = reader.from
    /\ reader'.received_command = reader.received_command
    /\ reader'.requested = reader.requested

AsksAgain ==
    /\ Counts(wire[1]) /\ ftp' = [ftp EXCEPT !.ask = reader.need]
    /\ reader'.pointer = reader.pointer /\ reader'.from = reader.from
    /\ reader'.received_command = reader.received_command
    /\ reader'.requested = reader.requested

TakesHeader ==
    /\ wire[1].kind = "lf" /\ wire[1].text = "2" /\ ftp' = ftp
    /\ ~reader.received_command
    /\ reader'.pointer = reader.pointer /\ reader'.from = wire[1].n
    /\ reader'.received_command = (wire[1].n > 0)
    /\ reader'.requested = reader.requested

\* The interrupt takes one piece: data, text, an announcement of more data or
\* the header of an answer.
LEMMA AppendByteEffect ==
  ASSUME SessionInv, AppendByte
  PROVE  /\ wire # <<>> /\ wire' = Tail(wire) /\ clean' = clean
         /\ reader' \in ReaderType /\ ftp' \in FtpType
         /\ TakesData \/ TakesText \/ AsksAgain \/ TakesHeader
  <1>1. /\ wire \in Seq(Pieces) /\ wire # <<>> /\ reader \in ReaderType /\ ftp \in FtpType
        /\ wire' = Tail(wire) /\ clean' = clean
    BY DEF SessionInv, LoaderTypes, AppendByte
  <1>2. wire[1] \in Pieces /\ Head(wire) = wire[1]
    BY <1>1
  <1> DEFINE piece == wire[1]
  <1>3. /\ piece.n \in 0 .. FileSize /\ piece.text \in Texts
        /\ piece.text = "2" => piece.n <= Buf
    BY <1>2 DEF Pieces
  <1>4. reader.received_command => reader.pointer < reader.from
    BY DEF SessionInv, OneRequest, DataCanEnd
  <1>5. Buf \in Nat \ {0} /\ Word \in Nat /\ FileSize \in Nat /\ Word <= Buf
    BY Parameters, Sizes
  <1> HIDE DEF piece
  <1>6. CASE reader.received_command
    <2>1. AppendData(piece) /\ ftp' = ftp
      BY <1>2, <1>6 DEF AppendByte, piece
    <2>2. reader.pointer + 1 \in 1 .. Buf
      BY <1>1, <1>4, <1>5, <1>6 DEF ReaderType
    <2>3. piece.n \in Values /\ Junk \in Values
      BY <1>3, <1>5 DEF Values, Junk, Nil
    <2> DEFINE full == reader.pointer + 1 = reader.from
               v    == IF piece.kind = "data" THEN piece.n ELSE Junk
    <2>4. v \in Values
      BY <2>3
    <2>5. reader' = [reader EXCEPT
            !.buffer = IF reader.pointer < Buf
                       THEN [@ EXCEPT ![reader.pointer + 1] = v] ELSE @,
            !.pointer = @ + 1,
            !.received_command = ~full,
            !.cmd = IF full THEN "empty" ELSE @,
            !.requested = @ \/ full]
      BY <2>1 DEF AppendData
    <2> DEFINE b == IF reader.pointer < Buf
                    THEN [reader.buffer EXCEPT ![reader.pointer + 1] = v] ELSE reader.buffer
    <2>6. b \in [1 .. Buf -> Values]
      <3> HIDE DEF v
      <3>1. reader.buffer \in [1 .. Buf -> Values]
        BY <1>1 DEF ReaderType
      <3> QED BY <3>1, <2>4, <2>2
    <2> HIDE DEF v
    <2>7. reader' = [received_command |-> ~full, need |-> reader.need, from |-> reader.from,
                     cmd |-> IF full THEN "empty" ELSE reader.cmd,
                     pointer |-> reader.pointer + 1, buffer |-> b,
                     requested |-> (reader.requested \/ full), eof |-> reader.eof]
      BY <1>1, <2>5 DEF ReaderType
    <2> HIDE DEF b
    <2>8. /\ reader.need \in {0, Word, Buf} /\ reader.from \in 0 .. Buf /\ reader.eof \in BOOLEAN
          /\ (IF full THEN "empty" ELSE reader.cmd) \in {"empty", "begun", "whole", "torn", "ended"}
          /\ reader.pointer + 1 \in 0 .. Buf
      BY <1>1, <2>2 DEF ReaderType
    <2>9. reader' \in ReaderType
      BY <2>6, <2>7, <2>8 DEF ReaderType
    <2>10. TakesData
      BY <1>6, <2>1, <2>7 DEF TakesData
    <2> QED BY <1>1, <2>1, <2>9, <2>10
  <1>7. CASE ~reader.received_command /\ piece.kind = "lf"
    <2>1. AppendLF(piece)
      BY <1>2, <1>7 DEF AppendByte, piece
    <2> DEFINE text == Parsed(piece)
    <2>2. CASE reader.cmd = "empty"
      <3>1. UNCHANGED <<reader, ftp>>
        BY <2>1, <2>2 DEF AppendLF
      <3> QED BY <1>1, <3>1 DEF TakesText
    <2>3. CASE reader.cmd # "empty" /\ text = "1,1"
      <3>1. reader' = [reader EXCEPT !.cmd = "empty"] /\ ftp' = [ftp EXCEPT !.ask = reader.need]
        BY <2>1, <2>3 DEF AppendLF, Request
      <3>2. reader.need \in 0 .. Buf
        BY <1>1, <1>5 DEF ReaderType
      <3>3. reader' \in ReaderType /\ ftp' \in FtpType
        BY <1>1, <3>1, <3>2 DEF ReaderType, FtpType
      <3>4. piece.text = "1,1"
        BY <2>3 DEF Parsed
      <3>5. Counts(wire[1])
        BY <1>7, <3>4 DEF Counts, piece
      <3>6. /\ reader'.pointer = reader.pointer /\ reader'.from = reader.from
            /\ reader'.received_command = reader.received_command
            /\ reader'.requested = reader.requested
        BY <1>1, <3>1 DEF ReaderType
      <3> QED BY <1>1, <3>1, <3>3, <3>5, <3>6 DEF AsksAgain
    <2>4. CASE reader.cmd # "empty" /\ text \in {"1,0", "1,6x"}
      <3>1. reader' = [reader EXCEPT !.cmd = "ended", !.eof = TRUE] /\ ftp' = ftp
        BY <2>1, <2>4 DEF AppendLF
      <3>2. /\ reader' \in ReaderType
            /\ reader'.pointer = reader.pointer /\ reader'.from = reader.from
            /\ reader'.received_command = reader.received_command
            /\ reader'.requested = reader.requested
        BY <1>1, <3>1 DEF ReaderType
      <3> QED BY <1>1, <3>1, <3>2 DEF TakesText
    <2>5. CASE reader.cmd # "empty" /\ text = "2"
      <3>1. /\ reader' = [reader EXCEPT
                        !.from = piece.n,
                        !.received_command = piece.n > 0,
                        !.cmd = IF piece.n > 0 THEN @ ELSE "empty"]
            /\ ftp' = ftp
        BY <2>1, <2>5 DEF AppendLF
      <3>2. piece.text = "2"
        BY <2>5 DEF Parsed
      <3>3. piece.n \in 0 .. Buf /\ (piece.n > 0) \in BOOLEAN
        BY <1>3, <1>5, <3>2
      <3>4. /\ reader' \in ReaderType
            /\ reader'.pointer = reader.pointer /\ reader'.from = piece.n
            /\ reader'.received_command = (piece.n > 0)
            /\ reader'.requested = reader.requested
        BY <1>1, <3>1, <3>3 DEF ReaderType
      <3> QED BY <1>1, <1>7, <3>1, <3>2, <3>4 DEF TakesHeader, piece
    <2>6. CASE reader.cmd # "empty" /\ text \notin {"1,1", "1,0", "1,6x", "2"}
      <3>1. reader' = [reader EXCEPT !.cmd = "empty"] /\ ftp' = ftp
        BY <2>1, <2>6 DEF AppendLF
      <3>2. /\ reader' \in ReaderType
            /\ reader'.pointer = reader.pointer /\ reader'.from = reader.from
            /\ reader'.received_command = reader.received_command
            /\ reader'.requested = reader.requested
        BY <1>1, <3>1 DEF ReaderType
      <3> QED BY <1>1, <3>1, <3>2 DEF TakesText
    <2> QED BY <2>2, <2>3, <2>4, <2>5, <2>6
  <1>8. CASE ~reader.received_command /\ piece.kind # "lf"
    <2>1. AppendChar(piece) /\ ftp' = ftp
      BY <1>2, <1>8 DEF AppendByte, piece
    <2> DEFINE c == CASE reader.cmd = "ended"                              -> "ended"
                      [] reader.cmd = "empty" /\ piece.kind = "head"       -> "begun"
                      [] reader.cmd = "begun" /\ piece.kind = "tail"       -> "whole"
                      [] OTHER                                             -> "torn"
    <2>2. reader' = [reader EXCEPT !.cmd = c]
      BY <2>1 DEF AppendChar
    <2>3. c \in {"empty", "begun", "whole", "torn", "ended"}
      OBVIOUS
    <2> HIDE DEF c
    <2>4. /\ reader' \in ReaderType
          /\ reader'.pointer = reader.pointer /\ reader'.from = reader.from
          /\ reader'.received_command = reader.received_command
          /\ reader'.requested = reader.requested
      BY <1>1, <2>2, <2>3 DEF ReaderType
    <2> QED BY <1>1, <2>1, <2>4 DEF TakesText
  <1> QED BY <1>6, <1>7, <1>8

-----------------------------------------------------------------------------
(* The types.                                                              *)

\* What the resets write is in range.
LEMMA ConstantTypes ==
  /\ NoPrepare \in [start : {ADDR_APPLICATION, ADDR_STORAGE}, left : 0 .. NumPages]
  /\ NoPrepare.left = 0
  /\ ProgReset \in ProgType /\ <<>> \in Seq(Values)
  /\ ReaderInitial \in ReaderType
  /\ <<>> \in Seq(Pieces) /\ NoSession \in FtpType
  <1>1. NumPages \in Nat /\ Buf \in Nat /\ FileSize \in Nat /\ Word \in Nat
    BY Parameters, Sizes
  <1>2. /\ NoPrepare \in [start : {ADDR_APPLICATION, ADDR_STORAGE}, left : 0 .. NumPages]
        /\ NoPrepare.left = 0
    BY <1>1 DEF NoPrepare, ADDR_APPLICATION
  <1>3. ProgReset \in ProgType
    BY DEF ProgReset, ProgType
  <1>4. [i \in 1 .. Buf |-> Nil] \in [1 .. Buf -> Values]
    BY <1>1 DEF Nil, Values
  <1>5. ReaderInitial \in ReaderType
    BY <1>1, <1>4 DEF ReaderInitial, ReaderType
  <1>6. NoSession \in FtpType
    BY <1>1 DEF NoSession, FtpType
  <1> QED BY <1>2, <1>3, <1>5, <1>6

\* A copy is under way.
LEMMA CopyFields ==
  ASSUME LoaderTypes, copy # NoCopy
  PROVE  copy \in [size : Nat, done : Nat]
  BY DEF LoaderTypes

\* A copy begins, of no byte perhaps.
LEMMA CopyBegins ==
  ASSUME LoaderTypes, copy' = [size |-> prog.written, done |-> 0]
  PROVE  /\ copy' \in [size : Nat, done : Nat] /\ copy' # NoCopy
         /\ copy'.size = prog.written /\ copy'.done = 0
  <1>1. prog.written \in Nat
    BY DEF LoaderTypes, ProgType
  <1>2. copy'.size = prog.written /\ copy'.done = 0 /\ NoCopy.size = -1
    BY DEF NoCopy
  <1> QED BY <1>1, <1>2

\* The variables begin in their ranges.
LEMMA InitTypes == Init => LoaderTypes
  <1> SUFFICES ASSUME Init PROVE LoaderTypes
    OBVIOUS
  <1>1. FileSize \in Nat /\ MaxFaults \in Nat /\ MaxSessions \in Nat
    BY Parameters, Sizes
  <1>2. {Erased, Old, Boot} \subseteq Values
    BY <1>1 DEF Values, Nil, Erased, Old, Boot
  <1>3. rom \in [ROM -> Values]
    BY <1>2 DEF Init, ProgInit
  <1>4. "START" \in SimStates /\ "IDLE" \in UpdStates
    BY DEF SimStates, UpdStates
  <1>5. faults \in 0 .. MaxFaults /\ sessions \in 0 .. MaxSessions
    BY <1>1 DEF Init, ProgInit
  <1>6. /\ page \in [start : {ADDR_APPLICATION, ADDR_STORAGE}, left : 0 .. NumPages]
        /\ prog \in ProgType /\ out \in Seq(Values)
    BY ConstantTypes DEF Init, ProgInit
  <1>7. reader \in ReaderType /\ wire \in Seq(Pieces) /\ ftp \in FtpType /\ clean \in BOOLEAN
    BY ConstantTypes DEF Init, ReaderInit
  <1>8. /\ mode \in {"loader", "application", "stone"} /\ sim \in SimStates /\ upd \in UpdStates
        /\ late \in BOOLEAN /\ copy = NoCopy
    BY <1>4, ConstantTypes DEF Init, LoaderInit
  <1> QED BY <1>3, <1>5, <1>6, <1>7, <1>8 DEF LoaderTypes

\* WriteBytes of what the reader received.
LEMMA TypesWrite ==
  ASSUME SessionInv, WriteBytes(Received), page' = page, rom' = rom
  PROVE  out' \in Seq(Values) /\ prog' \in ProgType
  <1>1. prog \in ProgType /\ LoaderTypes
    BY DEF SessionInv, LoaderTypes
  <1>2. Received \in Seq(Values)
    BY <1>1, ReceivedBytes
  <1> QED BY <1>1, <1>2, WriteBytesEffect

\* No step takes a variable out of its range.
LEMMA NextTypes ==
  ASSUME SessionInv, [Next]_vars
  PROVE  LoaderTypes'
  <1> USE DEF LoaderTypes
  <1>0. LoaderTypes
    BY DEF SessionInv
  <1>1. CASE ResetStep
    <2>1. "START" \in SimStates /\ "IDLE" \in UpdStates
      BY DEF SimStates, UpdStates
    <2> QED BY <1>0, <1>1, <2>1, ConstantTypes DEF ResetStep, Reset, AtRest
  <1>2. CASE QuietStep
    BY <1>0, <1>2 DEF QuietStep, progVars, readerVars
  <1>3. CASE RestartStep
    <2>1. "START" \in SimStates /\ "IDLE" \in UpdStates
      BY DEF SimStates, UpdStates
    <2> QED BY <1>0, <1>3, <2>1, ConstantTypes DEF RestartStep, Restarted
  <1>4. CASE UNCHANGED vars
    BY <1>0, <1>4 DEF vars, progVars, readerVars, mainVars
  <1>5. CASE Connected
    <2>1. PICK pos \in Positions :
            /\ ftp' = [open |-> TRUE, pos |-> pos, ask |-> 0, owes |-> FALSE]
            /\ clean' = (pos = 0)
      BY <1>5 DEF Connected
    <2>2. pos \in 0 .. FileSize /\ 0 \in 0 .. Buf
      BY LoaderAssumption, Parameters
    <2>3. ftp' \in FtpType /\ clean' \in BOOLEAN
      BY <2>1, <2>2 DEF FtpType
    <2>4. sessions' \in 0 .. MaxSessions
      BY <1>0, <1>5, Parameters DEF Connected
    <2>5. "GET_BYTES_VER" \in UpdStates
      BY DEF UpdStates, Receiving
    <2> QED BY <1>0, <1>5, <2>3, <2>4, <2>5 DEF Connected, progVars
  <1>6. CASE GetVersion
    <2>1. "GET_BYTES_CRC" \in UpdStates
      BY DEF UpdStates, Receiving
    <2> QED BY <1>0, <1>6, <2>1 DEF GetVersion, progVars, readerVars
  <1>7. CASE GetCRC
    <2>1. page' \in [start : {ADDR_APPLICATION, ADDR_STORAGE}, left : 0 .. NumPages]
      BY <1>7, Parameters DEF GetCRC, Prepare
    <2> QED BY <1>0, <1>7, <2>1 DEF GetCRC, readerVars
  <1>8. CASE GetLastBytes
    BY <1>0, <1>8, TypesWrite DEF GetLastBytes, readerVars
  <1>9. CASE TestRequested
    BY <1>0, <1>9 DEF TestRequested, progVars, readerVars
  <1>10. CASE GetBytes
    BY <1>0, <1>10, TypesWrite DEF GetBytes, readerVars
  <1>11. CASE MeterReset
    BY <1>0, <1>11 DEF MeterReset, progVars, readerVars
  <1>12. CASE SetState
    <2>1. "GET_BYTES_FIRMWARE" \in UpdStates
      BY DEF UpdStates, Receiving
    <2> QED BY <1>0, <1>12, <2>1 DEF SetState, progVars, readerVars
  <1>13. CASE RequestStep
    <2>1. reader' = [reader EXCEPT !.need = IF upd = "GET_BYTES_FIRMWARE" THEN Buf ELSE Word]
      BY <1>13 DEF RequestStep
    <2>2. reader' \in ReaderType
      BY <1>0, <2>1 DEF ReaderType
    <2> QED BY <1>0, <1>13, <2>2 DEF RequestStep, progVars
  <1>14. CASE TransmitStep
    <2>1. reader.need \in 0 .. Buf
      BY <1>0, Sizes, Parameters DEF ReaderType
    <2>2. ftp' = [ftp EXCEPT !.ask = reader.need]
      BY <1>14 DEF TransmitStep, Request
    <2>3. ftp' \in FtpType
      BY <1>0, <2>1, <2>2 DEF FtpType
    <2> QED BY <1>0, <1>14, <2>3 DEF TransmitStep, progVars
  <1>15. ASSUME NEW name, ClearStep(name), reader' \in ReaderType
         PROVE  LoaderTypes'
    BY <1>0, <1>15 DEF ClearStep, progVars
  <1>16. CASE ClearStep("pointer_command")
    <2>1. reader' = [reader EXCEPT !.cmd = "empty"]
      BY <1>16 DEF ClearStep, Cleared
    <2>2. reader' \in ReaderType
      BY <1>0, <2>1 DEF ReaderType
    <2> QED BY <1>15, <1>16, <2>2
  <1>17. CASE ClearStep("received_command")
    <2>1. reader' = [reader EXCEPT !.received_command = FALSE]
      BY <1>17 DEF ClearStep, Cleared
    <2>2. reader' \in ReaderType
      BY <1>0, <2>1 DEF ReaderType
    <2> QED BY <1>15, <1>17, <2>2
  <1>18. CASE ClearStep("pointer_data")
    <2>1. reader' = [reader EXCEPT !.pointer = 0]
      BY <1>18 DEF ClearStep, Cleared
    <2>2. 0 \in 0 .. Buf
      BY Parameters
    <2>3. reader' \in ReaderType
      BY <1>0, <2>1, <2>2 DEF ReaderType
    <2> QED BY <1>15, <1>18, <2>3
  <1>19. CASE ClearStep("need_bytes")
    <2>1. reader' = [reader EXCEPT !.need = 0]
      BY <1>19 DEF ClearStep, Cleared
    <2>2. reader' \in ReaderType
      BY <1>0, <2>1 DEF ReaderType
    <2> QED BY <1>15, <1>19, <2>2
  <1>20. CASE ClearStep("requested")
    <2>1. reader' = [reader EXCEPT !.requested = FALSE]
      BY <1>20 DEF ClearStep, Cleared
    <2>2. reader' \in ReaderType
      BY <1>0, <2>1 DEF ReaderType
    <2> QED BY <1>15, <1>20, <2>2
  <1>21. CASE ClearEOF
    <2>1. reader' = [reader EXCEPT !.eof = FALSE]
      BY <1>21 DEF ClearEOF
    <2>2. reader' \in ReaderType
      BY <1>0, <2>1 DEF ReaderType
    <2> QED BY <1>0, <1>21, <2>2 DEF ClearEOF, progVars
  <1>22. CASE CloseStep
    <2>1. prog.bytes \in Seq(Values) /\ Len(prog.bytes) < Word
      BY <1>0 DEF ProgType, SessionInv, Lengths, Words
    <2>2. out' \in Seq(Values) /\ prog' = prog
      BY <1>22, <2>1, CloseSessionEffect DEF CloseStep
    <2> QED BY <1>0, <1>22, <2>2 DEF CloseStep, readerVars
  <1>23. ASSUME Prepare(ADDR_APPLICATION), copy' = [size |-> prog.written, done |-> 0]
         PROVE  /\ page' \in [start : {ADDR_APPLICATION, ADDR_STORAGE}, left : 0 .. NumPages]
                /\ copy' \in [size : Nat, done : Nat]
    BY <1>0, <1>23, CopyBegins, Parameters DEF Prepare
  <1>24. CASE VerifyStored
    BY <1>0, <1>23, <1>24 DEF VerifyStored, readerVars
  <1>25. CASE CopyChunk
    <2> DEFINE n == Min({Buf, copy.size - copy.done})
    <2>1. /\ WriteBytes(Read(ADDR_STORAGE + copy.done, n)) /\ copy.done < copy.size
          /\ copy' = [copy EXCEPT !.done = @ + n]
          /\ copy # NoCopy
      BY <1>25 DEF CopyChunk, Copying
    <2>2. /\ copy \in [size : Nat, done : Nat] /\ copy.size <= Limit
          /\ ADDR_STORAGE \in Nat /\ ADDR_BOOTLOADER = 2 * ADDR_STORAGE /\ Buf \in Nat
          /\ Word \in Nat
      BY <1>0, <2>1, CopyFields, Sizes, Parameters DEF SessionInv, Lengths, Words
    <2>3. n \in Nat /\ n <= copy.size - copy.done
      BY <2>1, <2>2, Lesser
    <2> HIDE DEF n
    <2>4. /\ ADDR_STORAGE + copy.done \in Nat
          /\ ADDR_STORAGE + copy.done + n <= ADDR_BOOTLOADER + 2 * Word
      BY <2>2, <2>3 DEF Limit
    <2>5. Read(ADDR_STORAGE + copy.done, n) \in Seq(Values)
      BY <1>0, <2>3, <2>4, ReadBytes
    <2>6. out' \in Seq(Values) /\ prog' \in ProgType
      BY <1>0, <2>1, <2>5, WriteBytesEffect
    <2>7. copy' \in [size : Nat, done : Nat]
      BY <2>1, <2>2, <2>3
    <2> QED BY <1>0, <1>25, <2>6, <2>7 DEF CopyChunk, readerVars
  <1>26. CASE VerifyCopy
    <2>1. "COMPLETED" \in UpdStates
      BY DEF UpdStates
    <2> QED BY <1>0, <1>23, <1>26, <2>1, ConstantTypes DEF VerifyCopy, readerVars
  <1>27. CASE PrepareStep
    <2>1. page.left \in 0 .. NumPages /\ page.left > 0 /\ NumPages \in Nat
      BY <1>0, <1>27, Parameters DEF PrepareStep, PreparePage, Preparing
    <2>2. page' = IF page.left = 1 THEN NoPrepare ELSE [page EXCEPT !.left = @ - 1]
      BY <1>27 DEF PrepareStep, PreparePage
    <2>3. page.left - 1 \in 0 .. NumPages
      BY <2>1
    <2>4. page' \in [start : {ADDR_APPLICATION, ADDR_STORAGE}, left : 0 .. NumPages]
      BY <1>0, <2>2, <2>3, ConstantTypes
    <2>5. [address |-> page.start, written |-> 0, bytes |-> <<>>] \in ProgType
      <3>1. page.start \in Nat
        BY <1>0, Sizes DEF ADDR_APPLICATION
      <3> QED BY <3>1 DEF ProgType
    <2>6. prog' \in ProgType
      BY <1>0, <1>27, <2>5 DEF PrepareStep, PreparePage
    <2>7. rom' \in [ROM -> Values]
      <3>1. Erased \in Values
        BY ZeroInFile DEF Erased
      <3> QED BY <1>0, <1>27, <3>1 DEF PrepareStep, PreparePage, ErasePage
    <2> QED BY <1>0, <1>27, <2>4, <2>6, <2>7 DEF PrepareStep, PreparePage, readerVars, mainVars
  <1>28. CASE WordStep
    <2>1. PICK works \in BOOLEAN : /\ ProgramWord(works)
                                   /\ ~works => faults < MaxFaults
                                   /\ clean' \in {clean, FALSE}
      BY <1>28 DEF WordStep
    <2>2. IsMultiple(Len(out))
      BY DEF SessionInv, Lengths, Words
    <2>3. /\ rom' \in [ROM -> Values] /\ out' \in Seq(Values) /\ prog' \in ProgType /\ page' = page
          /\ faults' = IF works THEN faults ELSE faults + 1
      BY <1>0, <2>1, <2>2, ProgramWordEffect
    <2>4. faults' \in 0 .. MaxFaults
      BY <1>0, <2>1, <2>3, Parameters
    <2>5. clean' \in BOOLEAN
      BY <1>0, <2>1
    <2> QED BY <1>0, <1>28, <2>3, <2>4, <2>5 DEF WordStep, mainVars
  <1>29. CASE Interrupt
    <2>1. /\ wire # <<>> /\ wire' = Tail(wire) /\ clean' = clean
          /\ reader' \in ReaderType /\ ftp' \in FtpType
      BY <1>29, AppendByteEffect DEF Interrupt
    <2>2. wire' \in Seq(Pieces)
      BY <1>0, <2>1
    <2> QED BY <1>0, <1>29, <2>1, <2>2 DEF Interrupt, progVars, mainVars
  <1>30. CASE ChipStep
    <2>1. wire' \in Seq(Pieces) /\ ftp' \in FtpType /\ clean' \in BOOLEAN /\ reader' = reader
      BY <1>30, ChipEffect DEF ChipStep
    <2> QED BY <1>0, <1>30, <2>1 DEF ChipStep, progVars, mainVars
  <1> HIDE DEF LoaderTypes
  <1> QED BY <1>1, <1>2, <1>3, <1>4, <1>5, <1>6, <1>7, <1>8, <1>9, <1>10, <1>11, <1>12,
             <1>13, <1>14, <1>16, <1>17, <1>18, <1>19, <1>20, <1>21, <1>22, <1>24, <1>25,
             <1>26, <1>27, <1>28, <1>29, <1>30, StepCases

-----------------------------------------------------------------------------
(* Where the main loop is.                                                 *)

\* The main loop begins between two updates.
LEMMA InitControl == Init => Control
  <1> SUFFICES ASSUME Init PROVE Control
    OBVIOUS
  <1>1. todo = <<>> /\ upd = "IDLE" /\ copy = NoCopy /\ out = <<>> /\ page.left = 0
    BY ConstantTypes DEF Init, LoaderInit, ProgInit
  <1>2. Stage = 14 /\ Ordered(todo)
    BY <1>1, ListsOrdered DEF Stage, Idle
  <1> QED BY <1>1, <1>2 DEF Control, Preparing, Writing

\* At the end of a copy nothing is kept for a next word.
LEMMA CopyIsWhole ==
  ASSUME SessionInv, copy # NoCopy, copy.done = copy.size, ~Preparing, ~Writing
  PROVE  prog.written = copy.size
  <1>1. /\ IsMultiple(copy.size) /\ IsMultiple(prog.written)
        /\ Stored = copy.size /\ Len(prog.bytes) < Word
    BY DEF SessionInv, Lengths, Words
  <1>2. /\ prog.written \in Nat /\ Len(prog.bytes) \in Nat /\ Len(out) = 0
        /\ copy.size \in Nat /\ Word \in Nat
    BY CopyFields, Parameters DEF SessionInv, LoaderTypes, ProgType, Writing
  <1>3. prog.written + Len(prog.bytes) = copy.size
    BY <1>1, <1>2 DEF Stored
  <1>4. prog.written < copy.size => prog.written + Word <= copy.size
    BY <1>1, <1>2, Multiples
  <1> QED BY <1>1, <1>2, <1>3, <1>4

\* Nothing is under way after the step.
LEMMA RestControl ==
  ASSUME todo' = <<>>, page'.left = 0, out' = <<>>, copy' = NoCopy,
         upd' # "IDLE" => sim' = "RUNNING_UPDATER" /\ mode' = "loader"
  PROVE  Control'
  <1>1. Stage' = 14 /\ Ordered(todo')
    BY ListsOrdered DEF Stage, Idle
  <1> QED BY <1>1 DEF Control, Preparing, Writing

\* A list of statements is begun.
LEMMA BeginControl ==
  ASSUME SessionInv, AtRest, sim = "RUNNING_UPDATER", UNCHANGED <<sim, mode, copy>>,
         Ordered(todo'), upd' \in Receiving, page' = page,
         todo' # <<>> => todo'[1] # "SetState",
         Stage' \in 10 .. 13 \/ out' # <<>> => upd' = "GET_BYTES_FIRMWARE"
  PROVE  Control'
  <1>1. ~Preparing' /\ copy' = NoCopy /\ mode' = "loader" /\ sim' = "RUNNING_UPDATER"
    BY DEF AtRest, Preparing
  <1> QED BY <1>1 DEF Control, Writing

\* The next statement of a list is executed.
LEMMA ExecuteControl ==
  ASSUME SessionInv, NEW name, Executes(name),
         UNCHANGED <<sim, mode, copy, page>>,
         upd' = upd \/ (upd' = "GET_BYTES_FIRMWARE" /\ name = "SetState"),
         out' = out \/ upd' = "GET_BYTES_FIRMWARE"
  PROVE  Control'
  <1>1. /\ Ordered(todo) /\ todo # <<>> /\ upd \in Receiving
        /\ upd # "IDLE" => sim = "RUNNING_UPDATER" /\ mode = "loader"
        /\ Stage \in 10 .. 13 => upd = "GET_BYTES_FIRMWARE"
    BY DEF SessionInv, Control, Executes
  <1>2. ~Preparing' /\ copy' = NoCopy /\ ~Writing
    BY DEF Executes, Preparing
  <1>3. Stage \in 0 .. 13 /\ Stage \notin {9, 11}
    BY <1>1, TailOrdered DEF Stage
  <1>4. Stage' \in 10 .. 13 => Stage \in 10 .. 13
    BY <1>3 DEF Executes, Idle
  <1>5. name = "SetState" => Stage = 0
    BY PlaceValues DEF Executes
  <1>6. todo' # <<>> => todo'[1] # "SetState"
    BY DEF Executes
  <1>7. upd' \in Receiving /\ upd' # "IDLE" /\ upd # "IDLE"
    BY <1>1 DEF Receiving
  <1>8. Writing' => upd' = "GET_BYTES_FIRMWARE"
    BY <1>2 DEF Writing
  <1>9. Stage' \in 10 .. 13 => upd' = "GET_BYTES_FIRMWARE"
    BY <1>1, <1>4, <1>5
  <1>10. Ordered(todo')
    BY DEF Executes
  <1> QED BY <1>1, <1>2, <1>6, <1>7, <1>8, <1>9, <1>10 DEF Control

\* Nothing that Control is about changes.
LEMMA SameControl ==
  ASSUME SessionInv, UNCHANGED <<page, out, mode, sim, upd, todo, copy>>
  PROVE  Control'
  BY DEF SessionInv, Control, Stage, Preparing, Writing

\* No step, the interrupt and the chip included, takes the main loop out of
\* the places Control allows.
LEMMA NextControl ==
  ASSUME SessionInv, [Next]_vars
  PROVE  Control'
  <1>0. LoaderTypes /\ Control
    BY DEF SessionInv
  <1>1. CASE ResetStep
    <2>1. page'.left = 0
      BY <1>0, <1>1 DEF ResetStep, Reset, LoaderTypes, Preparing
    <2> QED BY <1>1, <2>1, RestControl DEF ResetStep, Reset, AtRest, Writing
  <1>2. CASE QuietStep
    <2>1. page'.left = 0
      BY <1>0, <1>2 DEF QuietStep, AtRest, LoaderTypes, Preparing, progVars
    <2>2. out' = <<>> /\ todo' = <<>> /\ copy' = NoCopy /\ mode' = "loader"
      BY <1>2 DEF QuietStep, AtRest, Writing, progVars
    <2> QED BY <1>2, <2>1, <2>2, RestControl DEF QuietStep
  <1>3. CASE RestartStep
    BY <1>3, RestControl, ConstantTypes DEF RestartStep, Restarted
  <1>4. CASE UNCHANGED vars
    BY <1>4, SameControl DEF vars, progVars, readerVars, mainVars
  <1>5. CASE Connected
    <2>1. /\ AtRest /\ sim = "RUNNING_UPDATER" /\ UNCHANGED <<sim, mode, copy, page, out>>
          /\ todo' = ReceiveBytes /\ upd' = "GET_BYTES_VER" /\ out' = <<>>
      BY <1>5 DEF Connected, AtUpdate, AtRest, progVars, Writing
    <2>2. Ordered(todo') /\ Stage' = 1 /\ todo'[1] # "SetState"
      BY <2>1, ListsOrdered, ReceiveBytesOrdered DEF Stage
    <2>3. upd' \in Receiving
      BY <2>1 DEF Receiving
    <2> QED BY <2>1, <2>2, <2>3, BeginControl
  <1>6. CASE GetVersion
    <2>1. /\ AtRest /\ UNCHANGED <<sim, mode, copy, page, out>>
          /\ todo' = ReceiveBytes /\ upd' = "GET_BYTES_CRC" /\ out' = <<>>
          /\ upd = "GET_BYTES_VER"
      BY <1>6 DEF GetVersion, AtUpdate, AtRest, progVars, Writing
    <2>2. Ordered(todo') /\ Stage' = 1 /\ todo'[1] # "SetState"
      BY <2>1, ListsOrdered, ReceiveBytesOrdered DEF Stage
    <2>3. upd' \in Receiving /\ sim = "RUNNING_UPDATER"
      BY <1>0, <2>1 DEF Receiving, Control
    <2> QED BY <2>1, <2>2, <2>3, BeginControl
  <1>7. CASE GetCRC
    <2>1. /\ AtRest /\ UNCHANGED <<sim, mode, copy, out, upd>> /\ upd = "GET_BYTES_CRC"
          /\ todo' = <<"SetState">> \o ReceiveBytes \o <<"received_FTPGET_1_0">>
          /\ page' = [start |-> ADDR_STORAGE, left |-> NumPages]
      BY <1>7 DEF GetCRC, AtUpdate, AtRest, Prepare
    <2>2. /\ Ordered(todo') /\ Stage' = 0 /\ todo'[1] = "SetState"
      BY <2>1, ListsOrdered DEF Stage
    <2>3. todo' # <<>>
      BY <2>2 DEF Stage, StageOf, Idle
    <2>4. copy' = NoCopy /\ out' = <<>> /\ page'.start = ADDR_STORAGE
      BY <2>1 DEF AtRest, Writing
    <2>5. upd' \in Receiving /\ sim' = "RUNNING_UPDATER" /\ mode' = "loader"
      BY <1>0, <2>1 DEF Receiving, Control, AtRest
    <2> QED BY <2>1, <2>2, <2>3, <2>4, <2>5 DEF Control, Writing
  <1>8. CASE GetLastBytes
    <2>1. /\ AtRest /\ UNCHANGED <<sim, mode, copy, page, upd>>
          /\ todo' = Verify /\ upd = "GET_BYTES_FIRMWARE"
      BY <1>8 DEF GetLastBytes, AtUpdate, AtRest
    <2>2. Ordered(todo') /\ Stage' = 12 /\ todo'[1] # "SetState"
      BY <2>1, ListsOrdered DEF Stage, Verify
    <2>3. upd' \in Receiving /\ sim = "RUNNING_UPDATER"
      BY <1>0, <2>1 DEF Receiving, Control
    <2> QED BY <2>1, <2>2, <2>3, BeginControl
  <1>9. CASE TestRequested
    <2>1. /\ AtRest /\ UNCHANGED <<sim, mode, copy, page, upd>>
          /\ todo' = <<"requested_bytes_received">> /\ upd = "GET_BYTES_FIRMWARE"
      BY <1>9 DEF TestRequested, AtUpdate, AtRest, progVars
    <2>2. Ordered(todo') /\ Stage' = 10 /\ todo'[1] # "SetState"
      BY <2>1, ListsOrdered DEF Stage
    <2>3. upd' \in Receiving /\ sim = "RUNNING_UPDATER"
      BY <1>0, <2>1 DEF Receiving, Control
    <2> QED BY <2>1, <2>2, <2>3, BeginControl
  <1>10. CASE GetBytes
    <2>1. /\ UNCHANGED <<sim, mode, copy, page, upd>> /\ ~Preparing /\ ~Writing
          /\ todo # <<>> /\ todo[1] = "requested_bytes_received"
          /\ todo' = <<>> \/ todo' = <<"state_meter">> \o ReceiveBytes
      BY <1>0, <1>10 DEF GetBytes, Control, Ordered
    <2>2. Stage = 10 /\ upd = "GET_BYTES_FIRMWARE" /\ copy = NoCopy
      BY <1>0, <2>1, PlaceValues DEF Stage, StageOf, Control
    <2>3. /\ Ordered(todo') /\ Stage' \in {0, 14}
          /\ todo' # <<>> => todo'[1] # "SetState"
      BY <2>1, ListsOrdered DEF Stage, Idle
    <2>4. upd' \in Receiving /\ sim' = "RUNNING_UPDATER" /\ mode' = "loader"
      BY <1>0, <2>1, <2>2 DEF Receiving, Control
    <2>5. ~Preparing'
      BY <2>1 DEF Preparing
    <2> QED BY <2>1, <2>2, <2>3, <2>4, <2>5 DEF Control
  <1>11. CASE MeterReset
    <2>1. Executes("state_meter")
      BY <1>11, StatementExecutes DEF MeterReset
    <2> QED BY <1>11, <2>1, ExecuteControl DEF MeterReset, progVars
  <1>12. CASE SetState
    <2>1. Executes("SetState")
      BY <1>12, StatementExecutes DEF SetState
    <2> QED BY <1>12, <2>1, ExecuteControl DEF SetState, progVars
  <1>13. CASE RequestStep
    <2>1. Executes("request")
      BY <1>13, StatementExecutes DEF RequestStep
    <2> QED BY <1>13, <2>1, ExecuteControl DEF RequestStep, progVars
  <1>14. CASE TransmitStep
    <2>1. Executes("transmit")
      BY <1>14, StatementExecutes DEF TransmitStep
    <2> QED BY <1>14, <2>1, ExecuteControl DEF TransmitStep, progVars
  <1>15. ASSUME NEW name, ClearStep(name)
         PROVE  Control'
    <2>1. Executes(name)
      BY <1>15, StatementExecutes DEF ClearStep
    <2> QED BY <1>15, <2>1, ExecuteControl DEF ClearStep, progVars
  <1>16. CASE ClearEOF
    <2>1. Executes("received_FTPGET_1_0")
      BY <1>16, StatementExecutes DEF ClearEOF
    <2> QED BY <1>16, <2>1, ExecuteControl DEF ClearEOF, progVars
  <1>17. CASE CloseStep
    <2>1. Executes("CloseSession")
      BY <1>17, StatementExecutes DEF CloseStep
    <2>2. Stage = 12
      BY <2>1, PlaceValues DEF Executes
    <2>3. upd = "GET_BYTES_FIRMWARE"
      BY <1>0, <2>2 DEF Control
    <2> QED BY <1>17, <2>1, <2>3, ExecuteControl DEF CloseStep
  <1>18. ASSUME upd = "GET_BYTES_FIRMWARE", UNCHANGED <<upd, sim, mode, out>>, todo' = <<>>,
                ~Writing, Prepare(ADDR_APPLICATION), copy' # NoCopy, copy'.done = 0
         PROVE  Control'
    <2>1. Stage' = 14 /\ Ordered(todo')
      BY <1>18, ListsOrdered DEF Stage, Idle
    <2>2. sim' = "RUNNING_UPDATER" /\ mode' = "loader" /\ page'.start = ADDR_APPLICATION
      BY <1>0, <1>18 DEF Control, Prepare
    <2> QED BY <1>18, <2>1, <2>2 DEF Control, Writing
  <1>19. CASE VerifyStored
    <2>1. /\ Executes("Verify") /\ Agrees(ADDR_STORAGE, prog.written)
          /\ Prepare(ADDR_APPLICATION) /\ copy' = [size |-> prog.written, done |-> 0]
          /\ UNCHANGED <<upd, sim, mode, out>>
      BY <1>19, StatementExecutes DEF VerifyStored
    <2>2. Stage = 13
      BY <2>1, PlaceValues DEF Executes
    <2>3. todo' = <<>>
      <3>1. ASSUME todo' # <<>> PROVE FALSE
        <4>1. Stage' = 14
          BY <3>1, <2>1, <2>2 DEF Executes
        <4>2. Stage' = Place(todo'[1])
          BY <3>1 DEF Stage, StageOf
        <4> QED BY <4>1, <4>2, PlaceValues
      <3> QED BY <3>1
    <2>5. copy' # NoCopy /\ copy'.done = 0
      BY <1>0, <2>1, CopyBegins
    <2>6. upd = "GET_BYTES_FIRMWARE" /\ ~Writing
      BY <1>0, <2>1, <2>2 DEF Control, Executes
    <2> QED BY <1>18, <2>1, <2>3, <2>5, <2>6
  <1>20. CASE CopyChunk
    <2> DEFINE n == Min({Buf, copy.size - copy.done})
    <2>1. /\ copy # NoCopy /\ ~Preparing /\ ~Writing
          /\ copy' = [copy EXCEPT !.done = @ + n]
          /\ UNCHANGED <<page, mode, sim, upd, todo>>
      BY <1>20 DEF CopyChunk, Copying
    <2>3. upd = "GET_BYTES_FIRMWARE" /\ todo = <<>> /\ Ordered(todo)
      BY <1>0, <2>1 DEF Control
    <2>4. ~Preparing' /\ Stage' = 14
      BY <2>1, <2>3, ListsOrdered DEF Preparing, Stage, Idle
    <2> QED BY <1>0, <2>1, <2>3, <2>4 DEF Control
  <1>21. CASE VerifyCopy
    <2>1. /\ copy # NoCopy /\ copy.done = copy.size /\ ~Preparing /\ ~Writing
          /\ UNCHANGED <<out, mode, sim, todo>>
      BY <1>21 DEF VerifyCopy, Copying
    <2>3. upd = "GET_BYTES_FIRMWARE" /\ todo = <<>> /\ out = <<>>
      BY <1>0, <2>1 DEF Control, Writing
    <2>4. sim = "RUNNING_UPDATER" /\ mode = "loader"
      BY <1>0, <2>3 DEF Control
    <2>5. CASE upd' = "COMPLETED" /\ copy' = NoCopy /\ UNCHANGED page
      <3>1. page'.left = 0
        BY <1>0, <2>1, <2>5 DEF LoaderTypes, Preparing
      <3> QED BY <2>1, <2>3, <2>4, <2>5, <3>1, RestControl
    <2>6. CASE /\ Prepare(ADDR_APPLICATION) /\ copy' = [size |-> prog.written, done |-> 0]
               /\ UNCHANGED upd
      <3>2. copy' # NoCopy /\ copy'.done = 0
        BY <1>0, <2>6, CopyBegins
      <3> QED BY <1>18, <2>1, <2>3, <2>6, <3>2
    <2> QED BY <1>21, <2>5, <2>6 DEF VerifyCopy
  <1>22. CASE PrepareStep
    <2>1. /\ Preparing /\ UNCHANGED <<out, mode, sim, upd, todo, copy>>
          /\ page' = IF page.left = 1 THEN NoPrepare ELSE [page EXCEPT !.left = @ - 1]
      BY <1>22 DEF PrepareStep, PreparePage, mainVars
    <2>2. ~Writing /\ ~Writing'
      BY <1>0, <2>1 DEF Control, Writing
    <2>3. Preparing' => page'.start = page.start
      BY <1>0, <2>1, ConstantTypes DEF Preparing, LoaderTypes
    <2>4. Stage' = Stage
      BY <2>1 DEF Stage
    <2> QED BY <1>0, <2>1, <2>2, <2>3, <2>4 DEF Control
  <1>23. CASE WordStep
    <2>1. Writing /\ UNCHANGED <<page, mode, sim, upd, todo, copy>>
      BY <1>23 DEF WordStep, ProgramWord, mainVars
    <2>2. upd = "GET_BYTES_FIRMWARE" /\ ~Preparing
      BY <1>0, <2>1 DEF Control
    <2>3. Stage' = Stage /\ ~Preparing'
      BY <2>1, <2>2 DEF Stage, Preparing
    <2> QED BY <1>0, <2>1, <2>2, <2>3 DEF Control
  <1>24. CASE Interrupt
    BY <1>24, SameControl DEF Interrupt, progVars, mainVars
  <1>25. CASE ChipStep
    BY <1>25, SameControl DEF ChipStep, progVars, mainVars
  <1> QED BY <1>1, <1>2, <1>3, <1>4, <1>5, <1>6, <1>7, <1>8, <1>9, <1>10, <1>11, <1>12,
             <1>13, <1>14, <1>15, <1>16, <1>17, <1>19, <1>20, <1>21, <1>22, <1>23, <1>24,
             <1>25, StepCases

-----------------------------------------------------------------------------
(* At most one request is outstanding.                                     *)

\* The next statement has a place.
LEMMA StageRange ==
  ASSUME Ordered(todo)
  PROVE  Stage \in 0 .. 14
  <1>1. CASE todo = <<>>
    BY <1>1 DEF Stage, StageOf, Idle
  <1>2. CASE todo # <<>>
    BY <1>2, PlaceValues DEF Stage, StageOf
  <1> QED BY <1>1, <1>2

\* Nothing on the wire, no answer.
LEMMA NoneOutstanding ==
  ASSUME wire = <<>>
  PROVE  ~Answered
  BY DEF Answered

\* No request at the beginning.
LEMMA InitOneRequest == Init => OneRequest
  <1> SUFFICES ASSUME Init PROVE OneRequest
    OBVIOUS
  <1>1. wire = <<>> /\ ftp = NoSession /\ reader = ReaderInitial /\ todo = <<>>
    BY DEF Init, ReaderInit, LoaderInit
  <1>2. Stage = 14 /\ ~Answered /\ ftp.ask = 0 /\ ftp.owes = FALSE
    BY <1>1, NoneOutstanding DEF Stage, StageOf, Idle, NoSession
  <1>3. reader.received_command = FALSE
    BY <1>1 DEF ReaderInitial
  <1>4. \A i, j \in 1 .. Len(wire) : Counts(wire[i]) /\ Counts(wire[j]) => i = j
    BY <1>2 DEF Answered
  <1> QED BY <1>1, <1>2, <1>3, <1>4 DEF OneRequest, Outstanding, DataCanEnd

\* Only the list of statements and the state of the updater change.
LEMMA SameRequest ==
  ASSUME SessionInv, UNCHANGED <<reader, wire, ftp>>,
         \/ Stage' = Stage
         \/ Stage' \in 8 .. 14
         \/ Stage' \in 0 .. 2 /\ ~Outstanding,
         upd' = upd \/ upd' \in Receiving \cup {"COMPLETED"}
  PROVE  OneRequest'
  <1>1. OneRequest
    BY DEF SessionInv
  <1>2. Answered' = Answered /\ Outstanding' = Outstanding /\ DataCanEnd' = DataCanEnd
    BY DEF Answered, Outstanding, DataCanEnd
  <1> QED BY <1>1, <1>2 DEF OneRequest

\* The session begins or is over.
LEMMA FreshRequest ==
  ASSUME wire' = <<>>, ftp'.ask = 0, ftp'.owes = FALSE,
         ftp' = NoSession \/ upd' \in Receiving,
         (reader' = reader /\ SessionInv) \/ reader' = ReaderInitial,
         Stage' = 14 \/ Stage' = 1
  PROVE  OneRequest'
  <1>1. ~Answered' /\ ~Outstanding'
    BY DEF Answered, Outstanding
  <1>2. \A i, j \in 1 .. Len(wire') : Counts(wire'[i]) /\ Counts(wire'[j]) => i = j
    BY <1>1 DEF Answered
  <1>3. DataCanEnd'
    BY DEF SessionInv, OneRequest, DataCanEnd, ReaderInitial
  <1> QED BY <1>1, <1>2, <1>3 DEF OneRequest

\* A statement of ReceiveBytes clears a variable of the reader.
LEMMA ClearRequest ==
  ASSUME SessionInv, UNCHANGED <<wire, ftp, upd>>, Stage \in 1 .. 6, Stage' = Stage + 1,
         reader'.received_command => reader.received_command,
         Stage = 2 => ~reader'.received_command,
         reader'.pointer \in {reader.pointer, 0}, Stage = 3 => reader'.pointer = 0,
         Stage # 3 => reader'.pointer = reader.pointer,
         reader'.requested => reader.requested,
         Stage = 5 => ~reader'.requested,
         reader'.from = reader.from
  PROVE  OneRequest'
  <1>1. OneRequest
    BY DEF SessionInv
  <1>2. ~Outstanding /\ ~Outstanding' /\ ~Answered'
    BY <1>1 DEF OneRequest, Answered, Outstanding
  <1>3. DataCanEnd'
    <2>1. reader.received_command => Stage # 3 /\ reader.pointer < reader.from
      BY <1>1 DEF OneRequest, DataCanEnd
    <2> QED BY <2>1 DEF DataCanEnd
  <1>4. /\ Stage' \in 3 .. 7 => ~reader'.received_command
        /\ Stage' \in 4 .. 7 => reader'.pointer = 0
        /\ Stage' \in 6 .. 7 => ~reader'.requested
    <2>1. /\ Stage \in 3 .. 7 => ~reader.received_command
          /\ Stage \in 4 .. 7 => reader.pointer = 0
          /\ Stage \in 6 .. 7 => ~reader.requested
      BY <1>1 DEF OneRequest
    <2>2. Stage' \in 3 .. 7 => ~reader'.received_command
      BY <2>1
    <2>3. Stage' \in 4 .. 7 => reader'.pointer = 0
      BY <2>1
    <2>4. Stage' \in 6 .. 7 => ~reader'.requested
      BY <2>1
    <2> QED BY <2>2, <2>3, <2>4
  <1>5. \A i, j \in 1 .. Len(wire') : Counts(wire'[i]) /\ Counts(wire'[j]) => i = j
    BY <1>1 DEF OneRequest
  <1>6. upd' \notin Receiving \cup {"COMPLETED"} => wire' = <<>> /\ ftp' = NoSession
    BY <1>1 DEF OneRequest
  <1> QED BY <1>2, <1>3, <1>4, <1>5, <1>6 DEF OneRequest, Outstanding

\* A byte of the chip is taken: the answer that counts is taken once.
LEMMA InterruptRequest ==
  ASSUME SessionInv, Interrupt
  PROVE  OneRequest'
  <1>1. OneRequest /\ LoaderTypes
    BY DEF SessionInv
  <1>2. /\ wire # <<>> /\ wire' = Tail(wire) /\ reader' \in ReaderType /\ ftp' \in FtpType
        /\ TakesData \/ TakesText \/ AsksAgain \/ TakesHeader
        /\ upd \in Receiving /\ upd' = upd /\ Stage' = Stage
    BY AppendByteEffect DEF Interrupt, mainVars, Stage
  <1>3. \A i \in 1 .. Len(wire') : i + 1 \in 1 .. Len(wire) /\ wire'[i] = wire[i + 1]
    BY <1>1, <1>2 DEF LoaderTypes
  <1>4. Answered' => Answered
    BY <1>3 DEF Answered
  <1>5. 1 \in 1 .. Len(wire)
    BY <1>1, <1>2 DEF LoaderTypes
  <1>6. Counts(wire[1]) => Answered /\ ~Answered'
    <2>1. \A i \in 1 .. Len(wire') : i + 1 # 1
      OBVIOUS
    <2>2. \A i, j \in 1 .. Len(wire) : Counts(wire[i]) /\ Counts(wire[j]) => i = j
      BY <1>1 DEF OneRequest
    <2>3. ASSUME Counts(wire[1]), NEW i \in 1 .. Len(wire'), Counts(wire'[i]) PROVE FALSE
      BY <1>3, <1>5, <2>1, <2>2, <2>3
    <2> QED BY <1>5, <2>3 DEF Answered
  <1>7. \A i, j \in 1 .. Len(wire') : Counts(wire'[i]) /\ Counts(wire'[j]) => i = j
    <2>1. \A i, j \in 1 .. Len(wire) : Counts(wire[i]) /\ Counts(wire[j]) => i = j
      BY <1>1 DEF OneRequest
    <2>2. \A i, j \in 1 .. Len(wire') : i + 1 = j + 1 => i = j
      OBVIOUS
    <2>3. ASSUME NEW i \in 1 .. Len(wire'), NEW j \in 1 .. Len(wire'),
                 Counts(wire'[i]), Counts(wire'[j])
          PROVE  i = j
      BY <1>3, <2>1, <2>2, <2>3
    <2> QED BY <2>3
  <1>8. ftp.ask \in Nat /\ reader.pointer \in Nat /\ reader.from \in Nat
    BY <1>1 DEF LoaderTypes, FtpType, ReaderType
  <1>9. CASE TakesData
    <2>1. ~Outstanding /\ Stage \notin 3 .. 7
      BY <1>1, <1>9 DEF TakesData, OneRequest
    <2>2. ~Outstanding'
      BY <1>4, <1>9, <2>1 DEF TakesData, Outstanding
    <2>3. DataCanEnd'
      <3>1. reader.pointer < reader.from
        BY <1>1, <1>9 DEF TakesData, OneRequest, DataCanEnd
      <3>2. reader'.received_command => reader.pointer + 1 # reader.from
        BY <1>9 DEF TakesData
      <3>3. reader'.pointer = reader.pointer + 1 /\ reader'.from = reader.from
        BY <1>9 DEF TakesData
      <3>4. reader'.received_command => reader.pointer + 1 < reader.from
        BY <1>8, <3>1, <3>2
      <3> QED BY <3>3, <3>4 DEF DataCanEnd
    <2> QED BY <1>2, <1>7, <2>1, <2>2, <2>3 DEF OneRequest, Outstanding
  <1>10. ASSUME TakesText
         PROVE  OneRequest'
    <2>1. Outstanding' => Outstanding
      BY <1>4, <1>10 DEF TakesText, Outstanding
    <2>2. DataCanEnd'
      BY <1>1, <1>10 DEF TakesText, OneRequest, DataCanEnd
    <2> QED BY <1>1, <1>2, <1>4, <1>7, <1>10, <2>1, <2>2 DEF OneRequest, TakesText
  <1>11. CASE AsksAgain
    <2>1. Answered /\ ~Answered'
      BY <1>6, <1>11 DEF AsksAgain
    <2>2. /\ Stage > 7 /\ reader.pointer = 0
          /\ ~reader.received_command /\ ~reader.requested /\ ~ftp.owes
      BY <1>1, <2>1 DEF OneRequest, Outstanding
    <2>3. ftp'.owes = ftp.owes
      BY <1>1, <1>11 DEF AsksAgain, LoaderTypes, FtpType
    <2>4. DataCanEnd'
      BY <1>11, <2>2 DEF AsksAgain, DataCanEnd
    <2>5. Stage \notin 3 .. 7
      BY <2>2
    <2> QED BY <1>2, <1>7, <1>11, <2>1, <2>2, <2>3, <2>4, <2>5
            DEF OneRequest, Outstanding, AsksAgain
  <1>12. CASE TakesHeader
    <2>1. CASE wire[1].n > 0
      <3>1. Answered /\ ~Answered'
        BY <1>6, <1>12, <2>1 DEF TakesHeader, Counts
      <3>2. Stage > 7 /\ reader.pointer = 0 /\ ~ftp.owes /\ ~(ftp.ask > 0)
        BY <1>1, <3>1 DEF OneRequest, Outstanding
      <3>3. DataCanEnd'
        BY <1>12, <2>1, <3>2 DEF TakesHeader, DataCanEnd
      <3>4. ~Outstanding' /\ Stage \notin 3 .. 7
        BY <1>12, <3>1, <3>2 DEF Outstanding, TakesHeader
      <3> QED BY <1>2, <1>7, <3>3, <3>4 DEF OneRequest, Outstanding
    <2>2. CASE ~(wire[1].n > 0)
      <3>1. /\ reader'.received_command = FALSE /\ reader.received_command = FALSE
            /\ reader'.pointer = reader.pointer /\ reader'.requested = reader.requested
            /\ ftp' = ftp
        BY <1>1, <1>12, <2>2 DEF TakesHeader, LoaderTypes, ReaderType
      <3>2. Outstanding' => Outstanding
        BY <1>4, <3>1 DEF Outstanding
      <3>3. DataCanEnd'
        BY <3>1 DEF DataCanEnd
      <3> QED BY <1>1, <1>2, <1>4, <1>7, <3>1, <3>2, <3>3 DEF OneRequest
    <2> QED BY <2>1, <2>2
  <1> QED BY <1>2, <1>9, <1>10, <1>11, <1>12

\* The chip answers a request once, and announces more data once.
LEMMA ChipRequest ==
  ASSUME SessionInv, ChipStep
  PROVE  OneRequest'
  <1>1. OneRequest /\ LoaderTypes
    BY DEF SessionInv
  <1>2. /\ wire' \in Seq(Pieces) /\ ftp' \in FtpType /\ reader' = reader
        /\ upd \in Receiving /\ upd' = upd /\ Stage' = Stage
        /\ (\E m \in 0 .. FileSize : ChipAnswers(m)) \/ ChipTellsMore \/ ChipTellsNothing
    BY ChipEffect DEF ChipStep, mainVars, Stage
  <1>3. DataCanEnd'
    BY <1>1, <1>2 DEF OneRequest, DataCanEnd
  <1>4. ftp.ask \in 0 .. Buf /\ Buf \in Nat
    BY <1>1, Parameters DEF LoaderTypes, FtpType
  <1>5. ASSUME Outstanding, ~(ftp'.ask > 0 /\ (ftp'.owes \/ Answered')), ~(ftp'.owes /\ Answered'),
               \A i, j \in 1 .. Len(wire') : Counts(wire'[i]) /\ Counts(wire'[j]) => i = j
        PROVE  OneRequest'
    <2>1. /\ Stage' > 7 /\ reader'.pointer = 0 /\ ~reader'.received_command /\ ~reader'.requested
      BY <1>1, <1>2, <1>5 DEF OneRequest
    <2>2. Stage' \notin 3 .. 7
      BY <2>1
    <2> QED BY <1>2, <1>3, <1>5, <2>1, <2>2 DEF OneRequest
  <1>6. ASSUME NEW m \in 0 .. FileSize, ChipAnswers(m)
        PROVE  OneRequest'
    <2>1. Outstanding /\ ftp'.ask = 0
      BY <1>6 DEF Outstanding, ChipAnswers
    <2>2. ~(ftp'.owes /\ Answered')
      <3>1. ftp'.owes => m = 0
        BY <1>6 DEF ChipAnswers
      <3>2. Answered' => m > 0
        BY <1>6 DEF ChipAnswers, Answered
      <3> QED BY <3>1, <3>2
    <2>3. \A i, j \in 1 .. Len(wire') : Counts(wire'[i]) /\ Counts(wire'[j]) => i = j
      BY <1>6 DEF ChipAnswers
    <2> QED BY <1>5, <2>1, <2>2, <2>3
  <1>7. CASE ChipTellsMore
    <2>1. Outstanding /\ ftp'.ask = ftp.ask /\ ftp'.owes = FALSE /\ ~(ftp.ask > 0)
      BY <1>1, <1>7 DEF Outstanding, ChipTellsMore, OneRequest
    <2>2. \A i, j \in 1 .. Len(wire') : Counts(wire'[i]) /\ Counts(wire'[j]) => i = j
      BY <1>7 DEF ChipTellsMore
    <2> QED BY <1>5, <2>1, <2>2
  <1>8. CASE ChipTellsNothing
    <2>1. Answered' => Answered
      BY <1>8 DEF Answered, ChipTellsNothing
    <2>2. ftp'.ask > 0 => ftp.ask > 0
      BY <1>4, <1>8 DEF ChipTellsNothing
    <2>3. ftp'.owes = ftp.owes
      BY <1>8 DEF ChipTellsNothing
    <2>4. \A i, j \in 1 .. Len(wire') : Counts(wire'[i]) /\ Counts(wire'[j]) => i = j
      BY <1>1, <1>8 DEF ChipTellsNothing, OneRequest
    <2>5. Outstanding' => Outstanding
      BY <2>1, <2>2, <2>3 DEF Outstanding
    <2> QED BY <1>1, <1>2, <1>3, <2>1, <2>2, <2>3, <2>4, <2>5 DEF OneRequest
  <1> QED BY <1>2, <1>6, <1>7, <1>8

\* A request is sent only when the one before has been answered and the reader
\* is cleared: the flags are tested and cleared in an order that leaves the
\* interrupt no gap.
LEMMA NextOneRequest ==
  ASSUME SessionInv, [Next]_vars
  PROVE  OneRequest'
  <1>0. OneRequest /\ Control /\ LoaderTypes
    BY DEF SessionInv
  <1>1. CASE ResetStep \/ RestartStep
    <2>1. wire' = <<>> /\ ftp' = NoSession /\ todo' = <<>>
      BY <1>1 DEF ResetStep, Reset, RestartStep, Restarted, AtRest
    <2>2. Stage' = 14 /\ ftp'.ask = 0 /\ ftp'.owes = FALSE
      BY <2>1 DEF Stage, StageOf, Idle, NoSession
    <2>3. reader' = reader \/ reader' = ReaderInitial
      BY <1>1 DEF ResetStep, Reset, RestartStep, Restarted
    <2> QED BY <2>1, <2>2, <2>3, FreshRequest
  <1>2. CASE QuietStep
    <2>1. UNCHANGED <<reader, wire, ftp>> /\ Stage' = Stage
      BY <1>2 DEF QuietStep, readerVars, Stage
    <2>2. CASE upd' = upd
      BY <2>1, <2>2, SameRequest
    <2>3. CASE upd' # upd
      <3>1. upd \notin Receiving \cup {"COMPLETED"} /\ todo' = <<>>
        BY <1>2, <2>3 DEF QuietStep, AtRest
      <3>2. wire' = <<>> /\ ftp' = NoSession
        BY <1>0, <2>1, <3>1 DEF OneRequest
      <3>3. Stage' = 14 /\ ftp'.ask = 0 /\ ftp'.owes = FALSE
        BY <3>1, <3>2 DEF Stage, StageOf, Idle, NoSession
      <3> QED BY <2>1, <3>2, <3>3, FreshRequest
    <2> QED BY <2>2, <2>3
  <1>3. CASE UNCHANGED vars
    BY <1>3, SameRequest DEF vars, readerVars, mainVars, Stage
  <1>4. CASE Connected
    <2>1. /\ upd = "NEED_WAIT_CONNECT" /\ upd' = "GET_BYTES_VER" /\ todo' = ReceiveBytes
          /\ UNCHANGED <<reader, wire>>
      BY <1>4 DEF Connected
    <2>2. ftp'.ask = 0 /\ ftp'.owes = FALSE
      BY <1>4 DEF Connected
    <2>3. wire' = <<>>
      BY <1>0, <2>1 DEF OneRequest, Receiving
    <2>4. Stage' = 1 /\ upd' \in Receiving
      BY <2>1, ListsOrdered DEF Stage, Receiving
    <2> QED BY <2>1, <2>2, <2>3, <2>4, FreshRequest
  <1>5. ASSUME reader.requested PROVE ~Outstanding
    BY <1>0, <1>5 DEF OneRequest
  <1>6. CASE GetVersion
    <2>1. /\ reader.requested /\ upd' \in Receiving /\ todo' = ReceiveBytes
          /\ UNCHANGED <<reader, wire, ftp>>
      BY <1>6 DEF GetVersion, readerVars, Receiving
    <2>2. Stage' = 1
      BY <2>1, ListsOrdered DEF Stage
    <2> QED BY <1>5, <2>1, <2>2, SameRequest
  <1>7. CASE GetCRC
    <2>1. /\ reader.requested /\ upd' = upd
          /\ todo' = <<"SetState">> \o ReceiveBytes \o <<"received_FTPGET_1_0">>
          /\ UNCHANGED <<reader, wire, ftp>>
      BY <1>7 DEF GetCRC, readerVars
    <2>2. Stage' = 0
      BY <2>1, ListsOrdered DEF Stage
    <2> QED BY <1>5, <2>1, <2>2, SameRequest
  <1>8. CASE GetLastBytes \/ TestRequested
    <2>1. /\ upd' = upd
          /\ todo' = Verify \/ todo' = <<"requested_bytes_received">>
          /\ UNCHANGED <<reader, wire, ftp>>
      BY <1>8 DEF GetLastBytes, TestRequested, readerVars
    <2>2. Stage' \in 8 .. 14
      BY <2>1, ListsOrdered DEF Stage
    <2> QED BY <2>1, <2>2, SameRequest
  <1>9. CASE GetBytes
    <2>1. upd' = upd /\ UNCHANGED <<reader, wire, ftp>>
      BY <1>9 DEF GetBytes, readerVars
    <2>2. CASE reader.requested
      <3>1. todo' = <<"state_meter">> \o ReceiveBytes
        BY <1>9, <2>2 DEF GetBytes
      <3>2. Stage' = 0
        BY <3>1, ListsOrdered DEF Stage
      <3> QED BY <1>5, <2>1, <2>2, <3>2, SameRequest
    <2>3. CASE ~reader.requested
      <3>1. todo' = <<>>
        BY <1>9, <2>3 DEF GetBytes
      <3>2. Stage' = 14
        BY <3>1 DEF Stage, StageOf, Idle
      <3> QED BY <2>1, <3>2, SameRequest
    <2> QED BY <2>2, <2>3
  <1>10. CASE MeterReset \/ SetState
    <2>1. /\ Executes("state_meter") \/ Executes("SetState")
          /\ UNCHANGED <<reader, wire, ftp>>
      BY <1>10, StatementExecutes DEF MeterReset, SetState, readerVars
    <2>2. Stage = 0
      BY <2>1, PlaceValues DEF Executes
    <2>3. Stage' = 1
      BY <2>1, <2>2 DEF Executes
    <2>4. ~Outstanding
      BY <1>0, <2>2 DEF OneRequest
    <2>5. upd' = upd \/ upd' \in Receiving
      BY <1>10 DEF MeterReset, SetState, Receiving
    <2> QED BY <2>1, <2>3, <2>4, <2>5, SameRequest
  <1>11. ASSUME NEW name, Executes(name), Place(name) \in 1 .. 6
         PROVE  Stage = Place(name) /\ Stage' = Stage + 1
    BY <1>11 DEF Executes
  <1>12. reader \in ReaderType
    BY <1>0 DEF LoaderTypes
  <1>13. CASE RequestStep
    <2>1. Executes("request") /\ UNCHANGED <<wire, ftp, upd>>
      BY <1>13, StatementExecutes DEF RequestStep
    <2>2. Stage = 6 /\ Stage' = Stage + 1
      BY <1>11, <2>1, PlaceValues
    <2>3. /\ reader'.received_command = reader.received_command
          /\ reader'.pointer = reader.pointer /\ reader'.from = reader.from
          /\ reader'.requested = reader.requested
      BY <1>12, <1>13 DEF RequestStep, ReaderType
    <2> QED BY <2>1, <2>2, <2>3, ClearRequest
  <1>14. CASE ClearStep("pointer_command")
    <2>1. /\ Executes("pointer_command") /\ UNCHANGED <<wire, ftp, upd>>
          /\ reader' = [reader EXCEPT !.cmd = "empty"]
      BY <1>14, StatementExecutes DEF ClearStep, Cleared
    <2>2. Stage = 1 /\ Stage' = Stage + 1
      BY <1>11, <2>1, PlaceValues
    <2>3. /\ reader'.received_command = reader.received_command
          /\ reader'.pointer = reader.pointer /\ reader'.from = reader.from
          /\ reader'.requested = reader.requested
      BY <1>12, <2>1 DEF ReaderType
    <2> QED BY <2>1, <2>2, <2>3, ClearRequest
  <1>15. CASE ClearStep("received_command")
    <2>1. /\ Executes("received_command") /\ UNCHANGED <<wire, ftp, upd>>
          /\ reader' = [reader EXCEPT !.received_command = FALSE]
      BY <1>15, StatementExecutes DEF ClearStep, Cleared
    <2>2. Stage = 2 /\ Stage' = Stage + 1
      BY <1>11, <2>1, PlaceValues
    <2>3. /\ reader'.received_command = FALSE
          /\ reader'.pointer = reader.pointer /\ reader'.from = reader.from
          /\ reader'.requested = reader.requested
      BY <1>12, <2>1 DEF ReaderType
    <2> QED BY <2>1, <2>2, <2>3, ClearRequest
  <1>16. CASE ClearStep("pointer_data")
    <2>1. /\ Executes("pointer_data") /\ UNCHANGED <<wire, ftp, upd>>
          /\ reader' = [reader EXCEPT !.pointer = 0]
      BY <1>16, StatementExecutes DEF ClearStep, Cleared
    <2>2. Stage = 3 /\ Stage' = Stage + 1
      BY <1>11, <2>1, PlaceValues
    <2>3. /\ reader'.received_command = reader.received_command
          /\ reader'.pointer = 0 /\ reader'.from = reader.from
          /\ reader'.requested = reader.requested
      BY <1>12, <2>1 DEF ReaderType
    <2> QED BY <2>1, <2>2, <2>3, ClearRequest
  <1>17. CASE ClearStep("need_bytes")
    <2>1. /\ Executes("need_bytes") /\ UNCHANGED <<wire, ftp, upd>>
          /\ reader' = [reader EXCEPT !.need = 0]
      BY <1>17, StatementExecutes DEF ClearStep, Cleared
    <2>2. Stage = 4 /\ Stage' = Stage + 1
      BY <1>11, <2>1, PlaceValues
    <2>3. /\ reader'.received_command = reader.received_command
          /\ reader'.pointer = reader.pointer /\ reader'.from = reader.from
          /\ reader'.requested = reader.requested
      BY <1>12, <2>1 DEF ReaderType
    <2> QED BY <2>1, <2>2, <2>3, ClearRequest
  <1>18. CASE ClearStep("requested")
    <2>1. /\ Executes("requested") /\ UNCHANGED <<wire, ftp, upd>>
          /\ reader' = [reader EXCEPT !.requested = FALSE]
      BY <1>18, StatementExecutes DEF ClearStep, Cleared
    <2>2. Stage = 5 /\ Stage' = Stage + 1
      BY <1>11, <2>1, PlaceValues
    <2>3. /\ reader'.received_command = reader.received_command
          /\ reader'.pointer = reader.pointer /\ reader'.from = reader.from
          /\ reader'.requested = FALSE
      BY <1>12, <2>1 DEF ReaderType
    <2> QED BY <2>1, <2>2, <2>3, ClearRequest
  <1>19. CASE TransmitStep
    <2>1. Executes("transmit") /\ UNCHANGED <<reader, wire, upd>>
      BY <1>19, StatementExecutes DEF TransmitStep
    <2>2. Stage = 7 /\ (Stage' = 8 \/ Stage' = 14)
      BY <2>1, PlaceValues DEF Executes, Idle
    <2>3. ftp' = [ftp EXCEPT !.ask = reader.need]
      BY <1>19 DEF TransmitStep, Request
    <2>4. ftp'.owes = ftp.owes
      BY <1>0, <2>3 DEF LoaderTypes, FtpType
    <2>5. /\ ~ftp.owes /\ ~Answered /\ reader.pointer = 0
          /\ ~reader.received_command /\ ~reader.requested
      BY <1>0, <2>2 DEF OneRequest, Outstanding
    <2>6. ~Answered' /\ ~ftp'.owes
      BY <2>1, <2>4, <2>5 DEF Answered
    <2>7. DataCanEnd' /\ Stage' > 7 /\ Stage' \notin 3 .. 7
      BY <2>1, <2>2, <2>5 DEF DataCanEnd
    <2>8. \A i, j \in 1 .. Len(wire') : Counts(wire'[i]) /\ Counts(wire'[j]) => i = j
      BY <1>0, <2>1 DEF OneRequest
    <2>9. upd' \in Receiving
      BY <1>0, <2>1 DEF Executes, Control
    <2> QED BY <2>1, <2>5, <2>6, <2>7, <2>8, <2>9 DEF OneRequest
  <1>20. CASE ClearEOF
    <2>1. Executes("received_FTPGET_1_0") /\ UNCHANGED <<wire, ftp, upd>>
      BY <1>20, StatementExecutes DEF ClearEOF
    <2>2. Stage' > 7 /\ Stage' \notin 3 .. 7
      BY <2>1, PlaceValues DEF Executes, Idle
    <2>3. /\ reader'.received_command = reader.received_command
          /\ reader'.pointer = reader.pointer /\ reader'.from = reader.from
          /\ reader'.requested = reader.requested
      BY <1>12, <1>20 DEF ClearEOF, ReaderType
    <2>4. Answered' = Answered /\ Outstanding' = Outstanding /\ DataCanEnd' = DataCanEnd
      BY <2>1, <2>3 DEF Answered, Outstanding, DataCanEnd
    <2> QED BY <1>0, <2>1, <2>2, <2>3, <2>4 DEF OneRequest
  <1>21. CASE CloseStep \/ VerifyStored
    <2>1. /\ Executes("CloseSession") \/ Executes("Verify")
          /\ UNCHANGED <<reader, wire, ftp, upd>>
      BY <1>21, StatementExecutes DEF CloseStep, VerifyStored, readerVars
    <2>2. Stage' \in 8 .. 14
      BY <2>1, PlaceValues DEF Executes, Idle
    <2> QED BY <2>1, <2>2, SameRequest
  <1>22. CASE CopyChunk \/ VerifyCopy \/ PrepareStep \/ WordStep
    <2>1. /\ UNCHANGED <<reader, wire, ftp, todo>>
          /\ upd' = upd \/ upd' = "COMPLETED"
      BY <1>22 DEF CopyChunk, VerifyCopy, PrepareStep, WordStep, readerVars, mainVars
    <2>2. Stage' = Stage
      BY <2>1 DEF Stage
    <2> QED BY <2>1, <2>2, SameRequest
  <1> QED BY <1>1, <1>2, <1>3, <1>4, <1>6, <1>7, <1>8, <1>9, <1>10, <1>13, <1>14, <1>15,
             <1>16, <1>17, <1>18, <1>19, <1>20, <1>21, <1>22, InterruptRequest, ChipRequest,
             StepCases

-----------------------------------------------------------------------------
(* How many bytes have gone where.                                         *)

\* Lengths and positions are naturals.
LEMMA LengthTypes ==
  ASSUME LoaderTypes
  PROVE  /\ prog.address \in Nat /\ prog.written \in Nat /\ prog.bytes \in Seq(Values)
         /\ Len(prog.bytes) \in Nat /\ Len(out) \in Nat /\ (out = <<>> <=> Len(out) = 0)
         /\ reader.pointer \in Nat /\ reader.from \in Nat /\ ftp.pos \in 0 .. FileSize
         /\ ftp.pos \in Nat /\ Stored \in Nat /\ GivenBytes \in Nat /\ Held \in Nat
  <1>1. /\ prog.address \in Nat /\ prog.written \in Nat /\ prog.bytes \in Seq(Values)
        /\ out \in Seq(Values)
    BY DEF LoaderTypes, ProgType
  <1>2. /\ Len(prog.bytes) \in Nat /\ Len(out) \in Nat /\ (out = <<>> <=> Len(out) = 0)
    BY <1>1, Empty
  <1>3. reader.pointer \in Nat /\ reader.from \in Nat
    BY DEF LoaderTypes, ReaderType
  <1>4. ftp.pos \in 0 .. FileSize /\ ftp.pos \in Nat
    BY DEF LoaderTypes, FtpType
  <1>5. Stored \in Nat
    BY <1>1, <1>2 DEF Stored
  <1>6. GivenBytes \in Nat /\ Held \in Nat
    BY <1>3, <1>5 DEF GivenBytes, Held
  <1> QED BY <1>1, <1>2, <1>3, <1>4, <1>5, <1>6

\* Nothing has been written at the beginning.
LEMMA InitLengths == Init => Lengths
  <1> SUFFICES ASSUME Init PROVE Lengths
    OBVIOUS
  <1>1. /\ prog = ProgReset /\ out = <<>> /\ todo = <<>> /\ upd = "IDLE" /\ copy = NoCopy
    BY DEF Init, ProgInit, LoaderInit
  <1>2. prog.address = 0 /\ prog.written = 0 /\ Len(prog.bytes) = 0 /\ Len(out) = 0
    BY <1>1 DEF ProgReset
  <1>3. Stage = 14
    BY <1>1 DEF Stage, StageOf, Idle
  <1>4. Word \in Nat \ {0} /\ Buf \in Nat /\ Limit \in Nat /\ ADDR_STORAGE \in Nat
    BY Parameters, Sizes
  <1>5. Words
    BY <1>1, <1>2, <1>3, <1>4, SmallMultiples DEF Words
  <1>6. Account
    BY <1>1 DEF Account, Receiving
  <1> QED BY <1>5, <1>6 DEF Lengths

\* Programmer is left alone.
LEMMA SameWords ==
  ASSUME SessionInv, UNCHANGED <<prog, out, page, copy>>,
         todo' # <<>> /\ todo'[1] = "SetState" => todo' = todo,
         upd' = "GET_BYTES_FIRMWARE" => upd = "GET_BYTES_FIRMWARE",
         Stage' = 13 => Stage = 13
  PROVE  Words'
  <1>1. Words
    BY DEF SessionInv, Lengths
  <1>2. Preparing' = Preparing /\ Stored' = Stored
    BY DEF Preparing, Stored
  <1> QED BY <1>1, <1>2 DEF Words

\* Programmer is set to its initial values.
LEMMA FreshWords ==
  ASSUME prog' = ProgReset, out' = <<>>, todo' = <<>>, upd' = "IDLE", copy' = NoCopy
  PROVE  Words'
  <1>1. prog'.address = 0 /\ prog'.written = 0 /\ Len(prog'.bytes) = 0 /\ Len(out') = 0
    BY DEF ProgReset
  <1>2. Stage' = 14
    BY DEF Stage, StageOf, Idle
  <1>3. Word \in Nat \ {0} /\ Buf \in Nat /\ Limit \in Nat /\ ADDR_STORAGE \in Nat
    BY Parameters, Sizes
  <1> QED BY <1>1, <1>2, <1>3, SmallMultiples DEF Words

\* WriteBytes, between two calls of Write.
LEMMA WriteWords ==
  ASSUME SessionInv, ~Writing, NEW data \in Seq(Values), Len(data) <= Buf, WriteBytes(data)
  PROVE  /\ IsMultiple(prog'.written) /\ IsMultiple(Len(out'))
         /\ Len(prog'.bytes) < Word /\ Len(out') <= Buf + Word
         /\ prog'.address = prog.address /\ prog'.written = prog.written
         /\ prog'.written <= Limit /\ prog'.address <= ADDR_STORAGE + Limit
         /\ Stored' = Stored + Len(data)
  <1>1. LoaderTypes /\ Words /\ prog \in ProgType
    BY DEF SessionInv, Lengths, LoaderTypes
  <1>2. /\ prog.written \in Nat /\ Len(prog.bytes) \in Nat /\ Len(out) = 0 /\ Len(data) \in Nat
    BY <1>1, LengthTypes DEF Writing
  <1>3. /\ prog'.address = prog.address /\ prog'.written = prog.written
        /\ Len(out') + Len(prog'.bytes) = Len(prog.bytes) + Len(data)
        /\ IsMultiple(Len(out')) /\ Len(prog'.bytes) < Word
        /\ Len(out') \in Nat /\ Len(prog'.bytes) \in Nat
    BY <1>1, WriteBytesEffect
  <1>4. /\ IsMultiple(prog.written) /\ Len(prog.bytes) < Word
        /\ prog.written <= Limit /\ prog.address <= ADDR_STORAGE + Limit
    BY <1>1 DEF Words
  <1>5. Word \in Nat /\ Buf \in Nat
    BY Parameters
  <1>6. Len(out') <= Buf + Word
    BY <1>2, <1>3, <1>4, <1>5
  <1>7. Stored' = Stored + Len(data)
    <2>1. Stored = prog.written + 0 + Len(prog.bytes)
      BY <1>2 DEF Stored
    <2>2. Stored' = prog.written + Len(out') + Len(prog'.bytes)
      BY <1>3 DEF Stored
    <2>3. \A w, a, b, c, d \in Nat : a + b = c + d => w + a + b = (w + 0 + c) + d
      OBVIOUS
    <2> DEFINE w == prog.written
               a == Len(out')
               b == Len(prog'.bytes)
               c == Len(prog.bytes)
               d == Len(data)
    <2>4. w \in Nat /\ a \in Nat /\ b \in Nat /\ c \in Nat /\ d \in Nat /\ a + b = c + d
      BY <1>2, <1>3
    <2>5. Stored = w + 0 + c /\ Stored' = w + a + b
      BY <2>1, <2>2
    <2> HIDE DEF w, a, b, c, d
    <2>6. w + a + b = (w + 0 + c) + d
      BY <2>3, <2>4
    <2> QED BY <2>5, <2>6 DEF d
  <1> QED BY <1>3, <1>4, <1>6, <1>7

\* What the reader received is given to Programmer.
LEMMA ReceivedWords ==
  ASSUME SessionInv, ~Writing, copy = NoCopy, upd = "GET_BYTES_FIRMWARE",
         WriteBytes(Received), UNCHANGED <<upd, copy>>,
         todo' # <<>>, todo'[1] # "SetState", Stage' # 13
  PROVE  Words' /\ GivenBytes' = GivenBytes + reader.pointer
  <1>1. LoaderTypes /\ Words
    BY DEF SessionInv, Lengths
  <1>2. Received \in Seq(Values) /\ Len(Received) = reader.pointer /\ reader.pointer \in 0 .. Buf
    BY <1>1, ReceivedBytes
  <1>3. Len(Received) <= Buf
    BY <1>2, Parameters
  <1>4. /\ IsMultiple(prog'.written) /\ IsMultiple(Len(out'))
        /\ Len(prog'.bytes) < Word /\ Len(out') <= Buf + Word
        /\ prog'.address = prog.address /\ prog'.written = prog.written
        /\ prog'.written <= Limit /\ prog'.address <= ADDR_STORAGE + Limit
        /\ Stored' = Stored + Len(Received)
    BY <1>2, <1>3, WriteWords
  <1>5. prog'.address = ADDR_STORAGE + prog'.written
    BY <1>1, <1>4 DEF Words
  <1>6. Words'
    BY <1>4, <1>5 DEF Words
  <1>7. GivenBytes' = GivenBytes + reader.pointer
    BY <1>2, <1>4 DEF GivenBytes
  <1> QED BY <1>6, <1>7

\* Programmer writes whole words, and keeps less than one.
LEMMA NextWords ==
  ASSUME SessionInv, [Next]_vars
  PROVE  Words'
  <1>0. LoaderTypes /\ Control /\ Words
    BY DEF SessionInv, Lengths
  <1>1. /\ prog.address \in Nat /\ prog.written \in Nat /\ Len(prog.bytes) \in Nat
        /\ Len(out) \in Nat /\ (out = <<>> <=> Len(out) = 0)
        /\ ftp.pos \in Nat /\ ftp.pos <= Limit
        /\ GivenBytes \in Nat /\ Held \in Nat
    BY <1>0, LengthTypes, Sizes
  <1>2. /\ Word \in Nat \ {0} /\ Buf \in Nat /\ Limit \in Nat /\ ADDR_STORAGE \in Nat
        /\ FirmwareSize \in Nat \ {0} /\ FirmwareSize <= Limit /\ NumPages \in Nat \ {0}
    BY Parameters, Sizes DEF Limit
  <1>3. CASE ResetStep \/ RestartStep
    <2>1. prog' = ProgReset /\ out' = <<>> /\ todo' = <<>> /\ upd' = "IDLE" /\ copy' = NoCopy
      BY <1>3 DEF ResetStep, Reset, RestartStep, Restarted, AtRest, Writing
    <2> QED BY <2>1, FreshWords
  <1>4. CASE QuietStep \/ UNCHANGED vars \/ Interrupt \/ ChipStep
    <2>1. UNCHANGED <<prog, out, page, copy, todo>>
      BY <1>4 DEF QuietStep, vars, Interrupt, ChipStep, progVars, mainVars
    <2>2. upd' = "GET_BYTES_FIRMWARE" => upd = "GET_BYTES_FIRMWARE"
      BY <1>4 DEF QuietStep, vars, Interrupt, ChipStep, mainVars, Receiving
    <2> QED BY <2>1, <2>2, SameWords DEF Stage
  <1>5. CASE Connected \/ GetVersion
    <2>1. /\ UNCHANGED <<prog, out, page, copy>> /\ todo' = ReceiveBytes
          /\ upd' # "GET_BYTES_FIRMWARE"
      BY <1>5 DEF Connected, GetVersion, progVars
    <2>2. Stage' = 1 /\ todo'[1] # "SetState"
      BY <2>1, ListsOrdered, ReceiveBytesOrdered DEF Stage
    <2> QED BY <2>1, <2>2, SameWords
  <1>6. CASE GetCRC
    <2>1. /\ UNCHANGED <<prog, out, copy, upd>> /\ upd = "GET_BYTES_CRC" /\ copy = NoCopy
          /\ todo' = <<"SetState">> \o ReceiveBytes \o <<"received_FTPGET_1_0">>
          /\ page' = [start |-> ADDR_STORAGE, left |-> NumPages]
      BY <1>6 DEF GetCRC, Prepare, AtUpdate
    <2>2. Preparing' /\ Stage' = 0
      BY <1>2, <2>1, ListsOrdered DEF Preparing, Stage
    <2> QED BY <1>0, <2>1, <2>2 DEF Words
  <1>7. CASE GetLastBytes
    <2>1. /\ ~Writing /\ copy = NoCopy /\ upd = "GET_BYTES_FIRMWARE" /\ WriteBytes(Received)
          /\ UNCHANGED <<upd, copy>> /\ todo' = Verify
      BY <1>7 DEF GetLastBytes, AtUpdate
    <2>2. Stage' = 12 /\ todo' # <<>> /\ todo'[1] # "SetState"
      BY <2>1, ListsOrdered DEF Stage, Verify
    <2> QED BY <2>1, <2>2, ReceivedWords
  <1>8. CASE TestRequested
    <2>1. UNCHANGED <<prog, out, page, copy, upd>> /\ todo' = <<"requested_bytes_received">>
      BY <1>8 DEF TestRequested, progVars
    <2>2. Stage' = 10 /\ todo'[1] # "SetState"
      BY <2>1, ListsOrdered DEF Stage
    <2> QED BY <2>1, <2>2, SameWords
  <1>9. CASE GetBytes
    <2>1. /\ ~Writing /\ UNCHANGED <<upd, copy, page>>
          /\ todo # <<>> /\ todo[1] = "requested_bytes_received"
      BY <1>0, <1>9 DEF GetBytes, Control, Ordered
    <2>2. Stage = 10 /\ upd = "GET_BYTES_FIRMWARE" /\ copy = NoCopy
      BY <1>0, <2>1, PlaceValues DEF Stage, StageOf, Control
    <2>3. CASE reader.requested
      <3>1. WriteBytes(Received) /\ todo' = <<"state_meter">> \o ReceiveBytes
        BY <1>9, <2>3 DEF GetBytes
      <3>2. Stage' = 0 /\ todo'[1] = "state_meter"
        BY <3>1, ListsOrdered DEF Stage
      <3>3. todo' # <<>>
        BY <3>2 DEF Stage, StageOf, Idle
      <3> QED BY <2>1, <2>2, <3>1, <3>2, <3>3, ReceivedWords
    <2>4. CASE ~reader.requested
      <3>1. UNCHANGED <<prog, out>> /\ todo' = <<>>
        BY <1>9, <2>4 DEF GetBytes
      <3>2. Stage' = 14
        BY <3>1 DEF Stage, StageOf, Idle
      <3> QED BY <2>1, <3>1, <3>2, SameWords
    <2> QED BY <2>3, <2>4
  <1>10. ASSUME NEW name, Executes(name), UNCHANGED <<prog, out, page, copy, upd>>,
                Place(name) \notin {12, 13}
         PROVE  Words'
    <2>1. Stage' # 13 /\ (todo' # <<>> => todo'[1] # "SetState")
      BY <1>10, PlaceValues, SMTT(30) DEF Executes, Idle
    <2> QED BY <1>10, <2>1, SameWords
  <1>11. CASE MeterReset
    BY <1>10, <1>11, StatementExecutes, PlaceValues DEF MeterReset, progVars
  <1>12. CASE SetState
    <2>1. Executes("SetState") /\ UNCHANGED <<prog, out, page, copy>>
      BY <1>12, StatementExecutes DEF SetState, progVars
    <2>2. /\ todo # <<>> /\ todo[1] = "SetState" /\ ~Preparing /\ copy' = NoCopy
          /\ todo' # <<>> => todo'[1] # "SetState"
      BY <2>1 DEF Executes
    <2>3. Stage' = 1
      BY <2>1, PlaceValues DEF Executes
    <2>4. prog = [address |-> ADDR_STORAGE, written |-> 0, bytes |-> <<>>]
      BY <1>0, <2>2 DEF Words
    <2>5. prog'.address = ADDR_STORAGE + prog'.written
      BY <1>2, <2>1, <2>4
    <2> QED BY <1>0, <2>1, <2>2, <2>3, <2>5 DEF Words
  <1>13. CASE RequestStep \/ TransmitStep \/ ClearEOF
    <2>1. /\ Executes("request") \/ Executes("transmit") \/ Executes("received_FTPGET_1_0")
          /\ UNCHANGED <<prog, out, page, copy, upd>>
      BY <1>13, StatementExecutes DEF RequestStep, TransmitStep, ClearEOF, progVars
    <2> QED BY <1>10, <2>1, PlaceValues
  <1>14. ASSUME NEW name, ClearStep(name), Place(name) \notin {12, 13}
         PROVE  Words'
    <2>1. Executes(name) /\ UNCHANGED <<prog, out, page, copy, upd>>
      BY <1>14, StatementExecutes DEF ClearStep, progVars
    <2> QED BY <1>10, <1>14, <2>1
  <1>15. CASE \/ ClearStep("pointer_command") \/ ClearStep("received_command")
              \/ ClearStep("pointer_data") \/ ClearStep("need_bytes") \/ ClearStep("requested")
    BY <1>14, <1>15, PlaceValues
  <1>16. CASE CloseStep
    <2>1. Executes("CloseSession") /\ CloseSession /\ UNCHANGED <<page, copy, upd>>
      BY <1>16, StatementExecutes DEF CloseStep
    <2>2. Stage = 12 /\ copy = NoCopy /\ (todo' # <<>> => todo'[1] # "SetState") /\ Len(out) = 0
      BY <1>1, <2>1, PlaceValues DEF Executes, Writing
    <2>3. upd = "GET_BYTES_FIRMWARE" /\ upd \in Receiving
      BY <1>0, <2>2 DEF Control, Receiving
    <2>4. /\ prog' = prog
          /\ \/ Len(prog.bytes) = 0 /\ Len(out') = 0
             \/ Len(prog.bytes) > 0 /\ Len(out') = Word
      BY <1>0, <1>1, <2>1, CloseSessionEffect, LengthTypes DEF Words
    <2>5. GivenBytes <= ftp.pos
      <3>1. GivenBytes + Held <= ftp.pos
        BY <2>2, <2>3 DEF SessionInv, Lengths, Account
      <3> QED BY <1>1, <3>1
    <2>6. GivenBytes = prog.written + 0 + Len(prog.bytes)
      BY <2>2, <2>3 DEF GivenBytes, Stored
    <2>7. IsMultiple(prog.written) /\ prog.written <= Limit
      BY <1>0 DEF Words
    <2>8. prog.written < Limit => prog.written + Word <= Limit
      BY <1>1, <1>2, <2>7, Sizes, Multiples
    <2>9. Len(out') <= Buf + Word /\ prog.written + Len(out') <= Limit
      BY <1>1, <1>2, <2>4, <2>5, <2>6, <2>7, <2>8
    <2>10. IsMultiple(Len(out'))
      BY <2>4, SmallMultiples
    <2> QED BY <1>0, <2>1, <2>2, <2>4, <2>9, <2>10 DEF Words
  <1>17. ASSUME upd = "GET_BYTES_FIRMWARE", UNCHANGED <<upd, prog, out>>, todo' = <<>>,
                Prepare(ADDR_APPLICATION), copy' = [size |-> prog.written, done |-> 0]
         PROVE  Words'
    <2>1. Stage' = 14 /\ Preparing'
      BY <1>2, <1>17 DEF Stage, StageOf, Idle, Prepare, Preparing
    <2>2. /\ copy' # NoCopy /\ copy'.size <= Limit /\ copy'.done <= copy'.size
          /\ IsMultiple(copy'.size)
      BY <1>0, <1>1, <1>17, CopyBegins DEF Words
    <2> QED BY <1>0, <1>17, <2>1, <2>2 DEF Words
  <1>18. CASE VerifyStored
    <2>1. /\ Executes("Verify") /\ Agrees(ADDR_STORAGE, prog.written)
          /\ Prepare(ADDR_APPLICATION) /\ copy' = [size |-> prog.written, done |-> 0]
          /\ UNCHANGED <<upd, prog, out>>
      BY <1>18, StatementExecutes DEF VerifyStored
    <2>2. Stage = 13
      BY <2>1, PlaceValues DEF Executes
    <2>3. todo' = <<>>
      <3>1. ASSUME todo' # <<>> PROVE FALSE
        <4>1. Stage' = 14
          BY <3>1, <2>1, <2>2 DEF Executes
        <4>2. Stage' = Place(todo'[1])
          BY <3>1 DEF Stage, StageOf
        <4> QED BY <4>1, <4>2, PlaceValues
      <3> QED BY <3>1
    <2>5. upd = "GET_BYTES_FIRMWARE"
      BY <1>0, <2>2 DEF Control
    <2> QED BY <1>17, <2>1, <2>3, <2>5
  <1>19. CASE CopyChunk
    <2> DEFINE n == Min({Buf, copy.size - copy.done})
               data == Read(ADDR_STORAGE + copy.done, n)
    <2>1. /\ copy # NoCopy /\ ~Preparing /\ ~Writing /\ copy.done < copy.size
          /\ WriteBytes(data) /\ copy' = [copy EXCEPT !.done = @ + n]
          /\ UNCHANGED <<page, upd, todo>>
      BY <1>19 DEF CopyChunk, Copying
    <2>2. copy \in [size : Nat, done : Nat]
      BY <1>0, <2>1, CopyFields
    <2>3. /\ upd = "GET_BYTES_FIRMWARE" /\ todo = <<>> /\ copy.size <= Limit
          /\ IsMultiple(copy.size) /\ prog.address = prog.written /\ Stored = copy.done
      BY <1>0, <2>1, <2>2 DEF Control, Words
    <2>4. n \in Nat /\ n <= Buf /\ copy.done + n <= copy.size
      BY <1>2, <2>1, <2>2, Lesser
    <2> HIDE DEF n
    <2>5. data \in Seq(Values) /\ Len(data) = n
      <3>1. ADDR_STORAGE + copy.done \in Nat /\ (ADDR_STORAGE + copy.done) + n <= ADDR_BOOTLOADER + 2 * Word
        BY <1>2, <2>2, <2>3, <2>4, Sizes DEF Limit
      <3> QED BY <1>0, <2>4, <3>1, ReadBytes DEF LoaderTypes
    <2> HIDE DEF data
    <2>6. /\ IsMultiple(prog'.written) /\ IsMultiple(Len(out'))
          /\ Len(prog'.bytes) < Word /\ Len(out') <= Buf + Word
          /\ prog'.address = prog.address /\ prog'.written = prog.written
          /\ prog'.written <= Limit /\ prog'.address <= ADDR_STORAGE + Limit
          /\ Stored' = Stored + n
      BY <2>1, <2>4, <2>5, WriteWords
    <2>7. copy' = [size |-> copy.size, done |-> copy.done + n]
      BY <2>1, <2>2
    <2>8. copy' # NoCopy /\ copy'.size = copy.size /\ copy'.done = copy.done + n
      <3>1. copy'.size = copy.size /\ copy'.done = copy.done + n /\ NoCopy.size = -1
        BY <2>7 DEF NoCopy
      <3> QED BY <2>2, <3>1
    <2>9. Stage' = 14
      BY <2>1, <2>3 DEF Stage, StageOf, Idle
    <2> QED BY <2>1, <2>3, <2>4, <2>6, <2>8, <2>9 DEF Words
  <1>20. CASE VerifyCopy
    <2>1. /\ copy # NoCopy /\ copy.done = copy.size /\ ~Preparing /\ ~Writing
          /\ UNCHANGED <<prog, out, todo>>
      BY <1>20 DEF VerifyCopy, Copying
    <2>3. upd = "GET_BYTES_FIRMWARE" /\ todo = <<>>
      BY <1>0, <2>1 DEF Control
    <2>4. CASE upd' = "COMPLETED" /\ copy' = NoCopy /\ UNCHANGED page
      <3>1. Stage' = 14
        BY <2>1, <2>3 DEF Stage, StageOf, Idle
      <3> QED BY <1>0, <2>1, <2>3, <2>4, <3>1 DEF Words
    <2>5. CASE /\ Prepare(ADDR_APPLICATION) /\ copy' = [size |-> prog.written, done |-> 0]
               /\ UNCHANGED upd
      BY <1>17, <2>1, <2>3, <2>5
    <2> QED BY <1>20, <2>4, <2>5 DEF VerifyCopy
  <1>21. CASE PrepareStep
    <2>1. /\ Preparing /\ UNCHANGED <<out, upd, todo, copy>>
          /\ page' = IF page.left = 1 THEN NoPrepare ELSE [page EXCEPT !.left = @ - 1]
          /\ prog' = IF page.left = 1
                     THEN [address |-> page.start, written |-> 0, bytes |-> <<>>]
                     ELSE prog
      BY <1>21 DEF PrepareStep, PreparePage, mainVars
    <2>2. ~Writing /\ Len(out) = 0 /\ Stage' = Stage
      BY <1>0, <1>1, <2>1 DEF Control, Writing, Stage
    <2>3. CASE page.left = 1
      <3>1. prog' = [address |-> page.start, written |-> 0, bytes |-> <<>>]
        BY <2>1, <2>3
      <3>2. page.start = ADDR_STORAGE \/ page.start = 0
        BY <1>0 DEF LoaderTypes, ADDR_APPLICATION
      <3>3. /\ prog'.address = page.start /\ prog'.written = 0 /\ Len(prog'.bytes) = 0
            /\ Len(out') = 0
        BY <2>1, <2>2, <3>1
      <3>4. IsMultiple(prog'.written) /\ IsMultiple(Len(out'))
        BY <3>3, SmallMultiples
      <3>5. /\ Len(prog'.bytes) < Word /\ Len(out') <= Buf + Word
            /\ prog'.written <= Limit /\ prog'.address <= ADDR_STORAGE + Limit
            /\ Stage' = 13 => prog'.written + Len(out') <= Limit
        BY <1>2, <3>2, <3>3
      <3>6. CASE copy = NoCopy
        <4>1. page.start = ADDR_STORAGE /\ todo # <<>> /\ todo[1] = "SetState"
          BY <1>0, <2>1, <3>6 DEF Control
        <4>2. upd' # "GET_BYTES_FIRMWARE"
          BY <1>0, <2>1, <4>1 DEF Control
        <4> QED BY <2>1, <3>1, <3>4, <3>5, <3>6, <4>1, <4>2 DEF Words
      <3>7. CASE copy # NoCopy
        <4>1. page.start = 0 /\ copy.done = 0 /\ todo = <<>>
          BY <1>0, <2>1, <3>7 DEF Control, ADDR_APPLICATION
        <4>2. /\ copy.size <= Limit /\ copy.done <= copy.size /\ IsMultiple(copy.size)
          BY <1>0, <3>7 DEF Words
        <4>3. Stored' = 0
          BY <3>3 DEF Stored
        <4> QED BY <2>1, <3>3, <3>4, <3>5, <3>7, <4>1, <4>2, <4>3 DEF Words
      <3> QED BY <3>6, <3>7
    <2>4. CASE page.left # 1
      <3>1. prog' = prog /\ page' = [page EXCEPT !.left = @ - 1]
        BY <2>1, <2>4
      <3>2. page.left \in Nat /\ page'.left = page.left - 1
        BY <1>0, <1>2, <3>1 DEF LoaderTypes
      <3>3. Preparing'
        BY <2>1, <2>4, <3>2 DEF Preparing
      <3> QED BY <1>0, <2>1, <2>2, <3>1, <3>3 DEF Words
    <2> QED BY <2>3, <2>4
  <1>22. CASE WordStep
    <2>1. /\ Writing /\ UNCHANGED <<upd, todo, copy>>
          /\ ProgramWord(TRUE) \/ ProgramWord(FALSE)
      BY <1>22 DEF WordStep, ProgramWord, mainVars
    <2>2. /\ Len(out) >= Word /\ Len(out') = Len(out) - Word /\ IsMultiple(Len(out'))
          /\ prog'.address = prog.address + Word /\ prog'.written = prog.written + Word
          /\ prog'.bytes = prog.bytes /\ page' = page
      BY <1>0, <2>1, ProgramWordEffect DEF Words, LoaderTypes
    <2>3. upd = "GET_BYTES_FIRMWARE" /\ ~Preparing /\ upd \in Receiving
      BY <1>0, <2>1 DEF Control, Receiving
    <2>4. IsMultiple(prog'.written)
      BY <1>0, <1>1, <1>2, <2>2, Multiples, SmallMultiples DEF Words
    <2>5. Stored' = Stored /\ Stored \in Nat /\ prog.written + Len(out) <= Stored
      <3>1. Stored' = (prog.written + Word) + (Len(out) - Word) + Len(prog.bytes)
        BY <2>2 DEF Stored
      <3>2. \A w, d, l, b \in Nat : (w + d) + (l - d) + b = w + l + b /\ w + l <= w + l + b
        OBVIOUS
      <3>3. Stored = prog.written + Len(out) + Len(prog.bytes)
        BY DEF Stored
      <3>4. /\ (prog.written + Word) + (Len(out) - Word) + Len(prog.bytes) = Stored
            /\ prog.written + Len(out) <= Stored
        BY <1>1, <1>2, <3>2, <3>3
      <3>5. Stored \in Nat
        BY <1>0, LengthTypes
      <3> QED BY <3>1, <3>4, <3>5
    <2>6. Stage' = Stage /\ ~Preparing'
      BY <2>1, <2>2, <2>3 DEF Stage, Preparing
    <2>7. prog.written + Len(out) <= Limit
      <3>1. CASE Stage = 13
        BY <1>0, <3>1 DEF Words
      <3>2. CASE Stage # 13 /\ copy = NoCopy
        <4>1. GivenBytes + Held <= ftp.pos /\ GivenBytes = Stored
          BY <2>3, <3>2 DEF SessionInv, Lengths, Account, GivenBytes
        <4> QED BY <1>1, <1>2, <2>5, <4>1
      <3>3. CASE copy # NoCopy
        <4>1. Stored = copy.done /\ copy.done <= copy.size /\ copy.size <= Limit
          BY <1>0, <2>3, <3>3 DEF Words
        <4>2. copy \in [size : Nat, done : Nat]
          BY <1>0, <3>3, CopyFields
        <4> QED BY <1>1, <1>2, <2>5, <4>1, <4>2
      <3> QED BY <3>1, <3>2, <3>3
    <2>8. prog'.written <= Limit /\ prog'.written + Len(out') <= Limit /\ Len(out') <= Buf + Word
      <3>1. Len(out) <= Buf + Word
        BY <1>0 DEF Words
      <3>2. \A w, d, l, m, k \in Nat :
              w + l <= m /\ l <= k /\ l >= d =>
                w + d <= m /\ (w + d) + (l - d) <= m /\ l - d <= k
        OBVIOUS
      <3>3. Buf + Word \in Nat
        BY <1>2
      <3>4. /\ prog.written + Word <= Limit /\ (prog.written + Word) + (Len(out) - Word) <= Limit
            /\ Len(out) - Word <= Buf + Word
        BY <1>1, <1>2, <2>2, <2>7, <3>1, <3>2, <3>3, SMTT(30)
      <3> QED BY <2>2, <3>4
    <2>9. CASE copy = NoCopy
      <3>1. prog.address = ADDR_STORAGE + prog.written
        BY <1>0, <2>3, <2>9 DEF Words
      <3>2. prog'.address = ADDR_STORAGE + prog'.written /\ prog'.address <= ADDR_STORAGE + Limit
        BY <1>1, <1>2, <2>2, <2>8, <3>1, SMTT(30)
      <3>3. ~(todo # <<>> /\ todo[1] = "SetState")
        BY <1>0, <2>3 DEF Control
      <3>4. Len(prog'.bytes) < Word
        BY <1>0, <2>2 DEF Words
      <3> QED BY <2>1, <2>2, <2>4, <2>8, <2>9, <3>2, <3>3, <3>4 DEF Words
    <2>10. CASE copy # NoCopy
      <3>1. /\ prog.address = prog.written /\ Stored = copy.done /\ todo = <<>>
            /\ copy.size <= Limit /\ copy.done <= copy.size /\ IsMultiple(copy.size)
        BY <1>0, <2>3, <2>10 DEF Words, Control
      <3>2. prog'.address = prog'.written /\ prog'.address <= ADDR_STORAGE + Limit
        BY <1>1, <1>2, <2>2, <2>8, <3>1
      <3>3. Len(prog'.bytes) < Word
        BY <1>0, <2>2 DEF Words
      <3> QED BY <2>1, <2>2, <2>4, <2>5, <2>8, <2>10, <3>1, <3>2, <3>3 DEF Words
    <2> QED BY <2>9, <2>10
  <1> QED BY <1>3, <1>4, <1>5, <1>6, <1>7, <1>8, <1>9, <1>11, <1>12, <1>13, <1>15, <1>16,
             <1>18, <1>19, <1>20, <1>21, <1>22, StepCases

\* While the main loop executes ReceiveBytes the reader holds nothing of use.
LEMMA HoldsNothing ==
  ASSUME OneRequest', Stage' \in 0 .. 7
  PROVE  Held' = 0
  <1>1. CASE Stage' \in 0 .. 3
    BY <1>1 DEF Held
  <1>2. CASE Stage' \in 4 .. 7
    <2>1. reader'.pointer = 0 /\ ~reader'.received_command /\ Stage' \notin 0 .. 3 \cup {12}
      BY <1>2 DEF OneRequest
    <2> QED BY <2>1 DEF Held
  <1> QED BY <1>1, <1>2

\* No more is stored or held than before, and the wire is left alone.
LEMMA SameAccount ==
  ASSUME SessionInv, upd \in Receiving, copy = NoCopy, Stage # 13,
         wire' = wire, ftp'.pos = ftp.pos,
         GivenBytes' = GivenBytes, Held' = Held \/ Held' = 0
  PROVE  Account'
  <1>1. GivenBytes \in Nat /\ Held \in Nat /\ ftp.pos \in Nat
    BY LengthTypes DEF SessionInv
  <1>2. /\ GivenBytes + Held <= ftp.pos
        /\ \A i \in 1 .. Len(wire) : Counts(wire[i]) => GivenBytes + wire[i].n <= ftp.pos
    BY DEF SessionInv, Lengths, Account
  <1>3. GivenBytes + 0 <= ftp.pos
    BY <1>1, <1>2
  <1> QED BY <1>2, <1>3 DEF Account

\* What the reader received is given to Programmer, and nothing is held then.
LEMMA ReceivedAccount ==
  ASSUME SessionInv, upd = "GET_BYTES_FIRMWARE", copy = NoCopy, Stage \in {10, 14},
         GivenBytes' = GivenBytes + reader.pointer, Held' = 0, UNCHANGED <<wire, ftp>>
  PROVE  Account'
  <1>1. /\ GivenBytes \in Nat /\ Held \in Nat /\ ftp.pos \in Nat
        /\ reader.pointer \in Nat /\ reader.from \in Nat
    BY LengthTypes DEF SessionInv
  <1>2. upd \in Receiving /\ Stage # 13 /\ Stage \notin 0 .. 3 \cup {12}
    BY DEF Receiving
  <1>3. /\ GivenBytes + Held <= ftp.pos
        /\ \A i \in 1 .. Len(wire) : Counts(wire[i]) => GivenBytes + wire[i].n <= ftp.pos
    BY <1>2 DEF SessionInv, Lengths, Account
  <1>4. reader.pointer <= Held
    <2>1. Held = IF reader.received_command THEN reader.from ELSE reader.pointer
      BY <1>2 DEF Held
    <2>2. reader.received_command => reader.pointer < reader.from
      BY DEF SessionInv, OneRequest, DataCanEnd
    <2> QED BY <1>1, <2>1, <2>2
  <1>5. GivenBytes' + Held' <= ftp'.pos
    <2>1. (GivenBytes + reader.pointer) + 0 <= ftp.pos
      BY <1>1, <1>3, <1>4
    <2> QED BY <2>1
  <1>6. ASSUME NEW i \in 1 .. Len(wire'), Counts(wire'[i])
        PROVE  GivenBytes' + wire'[i].n <= ftp'.pos
    <2>1. Answered /\ Outstanding
      BY <1>6 DEF Answered, Outstanding
    <2>2. reader.pointer = 0
      BY <2>1 DEF SessionInv, OneRequest
    <2>3. GivenBytes' = GivenBytes
      BY <1>1, <2>2
    <2> QED BY <1>3, <1>6, <2>3
  <1> QED BY <1>5, <1>6 DEF Account

\* What is taken from the wire becomes what the reader holds.
LEMMA InterruptAccount ==
  ASSUME SessionInv, Interrupt
  PROVE  Account'
  <1> SUFFICES ASSUME copy = NoCopy, Stage # 13 PROVE Account'
    BY DEF Account, Interrupt, mainVars, Stage
  <1>0. LoaderTypes /\ OneRequest
    BY DEF SessionInv
  <1>1. /\ wire # <<>> /\ wire' = Tail(wire) /\ reader' \in ReaderType /\ ftp' \in FtpType
        /\ TakesData \/ TakesText \/ AsksAgain \/ TakesHeader
        /\ upd \in Receiving /\ upd' = upd /\ Stage' = Stage
    BY AppendByteEffect DEF Interrupt, mainVars, Stage
  <1>2. GivenBytes' = GivenBytes
    BY DEF Interrupt, mainVars, progVars, GivenBytes, Stored
  <1>3. /\ GivenBytes \in Nat /\ Held \in Nat /\ ftp.pos \in Nat
        /\ reader.pointer \in Nat /\ reader.from \in Nat
    BY <1>0, LengthTypes
  <1>4. /\ GivenBytes + Held <= ftp.pos
        /\ \A i \in 1 .. Len(wire) : Counts(wire[i]) => GivenBytes + wire[i].n <= ftp.pos
    BY <1>1 DEF SessionInv, Lengths, Account
  <1>5. ftp'.pos = ftp.pos
    BY <1>0, <1>1 DEF TakesData, TakesText, AsksAgain, TakesHeader, LoaderTypes, FtpType
  <1>6. \A i \in 1 .. Len(wire') : i + 1 \in 1 .. Len(wire) /\ wire'[i] = wire[i + 1]
    BY <1>0, <1>1 DEF LoaderTypes
  <1>7. \A i \in 1 .. Len(wire') : Counts(wire'[i]) => GivenBytes + wire'[i].n <= ftp.pos
    BY <1>4, <1>6
  <1>8. GivenBytes + Held' <= ftp.pos
    <2>0. CASE Stage \in 0 .. 3 \cup {12}
      <3>1. Held' = 0
        BY <1>1, <2>0 DEF Held
      <3> QED BY <1>3, <1>4, <3>1
    <2>1. CASE Stage \notin 0 .. 3 \cup {12}
      <3>1. /\ Held = IF reader.received_command THEN reader.from ELSE reader.pointer
            /\ Held' = IF reader'.received_command THEN reader'.from ELSE reader'.pointer
        BY <1>1, <2>1 DEF Held
      <3>2. CASE TakesData
        <4>1. Held = reader.from /\ reader'.from = reader.from
          BY <3>1, <3>2 DEF TakesData
        <4>2. ~reader'.received_command => reader'.pointer = reader.from
          BY <3>2 DEF TakesData
        <4> QED BY <1>4, <3>1, <4>1, <4>2
      <3>3. CASE TakesText \/ AsksAgain
        <4>1. Held' = Held
          BY <3>1, <3>3 DEF TakesText, AsksAgain
        <4> QED BY <1>4, <4>1
      <3>4. CASE TakesHeader
        <4>1. CASE wire[1].n > 0
          <5>1. Counts(wire[1]) /\ 1 \in 1 .. Len(wire)
            BY <1>0, <1>1, <3>4, <4>1 DEF TakesHeader, Counts, LoaderTypes
          <5>2. GivenBytes + wire[1].n <= ftp.pos
            BY <1>4, <5>1
          <5>3. Held' = wire[1].n
            BY <3>1, <3>4, <4>1 DEF TakesHeader
          <5> QED BY <5>2, <5>3
        <4>2. CASE ~(wire[1].n > 0)
          <5>1. Held' = Held
            BY <3>1, <3>4, <4>2 DEF TakesHeader
          <5> QED BY <1>4, <5>1
        <4> QED BY <4>1, <4>2
      <3> QED BY <1>1, <3>2, <3>3, <3>4
    <2> QED BY <2>0, <2>1
  <1> QED BY <1>2, <1>5, <1>7, <1>8 DEF Account

\* The chip promises no more than it has read.
LEMMA ChipAccount ==
  ASSUME SessionInv, ChipStep
  PROVE  Account'
  <1> SUFFICES ASSUME copy = NoCopy, Stage # 13 PROVE Account'
    BY DEF Account, ChipStep, mainVars, Stage
  <1>0. LoaderTypes
    BY DEF SessionInv
  <1>1. /\ reader' = reader /\ upd \in Receiving /\ upd' = upd /\ Stage' = Stage
        /\ (\E m \in 0 .. FileSize : ChipAnswers(m)) \/ ChipTellsMore \/ ChipTellsNothing
    BY ChipEffect DEF ChipStep, mainVars, Stage
  <1>2. GivenBytes' = GivenBytes /\ Held' = Held
    BY <1>1 DEF ChipStep, mainVars, progVars, GivenBytes, Stored, Held
  <1>3. /\ GivenBytes \in Nat /\ Held \in Nat /\ ftp.pos \in Nat
    BY <1>0, LengthTypes
  <1>4. /\ GivenBytes + Held <= ftp.pos
        /\ \A i \in 1 .. Len(wire) : Counts(wire[i]) => GivenBytes + wire[i].n <= ftp.pos
    BY <1>1 DEF SessionInv, Lengths, Account
  <1>5. ASSUME NEW m \in 0 .. FileSize, ChipAnswers(m)
        PROVE  Account'
    <2>1. m \in Nat /\ ftp'.pos = ftp.pos + m
      BY <1>5 DEF ChipAnswers
    <2>2. GivenBytes + Held <= ftp.pos + m /\ GivenBytes + m <= ftp.pos + m
      BY <1>3, <1>4, <2>1
    <2>3. \A i \in 1 .. Len(wire') : Counts(wire'[i]) => wire'[i].n = m
      BY <1>5 DEF ChipAnswers
    <2> QED BY <1>2, <2>1, <2>2, <2>3 DEF Account
  <1>6. CASE ChipTellsMore
    <2>1. ftp'.pos = ftp.pos /\ GivenBytes + 0 <= ftp.pos
      BY <1>3, <1>4, <1>6 DEF ChipTellsMore
    <2>2. \A i \in 1 .. Len(wire') : Counts(wire'[i]) => wire'[i].n = 0
      BY <1>6 DEF ChipTellsMore
    <2> QED BY <1>2, <1>4, <2>1, <2>2 DEF Account
  <1>7. CASE ChipTellsNothing
    <2>1. ftp'.pos = ftp.pos
      BY <1>7 DEF ChipTellsNothing
    <2>2. \A i \in 1 .. Len(wire') :
            Counts(wire'[i]) => i \in 1 .. Len(wire) /\ wire'[i] = wire[i]
      BY <1>7 DEF ChipTellsNothing
    <2>3. \A i \in 1 .. Len(wire') : Counts(wire'[i]) => GivenBytes + wire'[i].n <= ftp.pos
      BY <1>4, <2>2
    <2> QED BY <1>2, <1>4, <2>1, <2>3 DEF Account
  <1> QED BY <1>1, <1>5, <1>6, <1>7

\* Programmer is never given more bytes than the chip has read from the file.
LEMMA NextAccount ==
  ASSUME SessionInv, [Next]_vars
  PROVE  Account'
  <1>0. LoaderTypes /\ Control /\ Words /\ OneRequest /\ OneRequest'
    BY NextOneRequest DEF SessionInv, Lengths
  <1>1. GivenBytes \in Nat /\ Held \in Nat /\ ftp.pos \in Nat
    BY <1>0, LengthTypes
  <1>2. CASE ResetStep \/ RestartStep
    <2>1. upd' = "IDLE"
      BY <1>2 DEF ResetStep, Reset, RestartStep, Restarted
    <2> QED BY <2>1 DEF Account, Receiving
  <1>3. CASE QuietStep \/ UNCHANGED vars
    <2>1. /\ UNCHANGED <<prog, out, reader, wire, ftp, todo, copy>>
          /\ upd' # upd => upd' \notin Receiving
      BY <1>3 DEF QuietStep, vars, progVars, readerVars, mainVars
    <2>2. CASE upd' = upd
      <3>1. GivenBytes' = GivenBytes /\ Held' = Held /\ Stage' = Stage
        BY <2>1, <2>2 DEF GivenBytes, Stored, Held, Stage
      <3> QED BY <2>1, <2>2, <3>1 DEF Account, SessionInv, Lengths
    <2>3. CASE upd' # upd
      BY <2>1, <2>3 DEF Account
    <2> QED BY <2>2, <2>3
  <1>4. CASE Connected
    <2>1. /\ upd = "NEED_WAIT_CONNECT" /\ upd' = "GET_BYTES_VER" /\ todo' = ReceiveBytes
          /\ wire' = wire
      BY <1>4 DEF Connected
    <2>2. wire' = <<>>
      BY <1>0, <2>1 DEF OneRequest, Receiving
    <2>3. Stage' = 1
      BY <2>1, ListsOrdered DEF Stage
    <2>4. Held' = 0 /\ GivenBytes' = 0
      BY <2>1, <2>3 DEF Held, GivenBytes
    <2>5. ftp'.pos \in Nat
      <3>1. FileSize \in Nat /\ Positions \subseteq 0 .. FileSize
        BY Sizes, LoaderAssumption
      <3> QED BY <1>4, <3>1 DEF Connected
    <2>6. 0 + 0 <= ftp'.pos
      BY <2>5
    <2>7. \A i \in 1 .. Len(wire') : FALSE
      BY <2>2
    <2> QED BY <2>4, <2>6, <2>7 DEF Account
  <1>5. CASE GetVersion \/ GetCRC
    <2>1. /\ AtUpdate /\ upd \in Receiving \ {"GET_BYTES_FIRMWARE"}
          /\ upd' # "GET_BYTES_FIRMWARE" /\ UNCHANGED <<wire, ftp>>
      BY <1>5 DEF GetVersion, GetCRC, readerVars, Receiving
    <2>2. \/ todo' = ReceiveBytes
          \/ todo' = <<"SetState">> \o ReceiveBytes \o <<"received_FTPGET_1_0">>
      BY <1>5 DEF GetVersion, GetCRC
    <2>3. Stage' \in 0 .. 1 /\ Stage = 14 /\ copy = NoCopy
      <3>1. Stage' = 1 \/ Stage' = 0
        BY <2>2, ListsOrdered DEF Stage
      <3>2. Stage = 14 /\ copy = NoCopy
        BY <2>1 DEF Stage, StageOf, AtUpdate, Idle
      <3> QED BY <3>1, <3>2
    <2>4. GivenBytes' = GivenBytes /\ Held' = 0
      BY <2>1, <2>3 DEF GivenBytes, Held
    <2> QED BY <2>1, <2>3, <2>4, SameAccount
  <1>6. CASE GetLastBytes
    <2>1. /\ ~Writing /\ copy = NoCopy /\ upd = "GET_BYTES_FIRMWARE" /\ WriteBytes(Received)
          /\ UNCHANGED <<upd, copy, wire, ftp>> /\ todo' = Verify /\ todo = <<>>
      BY <1>6 DEF GetLastBytes, AtUpdate, readerVars
    <2>2. Stage' = 12 /\ todo' # <<>> /\ todo'[1] # "SetState" /\ Stage = 14
      BY <2>1, ListsOrdered DEF Stage, Verify, Idle
    <2>3. GivenBytes' = GivenBytes + reader.pointer
      BY <2>1, <2>2, ReceivedWords
    <2>4. Held' = 0
      BY <2>2 DEF Held
    <2> QED BY <2>1, <2>2, <2>3, <2>4, ReceivedAccount
  <1>7. CASE TestRequested
    <2>1. /\ AtUpdate /\ upd \in Receiving
          /\ UNCHANGED <<prog, out, reader, wire, ftp, upd>>
          /\ todo' = <<"requested_bytes_received">>
      BY <1>7 DEF TestRequested, progVars, readerVars, Receiving
    <2>2. Stage' = 10 /\ Stage = 14 /\ copy = NoCopy
      BY <2>1, ListsOrdered DEF Stage, AtUpdate, Idle
    <2>3. GivenBytes' = GivenBytes /\ Held' = Held
      BY <2>1, <2>2 DEF GivenBytes, Stored, Held
    <2> QED BY <2>1, <2>2, <2>3, SameAccount
  <1>8. CASE GetBytes
    <2>1. /\ ~Writing /\ UNCHANGED <<upd, copy, page, reader, wire, ftp>>
          /\ todo # <<>> /\ todo[1] = "requested_bytes_received"
      BY <1>0, <1>8 DEF GetBytes, Control, Ordered, readerVars
    <2>2. Stage = 10 /\ upd = "GET_BYTES_FIRMWARE" /\ copy = NoCopy
      BY <1>0, <2>1, PlaceValues DEF Stage, StageOf, Control
    <2>3. CASE reader.requested
      <3>1. WriteBytes(Received) /\ todo' = <<"state_meter">> \o ReceiveBytes
        BY <1>8, <2>3 DEF GetBytes
      <3>2. Stage' = 0 /\ todo'[1] = "state_meter"
        BY <3>1, ListsOrdered DEF Stage
      <3>3. todo' # <<>>
        BY <3>2 DEF Stage, StageOf, Idle
      <3>4. GivenBytes' = GivenBytes + reader.pointer
        BY <2>1, <2>2, <3>1, <3>2, <3>3, ReceivedWords
      <3>5. Held' = 0
        BY <3>2 DEF Held
      <3> QED BY <2>1, <2>2, <3>4, <3>5, ReceivedAccount
    <2>4. CASE ~reader.requested
      <3>1. UNCHANGED <<prog, out>> /\ todo' = <<>>
        BY <1>8, <2>4 DEF GetBytes
      <3>2. Stage' = 14
        BY <3>1 DEF Stage, StageOf, Idle
      <3>3. GivenBytes' = GivenBytes /\ Held' = Held
        BY <2>1, <2>2, <3>1, <3>2 DEF GivenBytes, Stored, Held
      <3> QED BY <2>1, <2>2, <3>3, SameAccount DEF Receiving
    <2> QED BY <2>3, <2>4
  <1>9. ASSUME NEW name, Executes(name), Place(name) \in 0 .. 6, UNCHANGED <<wire, ftp>>,
               GivenBytes' = GivenBytes
        PROVE  Account'
    <2>1. Stage = Place(name) /\ Stage' = Stage + 1 /\ copy = NoCopy /\ upd \in Receiving
      BY <1>0, <1>9 DEF Executes, Control
    <2>2. Stage # 13 /\ Stage' \in 0 .. 7
      BY <1>9, <2>1
    <2>3. Held' = 0
      BY <1>0, <2>2, HoldsNothing
    <2> QED BY <1>9, <2>1, <2>2, <2>3, SameAccount
  <1>10. ASSUME UNCHANGED <<progVars, upd>>
         PROVE  GivenBytes' = GivenBytes
    BY <1>10 DEF GivenBytes, Stored, progVars
  <1>11. CASE MeterReset
    <2>1. Executes("state_meter") /\ UNCHANGED <<wire, ftp>> /\ GivenBytes' = GivenBytes
      BY <1>10, <1>11, StatementExecutes DEF MeterReset, readerVars
    <2> QED BY <1>9, <2>1, PlaceValues
  <1>12. CASE SetState
    <2>1. /\ Executes("SetState") /\ UNCHANGED <<wire, ftp, prog, out>>
          /\ upd' = "GET_BYTES_FIRMWARE"
      BY <1>12, StatementExecutes DEF SetState, readerVars, progVars
    <2>2. /\ prog = [address |-> ADDR_STORAGE, written |-> 0, bytes |-> <<>>]
          /\ upd = "GET_BYTES_CRC" /\ out = <<>>
      BY <1>0, <2>1 DEF Words, Executes, Control, Writing
    <2>3. prog'.written = 0 /\ Len(out') = 0 /\ Len(prog'.bytes) = 0
      BY <2>1, <2>2
    <2>4. GivenBytes' = 0 /\ GivenBytes = 0
      BY <2>1, <2>2, <2>3 DEF GivenBytes, Stored
    <2> QED BY <1>9, <2>1, <2>4, PlaceValues
  <1>13. CASE RequestStep
    <2>1. Executes("request") /\ UNCHANGED <<wire, ftp>> /\ GivenBytes' = GivenBytes
      BY <1>10, <1>13, StatementExecutes DEF RequestStep
    <2> QED BY <1>9, <2>1, PlaceValues
  <1>14. ASSUME NEW name, ClearStep(name), Place(name) \in 0 .. 6
         PROVE  Account'
    <2>1. Executes(name) /\ UNCHANGED <<wire, ftp>> /\ GivenBytes' = GivenBytes
      BY <1>10, <1>14, StatementExecutes DEF ClearStep
    <2> QED BY <1>9, <1>14, <2>1
  <1>15. CASE \/ ClearStep("pointer_command") \/ ClearStep("received_command")
              \/ ClearStep("pointer_data") \/ ClearStep("need_bytes") \/ ClearStep("requested")
    BY <1>14, <1>15, PlaceValues
  <1>16. CASE TransmitStep
    <2>1. Executes("transmit") /\ UNCHANGED <<wire, reader>> /\ GivenBytes' = GivenBytes
      BY <1>10, <1>16, StatementExecutes DEF TransmitStep
    <2>2. Stage = 7 /\ Stage' \in {8, 14} /\ copy = NoCopy /\ upd \in Receiving
      BY <1>0, <2>1, PlaceValues DEF Executes, Control, Idle
    <2>3. ftp'.pos = ftp.pos
      BY <1>0, <1>16 DEF TransmitStep, Request, LoaderTypes, FtpType
    <2>4. Held' = Held
      BY <2>1, <2>2 DEF Held
    <2> QED BY <2>1, <2>2, <2>3, <2>4, SameAccount
  <1>17. CASE ClearEOF
    <2>1. /\ Executes("received_FTPGET_1_0") /\ UNCHANGED <<wire, ftp>>
          /\ GivenBytes' = GivenBytes
      BY <1>10, <1>17, StatementExecutes DEF ClearEOF
    <2>2. Stage = 8 /\ Stage' \in {9, 14} /\ copy = NoCopy /\ upd \in Receiving
      BY <1>0, <2>1, PlaceValues DEF Executes, Control, Idle
    <2>3. /\ reader'.received_command = reader.received_command
          /\ reader'.pointer = reader.pointer /\ reader'.from = reader.from
      BY <1>0, <1>17 DEF ClearEOF, LoaderTypes, ReaderType
    <2>4. Held' = Held
      BY <2>2, <2>3 DEF Held
    <2> QED BY <2>1, <2>2, <2>4, SameAccount
  <1>18. CASE CloseStep
    <2>1. Executes("CloseSession")
      BY <1>18, StatementExecutes DEF CloseStep
    <2>2. Stage' = 13
      BY <2>1, PlaceValues DEF Executes
    <2> QED BY <2>2 DEF Account
  <1>19. CASE VerifyStored \/ CopyChunk \/ VerifyCopy
    <2>1. copy' # NoCopy \/ upd' = "COMPLETED"
      <3>1. CASE VerifyStored
        BY <1>0, <3>1, CopyBegins DEF VerifyStored
      <3>2. CASE CopyChunk
        <4> DEFINE n == Min({Buf, copy.size - copy.done})
        <4>1. /\ copy # NoCopy /\ copy.done < copy.size
              /\ copy' = [copy EXCEPT !.done = @ + n]
          BY <3>2 DEF CopyChunk, Copying
        <4>2. copy \in [size : Nat, done : Nat]
          BY <1>0, <4>1, CopyFields
        <4> HIDE DEF n
        <4>3. copy'.size = copy.size /\ NoCopy.size = -1
          BY <4>1, <4>2 DEF NoCopy
        <4> QED BY <4>2, <4>3
      <3>3. CASE VerifyCopy /\ upd' # "COMPLETED"
        BY <1>0, <3>3, CopyBegins DEF VerifyCopy
      <3> QED BY <1>19, <3>1, <3>2, <3>3
    <2> QED BY <2>1 DEF Account, Receiving
  <1>20. CASE PrepareStep
    <2>1. Preparing /\ UNCHANGED <<reader, wire, ftp, upd, todo, copy>>
      BY <1>20 DEF PrepareStep, PreparePage, mainVars, readerVars
    <2>2. Stage' = Stage /\ Held' = Held
      BY <2>1 DEF Stage, Held
    <2>3. CASE copy # NoCopy
      BY <2>1, <2>3 DEF Account
    <2>4. CASE copy = NoCopy
      <3>1. todo # <<>> /\ todo[1] = "SetState"
        BY <1>0, <2>1, <2>4 DEF Control
      <3>2. upd = "GET_BYTES_CRC" /\ Stage = 0
        BY <1>0, <3>1, PlaceValues DEF Control, Stage, StageOf
      <3>3. GivenBytes = 0 /\ GivenBytes' = 0
        BY <2>1, <3>2 DEF GivenBytes
      <3> QED BY <2>1, <2>2, <2>4, <3>2, <3>3, SameAccount DEF Receiving
    <2> QED BY <2>3, <2>4
  <1>21. CASE WordStep
    <2>1. /\ Writing /\ UNCHANGED <<reader, wire, ftp, upd, todo, copy>>
          /\ ProgramWord(TRUE) \/ ProgramWord(FALSE)
      BY <1>21 DEF WordStep, ProgramWord, mainVars
    <2>2. /\ Len(out) >= Word /\ Len(out') = Len(out) - Word
          /\ prog'.written = prog.written + Word /\ prog'.bytes = prog.bytes
      BY <1>0, <2>1, ProgramWordEffect DEF Words, LoaderTypes
    <2>3. Stage' = Stage /\ Held' = Held
      BY <2>1 DEF Stage, Held
    <2>4. GivenBytes' = GivenBytes
      <3>1. Stored' = (prog.written + Word) + (Len(out) - Word) + Len(prog.bytes)
        BY <2>2 DEF Stored
      <3>2. \A w, d, l, b \in Nat : (w + d) + (l - d) + b = w + l + b
        OBVIOUS
      <3>3. prog.written \in Nat /\ Word \in Nat /\ Len(out) \in Nat /\ Len(prog.bytes) \in Nat
        BY <1>0, LengthTypes, Parameters
      <3>4. (prog.written + Word) + (Len(out) - Word) + Len(prog.bytes)
              = prog.written + Len(out) + Len(prog.bytes)
        BY <3>2, <3>3
      <3>5. Stored' = Stored
        BY <3>1, <3>4 DEF Stored
      <3> QED BY <2>1, <3>5 DEF GivenBytes
    <2>5. CASE copy # NoCopy \/ Stage = 13
      BY <2>1, <2>3, <2>5 DEF Account
    <2>6. CASE copy = NoCopy /\ Stage # 13
      BY <1>0, <2>1, <2>3, <2>4, <2>6, SameAccount DEF Control, Receiving
    <2> QED BY <2>5, <2>6
  <1> QED BY <1>2, <1>3, <1>4, <1>5, <1>6, <1>7, <1>8, <1>11, <1>12, <1>13, <1>15, <1>16,
             <1>17, <1>18, <1>19, <1>20, <1>21, InterruptAccount, ChipAccount, StepCases

-----------------------------------------------------------------------------
(* The place in buffer_command, and what the copy is of.                   *)

Observed == pointer_command \in Nat /\ misled \in BOOLEAN

\* The interrupt counts characters, or begins a line again.
LEMMA AppendObserved ==
  ASSUME pointer_command \in Nat, AppendByte
  PROVE  pointer_command' \in Nat
  <1> DEFINE piece == Head(wire)
  <1>1. \/ AppendData(piece) \/ AppendLF(piece) \/ AppendChar(piece)
    BY DEF AppendByte
  <1> HIDE DEF piece
  <1>2. CASE AppendData(piece)
    <2>1. pointer_command' = 0 \/ pointer_command' = pointer_command
      BY <1>2 DEF AppendData
    <2> QED BY <2>1
  <1>3. CASE AppendLF(piece)
    <2>1. \/ pointer_command' = 0 \/ pointer_command' = pointer_command
          \/ pointer_command' = pointer_command + 1
      BY <1>3 DEF AppendLF, LineFeed
    <2> QED BY <2>1
  <1>4. CASE AppendChar(piece)
    <2>1. LineLength(piece.text) \in {2, 5, 12, 13}
      BY DEF LineLength
    <2>2. PieceLength(piece) \in Nat
      BY <2>1 DEF PieceLength
    <2>3. pointer_command' = pointer_command + PieceLength(piece)
      BY <1>4 DEF AppendChar
    <2> QED BY <2>2, <2>3
  <1> QED BY <1>1, <1>2, <1>3, <1>4

\* The other steps leave the place alone or begin a line; misled is a truth value.
LEMMA NextObserved ==
  ASSUME Observed, SessionInv, [Next]_vars
  PROVE  Observed'
  <1> USE DEF Observed
  <1>1. CASE ResetStep \/ QuietStep \/ UNCHANGED vars
    BY <1>1 DEF ResetStep, Reset, QuietStep, vars, readerVars, mainVars
  <1>2. CASE RestartStep
    <2>1. pointer_command' = 0 /\ misled' \in BOOLEAN
      BY <1>2 DEF RestartStep, Restarted
    <2> QED BY <2>1
  <1>3. CASE Connected \/ GetVersion \/ GetCRC \/ GetLastBytes \/ TestRequested \/ GetBytes
    BY <1>3 DEF Connected, GetVersion, GetCRC, GetLastBytes, TestRequested, GetBytes, readerVars
  <1>4. CASE MeterReset \/ SetState \/ RequestStep \/ TransmitStep \/ ClearEOF \/ CloseStep
    BY <1>4 DEF MeterReset, SetState, RequestStep, TransmitStep, ClearEOF, CloseStep, readerVars
  <1>5. ASSUME NEW name, ClearStep(name) PROVE Observed'
    <2>1. pointer_command' \in {0, pointer_command} /\ misled' = misled
      BY <1>5 DEF ClearStep, PointerCleared
    <2> QED BY <2>1
  <1>6. CASE VerifyStored
    <2>1. pointer_command' = pointer_command /\ misled' \in BOOLEAN
      BY <1>6 DEF VerifyStored, readerVars
    <2> QED BY <2>1
  <1>7. CASE CopyChunk \/ VerifyCopy \/ PrepareStep \/ WordStep
    BY <1>7 DEF CopyChunk, VerifyCopy, PrepareStep, WordStep, readerVars, mainVars
  <1>8. CASE Interrupt
    BY <1>8, AppendObserved DEF Interrupt, mainVars
  <1>9. CASE ChipStep
    BY <1>9 DEF ChipStep, Chip, ChipData, ChipError, ChipMore, ChipEnd, ChipFail, mainVars
  <1> HIDE DEF Observed
  <1> QED BY <1>1, <1>2, <1>3, <1>4, <1>5, <1>6, <1>7, <1>8, <1>9, StepCases

-----------------------------------------------------------------------------
(* The theorems.                                                           *)

\* The inductive invariant of the session.
LEMMA SessionInvHolds == Spec => []SessionInv
  <1>1. Init => SessionInv
    BY InitTypes, InitControl, InitOneRequest, InitLengths DEF SessionInv
  <1>2. SessionInv /\ [Next]_vars => SessionInv'
    BY NextTypes, NextControl, NextOneRequest, NextWords, NextAccount DEF SessionInv, Lengths
  <1> QED BY <1>1, <1>2, PTL DEF Spec

\* The invariant of the two others.
LEMMA ObservedHolds == Spec => []Observed
  <1>1. Init => Observed
    <2> SUFFICES ASSUME Init PROVE Observed
      OBVIOUS
    <2>1. pointer_command = 0 /\ misled = FALSE
      BY DEF Init, ReaderInit
    <2> QED BY <2>1 DEF Observed
  <1>2. SessionInv /\ Observed /\ [Next]_vars => Observed'
    BY NextObserved
  <1> QED BY <1>1, <1>2, SessionInvHolds, PTL DEF Spec

\* They imply the ranges a run checks.
LEMMA SessionTypes ==
  ASSUME SessionInv, Observed
  PROVE  TypeOK
  <1>1. LoaderTypes /\ Words
    BY DEF SessionInv, Lengths
  <1>2. /\ ADDR_STORAGE \in Nat /\ Limit \in Nat /\ Word \in Nat \ {0}
        /\ ADDR_STORAGE + Limit = ADDR_BOOTLOADER + 2 * Word
        /\ Limit = ADDR_STORAGE + 2 * Word
        /\ FirmwareSize \in Nat /\ FirmwareSize <= ADDR_STORAGE
    BY Sizes, Parameters DEF Limit
  <1>3. prog.address \in Nat /\ prog.written \in Nat
    BY <1>1, LengthTypes
  <1>4. /\ prog.address \in 0 .. ADDR_BOOTLOADER + 2 * Word
        /\ prog.written \in 0 .. ADDR_STORAGE + 2 * Word
        /\ Len(prog.bytes) < Word /\ Len(out) <= Buf + Word
    BY <1>1, <1>2, <1>3 DEF Words
  <1>5. \/ copy = NoCopy
        \/ copy.size \in 0 .. ADDR_STORAGE + 2 * Word /\ copy.done \in 0 .. copy.size
    <2>1. CASE copy # NoCopy
      <3>1. copy.size <= Limit /\ copy.done <= copy.size
        BY <1>1, <2>1 DEF Words
      <3>2. copy \in [size : Nat, done : Nat]
        BY <1>1, <2>1, CopyFields
      <3> QED BY <1>2, <3>1, <3>2
    <2> QED BY <2>1
  <1>6. /\ rom \in [ROM -> Nil .. FileSize]
        /\ reader \in [received_command : BOOLEAN, need : {0, Word, Buf}, from : 0 .. Buf,
                       cmd : {"empty", "begun", "whole", "torn", "ended"},
                       pointer : 0 .. Buf, buffer : [1 .. Buf -> Nil .. FileSize],
                       requested : BOOLEAN, eof : BOOLEAN]
        /\ ftp \in [open : BOOLEAN, pos : 0 .. FileSize, ask : 0 .. Buf, owes : BOOLEAN]
    BY <1>1 DEF LoaderTypes, ReaderType, FtpType, Values
  <1>7. /\ page \in [start : {ADDR_APPLICATION, ADDR_STORAGE}, left : 0 .. NumPages]
        /\ faults \in 0 .. MaxFaults
        /\ mode \in {"loader", "application", "stone"}
        /\ sim \in SimStates /\ upd \in UpdStates
        /\ {late, clean, misled} \subseteq BOOLEAN
        /\ sessions \in 0 .. MaxSessions /\ pointer_command \in Nat
    BY <1>1 DEF LoaderTypes, Observed
  <1> QED BY <1>4, <1>5, <1>6, <1>7 DEF TypeOK

\* Every variable of the loader has its type, for every size of the flash, the
\* file and the buffers: pointer_data never passes the end of the data buffer, and
\* Programmer never programs further than two words behind the storage, whatever
\* positions the sessions begin at.  Of pointer_command nothing is claimed but
\* that it is a number: that it stays within buffer_command is CommandFits.
THEOREM TypeCorrect == Spec => []TypeOK
  <1>1. SessionInv /\ Observed => TypeOK
    BY SessionTypes
  <1> QED BY <1>1, SessionInvHolds, ObservedHolds, PTL

\* Whenever AppendByte takes data, pointer_data can still meet bytes_from_FTP:
\* at most one request is outstanding, and none while ReceiveBytes clears the
\* reader, so no header of an answer finds data of an earlier one.
THEOREM DataEnds == Spec => []DataCanEnd
  <1>1. SessionInv => DataCanEnd
    BY DEF SessionInv, OneRequest
  <1> QED BY <1>1, SessionInvHolds, PTL

\* The interrupt gives bytes to ReaderFTP only while SIM868 runs the updater.
THEOREM UpdaterOwns == Spec => []UpdaterOwnsBytes
  <1>1. SessionInv => UpdaterOwnsBytes
    BY DEF SessionInv, Control, UpdaterOwnsBytes, Receiving
  <1> QED BY <1>1, SessionInvHolds, PTL
=============================================================================
