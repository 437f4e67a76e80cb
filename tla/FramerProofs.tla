---------------------------- MODULE FramerProofs ----------------------------
(***************************************************************************)
(* The framer, for every set of scripts, hence for every stream of bytes   *)
(* the chip may send, cut into passes anywhere and torn anywhere.          *)
(***************************************************************************)
EXTENDS Framer, FiniteSetTheorems, WellFoundedInduction, TLAPS

-----------------------------------------------------------------------------
(* Natural numbers: least elements, and induction stated with a set.       *)

\* A set of natural numbers with an element has a least one.
LEMMA LeastNatural ==
  ASSUME NEW S \in SUBSET Nat, S # {}
  PROVE  \E n \in S : \A m \in S : n <= m
  <1>1. \E n \in S : \A m \in S : ~(<<m, n>> \in OpToRel(<, Nat))
    BY NatLessThanWellFounded, WFMin
  <1>2. PICK n \in S : \A m \in S : ~(<<m, n>> \in OpToRel(<, Nat))
    BY <1>1
  <1>3. ASSUME NEW m \in S PROVE n <= m
    <2>1. m \in Nat /\ n \in Nat
      OBVIOUS
    <2>2. ~(m < n)
      BY <1>2, <2>1 DEF OpToRel
    <2> QED BY <2>1, <2>2
  <1> QED BY <1>3

\* Min of SequencesExt is that least element.
LEMMA MinIsLeast ==
  ASSUME NEW S \in SUBSET Nat, NEW x \in S
  PROVE  Min(S) \in S /\ \A m \in S : Min(S) <= m
  <1>1. \E n \in S : \A m \in S : n =< m
    BY LeastNatural
  <1> QED BY <1>1 DEF Min

\* What holds for 0 and for the successor of each number it holds for.
LEMMA SetInduction ==
  ASSUME NEW S \in SUBSET Nat, 0 \in S, \A n \in S : n + 1 \in S
  PROVE  S = Nat
  <1> DEFINE T == Nat \ S
  <1> SUFFICES ASSUME T # {} PROVE FALSE
    OBVIOUS
  <1>1. PICK n \in T : \A m \in T : n <= m
    BY LeastNatural
  <1>2. n \in Nat /\ n # 0 /\ n - 1 \in Nat
    BY <1>1
  <1>3. n - 1 \in S
    BY <1>1, <1>2
  <1> QED BY <1>1, <1>2, <1>3

-----------------------------------------------------------------------------
(* The number in a header.                                                 *)

\* The function that adds up digits exists for every sequence.
LEMMA ValueExists ==
  ASSUME NEW s \in Seq(Bytes), NEW n \in Nat
  PROVE  \E f : f = [k \in 0 .. n |-> IF k = 0 THEN 0 ELSE Capped(10 * f[k - 1] + s[k] - 48)]
  <1> DEFINE Good(f, m) == f = [k \in 0 .. m |->
                                IF k = 0 THEN 0 ELSE Capped(10 * f[k - 1] + s[k] - 48)]
             S == {m \in Nat : \E f : Good(f, m)}
  <1>1. 0 \in S
    <2>1. Good([k \in 0 .. 0 |-> 0], 0)
      OBVIOUS
    <2> QED BY <2>1
  <1>2. ASSUME NEW m \in S PROVE m + 1 \in S
    <2>1. PICK f : Good(f, m)
      OBVIOUS
    <2> DEFINE g == [k \in 0 .. m + 1 |->
                     IF k = m + 1 THEN Capped(10 * f[m] + s[m + 1] - 48) ELSE f[k]]
    <2>2. \A k \in 0 .. m + 1 : g[k] = IF k = 0 THEN 0 ELSE Capped(10 * g[k - 1] + s[k] - 48)
      <3> SUFFICES ASSUME NEW k \in 0 .. m + 1
                   PROVE  g[k] = IF k = 0 THEN 0 ELSE Capped(10 * g[k - 1] + s[k] - 48)
        OBVIOUS
      <3>1. CASE k = m + 1
        BY <3>1
      <3>2. CASE k # m + 1
        <4>1. k \in 0 .. m /\ g[k] = f[k]
          BY <3>2
        <4>2. k # 0 => g[k - 1] = f[k - 1]
          BY <4>1
        <4> QED BY <2>1, <4>1, <4>2
      <3> QED BY <3>1, <3>2
    <2>3. Good(g, m + 1)
      BY <2>2
    <2>4. \E h : Good(h, m + 1)
      <3> HIDE DEF g, Good
      <3> QED BY <2>3
    <2> HIDE DEF Good
    <2> QED BY <2>4
  <1>3. S = Nat
    <2> HIDE DEF S
    <2>1. S \in SUBSET Nat
      BY DEF S
    <2> QED BY <1>1, <1>2, <2>1, SetInduction
  <1> QED BY <1>3

\* Digits that a colon ends have a value that is not negative.
LEMMA ValueOK ==
  ASSUME NEW text \in Seq(Bytes), Len(text) > 0, text[Len(text)] = 58
  PROVE  Value(text) \in 0 .. 2 * Half
  <1> DEFINE L == Len(text)
             I == {k \in 1 .. L : text[k] \notin 48 .. 57}
             v == CHOOSE f : f = [k \in 0 .. L |->
                                  IF k = 0 THEN 0 ELSE Capped(10 * f[k - 1] + text[k] - 48)]
             S == {n \in Nat : n < Min(I) => v[n] \in 0 .. 2 * Half}
  <1>1. L \in Nat \ {0} /\ text[L] \notin 48 .. 57
    OBVIOUS
  <1>2. I \in SUBSET Nat /\ L \in I
    BY <1>1
  <1>3. Min(I) \in I /\ \A k \in I : Min(I) <= k
    BY <1>2, MinIsLeast, ZenonT(40)
  <1>4. v = [k \in 0 .. L |-> IF k = 0 THEN 0 ELSE Capped(10 * v[k - 1] + text[k] - 48)]
    <2> HIDE DEF L
    <2> QED BY <1>1, ValueExists, ZenonT(40)
  <1>5. Min(I) \in 1 .. L /\ \A k \in 1 .. L : k < Min(I) => text[k] \in 48 .. 57
    <2> DEFINE M == Min(I)
    <2>1. M \in 1 .. L
      BY <1>3
    <2>2. ASSUME NEW k \in 1 .. L, k < M PROVE text[k] \in 48 .. 57
      <3> SUFFICES ASSUME text[k] \notin 48 .. 57 PROVE FALSE
        OBVIOUS
      <3>1. k \in I
        OBVIOUS
      <3>2. M <= k
        BY <1>3, <3>1
      <3> HIDE DEF M, L
      <3> QED BY <1>1, <2>1, <2>2, <3>2
    <2> QED BY <2>1, <2>2
  <1>6. Value(text) = v[Min(I) - 1]
    BY <1>2 DEF Value, SelectInSeq
  <1>7. S = Nat
    <2> DEFINE M == Min(I)
    <2>0. M \in 1 .. L /\ L \in Nat
          /\ \A k \in 1 .. L : k < M => text[k] \in 48 .. 57
      BY <1>1, <1>5
    <2>1. 0 \in S
      <3> HIDE DEF v, M, L
      <3>1. v[0] = 0
        BY <1>4, <2>0
      <3> QED BY <3>1, HalfAssumption
    <2>2. ASSUME NEW n \in S PROVE n + 1 \in S
      <3> HIDE DEF v, M, L
      <3> SUFFICES ASSUME n + 1 < M PROVE v[n + 1] \in 0 .. 2 * Half
        BY DEF M
      <3>1. v[n] \in 0 .. 2 * Half /\ n \in Nat
        BY <2>0 DEF M
      <3>2. v[n + 1] = Capped(10 * v[n] + text[n + 1] - 48)
        BY <1>4, <2>0, <3>1
      <3>3. text[n + 1] \in 48 .. 57
        BY <2>0, <3>1
      <3>4. \A a \in 0 .. 2 * Half, b \in 48 .. 57 : Capped(10 * a + b - 48) \in 0 .. 2 * Half
        BY HalfAssumption DEF Capped
      <3> QED BY <3>1, <3>2, <3>3, <3>4, ZenonT(40)
    <2> HIDE DEF S
    <2>3. S \in SUBSET Nat
      BY DEF S
    <2> QED BY <2>1, <2>2, <2>3, SetInduction
  <1>8. Min(I) - 1 \in S /\ Min(I) \in Nat
    <2> HIDE DEF S, I, L
    <2>1. Min(I) \in 1 .. L /\ L \in Nat
      BY <1>1, <1>5
    <2> QED BY <1>7, <2>1
  <1> QED
    <2> HIDE DEF I, v
    <2> QED BY <1>6, <1>8

\* What strtoul makes of a header is an unsigned long, and an int once converted,
\* whatever stands there: blanks, a sign, too many digits or none.
LEMMA AnnouncedIsInt ==
  ASSUME NEW text \in Seq(Bytes), Len(text) > 5, text[Len(text)] = 58
  PROVE  Announced(text) \in Ints
  <1> DEFINE rest   == DropFirst(text, 5)
             L      == Len(rest)
             I      == {k \in 1 .. L : rest[k] \notin Blanks}
             first  == SelectInSeq(rest, LAMBDA c : c \notin Blanks)
             digits == DropFirst(rest, IF rest[first] \in {PLUS, MINUS} THEN first ELSE first - 1)
             n      == Value(digits)
  <1>1. rest \in Seq(Bytes) /\ L = Len(text) - 5 /\ rest[L] = 58 /\ L \in Nat \ {0}
    BY DEF DropFirst
  <1>2. I \in SUBSET Nat /\ L \in I
    BY <1>1 DEF Blanks
  <1>3. first = Min(I)
    BY <1>2 DEF SelectInSeq
  <1>4. Min(I) \in I /\ \A k \in I : Min(I) <= k
    BY <1>2, MinIsLeast, ZenonT(40)
  <1>5. first \in 1 .. L
    BY <1>3, <1>4
  <1> HIDE DEF I, first, rest, L
  <1>6. digits \in Seq(Bytes) /\ Len(digits) > 0 /\ digits[Len(digits)] = 58
    <2>1. ASSUME NEW k \in 0 .. L - 1
          PROVE  /\ DropFirst(rest, k) \in Seq(Bytes) /\ Len(DropFirst(rest, k)) > 0
                 /\ DropFirst(rest, k)[Len(DropFirst(rest, k))] = 58
      BY <1>1, <2>1 DEF DropFirst, L
    <2>2. rest[first] \in {PLUS, MINUS} => first # L
      BY <1>1 DEF PLUS, MINUS
    <2>3. (IF rest[first] \in {PLUS, MINUS} THEN first ELSE first - 1) \in 0 .. L - 1
      BY <1>1, <1>5, <2>2
    <2> QED BY <2>1, <2>3
  <1> HIDE DEF digits
  <1>7. n \in 0 .. 2 * Half
    BY <1>6, ValueOK
  <1>8. ULong(text) = IF n = 2 * Half THEN 2 * Half - 1
                      ELSE IF rest[first] = MINUS /\ n > 0 THEN 2 * Half - n
                      ELSE n
    BY DEF ULong, rest, first, digits
  <1> HIDE DEF n
  <1>9. ULong(text) \in 0 .. 2 * Half - 1
    BY <1>7, <1>8, HalfAssumption
  <1> QED BY <1>9, HalfAssumption DEF Announced, Ints

-----------------------------------------------------------------------------
(* Parts of sequences.                                                     *)

\* RemoveFirst, as far as it finds what it removes.
LEMMA DropFirstOK ==
  ASSUME NEW s \in Seq(Bytes), NEW n \in 0 .. Len(s)
  PROVE  /\ DropFirst(s, n) \in Seq(Bytes)
         /\ Len(DropFirst(s, n)) = Len(s) - n
  BY DEF DropFirst

\* The bytes of a message: never none.
LEMMA WireOK ==
  ASSUME NEW m \in Messages
  PROVE  Wire(m) \in Seq(Bytes) /\ Len(Wire(m)) >= 2
  <1>1. m.text \in Seq(Bytes) /\ m.payload \in Seq(Bytes) /\ m.tail \in Seq(Bytes)
    BY DEF Messages
  <1>2. <<CR, LF>> \in Seq(Bytes) /\ Len(<<CR, LF>>) = 2
    BY DEF CR, LF, Bytes
  <1>3. ASSUME NEW a \in Seq(Bytes), NEW b \in Seq(Bytes)
        PROVE  a \o b \in Seq(Bytes) /\ Len(a \o b) >= Len(a)
    OBVIOUS
  <1> DEFINE a == <<CR, LF>> \o m.text
             b == a \o m.payload
  <1>4. a \in Seq(Bytes) /\ Len(a) >= 2
    BY <1>1, <1>2, <1>3
  <1>5. b \in Seq(Bytes) /\ Len(b) >= 2
    <2> HIDE DEF a
    <2>1. b \in Seq(Bytes) /\ Len(b) >= Len(a)
      BY <1>1, <1>3, <1>4
    <2> HIDE DEF b
    <2> QED BY <1>4, <2>1
  <1>6. Wire(m) = b \o m.tail
    BY DEF Wire
  <1> HIDE DEF b
  <1>7. b \o m.tail \in Seq(Bytes) /\ Len(b \o m.tail) >= Len(b)
    BY <1>1, <1>3, <1>5
  <1> QED BY <1>5, <1>6, <1>7

\* A chip that starts again goes on with messages it could have sent.
LEMMA RestOfScript ==
  ASSUME NEW s \in Seq(Messages)
  PROVE  RemoveFirstMatch(s, LAMBDA x : x.continues) \in Seq(Messages)
  <1> DEFINE I == {k \in 1 .. Len(s) : s[k].continues}
  <1>1. CASE I = {}
    BY <1>1 DEF RemoveFirstMatch
  <1>2. CASE I # {}
    <2>1. Min(I) \in I
      BY <1>2, MinIsLeast
    <2>2. RemoveFirstMatch(s, LAMBDA x : x.continues)
            = SubSeq(s, 1, Min(I) - 1) \o SubSeq(s, Min(I) + 1, Len(s))
      BY <1>2 DEF RemoveFirstMatch, SelectInSeq, RemoveAt
    <2>3. Min(I) \in 1 .. Len(s)
      BY <2>1
    <2> HIDE DEF I
    <2>4. ASSUME NEW k \in 1 .. Len(s)
          PROVE  SubSeq(s, 1, k - 1) \in Seq(Messages) /\ SubSeq(s, k + 1, Len(s)) \in Seq(Messages)
      OBVIOUS
    <2>5. ASSUME NEW a \in Seq(Messages), NEW b \in Seq(Messages)
          PROVE  a \o b \in Seq(Messages)
      OBVIOUS
    <2> QED BY <2>2, <2>3, <2>4, <2>5
  <1> QED BY <1>1, <1>2

-----------------------------------------------------------------------------
(* The inductive invariant.                                                *)

\* The bytes on their way, and those taken in.
Types ==
    /\ TypeOK
    /\ script \in Seq(Messages)
    /\ script # <<>> => sent < Len(Wire(Head(script)))

\* A payload is fed before any letter is scanned; the letters scanned stand in
\* `buffer` from the first of them on.
Scan ==
    scanning =>
        /\ i <= Len(buffer) /\ fed <= i
        /\ binary_bytes_left # 0 => fed = i /\ answer = <<>>
        /\ answer # <<>> => \E k \in 1 .. i : /\ buffer[k] = answer[1]
                                             /\ Len(answer) <= i - k + 1

ScanInv == Types /\ Scan /\ NoPacketKept

\* The byte that completes a packet is its last one: PBD::Process leaves nothing
\* of the packet behind, and nothing it could take for the next.
LEMMA AppendByteOK ==
  ASSUME pbd \in Seq(Bytes), NoPacketKept, NEW byte \in Bytes, AppendByte(byte)
  PROVE  pbd' \in Seq(Bytes) /\ NoPacketKept'
  <1> DEFINE p == Append(pbd, byte)
  <1>0. \A b \in Bytes : b \in Nat
    BY DEF Bytes
  <1>1. /\ p \in Seq(Bytes) /\ Len(p) = Len(pbd) + 1 /\ p[Len(p)] = byte
        /\ \A k \in 1 .. Len(pbd) : p[k] = pbd[k]
    OBVIOUS
  <1>2. CASE ~Complete(p) /\ pbd' = p
    BY <1>1, <1>2 DEF NoPacketKept
  <1>3. CASE Complete(p) /\ pbd' = DropFirst(p, AllBytes(p))
    <2>1. Len(p) >= 2 /\ p[2] \in Nat /\ Len(p) >= p[2] + 2 /\ Len(p) \in Nat
      <3> HIDE DEF p
      <3>1. Len(p) >= 2 /\ Len(p) >= p[2] + 2 /\ Len(p) \in Nat
        BY <1>1, <1>3 DEF Complete, AllBytes
      <3>2. p[2] \in Bytes
        BY <1>1, <3>1
      <3> QED BY <1>0, <3>1, <3>2
    <2>2. Len(p) = AllBytes(p)
      <3>1. CASE Len(pbd) >= 2
        <4>1. pbd[2] \in Nat /\ p[2] = pbd[2] /\ Len(pbd) \in Nat
          <5>1. 2 \in 1 .. Len(pbd) /\ Len(pbd) \in Nat
            BY <3>1
          <5>2. pbd[2] \in Bytes
            BY <5>1
          <5>3. p[2] = pbd[2]
            BY <1>1, <5>1
          <5> QED BY <1>0, <5>1, <5>2, <5>3
        <4>2. ~(Len(pbd) >= pbd[2] + 2)
          BY <3>1 DEF NoPacketKept, Complete, AllBytes
        <4> HIDE DEF p
        <4> QED BY <1>1, <2>1, <4>1, <4>2 DEF AllBytes
      <3>2. CASE Len(pbd) < 2
        <4>1. Len(pbd) \in Nat
          OBVIOUS
        <4> HIDE DEF p
        <4> QED BY <1>1, <2>1, <3>2, <4>1 DEF AllBytes
      <3>3. Len(pbd) \in Nat
        OBVIOUS
      <3> QED BY <3>1, <3>2, <3>3
    <2>3. pbd' \in Seq(Bytes) /\ Len(pbd') = 0
      <3>1. Len(p) \in 0 .. Len(p)
        BY <2>1
      <3> HIDE DEF p
      <3>2. DropFirst(p, Len(p)) \in Seq(Bytes) /\ Len(DropFirst(p, Len(p))) = Len(p) - Len(p)
        BY <1>1, <3>1, DropFirstOK
      <3> QED BY <1>3, <2>1, <2>2, <3>2
    <2> QED BY <2>3 DEF NoPacketKept, Complete
  <1> QED BY <1>2, <1>3 DEF AppendByte

\* Where a header is recognised, `buffer` holds at least its letters behind the
\* control characters that RemoveFirst takes away one by one: neither loop of
\* removals runs past the end.
LEMMA HeaderStands ==
  ASSUME ScanInv, InLoop, binary_bytes_left = 0, IsLetter, IsHeader(Append(answer, Symbol))
  PROVE  /\ WithoutControls \in Seq(Bytes)
         /\ Len(Append(answer, Symbol)) <= Len(WithoutControls)
  <1>0. /\ buffer \in Seq(Bytes) /\ answer \in Seq(Bytes) /\ i \in Nat /\ Len(buffer) \in Nat
        /\ i < Len(buffer) /\ scanning /\ Len(answer) \in Nat /\ Symbol \in Bytes
    BY DEF ScanInv, Types, TypeOK, InLoop, Symbol
  <1>1. Len(Append(answer, Symbol)) = Len(answer) + 1 /\ Len(answer) >= 5
    BY <1>0 DEF IsHeader
  <1>2. answer # <<>> /\ answer[1] = 43
    <2>1. Append(answer, Symbol)[1] = answer[1]
      BY <1>0, <1>1
    <2>2. SubSeq(Append(answer, Symbol), 1, 4)[1] = Append(answer, Symbol)[1]
      BY <1>0, <1>1
    <2>3. SubSeq(Append(answer, Symbol), 1, 4)[1] = 43
      <3>1. SubSeq(Append(answer, Symbol), 1, 4) = <<43, 73, 80, 68>>
        BY DEF IsHeader
      <3>2. <<43, 73, 80, 68>>[1] = 43
        OBVIOUS
      <3> QED BY <3>1, <3>2
    <2> QED BY <1>0, <1>1, <2>1, <2>2, <2>3
  <1>3. PICK k \in 1 .. i : buffer[k] = answer[1] /\ Len(answer) <= i - k + 1
    BY <1>0, <1>2 DEF ScanInv, Scan
  <1> DEFINE J == {n \in 1 .. Len(buffer) : buffer[n] >= 32}
             M == Min(J)
  <1>4. k \in J
    BY <1>0, <1>2, <1>3
  <1>5. M \in J /\ M <= k
    BY <1>4, MinIsLeast
  <1>6. WithoutControls = DropFirst(buffer, M - 1)
    BY <1>4 DEF WithoutControls, SelectInSeq
  <1>7. M \in 1 .. Len(buffer)
    BY <1>5
  <1> HIDE DEF M
  <1>8. M - 1 \in 0 .. Len(buffer)
    BY <1>0, <1>7
  <1>9. WithoutControls \in Seq(Bytes) /\ Len(WithoutControls) = Len(buffer) - (M - 1)
    BY <1>0, <1>6, <1>8, DropFirstOK
  <1> QED BY <1>0, <1>1, <1>3, <1>5, <1>7, <1>9

\* Nothing has been sent.
LEMMA InitScanInv == Init => ScanInv
  <1> SUFFICES ASSUME Init PROVE ScanInv
    OBVIOUS
  <1>1. script \in Seq(Messages)
    BY ScriptsAssumption DEF Init
  <1>2. script # <<>> => sent < Len(Wire(Head(script)))
    <2> SUFFICES ASSUME script # <<>> PROVE sent < Len(Wire(Head(script)))
      OBVIOUS
    <2>1. Head(script) \in Messages
      BY <1>1
    <2>2. Len(Wire(Head(script))) >= 2 /\ Wire(Head(script)) \in Seq(Bytes)
      BY <2>1, WireOK
    <2>3. Len(Wire(Head(script))) \in Nat
      BY <2>2
    <2> QED BY <2>2, <2>3 DEF Init
  <1>3. scanning = FALSE /\ desync = FALSE
    BY DEF Init
  <1>4. TypeOK
    <2>1. buffer \in Seq(Bytes) /\ answer \in Seq(Bytes) /\ pbd \in Seq(Bytes)
      <3>1. <<>> \in Seq(Bytes)
        OBVIOUS
      <3> QED BY <3>1 DEF Init
    <2>2. {i, fed, stale, sent} \subseteq Nat /\ binary_bytes_left \in Ints
      BY HalfAssumption DEF Init, Ints
    <2>3. scanning \in BOOLEAN /\ desync \in BOOLEAN
      BY <1>3, Zenon
    <2> QED BY <2>1, <2>2, <2>3 DEF TypeOK
  <1>5. NoPacketKept
    BY DEF Init, NoPacketKept, Complete
  <1> QED BY <1>1, <1>2, <1>3, <1>4, <1>5 DEF ScanInv, Types, Scan

\* Bytes that arrive are the bytes of messages.
LEMMA ArrivalOK ==
  ASSUME ScanInv, ByteArrives \/ ChipRestarts
  PROVE  ScanInv'
  <1>0. /\ script \in Seq(Messages) /\ buffer \in Seq(Bytes) /\ sent \in Nat
        /\ script # <<>> /\ sent < Len(Wire(Head(script))) /\ scanning = FALSE
        /\ answer \in Seq(Bytes) /\ pbd \in Seq(Bytes) /\ desync \in BOOLEAN
        /\ i \in Nat /\ binary_bytes_left \in Ints /\ fed \in Nat /\ stale \in Nat
        /\ NoPacketKept
    <2>1. /\ script \in Seq(Messages) /\ buffer \in Seq(Bytes) /\ sent \in Nat
          /\ script # <<>> => sent < Len(Wire(Head(script)))
          /\ answer \in Seq(Bytes) /\ pbd \in Seq(Bytes)
          /\ scanning \in BOOLEAN /\ desync \in BOOLEAN
          /\ i \in Nat /\ binary_bytes_left \in Ints /\ fed \in Nat /\ stale \in Nat
          /\ NoPacketKept
      BY DEF ScanInv, Types, TypeOK
    <2>2. script # <<>>
      <3>1. CASE ByteArrives
        BY <3>1 DEF ByteArrives
      <3>2. CASE ChipRestarts
        <4>1. Len(script) > 1
          BY <3>2 DEF ChipRestarts
        <4> QED BY <4>1
      <3> QED BY <3>1, <3>2
    <2>3. ~scanning
      BY DEF ByteArrives, ChipRestarts
    <2> QED BY <2>1, <2>2, <2>3
  <1>1. Head(script) \in Messages /\ Tail(script) \in Seq(Messages)
    BY <1>0
  <1>2. Wire(Head(script)) \in Seq(Bytes) /\ Len(Wire(Head(script))) \in Nat
    BY <1>1, WireOK
  <1>3. ASSUME NEW s \in Seq(Messages), s # <<>> PROVE 0 < Len(Wire(Head(s)))
    <2>1. Head(s) \in Messages
      BY <1>3
    <2>2. Wire(Head(s)) \in Seq(Bytes) /\ Len(Wire(Head(s))) >= 2
      BY <2>1, WireOK
    <2> QED BY <2>2
  <1>4. NoPacketKept' /\ UNCHANGED <<scanning, answer, pbd, i, binary_bytes_left, fed, stale>>
    BY <1>0 DEF ByteArrives, ChipRestarts, scanVars, NoPacketKept
  <1>5. CASE ByteArrives
    <2>1. Wire(Head(script))[sent + 1] \in Bytes
      BY <1>0, <1>2
    <2>2. buffer' \in Seq(Bytes) /\ desync' \in BOOLEAN
      BY <1>0, <1>5, <2>1 DEF ByteArrives
    <2>3. CASE sent + 1 = Len(Wire(Head(script)))
      <3>1. script' = Tail(script) /\ sent' = 0
        BY <1>5, <2>3 DEF ByteArrives
      <3>2. script' \in Seq(Messages) /\ (script' # <<>> => sent' < Len(Wire(Head(script'))))
        BY <1>1, <1>3, <3>1
      <3>3. sent' \in Nat
        BY <3>1
      <3> QED BY <1>0, <1>4, <2>2, <3>2, <3>3 DEF ScanInv, Types, TypeOK, Scan
    <2>4. CASE sent + 1 # Len(Wire(Head(script)))
      <3>1. script' = script /\ sent' = sent + 1
        BY <1>5, <2>4 DEF ByteArrives
      <3>2. sent' < Len(Wire(Head(script'))) /\ sent' \in Nat
        BY <1>0, <1>2, <2>4, <3>1
      <3> QED BY <1>0, <1>4, <2>2, <3>1, <3>2 DEF ScanInv, Types, TypeOK, Scan
    <2> QED BY <2>3, <2>4
  <1>6. CASE ChipRestarts
    <2>1. script' = RemoveFirstMatch(Tail(script), LAMBDA x : x.continues) /\ sent' = 0
          /\ buffer' = buffer
      BY <1>6 DEF ChipRestarts, scanVars
    <2>2. script' \in Seq(Messages)
      BY <1>1, <2>1, RestOfScript
    <2>3. desync' \in BOOLEAN
      BY <1>6 DEF ChipRestarts
    <2>4. script' # <<>> => sent' < Len(Wire(Head(script')))
      BY <1>3, <2>1, <2>2
    <2>5. buffer' = buffer /\ sent' = 0
      BY <2>1
    <2> QED BY <1>0, <1>4, <2>2, <2>3, <2>4, <2>5 DEF ScanInv, Types, TypeOK, Scan
  <1> QED BY <1>5, <1>6

\* Steps of InData::Update.
LEMMA ScanOK ==
  ASSUME ScanInv, InDataUpdate
  PROVE  ScanInv'
  <1>0. /\ script \in Seq(Messages) /\ buffer \in Seq(Bytes) /\ sent \in Nat
        /\ script # <<>> => sent < Len(Wire(Head(script)))
        /\ answer \in Seq(Bytes) /\ pbd \in Seq(Bytes)
        /\ scanning \in BOOLEAN /\ desync \in BOOLEAN
        /\ i \in Nat /\ binary_bytes_left \in Ints /\ fed \in Nat /\ stale \in Nat
        /\ NoPacketKept /\ Len(buffer) \in Nat /\ Len(answer) \in Nat
    BY DEF ScanInv, Types, TypeOK
  <1>1. /\ InLoop => /\ scanning = TRUE /\ i < Len(buffer) /\ fed <= i /\ Symbol \in Bytes
                     /\ Symbol = buffer[i + 1]
                     /\ binary_bytes_left # 0 => fed = i /\ answer = <<>>
                     /\ answer # <<>> => \E k \in 1 .. i : /\ buffer[k] = answer[1]
                                                          /\ Len(answer) <= i - k + 1
    BY <1>0 DEF InLoop, Symbol, ScanInv, Scan
  <1>2. UNCHANGED envVars
    BY DEF InDataUpdate, PassOverNothing, PassBegins, FeedBinary, SkipSymbol, EndLine, EndPrompt,
           Deliver, ScanLetter, HeaderFound, PassEnds, vars
  <1>3. ASSUME UNCHANGED pbd PROVE NoPacketKept'
    BY <1>0, <1>3 DEF NoPacketKept
  <1>4. ASSUME buffer' \in Seq(Bytes), answer' \in Seq(Bytes), pbd' \in Seq(Bytes),
               scanning' \in BOOLEAN, desync' \in BOOLEAN, i' \in Nat,
               binary_bytes_left' \in Ints, fed' \in Nat, stale' \in Nat
        PROVE  Types'
    BY <1>0, <1>2, <1>4 DEF Types, TypeOK, envVars
  <1>5. ASSUME UNCHANGED <<pbd>>, buffer' \in Seq(Bytes), scanning' \in BOOLEAN,
               desync' \in BOOLEAN, binary_bytes_left' \in Ints, stale' \in Nat,
               i' = 0, answer' = <<>>, fed' = 0
        PROVE  ScanInv'
    <2>1. answer' \in Seq(Bytes) /\ Len(buffer') \in Nat
      BY <1>5
    <2>2. Types'
      BY <1>0, <1>4, <1>5, <2>1
    <2> QED BY <1>3, <1>5, <2>1, <2>2 DEF ScanInv, Scan
  <1>6. CASE PassOverNothing
    BY <1>6 DEF PassOverNothing, vars, envVars, scanVars, ScanInv, Types, TypeOK, Scan, NoPacketKept
  <1>7. CASE PassBegins
    BY <1>0, <1>5, <1>7 DEF PassBegins
  <1>8. CASE FeedBinary
    <2>1. pbd' \in Seq(Bytes) /\ NoPacketKept'
      BY <1>0, <1>1, <1>8, AppendByteOK DEF FeedBinary
    <2>2. /\ i' = i + 1 /\ fed' = fed + 1 /\ binary_bytes_left' \in Ints
          /\ UNCHANGED <<buffer, scanning, answer, stale, desync>>
          /\ binary_bytes_left # 0 /\ InLoop
      <3>1. binary_bytes_left' \in Ints
        BY <1>0, <1>8, HalfAssumption DEF FeedBinary, Ints
      <3> QED BY <1>8, <3>1 DEF FeedBinary
    <2>3. Types'
      BY <1>0, <1>4, <2>1, <2>2
    <2>4. Scan'
      BY <1>0, <1>1, <2>2 DEF Scan
    <2> QED BY <2>1, <2>3, <2>4 DEF ScanInv
  <1>9. CASE SkipSymbol
    <2>1. /\ i' = i + 1 /\ InLoop /\ binary_bytes_left = 0
          /\ UNCHANGED <<buffer, scanning, answer, binary_bytes_left, fed, stale, pbd, desync>>
      BY <1>9 DEF SkipSymbol
    <2>2. Types' /\ NoPacketKept'
      BY <1>0, <1>3, <1>4, <2>1
    <2>3. ASSUME answer # <<>>
          PROVE  \E k \in 1 .. i + 1 : buffer[k] = answer[1] /\ Len(answer) <= (i + 1) - k + 1
      BY <1>0, <1>1, <2>1, <2>3
    <2>4. Scan'
      BY <1>0, <1>1, <2>1, <2>3 DEF Scan
    <2> QED BY <2>2, <2>4 DEF ScanInv
  <1>10. CASE EndLine \/ EndPrompt
    <2>1. /\ InLoop /\ buffer' = DropFirst(buffer, i + 1)
          /\ i' = 0 /\ answer' = <<>> /\ fed' = 0 /\ stale' \in {0, stale - (i + 1)}
          /\ stale' # 0 => stale > i + 1
          /\ UNCHANGED <<scanning, binary_bytes_left, pbd, desync>>
      BY <1>10 DEF EndLine, EndPrompt, Deliver
    <2>2. buffer' \in Seq(Bytes)
      <3>1. i + 1 \in 0 .. Len(buffer)
        BY <1>0, <1>1, <2>1
      <3> QED BY <1>0, <2>1, <3>1, DropFirstOK
    <2>3. stale' \in Nat
      BY <1>0, <2>1
    <2> QED BY <1>0, <1>5, <2>1, <2>2, <2>3
  <1>11. CASE ScanLetter
    <2>1. /\ i' = i + 1 /\ InLoop /\ binary_bytes_left = 0 /\ answer' = Append(answer, Symbol)
          /\ UNCHANGED <<buffer, scanning, binary_bytes_left, fed, stale, pbd, desync>>
      BY <1>11 DEF ScanLetter
    <2>2. answer' \in Seq(Bytes) /\ Len(answer') = Len(answer) + 1
          /\ answer' # <<>>
          /\ answer'[1] = IF answer = <<>> THEN Symbol ELSE answer[1]
      BY <1>0, <1>1, <2>1
    <2>3. Types' /\ NoPacketKept'
      BY <1>0, <1>3, <1>4, <2>1, <2>2
    <2>4. \E k \in 1 .. i + 1 : buffer[k] = answer'[1] /\ Len(answer') <= (i + 1) - k + 1
      <3>1. CASE answer = <<>>
        <4>1. i + 1 \in 1 .. i + 1 /\ buffer[i + 1] = answer'[1] /\ Len(answer') <= (i + 1) - (i + 1) + 1
          BY <1>0, <1>1, <2>1, <2>2, <3>1
        <4> QED BY <4>1
      <3>2. CASE answer # <<>>
        <4>1. PICK k \in 1 .. i : buffer[k] = answer[1] /\ Len(answer) <= i - k + 1
          BY <1>1, <2>1, <3>2
        <4>2. k \in 1 .. i + 1 /\ buffer[k] = answer'[1] /\ Len(answer') <= (i + 1) - k + 1
          BY <1>0, <2>2, <3>2, <4>1
        <4> QED BY <4>2
      <3> QED BY <3>1, <3>2
    <2>5. i + 1 <= Len(buffer) /\ fed <= i + 1
      BY <1>0, <1>1, <2>1
    <2>6. Scan'
      BY <2>1, <2>4, <2>5 DEF Scan
    <2> QED BY <2>3, <2>6 DEF ScanInv
  <1>12. CASE HeaderFound
    <2> DEFINE text == Append(answer, Symbol)
    <2>1. /\ InLoop /\ binary_bytes_left = 0 /\ IsLetter /\ IsHeader(text)
          /\ binary_bytes_left' = Announced(text)
          /\ buffer' = DropFirst(WithoutControls, Len(text))
          /\ i' = 0 /\ answer' = <<>> /\ fed' = 0 /\ stale' = 0
          /\ UNCHANGED <<scanning, pbd>>
      BY <1>12 DEF HeaderFound
    <2>2. desync' \in BOOLEAN
      BY <1>12 DEF HeaderFound
    <2>3. text \in Seq(Bytes) /\ Len(text) \in Nat
      BY <1>0, <1>1, <2>1
    <2>4. WithoutControls \in Seq(Bytes) /\ Len(text) <= Len(WithoutControls)
      BY <2>1, HeaderStands
    <2> HIDE DEF text
    <2>5. Announced(text) \in Ints
      BY <2>1, <2>3, AnnouncedIsInt DEF IsHeader
    <2>6. Len(text) \in 0 .. Len(WithoutControls)
      BY <2>3, <2>4
    <2>7. buffer' \in Seq(Bytes)
      BY <2>1, <2>4, <2>6, DropFirstOK
    <2> QED BY <1>0, <1>5, <2>1, <2>2, <2>5, <2>7
  <1>13. CASE PassEnds
    <2>1. desync' \in BOOLEAN
      BY <1>13 DEF PassEnds
    <2> QED BY <1>0, <1>5, <1>13, <2>1 DEF PassEnds
  <1> QED BY <1>6, <1>7, <1>8, <1>9, <1>10, <1>11, <1>12, <1>13 DEF InDataUpdate

\* Every step, of the chip or of the framer, keeps the invariant.
LEMMA NextScanInv == ScanInv /\ [Next]_vars => ScanInv'
  <1> SUFFICES ASSUME ScanInv, [Next]_vars PROVE ScanInv'
    OBVIOUS
  <1>1. CASE Next
    BY <1>1, ArrivalOK, ScanOK DEF Next
  <1>2. CASE UNCHANGED vars
    BY <1>2 DEF vars, envVars, scanVars, ScanInv, Types, TypeOK, Scan, NoPacketKept
  <1> QED BY <1>1, <1>2

\* The inductive invariant of the framer.
LEMMA ScanInvHolds == Spec => []ScanInv
  BY InitScanInv, NextScanInv, PTL DEF Spec

-----------------------------------------------------------------------------
(* The letters of an answer.                                               *)

\* Counting letters up to the next place.
LEMMA LettersGrow ==
  ASSUME NEW s, NEW from \in Nat, NEW to \in Nat, from <= to + 1
  PROVE  /\ IsFiniteSet(Letters(s, from, to))
         /\ Cardinality(Letters(s, from, to)) \in Nat
         /\ Cardinality(Letters(s, from, to + 1)) =
              IF s[to + 1] \in {CR, LF} THEN Cardinality(Letters(s, from, to))
              ELSE Cardinality(Letters(s, from, to)) + 1
  <1> DEFINE A == Letters(s, from, to)
             B == Letters(s, from, to + 1)
  <1>1. IsFiniteSet(from .. to) /\ A \subseteq from .. to
    BY FS_Interval DEF Letters
  <1>2. IsFiniteSet(A) /\ Cardinality(A) \in Nat
    BY <1>1, FS_Subset, FS_CardinalityType
  <1>3. to + 1 \notin A
    BY DEF Letters
  <1>4. CASE s[to + 1] \in {CR, LF}
    <2>1. B = A
      BY <1>4 DEF Letters
    <2> QED BY <1>2, <1>4, <2>1
  <1>5. CASE s[to + 1] \notin {CR, LF}
    <2>1. B = A \cup {to + 1}
      BY <1>5 DEF Letters
    <2>2. Cardinality(A \cup {to + 1}) = Cardinality(A) + 1
      BY <1>2, <1>3, FS_AddElement
    <2> QED BY <1>2, <1>5, <2>1, <2>2
  <1> QED BY <1>4, <1>5

\* The number of a letter among those up to a place.
LEMMA LetterNumber ==
  ASSUME NEW s, NEW from \in Nat, NEW to \in Nat, NEW k \in Letters(s, from, to)
  PROVE  Cardinality(Letters(s, from, k)) \in 1 .. Cardinality(Letters(s, from, to))
  <1>1. from <= to + 1 /\ k \in from .. to /\ k \in Nat
    BY DEF Letters
  <1>2. IsFiniteSet(Letters(s, from, to)) /\ Cardinality(Letters(s, from, to)) \in Nat
    BY <1>1, LettersGrow
  <1>3. Letters(s, from, k) \subseteq Letters(s, from, to) /\ k \in Letters(s, from, k)
    BY <1>1 DEF Letters
  <1>4. /\ IsFiniteSet(Letters(s, from, k))
        /\ Cardinality(Letters(s, from, k)) <= Cardinality(Letters(s, from, to))
    BY <1>2, <1>3, FS_Subset
  <1>5. Cardinality(Letters(s, from, k)) \in Nat /\ Cardinality(Letters(s, from, k)) # 0
    BY <1>3, <1>4, FS_CardinalityType, FS_EmptySet
  <1> QED BY <1>2, <1>4, <1>5

\* No letters before the first place.
LEMMA NoLetters ==
  ASSUME NEW s, NEW n \in Nat
  PROVE  Letters(s, n + 1, n) = {} /\ Cardinality(Letters(s, n + 1, n)) = 0
  <1>1. Letters(s, n + 1, n) = {}
    BY DEF Letters
  <1> QED BY <1>1, FS_EmptySet

\* Each step of the scan keeps the answer equal to the letters scanned.
LEMMA NextAnswer == ScanInv /\ AnswerWithinBuffer /\ [Next]_vars => AnswerWithinBuffer'
  <1> SUFFICES ASSUME ScanInv, AnswerWithinBuffer, [Next]_vars
               PROVE  AnswerWithinBuffer'
    OBVIOUS
  <1> SUFFICES ASSUME scanning'
               PROVE  /\ i' <= Len(buffer')
                      /\ Len(answer') = Cardinality(Letters(buffer', fed' + 1, i'))
                      /\ \A k \in Letters(buffer', fed' + 1, i') :
                           answer'[Cardinality(Letters(buffer', fed' + 1, k))] = buffer'[k]
    BY DEF AnswerWithinBuffer
  <1>0. /\ buffer \in Seq(Bytes) /\ answer \in Seq(Bytes) /\ scanning \in BOOLEAN
        /\ i \in Nat /\ fed \in Nat /\ Len(buffer) \in Nat /\ Len(answer) \in Nat
    BY DEF ScanInv, Types, TypeOK
  <1>1. ASSUME i' = 0, fed' = 0, answer' = <<>>, buffer' \in Seq(Bytes)
        PROVE  /\ i' <= Len(buffer')
               /\ Len(answer') = Cardinality(Letters(buffer', fed' + 1, i'))
               /\ Letters(buffer', fed' + 1, i') = {}
    <2>1. Letters(buffer', 0 + 1, 0) = {} /\ Cardinality(Letters(buffer', 0 + 1, 0)) = 0
      BY NoLetters
    <2>2. 0 <= Len(buffer') /\ Len(<<>>) = 0
      BY <1>1
    <2> QED BY <1>1, <2>1, <2>2
  <1>2. ASSUME InLoop
        PROVE  /\ scanning /\ i + 1 <= Len(buffer) /\ fed + 1 <= i + 1 /\ fed + 1 \in Nat
               /\ Symbol = buffer[i + 1] /\ Symbol \in Bytes
               /\ Len(answer) = Cardinality(Letters(buffer, fed + 1, i))
               /\ \A k \in Letters(buffer, fed + 1, i) :
                    answer[Cardinality(Letters(buffer, fed + 1, k))] = buffer[k]
    BY <1>0, <1>2 DEF InLoop, Symbol, ScanInv, Scan, AnswerWithinBuffer
  <1>3. buffer' \in Seq(Bytes)
    <2>1. ScanInv'
      BY NextScanInv
    <2> QED BY <2>1 DEF ScanInv, Types, TypeOK
  <1>4. CASE ByteArrives \/ ChipRestarts \/ PassEnds
    BY <1>4 DEF ByteArrives, ChipRestarts, scanVars, PassEnds
  <1>5. CASE UNCHANGED vars \/ PassOverNothing
    BY <1>5 DEF PassOverNothing, vars, scanVars, AnswerWithinBuffer
  <1>6. CASE PassBegins \/ EndLine \/ EndPrompt \/ HeaderFound
    <2>1. i' = 0 /\ fed' = 0 /\ answer' = <<>>
      BY <1>6 DEF PassBegins, EndLine, EndPrompt, Deliver, HeaderFound
    <2> QED BY <1>1, <1>3, <2>1
  <1>7. CASE FeedBinary
    <2>1. /\ InLoop /\ i' = i + 1 /\ fed' = fed + 1 /\ UNCHANGED <<buffer, answer>>
          /\ fed = i /\ answer = <<>>
      BY <1>0, <1>7 DEF FeedBinary, ScanInv, Scan, InLoop
    <2>2. i + 1 \in Nat /\ Len(answer) = 0
      BY <1>0, <2>1
    <2>3. /\ Letters(buffer, (i + 1) + 1, i + 1) = {}
          /\ Cardinality(Letters(buffer, (i + 1) + 1, i + 1)) = 0
      BY <2>2, NoLetters
    <2> QED BY <1>2, <2>1, <2>2, <2>3
  <1>8. CASE SkipSymbol
    <2>1. /\ InLoop /\ i' = i + 1 /\ UNCHANGED <<buffer, answer, fed>>
          /\ buffer[i + 1] \in {CR, LF}
      BY <1>2, <1>8 DEF SkipSymbol
    <2>2. Letters(buffer, fed + 1, i + 1) = Letters(buffer, fed + 1, i)
      BY <1>0, <2>1 DEF Letters
    <2> QED BY <1>2, <2>1, <2>2
  <1>9. CASE ScanLetter
    <2>1. /\ InLoop /\ i' = i + 1 /\ UNCHANGED <<buffer, fed>>
          /\ answer' = Append(answer, Symbol) /\ Symbol \notin {CR, LF}
      BY <1>9 DEF ScanLetter, IsLetter
    <2> DEFINE N(k) == Cardinality(Letters(buffer, fed + 1, k))
    <2>2. N(i + 1) = N(i) + 1 /\ N(i) = Len(answer)
      BY <1>0, <1>2, <2>1, LettersGrow
    <2>3. /\ Len(answer') = Len(answer) + 1 /\ answer'[Len(answer) + 1] = Symbol
          /\ \A n \in 1 .. Len(answer) : answer'[n] = answer[n]
      BY <1>0, <1>2, <2>1
    <2>4. ASSUME NEW k \in Letters(buffer, fed + 1, i + 1)
          PROVE  answer'[N(k)] = buffer[k]
      <3>1. CASE k = i + 1
        <4> HIDE DEF N
        <4> QED BY <1>2, <2>1, <2>2, <2>3, <3>1
      <3>2. CASE k # i + 1
        <4>1. k \in Letters(buffer, fed + 1, i)
          BY <1>0, <3>2 DEF Letters
        <4>2. answer[N(k)] = buffer[k]
          BY <1>2, <2>1, <4>1
        <4>3. N(k) \in 1 .. N(i)
          BY <1>0, <1>2, <2>1, <4>1, LetterNumber
        <4> HIDE DEF N
        <4> QED BY <2>2, <2>3, <4>2, <4>3
      <3> QED BY <3>1, <3>2
    <2>5. fed' + 1 = fed + 1 /\ i' = i + 1 /\ buffer' = buffer /\ i + 1 <= Len(buffer)
      BY <1>2, <2>1
    <2>6. Len(answer') = N(i + 1)
      <3> HIDE DEF N
      <3> QED BY <2>2, <2>3
    <2> QED BY <2>4, <2>5, <2>6
  <1> QED BY <1>4, <1>5, <1>6, <1>7, <1>8, <1>9 DEF Next, InDataUpdate

-----------------------------------------------------------------------------
(* The words of a line.                                                    *)

\* f gives the variables of GetWord's loop after each of n characters.
IsLoop(f, string, num, n) ==
    f = [k \in 0 .. n |-> IF k = 0 THEN Before(string, num)
                          ELSE Visit(string, num, f[k - 1], k)]

\* The loop has such a course.
LEMMA LoopExists ==
  ASSUME NEW string, NEW num, NEW n \in Nat
  PROVE  \E f : IsLoop(f, string, num, n)
  <1> DEFINE Good(f, m) == IsLoop(f, string, num, m)
             S == {m \in Nat : \E f : Good(f, m)}
  <1> USE DEF IsLoop
  <1>1. 0 \in S
    <2>1. Good([k \in 0 .. 0 |-> Before(string, num)], 0)
      OBVIOUS
    <2> QED BY <2>1
  <1>2. ASSUME NEW m \in S PROVE m + 1 \in S
    <2>1. PICK f : Good(f, m)
      OBVIOUS
    <2> DEFINE g == [k \in 0 .. m + 1 |-> IF k = m + 1 THEN Visit(string, num, f[m], m + 1) ELSE f[k]]
    <2>2. \A k \in 0 .. m + 1 : g[k] = IF k = 0 THEN Before(string, num)
                                       ELSE Visit(string, num, g[k - 1], k)
      <3> SUFFICES ASSUME NEW k \in 0 .. m + 1
                   PROVE  g[k] = IF k = 0 THEN Before(string, num)
                                 ELSE Visit(string, num, g[k - 1], k)
        OBVIOUS
      <3>1. CASE k = m + 1
        BY <3>1
      <3>2. CASE k # m + 1
        <4>1. k \in 0 .. m /\ g[k] = f[k]
          BY <3>2
        <4>2. k # 0 => g[k - 1] = f[k - 1]
          BY <4>1
        <4> QED BY <2>1, <4>1, <4>2
      <3> QED BY <3>1, <3>2
    <2>3. Good(g, m + 1)
      BY <2>2
    <2>4. \E h : Good(h, m + 1)
      <3> HIDE DEF g, Good
      <3> QED BY <2>3
    <2> HIDE DEF Good
    <2> QED BY <2>4
  <1>3. S = Nat
    <2> HIDE DEF S
    <2>1. S \in SUBSET Nat
      BY DEF S
    <2> QED BY <1>1, <1>2, <2>1, SetInduction
  <1> QED BY <1>3

\* Beginnings of words up to a place, and the number of the word there, as
\* IsWord counts it.
Begun(string, k) == {j \in Beginnings(string) : j <= k}
Skipped(string) == IF string # <<>> /\ string[1] \in Separators THEN 1 ELSE 0
Number(string, k) == Cardinality(Begun(string, k)) + Skipped(string)

\* The number grows by one where a word begins.
LEMMA NumberGrows ==
  ASSUME NEW string \in Seq(Bytes), NEW k \in Nat, k + 1 <= Len(string)
  PROVE  /\ Number(string, k) \in Nat /\ Number(string, k + 1) \in Nat
         /\ Number(string, k + 1) =
              IF k + 1 \in Beginnings(string) THEN Number(string, k) + 1 ELSE Number(string, k)
  <1> DEFINE A == Begun(string, k)
             B == Begun(string, k + 1)
  <1>1. IsFiniteSet(1 .. Len(string)) /\ A \subseteq 1 .. Len(string)
    BY FS_Interval DEF Begun, Beginnings
  <1>2. IsFiniteSet(A) /\ Cardinality(A) \in Nat
    BY <1>1, FS_Subset, FS_CardinalityType
  <1>3. k + 1 \notin A
    BY DEF Begun
  <1>4. Skipped(string) \in Nat
    BY DEF Skipped
  <1>5. CASE k + 1 \in Beginnings(string)
    <2>1. B = A \cup {k + 1}
      BY <1>5 DEF Begun, Beginnings
    <2>2. Cardinality(B) = Cardinality(A) + 1
      BY <1>2, <1>3, <2>1, FS_AddElement
    <2> QED BY <1>2, <1>4, <1>5, <2>2 DEF Number
  <1>6. CASE k + 1 \notin Beginnings(string)
    <2>1. B = A
      BY <1>6 DEF Begun, Beginnings
    <2> QED BY <1>2, <1>4, <1>6, <2>1 DEF Number
  <1> QED BY <1>5, <1>6

\* At the first character the number is 1: a separator there counts as a word.
LEMMA FirstNumber ==
  ASSUME NEW string \in Seq(Bytes), string # <<>>
  PROVE  Number(string, 1) = 1
  <1>0. 1 <= Len(string) /\ Len(string) \in Nat
    OBVIOUS
  <1>1. Begun(string, 0) = {}
    BY <1>0 DEF Begun, Beginnings
  <1>2. Number(string, 0) = Skipped(string)
    <2>1. Cardinality({}) = 0
      BY FS_EmptySet
    <2>2. Skipped(string) \in Nat
      BY DEF Skipped
    <2>3. Number(string, 0) = Cardinality({}) + Skipped(string)
      BY <1>1 DEF Number
    <2> QED BY <2>1, <2>2, <2>3
  <1>3. Number(string, 0 + 1) =
          IF 0 + 1 \in Beginnings(string) THEN Number(string, 0) + 1 ELSE Number(string, 0)
    BY <1>0, NumberGrows
  <1>4. 1 \in Beginnings(string) <=> string[1] \notin Separators
    BY <1>0 DEF Beginnings
  <1> QED BY <1>2, <1>3, <1>4 DEF Skipped

\* After k characters the num-th word has not begun, or its beginning is known.
LoopInv(string, num, s, k) ==
    /\ s \in [current_word : Nat, in_word : BOOLEAN, pos_start : Int]
    /\ \/ /\ s.pos_start = -1 /\ s.current_word = Number(string, k)
          /\ s.in_word <=> string[k] \notin Separators
          /\ Number(string, k) < num
       \/ /\ s.pos_start \in Nat /\ s.pos_start + 1 \in Beginnings(string)
          /\ Number(string, s.pos_start + 1) = num

\* A turn of the loop.
LEMMA VisitOK ==
  ASSUME NEW string \in Seq(Bytes), NEW num \in Nat, NEW k \in Nat \ {0}, k + 1 <= Len(string),
         NEW s, LoopInv(string, num, s, k)
  PROVE  LoopInv(string, num, Visit(string, num, s, k + 1), k + 1)
  <1>1. CASE s.pos_start # -1
    BY <1>1 DEF Visit, LoopInv
  <1>2. CASE s.pos_start = -1
    <2> DEFINE N == Number(string, k)
               t == Visit(string, num, s, k + 1)
    <2>1. /\ s \in [current_word : Nat, in_word : BOOLEAN, pos_start : Int]
          /\ s.current_word = N /\ N < num
          /\ s.in_word <=> string[k] \notin Separators
      BY <1>2 DEF LoopInv
    <2>2. /\ N \in Nat
          /\ Number(string, k + 1) = IF k + 1 \in Beginnings(string) THEN N + 1 ELSE N
      BY NumberGrows
    <2>3. k + 1 \in Beginnings(string) <=>
            string[k + 1] \notin Separators /\ string[k] \in Separators
      BY DEF Beginnings
    <2> HIDE DEF N
    <2>4. CASE string[k + 1] \in Separators
      <3>1. t = [s EXCEPT !.in_word = FALSE]
        BY <1>2, <2>4 DEF Visit
      <3>2. /\ t \in [current_word : Nat, in_word : BOOLEAN, pos_start : Int]
            /\ t.pos_start = -1 /\ t.current_word = N /\ ~t.in_word
        BY <1>2, <2>1, <3>1
      <3>3. Number(string, k + 1) = N
        BY <2>2, <2>3, <2>4
      <3> HIDE DEF t
      <3> QED BY <2>1, <2>4, <3>2, <3>3 DEF LoopInv, t
    <2>5. CASE string[k + 1] \notin Separators /\ string[k] \notin Separators
      <3>1. t = s
        BY <1>2, <2>1, <2>5 DEF Visit
      <3>2. Number(string, k + 1) = N
        BY <2>2, <2>3, <2>5
      <3> QED BY <1>2, <2>1, <2>5, <3>1, <3>2 DEF LoopInv
    <2>6. CASE string[k + 1] \notin Separators /\ string[k] \in Separators
      <3>1. t = [current_word |-> N + 1, in_word |-> TRUE,
                 pos_start |-> IF N + 1 = num THEN (k + 1) - 1 ELSE -1]
        BY <1>2, <2>1, <2>6 DEF Visit
      <3>2. /\ t \in [current_word : Nat, in_word : BOOLEAN, pos_start : Int]
            /\ t.current_word = N + 1 /\ t.in_word
            /\ t.pos_start = IF N + 1 = num THEN k ELSE -1
        <4> DEFINE pos == IF N + 1 = num THEN k ELSE -1
        <4>1. N + 1 \in Nat /\ pos \in Int /\ (k + 1) - 1 = k
          BY <2>2
        <4>2. t = [current_word |-> N + 1, in_word |-> TRUE, pos_start |-> pos]
          BY <3>1, <4>1
        <4> HIDE DEF t, pos
        <4>3. /\ t \in [current_word : Nat, in_word : BOOLEAN, pos_start : Int]
              /\ t.current_word = N + 1 /\ t.in_word /\ t.pos_start = pos
          BY <4>1, <4>2
        <4> QED BY <4>3 DEF pos
      <3>3. Number(string, k + 1) = N + 1 /\ k + 1 \in Beginnings(string)
        BY <2>2, <2>3, <2>6
      <3> HIDE DEF t
      <3>4. CASE N + 1 = num
        BY <3>2, <3>3, <3>4 DEF LoopInv, t
      <3>5. CASE N + 1 # num
        <4>1. N + 1 < num
          BY <2>1, <2>2, <3>5
        <4> QED BY <2>6, <3>2, <3>3, <3>5, <4>1 DEF LoopInv, t
      <3> QED BY <3>4, <3>5
    <2> QED BY <2>4, <2>5, <2>6
  <1> QED BY <1>1, <1>2

\* Where the loop of GetWord stops, for a word other than the first.
LEMMA WordBeginsOK ==
  ASSUME NEW string \in Seq(Bytes), NEW num \in Nat, num > 1
  PROVE  \/ /\ WordBegins(string, num) = -1
            /\ \A k \in Beginnings(string) : Number(string, k) < num
         \/ /\ WordBegins(string, num) \in Nat
            /\ WordBegins(string, num) + 1 \in Beginnings(string)
            /\ Number(string, WordBegins(string, num) + 1) = num
  <1> DEFINE L == Len(string)
             st == CHOOSE f : IsLoop(f, string, num, L)
             S == {k \in Nat : k + 1 <= L => LoopInv(string, num, st[k + 1], k + 1)}
  <1>0. L \in Nat
    OBVIOUS
  <1>1. st = [k \in 0 .. L |-> IF k = 0 THEN Before(string, num)
                               ELSE Visit(string, num, st[k - 1], k)]
    <2> HIDE DEF L
    <2>1. \E f : IsLoop(f, string, num, L)
      BY <1>0, LoopExists
    <2>2. IsLoop(st, string, num, L)
      BY <2>1
    <2> HIDE DEF st
    <2> QED BY <2>2 DEF IsLoop
  <1>2. WordBegins(string, num) = st[L].pos_start
    BY DEF WordBegins, IsLoop
  <1> HIDE DEF st
  <1>3. st[0] = Before(string, num) /\ \A k \in 0 .. L : k # 0 => st[k] = Visit(string, num, st[k - 1], k)
    <2> HIDE DEF L
    <2>1. 0 \in 0 .. L
      BY <1>0
    <2>2. \A k \in 0 .. L : st[k] = IF k = 0 THEN Before(string, num)
                                   ELSE Visit(string, num, st[k - 1], k)
      BY <1>1
    <2> QED BY <2>1, <2>2
  <1>4. CASE L = 0
    <2>1. st[0].pos_start = -1
      BY <1>3 DEF Before
    <2>2. Beginnings(string) = {}
      BY <1>4 DEF Beginnings
    <2> QED BY <1>2, <1>4, <2>1, <2>2
  <1>5. CASE L # 0
    <2>1. 0 \in S
      <3>1. string # <<>> /\ Number(string, 1) = 1 /\ 1 \in 0 .. L
        BY <1>0, <1>5, FirstNumber
      <3>2. st[1] = Visit(string, num, Before(string, num), 1)
        BY <1>3, <3>1
      <3> DEFINE B == Before(string, num)
      <3>3. /\ B \in [current_word : Nat, in_word : BOOLEAN, pos_start : Int]
            /\ B.current_word = 1 /\ B.pos_start = -1
            /\ B.in_word <=> string[1] \notin Separators
        <4> DEFINE w == string # <<>> /\ string[1] \notin Separators
        <4>1. w \in BOOLEAN /\ (w <=> string[1] \notin Separators)
          BY <3>1
        <4>2. num # 1
          OBVIOUS
        <4>3. B = [current_word |-> 1, in_word |-> w, pos_start |-> -1]
          BY <4>2 DEF Before
        <4> HIDE DEF w, B
        <4> QED BY <4>1, <4>3
      <3>4. st[1] = Visit(string, num, B, 1)
        BY <3>2
      <3> HIDE DEF B
      <3>5. CASE string[1] \in Separators
        <4>1. st[1] = [B EXCEPT !.in_word = FALSE]
          BY <3>3, <3>4, <3>5 DEF Visit
        <4>2. /\ st[1].pos_start = -1 /\ st[1].current_word = 1 /\ ~st[1].in_word
              /\ st[1] \in [current_word : Nat, in_word : BOOLEAN, pos_start : Int]
          BY <3>3, <4>1
        <4> QED BY <3>1, <3>5, <4>2 DEF LoopInv
      <3>6. CASE string[1] \notin Separators
        <4>1. st[1] = B
          BY <3>3, <3>4, <3>6 DEF Visit
        <4> QED BY <3>1, <3>3, <3>6, <4>1 DEF LoopInv
      <3> QED BY <3>5, <3>6
    <2>2. ASSUME NEW k \in S PROVE k + 1 \in S
      <3> HIDE DEF L
      <3> SUFFICES ASSUME (k + 1) + 1 <= L
                   PROVE  LoopInv(string, num, st[(k + 1) + 1], (k + 1) + 1)
        OBVIOUS
      <3>1. LoopInv(string, num, st[k + 1], k + 1) /\ k + 1 \in Nat \ {0}
        BY <1>0
      <3>2. LoopInv(string, num, Visit(string, num, st[k + 1], (k + 1) + 1), (k + 1) + 1)
        BY <3>1, VisitOK DEF L
      <3>3. st[(k + 1) + 1] = Visit(string, num, st[k + 1], (k + 1) + 1)
        <4>1. (k + 1) + 1 \in 0 .. L /\ (k + 1) + 1 # 0 /\ ((k + 1) + 1) - 1 = k + 1
          BY <1>0
        <4> QED BY <1>3, <4>1
      <3> QED BY <3>2, <3>3
    <2>3. S = Nat
      <3> HIDE DEF S
      <3>1. S \in SUBSET Nat
        BY DEF S
      <3> QED BY <2>1, <2>2, <3>1, SetInduction
    <2>4. LoopInv(string, num, st[L], L)
      <3> HIDE DEF L
      <3>1. L - 1 \in Nat /\ (L - 1) + 1 = L
        BY <1>0, <1>5
      <3>2. L - 1 \in S
        BY <2>3, <3>1
      <3> QED BY <1>0, <3>1, <3>2
    <2>5. ASSUME NEW k \in Beginnings(string)
          PROVE  Number(string, k) <= Number(string, L)
      <3>1. k \in 1 .. L /\ Begun(string, k) \subseteq Begun(string, L)
        BY DEF Begun, Beginnings
      <3>2. IsFiniteSet(Begun(string, L))
        <4>1. IsFiniteSet(1 .. L) /\ Begun(string, L) \subseteq 1 .. L
          BY FS_Interval DEF Begun, Beginnings
        <4> QED BY <4>1, FS_Subset
      <3>3. /\ Cardinality(Begun(string, k)) \in Nat /\ Cardinality(Begun(string, L)) \in Nat
            /\ Cardinality(Begun(string, k)) <= Cardinality(Begun(string, L))
        BY <3>1, <3>2, FS_Subset, FS_CardinalityType
      <3>4. Skipped(string) \in Nat
        BY DEF Skipped
      <3> QED BY <3>3, <3>4 DEF Number
    <2>6. ASSUME NEW k \in Beginnings(string)
          PROVE  Number(string, k) \in Nat /\ Number(string, L) \in Nat
      <3>1. k \in 1 .. L
        BY DEF Beginnings
      <3>2. ASSUME NEW m \in 1 .. L PROVE Number(string, m) \in Nat
        <4>1. m - 1 \in Nat /\ (m - 1) + 1 = m /\ m <= Len(string)
          BY <1>0
        <4>2. Number(string, (m - 1) + 1) \in Nat
          BY <4>1, NumberGrows
        <4> QED BY <4>1, <4>2
      <3> QED BY <1>0, <1>5, <3>1, <3>2
    <2>7. CASE st[L].pos_start = -1
      <3>1. Number(string, L) < num
        BY <2>4, <2>7 DEF LoopInv
      <3>2. ASSUME NEW k \in Beginnings(string) PROVE Number(string, k) < num
        BY <2>5, <2>6, <3>1
      <3> QED BY <1>2, <2>7, <3>2
    <2>8. CASE st[L].pos_start # -1
      BY <1>2, <2>4, <2>8 DEF LoopInv
    <2> QED BY <2>7, <2>8
  <1> QED BY <1>4, <1>5

\* The beginning of the rest of a line.
LEMMA StartOfRest ==
  ASSUME NEW s \in Seq(Bytes), NEW p \in 0 .. Len(s), NEW n \in 0 .. Len(s) - p
  PROVE  LET rest == SubSeq(s, p + 1, Len(s))
         IN  /\ rest \in Seq(Bytes) /\ Len(rest) = Len(s) - p
             /\ \A k \in 1 .. Len(rest) : rest[k] = s[p + k]
             /\ SubSeq(rest, 1, n) = SubSeq(s, p + 1, p + n)
             /\ SubSeq(rest, 1, n) \in Seq(Bytes) /\ Len(SubSeq(rest, 1, n)) = n
             /\ \A k \in 1 .. n : SubSeq(rest, 1, n)[k] = s[p + k]
  <1> DEFINE rest == SubSeq(s, p + 1, Len(s))
             a == SubSeq(rest, 1, n)
             b == SubSeq(s, p + 1, p + n)
  <1>0. Len(s) \in Nat /\ p \in Nat /\ n \in Nat /\ p + n <= Len(s)
    OBVIOUS
  <1>1. /\ rest \in Seq(Bytes) /\ Len(rest) = Len(s) - p
        /\ \A k \in 1 .. Len(rest) : rest[k] = s[p + k]
    BY <1>0
  <1>2. a \in Seq(Bytes) /\ Len(a) = n /\ \A k \in 1 .. n : a[k] = s[p + k]
    <2> HIDE DEF rest
    <2> QED BY <1>0, <1>1
  <1>3. b \in Seq(Bytes) /\ Len(b) = n /\ \A k \in 1 .. n : b[k] = s[p + k]
    BY <1>0
  <1>4. a = b
    <2> HIDE DEF a, b
    <2> QED BY <1>2, <1>3, SMTT(30)
  <1> QED BY <1>1, <1>2, <1>4

\* The word that GetWord cuts out from a place on.
WordFrom(string, p) ==
    LET rest == SubSeq(string, p + 1, Len(string))
        end  == SelectInSeq(rest, LAMBDA c : c \in Separators)
    IN  IF end = 0 THEN rest ELSE SubSeq(rest, 1, end - 1)

\* w is the n characters from there to the next separator or to the end.
ReachesTo(string, p, w, n) ==
    /\ Len(w) = n /\ w = SubSeq(string, p + 1, p + n)
    /\ \A k \in 1 .. n : w[k] = string[p + k] /\ w[k] \notin Separators
    /\ p + n + 1 <= Len(string) => string[p + n + 1] \in Separators

\* It reaches up to the next separator and not beyond.
LEMMA WordFromOK ==
  ASSUME NEW string \in Seq(Bytes), NEW p \in 0 .. Len(string)
  PROVE  \E n \in 0 .. Len(string) - p : ReachesTo(string, p, WordFrom(string, p), n)
  <1> DEFINE rest == SubSeq(string, p + 1, Len(string))
             L == Len(string) - p
             J == {k \in 1 .. Len(rest) : rest[k] \in Separators}
             Cut(n) == SubSeq(rest, 1, n)
  <1>0. Len(string) \in Nat /\ p \in Nat /\ L \in Nat /\ L \in 0 .. Len(string) - p
    OBVIOUS
  <1>1. ASSUME NEW n \in 0 .. L
        PROVE  /\ rest \in Seq(Bytes) /\ Len(rest) = L
               /\ \A k \in 1 .. L : rest[k] = string[p + k]
               /\ Cut(n) = SubSeq(string, p + 1, p + n) /\ Len(Cut(n)) = n
               /\ \A k \in 1 .. n : Cut(n)[k] = string[p + k]
    BY StartOfRest
  <1>2. rest \in Seq(Bytes) /\ Len(rest) = L /\ \A k \in 1 .. L : rest[k] = string[p + k]
    BY <1>0, <1>1
  <1>3. CASE J = {}
    <2>1. WordFrom(string, p) = rest
      BY <1>3 DEF WordFrom, SelectInSeq
    <2>2. Cut(L) = rest
      <3> HIDE DEF rest, L
      <3> QED BY <1>0, <1>2
    <2>3. \A k \in 1 .. L : rest[k] \notin Separators
      BY <1>2, <1>3
    <2>4. rest = SubSeq(string, p + 1, p + L) /\ Len(rest) = L /\ ~(p + L + 1 <= Len(string))
      <3>1. Cut(L) = SubSeq(string, p + 1, p + L)
        BY <1>0, <1>1
      <3>2. ~(p + L + 1 <= Len(string))
        BY <1>0
      <3> HIDE DEF rest, L
      <3> QED BY <1>2, <2>2, <3>1, <3>2
    <2>5. ReachesTo(string, p, rest, L)
      <3> HIDE DEF rest, L
      <3> QED BY <1>2, <2>3, <2>4 DEF ReachesTo
    <2> QED BY <1>0, <2>1, <2>5
  <1>4. CASE J # {}
    <2> DEFINE e == Min(J)
               n == e - 1
    <2>1. e \in J /\ \A k \in J : e <= k
      <3>1. J \in SUBSET Nat
        OBVIOUS
      <3>2. PICK x \in J : TRUE
        BY <1>4
      <3> HIDE DEF J
      <3> QED BY <3>1, <3>2, MinIsLeast
    <2>2. WordFrom(string, p) = Cut(n)
      <3>1. e # 0
        <4>1. e \in 1 .. Len(rest)
          BY <2>1
        <4> HIDE DEF e, rest
        <4> QED BY <1>0, <1>2, <4>1
      <3>2. SelectInSeq(rest, LAMBDA c : c \in Separators) = e
        BY <1>4 DEF SelectInSeq
      <3> QED BY <3>1, <3>2 DEF WordFrom, SelectInSeq
    <2>3. e \in 1 .. L /\ rest[e] \in Separators /\ \A k \in 1 .. L : k < e => rest[k] \notin Separators
      <3>1. e \in 1 .. L /\ rest[e] \in Separators
        BY <1>2, <2>1
      <3>2. ASSUME NEW k \in 1 .. L, k < e PROVE rest[k] \notin Separators
        <4> SUFFICES ASSUME rest[k] \in Separators PROVE FALSE
          OBVIOUS
        <4>1. k \in J
          BY <1>2
        <4>2. e <= k
          BY <2>1, <4>1
        <4> HIDE DEF e, L
        <4> QED BY <1>0, <3>1, <3>2, <4>2
      <3> QED BY <3>1, <3>2
    <2> HIDE DEF e, L
    <2>4. n \in 0 .. L /\ n \in Nat /\ n + 1 = e /\ p + n + 1 = p + e
      BY <1>0, <2>3
    <2>5. /\ Cut(n) = SubSeq(string, p + 1, p + n) /\ Len(Cut(n)) = n
          /\ \A k \in 1 .. n : Cut(n)[k] = string[p + k]
      BY <1>1, <2>4
    <2>6. \A k \in 1 .. n : string[p + k] \notin Separators
      <3> SUFFICES ASSUME NEW k \in 1 .. n PROVE string[p + k] \notin Separators
        OBVIOUS
      <3>1. k \in 1 .. L /\ k < e
        BY <1>0, <2>3, <2>4
      <3> QED BY <1>2, <2>3, <3>1
    <2>7. string[p + n + 1] \in Separators
      BY <1>2, <2>3, <2>4
    <2>8. n \in 0 .. Len(string) - p
      BY <2>4 DEF L
    <2>9. ReachesTo(string, p, Cut(n), n)
      <3> HIDE DEF n, Cut
      <3> QED BY <2>5, <2>6, <2>7 DEF ReachesTo
    <2> QED BY <2>2, <2>8, <2>9
  <1> QED BY <1>3, <1>4

\* Word 1 begins with the line, whatever stands there.
LEMMA FirstWordBegins ==
  ASSUME NEW string \in Seq(Bytes)
  PROVE  WordBegins(string, 1) = 0
  <1> DEFINE L == Len(string)
             st == CHOOSE f : IsLoop(f, string, 1, L)
             S == {k \in Nat : k <= L => st[k].pos_start = 0}
  <1>0. L \in Nat
    OBVIOUS
  <1>1. WordBegins(string, 1) = st[L].pos_start
    BY DEF WordBegins, IsLoop
  <1> HIDE DEF L
  <1>2. IsLoop(st, string, 1, L)
    BY <1>0, LoopExists
  <1> HIDE DEF st
  <1>3. /\ st[0] = Before(string, 1)
        /\ \A k \in 0 .. L : k # 0 => st[k] = Visit(string, 1, st[k - 1], k)
    BY <1>0, <1>2 DEF IsLoop
  <1>4. 0 \in S
    BY <1>3 DEF Before
  <1>5. ASSUME NEW k \in S PROVE k + 1 \in S
    <2> SUFFICES ASSUME k + 1 <= L PROVE st[k + 1].pos_start = 0
      OBVIOUS
    <2>1. st[k].pos_start = 0 /\ k + 1 \in 0 .. L /\ k + 1 # 0 /\ (k + 1) - 1 = k
      BY <1>0
    <2>2. st[k + 1] = Visit(string, 1, st[k], k + 1)
      BY <1>3, <2>1
    <2> QED BY <2>1, <2>2 DEF Visit
  <1>6. S = Nat
    <2>1. S \in SUBSET Nat
      OBVIOUS
    <2> HIDE DEF S
    <2> QED BY <1>4, <1>5, <2>1, SetInduction
  <1> QED BY <1>0, <1>1, <1>6

\* What GetWord cuts out where the num-th word begins is that word.
LEMMA WordAtBeginning ==
  ASSUME NEW string \in Seq(Bytes), NEW num \in Nat, NEW p \in Nat,
         p + 1 \in Beginnings(string), Number(string, p + 1) = num
  PROVE  IsWord(string, num, WordFrom(string, p))
  <1> DEFINE w == WordFrom(string, p)
             chosen == {k \in Beginnings(string) :
                          Cardinality({j \in Beginnings(string) : j <= k}) + Skipped(string) = num}
  <1>0. p + 1 \in 1 .. Len(string) /\ string[p + 1] \notin Separators /\ p \in 0 .. Len(string)
    BY DEF Beginnings
  <1>1. PICK n \in 0 .. Len(string) - p : ReachesTo(string, p, w, n)
    BY <1>0, WordFromOK
  <1> HIDE DEF w
  <1>2. p + 1 \in chosen
    BY DEF Number, Begun
  <1>3. n \in Nat /\ n # 0
    <2>1. n = 0 => string[p + n + 1] \in Separators
      BY <1>0, <1>1 DEF ReachesTo
    <2> QED BY <1>0, <2>1
  <1>4. /\ Len(w) = n /\ w # <<>>
        /\ w = SubSeq(string, p + 1, (p + 1) + Len(w) - 1)
        /\ \A c \in 1 .. Len(w) : w[c] \notin Separators
        /\ (p + 1) + Len(w) <= Len(string) => string[(p + 1) + Len(w)] \in Separators
    <2>1. Len(w) = n /\ w = SubSeq(string, p + 1, p + n)
      BY <1>1 DEF ReachesTo
    <2>2. w # <<>>
      BY <1>3, <2>1
    <2>3. (p + 1) + n - 1 = p + n /\ (p + 1) + n = p + n + 1
      BY <1>3
    <2>4. \A c \in 1 .. n : w[c] \notin Separators
      BY <1>1 DEF ReachesTo
    <2>5. p + n + 1 <= Len(string) => string[p + n + 1] \in Separators
      BY <1>1 DEF ReachesTo
    <2> QED BY <2>1, <2>2, <2>3, <2>4, <2>5
  <1> HIDE DEF chosen
  <1>5. \E k \in chosen :
             /\ w = SubSeq(string, k, k + Len(w) - 1)
             /\ w # <<>> /\ \A c \in 1 .. Len(w) : w[c] \notin Separators
             /\ k + Len(w) <= Len(string) => string[k + Len(w)] \in Separators
    BY <1>2, <1>4
  <1> QED BY <1>5 DEF IsWord, Skipped, chosen, w

\* In every line the loop of GetWord finds every word a reader counts.
LEMMA GetWordOK ==
  ASSUME NEW string \in Seq(Bytes), NEW num \in Nat \ {0}
  PROVE  IsWord(string, num, GetWord(string, num))
  <1> DEFINE p == WordBegins(string, num)
  <1>1. ASSUME p # -1 PROVE GetWord(string, num) = WordFrom(string, p)
    BY <1>1 DEF GetWord, WordFrom
  <1>2. ASSUME \A k \in Beginnings(string) : Number(string, k) # num
        PROVE  IsWord(string, num, <<>>)
    BY <1>2 DEF IsWord, Number, Begun, Skipped
  <1>3. CASE num # 1
    <2>1. num > 1
      BY <1>3
    <2>2. \/ p = -1 /\ \A k \in Beginnings(string) : Number(string, k) < num
          \/ p \in Nat /\ p + 1 \in Beginnings(string) /\ Number(string, p + 1) = num
      BY <2>1, WordBeginsOK
    <2>3. CASE p = -1 /\ \A k \in Beginnings(string) : Number(string, k) < num
      <3>1. GetWord(string, num) = <<>>
        BY <2>3 DEF GetWord
      <3> QED BY <1>2, <2>3, <3>1
    <2>4. CASE p \in Nat /\ p + 1 \in Beginnings(string) /\ Number(string, p + 1) = num
      <3>1. IsWord(string, num, WordFrom(string, p))
        <4> HIDE DEF p
        <4> QED BY <2>4, WordAtBeginning
      <3>2. p # -1
        <4> HIDE DEF p
        <4> QED BY <2>4
      <3> QED BY <1>1, <3>1, <3>2
    <2> QED BY <2>2, <2>3, <2>4
  <1>4. CASE num = 1
    <2>1. p = 0
      BY <1>4, FirstWordBegins
    <2>2. GetWord(string, num) = WordFrom(string, 0)
      <3>1. p # -1
        <4> HIDE DEF p
        <4> QED BY <2>1
      <3> QED BY <1>1, <2>1, <3>1
    <2>3. CASE string # <<>> /\ string[1] \notin Separators
      <3>1. Number(string, 0 + 1) = num
        BY <1>4, <2>3, FirstNumber
      <3>2. 0 + 1 \in Beginnings(string)
        BY <2>3 DEF Beginnings
      <3> QED BY <2>2, <3>1, <3>2, WordAtBeginning
    <2>4. CASE string = <<>> \/ string[1] \in Separators
      <3>1. WordFrom(string, 0) = <<>>
        <4>1. Len(string) \in Nat /\ 0 \in 0 .. Len(string)
          OBVIOUS
        <4>2. PICK n \in 0 .. Len(string) - 0 : ReachesTo(string, 0, WordFrom(string, 0), n)
          BY <4>1, WordFromOK
        <4>3. n = 0
          <5>1. CASE string = <<>>
            BY <4>1, <4>2, <5>1
          <5>2. CASE string[1] \in Separators
            <6>1. ASSUME n # 0 PROVE string[0 + 1] \notin Separators
              <7>1. 1 \in 1 .. n
                BY <4>1, <4>2, <6>1
              <7> QED BY <4>2, <7>1 DEF ReachesTo
            <6> QED BY <5>2, <6>1
          <5> QED BY <2>4, <5>1, <5>2
        <4>4. WordFrom(string, 0) = SubSeq(string, 0 + 1, 0 + 0)
          BY <4>2, <4>3 DEF ReachesTo
        <4> QED BY <4>1, <4>4
      <3>2. ASSUME NEW k \in Beginnings(string) PROVE Number(string, k) # num
        <4>1. string # <<>> /\ k \in 1 .. Len(string)
          BY DEF Beginnings
        <4>2. Skipped(string) = 1
          BY <2>4, <4>1 DEF Skipped
        <4>3. k \in Begun(string, k) /\ Begun(string, k) \subseteq 1 .. Len(string)
          BY <4>1 DEF Begun, Beginnings
        <4>4. IsFiniteSet(Begun(string, k))
          <5>1. IsFiniteSet(1 .. Len(string))
            BY FS_Interval
          <5> QED BY <4>3, <5>1, FS_Subset
        <4>5. Cardinality(Begun(string, k)) \in Nat /\ Cardinality(Begun(string, k)) # 0
          BY <4>3, <4>4, FS_CardinalityType, FS_EmptySet
        <4> QED BY <1>4, <4>2, <4>5 DEF Number
      <3> QED BY <1>2, <2>2, <3>1, <3>2
    <2> QED BY <2>3, <2>4
  <1> QED BY <1>3, <1>4

\* What a C function sees of bytes are bytes.
LEMMA CStringOK ==
  ASSUME NEW bytes \in Seq(Bytes)
  PROVE  CString(bytes) \in Seq(Bytes)
  <1> DEFINE J == {k \in 1 .. Len(bytes) : bytes[k] = 0}
             z == Min(J)
  <1>1. CASE J = {}
    BY <1>1 DEF CString, SelectInSeq
  <1>2. CASE J # {}
    <2>1. z \in J
      <3>1. J \in SUBSET Nat
        OBVIOUS
      <3>2. PICK x \in J : TRUE
        BY <1>2
      <3> HIDE DEF J
      <3> QED BY <3>1, <3>2, MinIsLeast
    <2>2. z \in 1 .. Len(bytes)
      BY <2>1
    <2>3. CString(bytes) = SubSeq(bytes, 1, z - 1)
      <3>1. SelectInSeq(bytes, LAMBDA b : b = 0) = z
        BY <1>2 DEF SelectInSeq
      <3>2. z # 0
        <4> HIDE DEF z
        <4> QED BY <2>2
      <3> QED BY <3>1, <3>2 DEF CString, SelectInSeq
    <2> HIDE DEF z
    <2> QED BY <2>2, <2>3
  <1> QED BY <1>1, <1>2

\* What reaches SIM868::Update and ResponseMQTT are bytes that were received.
EventsTyped == events \in Seq(Events)

\* Every call is recorded with the bytes it was made with.
LEMMA NextEvents == ScanInv /\ EventsTyped /\ [Next]_vars => EventsTyped'
  <1> SUFFICES ASSUME ScanInv, EventsTyped, [Next]_vars PROVE EventsTyped'
    OBVIOUS
  <1>0. /\ buffer \in Seq(Bytes) /\ answer \in Seq(Bytes) /\ pbd \in Seq(Bytes)
        /\ i \in Nat /\ events \in Seq(Events)
    BY DEF ScanInv, Types, TypeOK, EventsTyped
  <1>1. ASSUME NEW e \in Events, Record(e) PROVE EventsTyped'
    BY <1>0, <1>1 DEF Record, EventsTyped
  <1>2. ASSUME UNCHANGED events PROVE EventsTyped'
    BY <1>0, <1>2 DEF EventsTyped
  <1>3. CASE FeedBinary
    <2> DEFINE q == Append(pbd, Symbol)
    <2>1. Symbol \in Bytes
      BY <1>0, <1>3 DEF FeedBinary, InLoop, Symbol
    <2>2. q \in Seq(Bytes)
      BY <1>0, <2>1
    <2>3. ASSUME NEW reason_code \in ReasonCodes(q)
          PROVE  Event(Run(q, reason_code), q) \in Events
      <3>1. Run(q, reason_code) \in Calls
        BY DEF Run, Calls
      <3> HIDE DEF q
      <3> QED BY <2>2, <3>1 DEF Event, Events
    <2>4. AppendByte(Symbol)
      BY <1>3 DEF FeedBinary
    <2>5. \/ UNCHANGED events
          \/ \E reason_code \in ReasonCodes(q) : Record(Event(Run(q, reason_code), q))
      BY <2>4 DEF AppendByte
    <2> HIDE DEF q
    <2> QED BY <1>1, <1>2, <2>3, <2>5
  <1>4. CASE EndLine \/ EndPrompt
    <2>1. ASSUME NEW text \in Seq(Bytes), Deliver(text) PROVE EventsTyped'
      <3>1. [Event("SIM868::Update", text) EXCEPT !.stale = FromPayload] \in Events
        <4>1. FromPayload \in BOOLEAN
          BY DEF FromPayload
        <4> HIDE DEF FromPayload
        <4> QED BY <4>1 DEF Event, Events, Calls
      <3> QED BY <1>1, <2>1, <3>1 DEF Deliver
    <2>2. CASE EndLine
      BY <1>0, <2>1, <2>2 DEF EndLine
    <2>3. CASE EndPrompt
      <3>1. Append(answer, GT) \in Seq(Bytes)
        BY <1>0 DEF GT, Bytes
      <3> QED BY <2>1, <2>3, <3>1 DEF EndPrompt
    <2> QED BY <1>4, <2>2, <2>3
  <1>5. CASE ~(FeedBinary \/ EndLine \/ EndPrompt)
    <2>1. UNCHANGED events
      BY <1>5 DEF Next, ByteArrives, ChipRestarts, InDataUpdate, PassOverNothing, PassBegins,
                  SkipSymbol, ScanLetter, HeaderFound, PassEnds, vars
    <2> QED BY <1>2, <2>1
  <1> QED BY <1>3, <1>4, <1>5

-----------------------------------------------------------------------------
(* Theorems.                                                               *)

\* Only bytes get into the buffers of the framer and of PBD, no counter of the
\* scan gets below zero, and binary_bytes_left stays an int, which may well be
\* negative: whatever strtoul reads in a header is converted, and counts down
\* past the least int to the largest.
THEOREM TypeCorrect == Spec => []TypeOK
  <1>1. ScanInv => TypeOK
    BY DEF ScanInv, Types
  <1> QED BY <1>1, ScanInvHolds, PTL

\* PBD::buffer never keeps a complete packet, whatever the chip sends and
\* wherever it is cut or torn.
THEOREM PacketsRemoved == Spec => []NoPacketKept
  <1>1. ScanInv => NoPacketKept
    BY DEF ScanInv
  <1> QED BY <1>1, ScanInvHolds, PTL

\* The answer in progress is, letter by letter, what stands in InData::buffer.
THEOREM AnswerStands == Spec => []AnswerWithinBuffer
  <1>1. Init => AnswerWithinBuffer
    BY DEF Init, AnswerWithinBuffer
  <1> QED BY <1>1, NextAnswer, ScanInvHolds, PTL DEF Spec

\* Whatever the answer given to SIM868::Update, GetWord finds in it the words a
\* reader counts, and no word where there is none.
THEOREM WordsFound == Spec => []GetWordFindsWords
  <1>1. Init => EventsTyped
    BY DEF Init, EventsTyped
  <1>2. EventsTyped => GetWordFindsWords
    <2> SUFFICES ASSUME EventsTyped, events # <<>>, NEW num \in 1 .. 4
                 PROVE  LET string == CString(Last(events).text)
                        IN  IsWord(string, num, GetWord(string, num))
      BY DEF GetWordFindsWords
    <2>1. Last(events) \in Events
      BY DEF EventsTyped, Last
    <2>2. Last(events).text \in Seq(Bytes)
      BY <2>1 DEF Events
    <2> QED BY <2>2, CStringOK, GetWordOK
  <1> QED BY <1>1, <1>2, NextEvents, ScanInvHolds, PTL DEF Spec

\* Where InData::Update is about to call RemoveFirst, `buffer` holds as many
\* bytes as it removes: up to the end of a line or a prompt, or the control
\* characters and then the letters of a header.
RemovalsFit ==
    InLoop =>
        /\ i + 1 <= Len(buffer)
        /\ binary_bytes_left = 0 /\ IsLetter /\ IsHeader(Append(answer, Symbol)) =>
              Len(Append(answer, Symbol)) <= Len(WithoutControls)

\* Buffer::RemoveFirst, which subtracts without a test, is never asked by
\* InData::Update for more than there is, not even after a damaged stream, when
\* the header no longer stands at the head of `buffer`.
THEOREM RemovalsAlwaysFit == Spec => []RemovalsFit
  <1>1. ScanInv => RemovalsFit
    <2> SUFFICES ASSUME ScanInv, InLoop PROVE RemovalsFit
      BY DEF RemovalsFit
    <2>1. i + 1 <= Len(buffer)
      BY DEF ScanInv, Types, TypeOK, InLoop
    <2> QED BY <2>1, HeaderStands DEF RemovalsFit
  <1> QED BY <1>1, ScanInvHolds, PTL
=============================================================================
