-------------------------- MODULE RxBuffersProofs --------------------------
(***************************************************************************)
(* For every capacity and every interleaving of the interrupt handler with *)
(* the main loop, RxBuffers keeps its buffers within bounds, delivers the  *)
(* bytes in order and at most once, loses none without an overflow, and    *)
(* implements ByteChannel: the interrupt, the flag and the three buffers   *)
(* behave as one queue that loses bytes only when it is full.              *)
(***************************************************************************)
EXTENDS RxBuffers, SequenceTheorems, TLAPS

-----------------------------------------------------------------------------
(* What the operations of Buffer do to the contents of a sequence.         *)

\* An empty buffer has no elements and is in order.
LEMMA EmptyBuffer == Elements(<<>>) = {} /\ Increasing(<<>>)
  BY DEF Elements, Increasing

\* A buffer of bytes holds bytes.
LEMMA ElementsNat ==
  ASSUME NEW s \in Seq(Nat)
  PROVE  Elements(s) \subseteq Nat
  BY DEF Elements

\* Buffer::Append(symbol) adds the symbol and nothing else.
LEMMA AppendElements ==
  ASSUME NEW s \in Seq(Nat), NEW e \in Nat
  PROVE  /\ Append(s, e) \in Seq(Nat)
         /\ Len(Append(s, e)) = Len(s) + 1
         /\ Elements(Append(s, e)) = Elements(s) \cup {e}
  <1>1. Append(s, e) \in Seq(Nat) /\ Len(Append(s, e)) = Len(s) + 1
    OBVIOUS
  <1>2. Append(s, e)[Len(s) + 1] = e
    OBVIOUS
  <1>3. \A i \in 1..Len(s) : Append(s, e)[i] = s[i]
    OBVIOUS
  <1>4. Len(s) \in Nat /\ 1..(Len(s) + 1) = (1..Len(s)) \cup {Len(s) + 1}
    OBVIOUS
  <1> QED BY <1>1, <1>2, <1>3, <1>4 DEF Elements

\* Appending a byte younger than all others keeps a buffer in order.
LEMMA AppendIncreasing ==
  ASSUME NEW s \in Seq(Nat), NEW e \in Nat,
         Increasing(s), Before(Elements(s), {e})
  PROVE  Increasing(Append(s, e))
  <1>1. Len(Append(s, e)) = Len(s) + 1 /\ Len(s) \in Nat
    OBVIOUS
  <1>2. Append(s, e)[Len(s) + 1] = e /\ \A i \in 1..Len(s) : Append(s, e)[i] = s[i]
    OBVIOUS
  <1>3. \A i \in 1..Len(s) : s[i] < e
    BY DEF Before, Elements
  <1> SUFFICES ASSUME NEW i \in 1..(Len(s) + 1), NEW j \in 1..(Len(s) + 1), i < j
               PROVE  Append(s, e)[i] < Append(s, e)[j]
    BY <1>1 DEF Increasing
  <1>4. i \in 1..Len(s)
    BY <1>1
  <1>5. CASE j = Len(s) + 1
    BY <1>2, <1>3, <1>4, <1>5
  <1>6. CASE j \in 1..Len(s)
    BY <1>2, <1>4, <1>6 DEF Increasing
  <1> QED BY <1>1, <1>5, <1>6

\* Buffer::Append(data, size) adds the elements of data and nothing else.
LEMMA ConcatElements ==
  ASSUME NEW s \in Seq(Nat), NEW t \in Seq(Nat)
  PROVE  /\ s \o t \in Seq(Nat)
         /\ Len(s \o t) = Len(s) + Len(t)
         /\ Elements(s \o t) = Elements(s) \cup Elements(t)
  <1>1. s \o t \in Seq(Nat) /\ Len(s \o t) = Len(s) + Len(t)
    OBVIOUS
  <1>2. \A i \in 1..Len(s) : (s \o t)[i] = s[i]
    OBVIOUS
  <1>3. \A i \in 1..Len(t) : (s \o t)[Len(s) + i] = t[i]
    OBVIOUS
  <1>4. Len(s) \in Nat /\ Len(t) \in Nat
    OBVIOUS
  <1>5. ASSUME NEW i \in 1..(Len(s) + Len(t))
        PROVE  (s \o t)[i] \in Elements(s) \cup Elements(t)
    <2>1. CASE i \in 1..Len(s)
      BY <1>2, <2>1 DEF Elements
    <2>2. CASE i \notin 1..Len(s)
      <3>1. i - Len(s) \in 1..Len(t) /\ i = Len(s) + (i - Len(s))
        BY <1>4, <2>2
      <3>2. (s \o t)[i] = t[i - Len(s)]
        BY <1>3, <3>1
      <3> QED BY <3>1, <3>2 DEF Elements
    <2> QED BY <2>1, <2>2
  <1>6. ASSUME NEW i \in 1..Len(s) PROVE s[i] \in Elements(s \o t)
    <2>1. i \in 1..Len(s \o t) /\ (s \o t)[i] = s[i]
      BY <1>1, <1>2, <1>4
    <2> QED BY <2>1 DEF Elements
  <1>7. ASSUME NEW i \in 1..Len(t) PROVE t[i] \in Elements(s \o t)
    <2>1. Len(s) + i \in 1..Len(s \o t) /\ (s \o t)[Len(s) + i] = t[i]
      BY <1>1, <1>3, <1>4
    <2> QED BY <2>1 DEF Elements
  <1>8. Elements(s \o t) \subseteq Elements(s) \cup Elements(t)
    BY <1>1, <1>5 DEF Elements
  <1>9. Elements(s) \subseteq Elements(s \o t) /\ Elements(t) \subseteq Elements(s \o t)
    BY <1>6, <1>7 DEF Elements
  <1> QED BY <1>1, <1>8, <1>9

\* Appending a run of younger bytes keeps a buffer in order.
LEMMA ConcatIncreasing ==
  ASSUME NEW s \in Seq(Nat), NEW t \in Seq(Nat), Increasing(s), Increasing(t),
         Before(Elements(s), Elements(t))
  PROVE  Increasing(s \o t)
  <1>1. Len(s \o t) = Len(s) + Len(t) /\ Len(s) \in Nat /\ Len(t) \in Nat
    OBVIOUS
  <1>2. \A i \in 1..Len(s) : (s \o t)[i] = s[i]
    OBVIOUS
  <1>3. \A i \in (Len(s) + 1)..(Len(s) + Len(t)) :
           (s \o t)[i] = t[i - Len(s)] /\ i - Len(s) \in 1..Len(t)
    OBVIOUS
  <1>4. \A i \in 1..Len(s), j \in 1..Len(t) : s[i] < t[j]
    BY DEF Before, Elements
  <1> SUFFICES ASSUME NEW i \in 1..(Len(s) + Len(t)), NEW j \in 1..(Len(s) + Len(t)), i < j
               PROVE  (s \o t)[i] < (s \o t)[j]
    BY <1>1 DEF Increasing
  <1>5. CASE j <= Len(s)
    BY <1>1, <1>2, <1>5 DEF Increasing
  <1>6. CASE i <= Len(s) /\ j > Len(s)
    BY <1>1, <1>2, <1>3, <1>4, <1>6
  <1>7. CASE i > Len(s)
    <2>1. i - Len(s) < j - Len(s) /\ j > Len(s)
      BY <1>1, <1>7
    <2>2. /\ (s \o t)[i] = t[i - Len(s)] /\ i - Len(s) \in 1..Len(t)
          /\ (s \o t)[j] = t[j - Len(s)] /\ j - Len(s) \in 1..Len(t)
      BY <1>1, <1>3, <1>7, <2>1
    <2> QED BY <2>1, <2>2 DEF Increasing
  <1> QED BY <1>1, <1>5, <1>6, <1>7

\* Buffer::RemoveFirst(n) splits an ordered buffer: what goes is older than
\* what stays, and nothing else disappears.
LEMMA RemoveFirstElements ==
  ASSUME NEW s \in Seq(Nat), NEW n \in 0..Len(s), Increasing(s)
  PROVE  LET prefix == {s[i] : i \in 1..n} IN
         /\ RemoveFirst(s, n) \in Seq(Nat)
         /\ Len(RemoveFirst(s, n)) <= Len(s)
         /\ Increasing(RemoveFirst(s, n))
         /\ prefix \cup Elements(RemoveFirst(s, n)) = Elements(s)
         /\ Before(prefix, Elements(RemoveFirst(s, n)))
  <1> DEFINE r == RemoveFirst(s, n)
             prefix == {s[i] : i \in 1..n}
  <1>1. r \in Seq(Nat) /\ Len(r) = Len(s) - n /\ Len(s) \in Nat
    BY DEF RemoveFirst
  <1>2. \A i \in 1..Len(r) : r[i] = s[n + i] /\ n + i \in 1..Len(s)
    BY <1>1 DEF RemoveFirst
  <1> HIDE DEF r
  <1>3. Increasing(r)
    <2> SUFFICES ASSUME NEW i \in 1..Len(r), NEW j \in 1..Len(r), i < j
                 PROVE  r[i] < r[j]
      BY DEF Increasing
    <2>1. n + i < n + j
      BY <1>1
    <2> QED BY <1>2, <2>1 DEF Increasing
  <1>4. Before(prefix, Elements(r))
    <2> SUFFICES ASSUME NEW i \in 1..n, NEW j \in 1..Len(r) PROVE s[i] < r[j]
      BY DEF Before, Elements
    <2>1. i \in 1..Len(s) /\ i < n + j
      BY <1>1
    <2> QED BY <1>2, <2>1 DEF Increasing
  <1>5. prefix \cup Elements(r) \subseteq Elements(s)
    <2>1. \A i \in 1..n : i \in 1..Len(s)
      BY <1>1
    <2> QED BY <1>2, <2>1 DEF Elements
  <1>6. Elements(s) \subseteq prefix \cup Elements(r)
    <2> SUFFICES ASSUME NEW i \in 1..Len(s) PROVE s[i] \in prefix \cup Elements(r)
      BY DEF Elements
    <2>1. CASE i <= n
      BY <2>1
    <2>2. CASE i > n
      <3>1. i - n \in 1..Len(r) /\ n + (i - n) = i
        BY <1>1, <2>2
      <3>2. r[i - n] = s[i]
        BY <1>2, <3>1
      <3> QED BY <3>1, <3>2 DEF Elements
    <2> QED BY <1>1, <2>1, <2>2
  <1>7. Len(r) <= Len(s)
    BY <1>1
  <1> QED BY <1>1, <1>3, <1>4, <1>5, <1>6, <1>7 DEF r

-----------------------------------------------------------------------------
(* The inductive invariant.                                                *)

\* Every byte in the system has been received.
Known ==
    /\ \A b \in consumed : b <= received
    /\ \A b \in Elements(buffer) : b <= received
    /\ \A b \in Elements(main) : b <= received
    /\ \A b \in Elements(addit) : b <= received

\* main.mutex is busy exactly while InData::Update works on `main`.
MutexHeld == busy <=> pc \in {"copy", "clear", "release"}

IInv == TypeOK /\ InOrder /\ Known /\ MutexHeld

\* All buffers are empty and main.mutex is free at power-up.
LEMMA InitIInv == Init => IInv
  <1> SUFFICES ASSUME Init PROVE IInv
    OBVIOUS
  <1>0. <<>> \in Seq(Nat) /\ Len(<<>>) = 0 /\ 0 <= Capacity
    BY CapacityAssumption
  <1>1. TypeOK
    BY <1>0 DEF Init, TypeOK
  <1>2. /\ Elements(main) = {} /\ Elements(addit) = {} /\ Elements(buffer) = {}
        /\ Increasing(main) /\ Increasing(addit) /\ Increasing(buffer)
        /\ consumed = {} /\ Uncopied = {}
    BY EmptyBuffer DEF Init, Uncopied
  <1>3. InOrder
    BY <1>2 DEF InOrder, Before
  <1>4. Known
    BY <1>2 DEF Known
  <1>5. MutexHeld
    BY DEF Init, MutexHeld
  <1> QED BY <1>1, <1>3, <1>4, <1>5 DEF IInv

\* The handler finds main.mutex free: it moves `addit` and the new byte to
\* `main`, in that order, or clears what does not fit.
LEMMA ReceiveToMainIInv ==
  ASSUME IInv, ReceiveToMain, received' = received + 1,
         UNCHANGED <<buffer, busy, pc, consumed>>
  PROVE  IInv'
  <1> DEFINE m == MainWithAddit
  <1> USE CapacityAssumption
  <1>0. pc # "clear" /\ Uncopied = Elements(main)
    BY DEF IInv, MutexHeld, ReceiveToMain, Uncopied
  <1>1. /\ m \in Seq(Nat) /\ Len(m) <= Capacity /\ Increasing(m)
        /\ Elements(m) \subseteq Elements(main) \cup Elements(addit)
    <2>1. CASE m = main \o addit /\ Fits(main, Len(addit))
      BY <2>1, ConcatElements, ConcatIncreasing DEF IInv, TypeOK, InOrder, Fits
    <2>2. CASE m = <<>>
      BY <2>2, EmptyBuffer
    <2> QED BY <2>1, <2>2 DEF MainWithAddit
  <1>2. /\ main' \in Seq(Nat) /\ Len(main') <= Capacity /\ Increasing(main')
        /\ Elements(main') \subseteq Elements(main) \cup Elements(addit) \cup {received + 1}
    <2> HIDE DEF m
    <2>1. CASE main' = Append(m, received + 1) /\ Fits(m, 1)
      <3>1. received + 1 \in Nat
        BY DEF IInv, TypeOK
      <3>2. Before(Elements(m), {received + 1})
        <4>1. \A b \in Elements(m) : b \in Nat /\ b <= received
          BY <1>1, ElementsNat DEF IInv, Known
        <4> QED BY <4>1 DEF Before, IInv, TypeOK
      <3> QED BY <1>1, <2>1, <3>1, <3>2, AppendElements, AppendIncreasing DEF Fits
    <2>2. CASE main' = <<>>
      BY <2>2, EmptyBuffer
    <2> QED BY <2>1, <2>2 DEF ReceiveToMain, m
  <1> HIDE DEF m
  <1>3. addit' = <<>> /\ Elements(addit') = {} /\ Increasing(addit')
    BY EmptyBuffer DEF ReceiveToMain
  <1>4. TypeOK'
    BY <1>2, <1>3 DEF IInv, TypeOK
  <1>5. Elements(buffer)' = Elements(buffer) /\ Increasing(buffer') = Increasing(buffer)
    BY DEF Elements
  <1>a. /\ received \in Nat
        /\ \A b \in consumed \cup Elements(buffer) \cup Elements(main) \cup Elements(addit) :
              b \in Nat /\ b <= received
    BY ElementsNat DEF IInv, TypeOK, Known
  <1>6. Before(consumed, Elements(main')) /\ Before(Elements(buffer), Elements(main'))
    <2> SUFFICES ASSUME NEW a \in consumed \cup Elements(buffer), NEW b \in Elements(main')
                 PROVE  a < b
      BY DEF Before
    <2>1. CASE b = received + 1
      BY <1>a, <2>1
    <2>2. CASE b \in Elements(main) \cup Elements(addit)
      BY <1>0, <2>2 DEF IInv, InOrder, Before
    <2> QED BY <1>2, <2>1, <2>2
  <1>7. InOrder'
    BY <1>0, <1>2, <1>3, <1>5, <1>6 DEF IInv, InOrder, Before, Uncopied
  <1>8. Known'
    <2>1. \A b \in consumed \cup Elements(buffer) \cup Elements(main') : b <= received + 1
      BY <1>2, <1>a
    <2> QED BY <1>3, <1>5, <2>1 DEF Known
  <1>9. MutexHeld'
    BY DEF IInv, MutexHeld
  <1> QED BY <1>4, <1>7, <1>8, <1>9 DEF IInv

\* The handler interrupted the critical section: the byte is parked.
LEMMA ReceiveToAdditIInv ==
  ASSUME IInv, ReceiveToAddit, received' = received + 1,
         UNCHANGED <<buffer, busy, pc, consumed>>
  PROVE  IInv'
  <1> USE CapacityAssumption
  <1>1. /\ received \in Nat
        /\ \A b \in consumed \cup Elements(buffer) \cup Elements(main) \cup Elements(addit) :
              b \in Nat /\ b <= received
    BY ElementsNat DEF IInv, TypeOK, Known
  <1>2. /\ addit' \in Seq(Nat) /\ Len(addit') <= Capacity /\ Increasing(addit')
        /\ Elements(addit') \subseteq Elements(addit) \cup {received + 1}
    <2>1. CASE addit' = Append(addit, received + 1) /\ Fits(addit, 1)
      <3>1. Before(Elements(addit), {received + 1})
        BY <1>1 DEF Before
      <3> QED BY <1>1, <2>1, <3>1, AppendElements, AppendIncreasing
              DEF Fits, IInv, TypeOK, InOrder
    <2>2. CASE addit' = <<>>
      BY <2>2, EmptyBuffer
    <2> QED BY <2>1, <2>2 DEF ReceiveToAddit
  <1>3. main' = main
    BY DEF ReceiveToAddit
  <1>4. /\ Elements(buffer)' = Elements(buffer) /\ Elements(main)' = Elements(main)
        /\ Uncopied' = Uncopied
    BY <1>3 DEF Uncopied, Elements
  <1>5. Elements(addit)' = Elements(addit')
    OBVIOUS
  <1>6. ASSUME NEW a \in consumed \cup Elements(buffer) \cup Elements(main),
               NEW b \in Elements(addit')
        PROVE  a < b
    <2>1. CASE b = received + 1
      BY <1>1, <2>1
    <2>2. CASE b \in Elements(addit)
      BY <2>2 DEF IInv, InOrder, Before
    <2> QED BY <1>2, <2>1, <2>2
  <1>7. TypeOK'
    BY <1>1, <1>2, <1>3 DEF IInv, TypeOK
  <1>8. InOrder'
    <2>1. /\ Before(consumed, Elements(addit')) /\ Before(Elements(buffer), Elements(addit'))
          /\ Before(Elements(main), Elements(addit'))
      BY <1>6 DEF Before
    <2> QED BY <1>2, <1>3, <1>4, <1>5, <2>1 DEF IInv, InOrder
  <1>9. Known'
    <2>1. \A b \in consumed \cup Elements(buffer) \cup Elements(main) \cup Elements(addit') :
             b <= received + 1
      BY <1>1, <1>2
    <2> QED BY <1>3, <1>4, <1>5, <2>1 DEF Known
  <1> QED BY <1>7, <1>8, <1>9 DEF IInv, MutexHeld

\* The main loop's copy of `main` behind `buffer`.
LEMMA CopyMainIInv ==
  ASSUME IInv, CopyMain
  PROVE  IInv'
  <1> USE CapacityAssumption
  <1>1. /\ buffer' \in Seq(Nat) /\ Len(buffer') <= Capacity /\ Increasing(buffer')
        /\ Elements(buffer') \subseteq Elements(buffer) \cup Elements(main)
    <2>0. Before(Elements(buffer), Elements(main))
      BY DEF IInv, InOrder, Uncopied, CopyMain
    <2>1. CASE buffer' = buffer
      BY <2>1 DEF IInv, TypeOK, InOrder
    <2>2. CASE buffer' = buffer \o main /\ Fits(buffer, Len(main))
      BY <2>0, <2>2, ConcatElements, ConcatIncreasing DEF IInv, TypeOK, InOrder, Fits
    <2>3. CASE buffer' = <<>>
      BY <2>3, EmptyBuffer
    <2> QED BY <2>1, <2>2, <2>3 DEF CopyMain
  <1>2. /\ Elements(main)' = Elements(main) /\ Elements(addit)' = Elements(addit)
        /\ Uncopied = Elements(main) /\ Elements(buffer)' = Elements(buffer')
        /\ UNCHANGED <<main, addit, busy, received, consumed>>
    BY DEF CopyMain, Elements, Uncopied
  <1>3. Uncopied' = {} \/ (Uncopied' = {} /\ main # <<>>)
    BY EmptyBuffer DEF CopyMain, Uncopied
  <1>4. TypeOK'
    BY <1>1, <1>2 DEF IInv, TypeOK, CopyMain
  <1>5. InOrder'
    BY <1>1, <1>2, <1>3 DEF IInv, InOrder, Before
  <1>6. Known'
    BY <1>1, <1>2 DEF IInv, Known
  <1>7. MutexHeld'
    BY DEF IInv, MutexHeld, CopyMain
  <1> QED BY <1>4, <1>5, <1>6, <1>7 DEF IInv

\* The framer's removal of a prefix of `buffer`.
LEMMA FrameBufferIInv ==
  ASSUME IInv, FrameBuffer
  PROVE  IInv'
  <1>1. PICK n \in 0..Len(buffer) :
           /\ buffer' = RemoveFirst(buffer, n)
           /\ consumed' = consumed \cup {buffer[i] : i \in 1..n}
    BY DEF FrameBuffer
  <1> DEFINE prefix == {buffer[i] : i \in 1..n}
  <1>2. buffer \in Seq(Nat) /\ Increasing(buffer)
    BY DEF IInv, TypeOK, InOrder
  <1>3. /\ buffer' \in Seq(Nat) /\ Len(buffer') <= Len(buffer) /\ Increasing(buffer')
        /\ prefix \cup Elements(buffer') = Elements(buffer)
        /\ Before(prefix, Elements(buffer'))
    BY <1>1, <1>2, RemoveFirstElements
  <1>4. consumed' = consumed \cup prefix
    BY <1>1
  <1> HIDE DEF prefix
  <1>5. /\ Elements(main)' = Elements(main) /\ Elements(addit)' = Elements(addit)
        /\ Uncopied' = Elements(main) /\ Uncopied = Elements(main)
        /\ Elements(buffer)' = Elements(buffer')
        /\ UNCHANGED <<main, addit, busy, received>>
    BY DEF FrameBuffer, Elements, Uncopied
  <1>6. Elements(buffer) \subseteq Nat
    BY <1>2, ElementsNat
  <1>7. TypeOK'
    <2>1. Len(buffer') <= Capacity
      BY <1>2, <1>3, CapacityAssumption DEF IInv, TypeOK
    <2> QED BY <1>3, <1>4, <1>5, <1>6, <2>1 DEF IInv, TypeOK, FrameBuffer
  <1>8. InOrder'
    <2>1. /\ Before(consumed', Elements(buffer')) /\ Before(consumed', Elements(main))
          /\ Before(consumed', Elements(addit)) /\ Before(Elements(buffer'), Elements(main))
          /\ Before(Elements(buffer'), Elements(addit))
      BY <1>3, <1>4, <1>5 DEF IInv, InOrder, Before
    <2> QED BY <1>3, <1>5, <2>1 DEF IInv, InOrder
  <1>9. Known'
    BY <1>3, <1>4, <1>5 DEF IInv, Known
  <1> QED BY <1>5, <1>7, <1>8, <1>9 DEF IInv, MutexHeld, FrameBuffer

\* The invariant is inductive.
LEMMA NextIInv == IInv /\ [Next]_vars => IInv'
  <1> SUFFICES ASSUME IInv, [Next]_vars PROVE IInv'
    OBVIOUS
  <1>1. CASE CallbackOnReceive
    BY <1>1, ReceiveToMainIInv, ReceiveToAdditIInv DEF CallbackOnReceive
  <1>2. CASE MutexTry
    <2>1. UNCHANGED <<main, addit, buffer, received, consumed, Uncopied>>
      BY <1>2 DEF MutexTry, Uncopied
    <2>2. TypeOK'
      BY <1>2, <2>1 DEF MutexTry, IInv, TypeOK
    <2>3. InOrder' /\ Known'
      BY <2>1 DEF IInv, InOrder, Known, Increasing, Before, Elements
    <2> QED BY <1>2, <2>2, <2>3 DEF MutexTry, IInv, MutexHeld
  <1>3. CASE CopyMain
    BY <1>3, CopyMainIInv
  <1>4. CASE ClearMain
    <2>1. main' = <<>> /\ Elements(main') = {} /\ Increasing(main')
      BY <1>4, EmptyBuffer DEF ClearMain
    <2>2. /\ Uncopied' = {} /\ Elements(buffer)' = Elements(buffer)
          /\ Elements(addit)' = Elements(addit) /\ Elements(main)' = Elements(main')
          /\ UNCHANGED <<addit, buffer, busy, received, consumed>>
      BY <1>4, <2>1 DEF ClearMain, Uncopied, Elements
    <2>3. TypeOK'
      BY <1>4, <2>1, <2>2, CapacityAssumption DEF IInv, TypeOK, ClearMain
    <2>4. InOrder'
      BY <2>1, <2>2 DEF IInv, InOrder, Before
    <2>5. Known'
      BY <2>1, <2>2 DEF IInv, Known
    <2> QED BY <1>4, <2>3, <2>4, <2>5 DEF IInv, MutexHeld, ClearMain
  <1>5. CASE MutexRelease
    <2>1. UNCHANGED <<main, addit, buffer, received, consumed, Uncopied>>
      BY <1>5 DEF MutexRelease, Uncopied
    <2>2. TypeOK'
      BY <1>5, <2>1 DEF MutexRelease, IInv, TypeOK
    <2>3. InOrder' /\ Known'
      BY <2>1 DEF IInv, InOrder, Known, Increasing, Before, Elements
    <2> QED BY <1>5, <2>2, <2>3 DEF MutexRelease, IInv, MutexHeld
  <1>6. CASE FrameBuffer
    BY <1>6, FrameBufferIInv
  <1>7. CASE UNCHANGED vars
    <2>1. UNCHANGED <<main, addit, buffer, busy, pc, received, consumed, Uncopied>>
      BY <1>7 DEF vars, Uncopied, Elements
    <2>2. TypeOK'
      BY <2>1 DEF IInv, TypeOK
    <2>3. InOrder' /\ Known'
      BY <2>1 DEF IInv, InOrder, Known, Increasing, Before, Elements
    <2>4. MutexHeld'
      BY <2>1 DEF IInv, MutexHeld
    <2> QED BY <2>2, <2>3, <2>4 DEF IInv
  <1> QED BY <1>1, <1>2, <1>3, <1>4, <1>5, <1>6, <1>7 DEF Next, InDataUpdate

\* The inductive invariant of reception: order, and what keeps it, hold in every
\* state that CallbackOnReceive and InData::Update can reach together.
THEOREM IInvHolds == Spec => []IInv
  <1>1. Init => IInv
    BY InitIInv
  <1>2. IInv /\ [Next]_vars => IInv'
    BY NextIInv
  <1> QED BY <1>1, <1>2, PTL DEF Spec

\* The buffers never exceed the capacity of Buffer<2048>, whatever it is.
THEOREM TypeCorrect == Spec => []TypeOK
  BY IInvHolds, PTL DEF IInv

\* No byte is reordered or duplicated between the UART and the framer.
THEOREM BytesInOrder == Spec => []InOrder
  BY IInvHolds, PTL DEF IInv

\* A byte parked in `addit` by CallbackOnReceive never waits behind a younger one
\* that went past it into `main`.
THEOREM YoungestParked == Spec => []ParkedIsYoungest
  <1>1. Init => ParkedIsYoungest
    BY DEF Init, ParkedIsYoungest
  <1>2. IInv /\ ParkedIsYoungest /\ [Next]_vars => ParkedIsYoungest'
    <2> SUFFICES ASSUME IInv, ParkedIsYoungest, [Next]_vars PROVE ParkedIsYoungest'
      OBVIOUS
    <2>1. CASE CallbackOnReceive /\ ReceiveToMain
      BY <2>1 DEF ReceiveToMain, ParkedIsYoungest
    <2>2. CASE CallbackOnReceive /\ ReceiveToAddit
      <3>1. addit' = <<>> \/ addit' = Append(addit, received + 1)
        BY <2>2 DEF ReceiveToAddit
      <3>2. Append(addit, received + 1)[Len(Append(addit, received + 1))] = received + 1
        BY DEF IInv, TypeOK
      <3> QED BY <2>2, <3>1, <3>2 DEF CallbackOnReceive, ParkedIsYoungest
    <2>3. CASE InDataUpdate \/ UNCHANGED vars
      <3>1. addit' = addit /\ received' = received
        BY <2>3 DEF InDataUpdate, MutexTry, CopyMain, ClearMain, MutexRelease, FrameBuffer, vars
      <3> QED BY <3>1 DEF ParkedIsYoungest
    <2> QED BY <2>1, <2>2, <2>3 DEF Next, CallbackOnReceive
  <1> QED BY <1>1, <1>2, IInvHolds, PTL DEF Spec

-----------------------------------------------------------------------------
(* What a step may never do.                                               *)

\* The framer removes bytes that are all younger than those removed before.
THEOREM FramerInOrder == Spec => FramerNeverGoesBack
  <1> DEFINE A == \A b \in consumed' \ consumed : \A a \in consumed : a < b
  <1>1. IInv /\ [Next]_vars => [A]_vars
    <2> SUFFICES ASSUME IInv, Next PROVE A
      OBVIOUS
    <2>1. CASE FrameBuffer
      <3>1. PICK n \in 0..Len(buffer) : consumed' = consumed \cup {buffer[i] : i \in 1..n}
        BY <2>1 DEF FrameBuffer
      <3>2. {buffer[i] : i \in 1..n} \subseteq Elements(buffer)
        <4>1. \A i \in 1..n : i \in 1..Len(buffer)
          BY DEF IInv, TypeOK
        <4> QED BY <4>1 DEF Elements
      <3>3. Before(consumed, Elements(buffer))
        BY DEF IInv, InOrder
      <3> QED BY <3>1, <3>2, <3>3 DEF Before
    <2>2. CASE ~FrameBuffer
      <3>1. consumed' = consumed
        BY <2>2 DEF Next, InDataUpdate, CallbackOnReceive, MutexTry, CopyMain, ClearMain,
                    MutexRelease
      <3> QED BY <3>1
    <2> QED BY <2>1, <2>2
  <1> QED BY <1>1, IInvHolds, PTL DEF Spec, FramerNeverGoesBack

\* With room to spare no step forgets a byte, and the byte a step receives is
\* stored.
LEMMA NothingForgotten ==
  ASSUME IInv, Next, Backlog < Capacity
  PROVE  Held \subseteq Held' /\ received' \in {received} \cup Held'
  <1>1. /\ Len(main) \in Nat /\ Len(addit) \in Nat /\ Len(buffer) \in Nat
        /\ Capacity \in Nat /\ received \in Nat
        /\ main \in Seq(Nat) /\ addit \in Seq(Nat) /\ buffer \in Seq(Nat)
    BY CapacityAssumption DEF IInv, TypeOK
  <1>2. CASE CallbackOnReceive /\ ReceiveToMain
    <2>0. /\ Uncopied = Elements(main) /\ Uncopied' = Elements(main')
          /\ received' = received + 1 /\ UNCHANGED <<buffer, consumed>>
      BY <1>2 DEF CallbackOnReceive, ReceiveToMain, IInv, MutexHeld, Uncopied, Elements
    <2>1. Fits(main, Len(addit)) /\ Len(main) + Len(addit) + 1 <= Capacity
      BY <1>1 DEF Backlog, Fits
    <2>2. MainWithAddit = main \o addit
      BY <2>1 DEF MainWithAddit
    <2>3. /\ main \o addit \in Seq(Nat) /\ Len(main \o addit) = Len(main) + Len(addit)
          /\ Elements(main \o addit) = Elements(main) \cup Elements(addit)
      BY <1>1, ConcatElements
    <2>4. main' = Append(main \o addit, received + 1)
      BY <1>1, <1>2, <2>1, <2>2, <2>3 DEF ReceiveToMain, Fits
    <2>5. Elements(main') = Elements(main) \cup Elements(addit) \cup {received + 1}
      <3>1. received + 1 \in Nat
        BY <1>1
      <3>2. Elements(Append(main \o addit, received + 1))
               = Elements(main \o addit) \cup {received + 1}
        BY <2>3, <3>1, AppendElements
      <3> QED BY <2>3, <2>4, <3>2
    <2> QED BY <2>0, <2>5 DEF Held, Elements
  <1>3. CASE CallbackOnReceive /\ ReceiveToAddit
    <2>0. Uncopied' = Uncopied /\ received' = received + 1 /\ UNCHANGED <<buffer, consumed>>
      BY <1>3 DEF CallbackOnReceive, ReceiveToAddit, Uncopied, Elements
    <2>1. addit' = Append(addit, received + 1)
      BY <1>1, <1>3 DEF Backlog, Fits, ReceiveToAddit
    <2>2. Elements(addit') = Elements(addit) \cup {received + 1}
      BY <1>1, <2>1, AppendElements
    <2> QED BY <2>0, <2>2 DEF Held, Elements
  <1>4. CASE MutexTry \/ MutexRelease
    BY <1>4 DEF MutexTry, MutexRelease, Held, Uncopied, Elements
  <1>5. CASE CopyMain
    <2>0. /\ Uncopied = Elements(main) /\ UNCHANGED <<main, addit, received, consumed>>
      BY <1>5 DEF CopyMain, Uncopied
    <2>1. CASE main = <<>>
      BY <1>5, <2>0, <2>1, EmptyBuffer DEF CopyMain, Held, Elements
    <2>2. CASE main # <<>>
      <3>1. buffer' = buffer \o main
        BY <1>1, <1>5, <2>2 DEF CopyMain, Backlog, Fits
      <3>2. Elements(buffer') = Elements(buffer) \cup Elements(main)
        BY <1>1, <3>1, ConcatElements
      <3> QED BY <2>0, <3>2 DEF Held, Elements
    <2> QED BY <2>1, <2>2
  <1>6. CASE ClearMain
    BY <1>6 DEF ClearMain, Held, Uncopied, Elements
  <1>7. CASE FrameBuffer
    <2>1. PICK n \in 0..Len(buffer) :
             /\ buffer' = RemoveFirst(buffer, n)
             /\ consumed' = consumed \cup {buffer[i] : i \in 1..n}
      BY <1>7 DEF FrameBuffer
    <2>2. {buffer[i] : i \in 1..n} \cup Elements(buffer') = Elements(buffer)
      BY <1>1, <2>1, RemoveFirstElements DEF IInv, InOrder
    <2>3. UNCHANGED <<main, addit, received>> /\ pc = "frame" /\ pc' = "try"
      BY <1>7 DEF FrameBuffer
    <2> QED BY <2>1, <2>2, <2>3 DEF Held, Uncopied, Elements
  <1> QED BY <1>2, <1>3, <1>4, <1>5, <1>6, <1>7 DEF Next, InDataUpdate, CallbackOnReceive

\* A byte is lost only when the bytes waiting reach the capacity of a buffer.
THEOREM NoSilentLoss == Spec => LossOnlyOnOverflow
  <1> DEFINE A == Backlog < Capacity => Lost' \subseteq Lost
  <1>1. IInv /\ [Next]_vars => [A]_vars
    <2> SUFFICES ASSUME IInv, Next, Backlog < Capacity PROVE Lost' \subseteq Lost
      OBVIOUS
    <2>1. Held \subseteq Held' /\ received' \in {received} \cup Held'
      BY NothingForgotten
    <2>2. received \in Nat /\ received' \in {received, received + 1}
      BY DEF IInv, TypeOK, Next, InDataUpdate, CallbackOnReceive, MutexTry, CopyMain,
             ClearMain, MutexRelease, FrameBuffer
    <2>3. \A b \in 1..received' : b \in 1..received \/ b = received'
      BY <2>2
    <2>4. received' = received \/ received' \in Held'
      BY <2>1
    <2> HIDE DEF Held
    <2>5. ASSUME NEW b \in Lost' PROVE b \in Lost
      <3>1. b \in 1..received' /\ b \notin Held'
        BY DEF Lost
      <3>2. b \in 1..received
        BY <2>2, <2>3, <2>4, <3>1
      <3> QED BY <2>1, <3>1, <3>2 DEF Lost
    <2> QED BY <2>5
  <1> QED BY <1>1, IInvHolds, PTL DEF Spec, LossOnlyOnOverflow

-----------------------------------------------------------------------------
(* Sequences of bytes.                                                     *)

\* What a concatenation holds at each place.
LEMMA Joined ==
  ASSUME NEW s \in Seq(Nat), NEW t \in Seq(Nat)
  PROVE  /\ s \o t \in Seq(Nat)
         /\ Len(s \o t) = Len(s) + Len(t)
         /\ \A i \in 1 .. Len(s) + Len(t) :
              (s \o t)[i] = IF i <= Len(s) THEN s[i] ELSE t[i - Len(s)]
  BY ConcatProperties

\* What a buffer holds after a byte is appended.
LEMMA Appended ==
  ASSUME NEW s \in Seq(Nat), NEW e \in Nat
  PROVE  /\ Append(s, e) \in Seq(Nat) /\ Len(Append(s, e)) = Len(s) + 1
         /\ Append(s, e)[Len(s) + 1] = e
         /\ \A i \in 1 .. Len(s) : Append(s, e)[i] = s[i]
  <1>1. Append(s, e) \in Seq(Nat) /\ Len(Append(s, e)) = Len(s) + 1
    OBVIOUS
  <1>2. Append(s, e)[Len(s) + 1] = e
    OBVIOUS
  <1>3. \A i \in 1 .. Len(s) : Append(s, e)[i] = s[i]
    OBVIOUS
  <1> QED BY <1>1, <1>2, <1>3

\* Appending a byte to the second part appends it to the whole.
LEMMA AppendToConcat ==
  ASSUME NEW s \in Seq(Nat), NEW t \in Seq(Nat), NEW e \in Nat
  PROVE  s \o Append(t, e) = Append(s \o t, e)
  <1> DEFINE a == Append(t, e)
             c == s \o t
             l == s \o a
             r == Append(c, e)
  <1>1. Len(s) \in Nat /\ Len(t) \in Nat
    OBVIOUS
  <1>2. /\ a \in Seq(Nat) /\ Len(a) = Len(t) + 1 /\ a[Len(t) + 1] = e
        /\ \A i \in 1 .. Len(t) : a[i] = t[i]
    BY Appended
  <1>3. /\ c \in Seq(Nat) /\ Len(c) = Len(s) + Len(t)
        /\ \A i \in 1 .. Len(s) + Len(t) :
             c[i] = IF i <= Len(s) THEN s[i] ELSE t[i - Len(s)]
    BY Joined
  <1> HIDE DEF a, c
  <1>4. /\ r \in Seq(Nat) /\ Len(r) = Len(c) + 1 /\ r[Len(c) + 1] = e
        /\ \A i \in 1 .. Len(c) : r[i] = c[i]
    BY <1>3, Appended
  <1>5. /\ l \in Seq(Nat) /\ Len(l) = Len(s) + Len(a)
        /\ \A i \in 1 .. Len(s) + Len(a) :
             l[i] = IF i <= Len(s) THEN s[i] ELSE a[i - Len(s)]
    BY <1>2, Joined
  <1> HIDE DEF l, r
  <1>6. ASSUME NEW i \in 1 .. Len(l) PROVE l[i] = r[i]
    <2>1. i \in 1 .. Len(s) + Len(a) /\ i \in 1 .. Len(s) + Len(t) + 1
      BY <1>1, <1>2, <1>5
    <2>2. CASE i <= Len(s)
      <3>1. i \in 1 .. Len(s) + Len(t) /\ i \in 1 .. Len(c)
        BY <1>1, <1>3, <2>1, <2>2
      <3>2. l[i] = s[i]
        BY <1>5, <2>1, <2>2
      <3>3. r[i] = s[i]
        BY <1>3, <1>4, <2>2, <3>1
      <3> QED BY <3>2, <3>3
    <2>3. CASE i > Len(s) /\ i <= Len(s) + Len(t)
      <3>1. /\ i \in 1 .. Len(s) + Len(t) /\ i \in 1 .. Len(c)
            /\ ~(i <= Len(s)) /\ i - Len(s) \in 1 .. Len(t)
        BY <1>1, <1>3, <2>1, <2>3
      <3>2. l[i] = t[i - Len(s)]
        BY <1>2, <1>5, <2>1, <3>1
      <3>3. r[i] = t[i - Len(s)]
        BY <1>3, <1>4, <3>1
      <3> QED BY <3>2, <3>3
    <2>4. CASE i = Len(s) + Len(t) + 1
      <3>1. ~(i <= Len(s)) /\ i - Len(s) = Len(t) + 1 /\ i = Len(c) + 1
        BY <1>1, <1>3, <2>4
      <3>2. l[i] = a[Len(t) + 1]
        BY <1>5, <2>1, <3>1
      <3> QED BY <1>2, <1>4, <3>1, <3>2
    <2> QED BY <1>1, <2>1, <2>2, <2>3, <2>4
  <1>7. Len(l) = Len(r)
    BY <1>1, <1>2, <1>3, <1>4, <1>5
  <1>8. l = r
    BY <1>4, <1>5, <1>6, <1>7, SeqEqual
  <1> QED BY <1>8 DEF a, c, l, r

\* What is left of a buffer whose first n bytes are removed.
LEMMA Dropped ==
  ASSUME NEW s \in Seq(Nat), NEW n \in 0 .. Len(s)
  PROVE  /\ RemoveFirst(s, n) \in Seq(Nat)
         /\ Len(RemoveFirst(s, n)) = Len(s) - n
         /\ \A i \in 1 .. Len(s) - n : RemoveFirst(s, n)[i] = s[n + i]
  <1>1. RemoveFirst(s, n) \in Seq(Nat) /\ Len(RemoveFirst(s, n)) = Len(s) - n
    BY DEF RemoveFirst
  <1>2. \A i \in 1 .. Len(RemoveFirst(s, n)) : RemoveFirst(s, n)[i] = s[n + i]
    BY <1>1, SMTT(30) DEF RemoveFirst
  <1> QED BY <1>1, <1>2

\* Three parts make the same whole in either grouping.
LEMMA Regrouped ==
  ASSUME NEW s \in Seq(Nat), NEW t \in Seq(Nat), NEW u \in Seq(Nat)
  PROVE  (s \o t) \o u = s \o (t \o u)
  <1> DEFINE f == s \o t
             g == t \o u
             l == f \o u
             r == s \o g
  <1>1. Len(s) \in Nat /\ Len(t) \in Nat /\ Len(u) \in Nat
    OBVIOUS
  <1>2. /\ f \in Seq(Nat) /\ Len(f) = Len(s) + Len(t)
        /\ \A i \in 1 .. Len(s) + Len(t) :
             f[i] = IF i <= Len(s) THEN s[i] ELSE t[i - Len(s)]
    BY Joined
  <1>3. /\ g \in Seq(Nat) /\ Len(g) = Len(t) + Len(u)
        /\ \A i \in 1 .. Len(t) + Len(u) :
             g[i] = IF i <= Len(t) THEN t[i] ELSE u[i - Len(t)]
    BY Joined
  <1> HIDE DEF f, g
  <1>4. /\ l \in Seq(Nat) /\ Len(l) = Len(f) + Len(u)
        /\ \A i \in 1 .. Len(f) + Len(u) :
             l[i] = IF i <= Len(f) THEN f[i] ELSE u[i - Len(f)]
    BY <1>2, Joined
  <1>5. /\ r \in Seq(Nat) /\ Len(r) = Len(s) + Len(g)
        /\ \A i \in 1 .. Len(s) + Len(g) :
             r[i] = IF i <= Len(s) THEN s[i] ELSE g[i - Len(s)]
    BY <1>3, Joined
  <1> HIDE DEF l, r
  <1>6. ASSUME NEW i \in 1 .. Len(l) PROVE l[i] = r[i]
    <2>1. i \in 1 .. Len(f) + Len(u) /\ i \in 1 .. Len(s) + Len(g)
      BY <1>1, <1>2, <1>3, <1>4
    <2>2. CASE i <= Len(s)
      <3>1. i \in 1 .. Len(s) + Len(t) /\ i <= Len(f)
        BY <1>1, <1>2, <2>1, <2>2
      <3> QED BY <1>2, <1>4, <1>5, <2>1, <2>2, <3>1
    <2>3. CASE i > Len(s) /\ i <= Len(s) + Len(t)
      <3>1. /\ i \in 1 .. Len(s) + Len(t) /\ i <= Len(f) /\ ~(i <= Len(s))
            /\ i - Len(s) \in 1 .. Len(t) + Len(u) /\ i - Len(s) <= Len(t)
        BY <1>1, <1>2, <2>1, <2>3
      <3>2. l[i] = t[i - Len(s)]
        BY <1>2, <1>4, <2>1, <3>1
      <3>3. r[i] = t[i - Len(s)]
        BY <1>3, <1>5, <2>1, <3>1
      <3> QED BY <3>2, <3>3
    <2>4. CASE i > Len(s) + Len(t)
      <3>1. /\ ~(i <= Len(f)) /\ ~(i <= Len(s)) /\ ~(i - Len(s) <= Len(t))
            /\ i - Len(s) \in 1 .. Len(t) + Len(u) /\ i - Len(s) - Len(t) = i - Len(f)
        BY <1>1, <1>2, <1>3, <2>1, <2>4
      <3>2. l[i] = u[i - Len(f)]
        BY <1>4, <2>1, <3>1
      <3>3. r[i] = u[i - Len(s) - Len(t)]
        BY <1>3, <1>5, <2>1, <3>1
      <3> QED BY <3>1, <3>2, <3>3
    <2> QED BY <1>1, <2>1, <2>2, <2>3, <2>4
  <1>7. Len(l) = Len(r)
    BY <1>1, <1>2, <1>3, <1>4, <1>5
  <1>8. l = r
    BY <1>4, <1>5, <1>6, <1>7, SeqEqual
  <1> QED BY <1>8 DEF f, g, l, r

\* Removing bytes of the first part from the whole removes them from that part.
LEMMA RemoveFromConcat ==
  ASSUME NEW s \in Seq(Nat), NEW t \in Seq(Nat), NEW n \in 0 .. Len(s)
  PROVE  RemoveFirst(s, n) \o t = RemoveFirst(s \o t, n)
  <1> DEFINE c == s \o t
             p == RemoveFirst(s, n)
             l == p \o t
             r == RemoveFirst(c, n)
  <1>1. Len(s) \in Nat /\ Len(t) \in Nat /\ n \in Nat
    OBVIOUS
  <1>2. /\ c \in Seq(Nat) /\ Len(c) = Len(s) + Len(t)
        /\ \A i \in 1 .. Len(s) + Len(t) :
             c[i] = IF i <= Len(s) THEN s[i] ELSE t[i - Len(s)]
    BY Joined
  <1>3. /\ p \in Seq(Nat) /\ Len(p) = Len(s) - n
        /\ \A i \in 1 .. Len(s) - n : p[i] = s[n + i]
    BY Dropped
  <1> HIDE DEF c, p
  <1>4. /\ r \in Seq(Nat) /\ Len(r) = Len(c) - n
        /\ \A i \in 1 .. Len(c) - n : r[i] = c[n + i]
    <2>1. n \in 0 .. Len(c)
      BY <1>1, <1>2
    <2> QED BY <1>2, <2>1, Dropped
  <1>5. /\ l \in Seq(Nat) /\ Len(l) = Len(p) + Len(t)
        /\ \A i \in 1 .. Len(p) + Len(t) :
             l[i] = IF i <= Len(p) THEN p[i] ELSE t[i - Len(p)]
    BY <1>3, Joined
  <1> HIDE DEF l, r
  <1>6. ASSUME NEW i \in 1 .. Len(l) PROVE l[i] = r[i]
    <2>1. i \in 1 .. Len(c) - n /\ n + i \in 1 .. Len(s) + Len(t) /\ i \in 1 .. Len(p) + Len(t)
      BY <1>1, <1>2, <1>3, <1>5
    <2>2. r[i] = c[n + i]
      BY <1>4, <2>1
    <2>3. CASE i <= Len(s) - n
      <3>1. i \in 1 .. Len(s) - n /\ n + i <= Len(s) /\ i <= Len(p)
        BY <1>1, <1>3, <2>1, <2>3
      <3>2. l[i] = s[n + i]
        BY <1>3, <1>5, <2>1, <3>1
      <3>3. c[n + i] = s[n + i]
        <4>1. \A j \in 1 .. Len(s) + Len(t) : j <= Len(s) => c[j] = s[j]
          BY <1>2
        <4> QED BY <2>1, <3>1, <4>1, Zenon
      <3> QED BY <2>2, <3>2, <3>3
    <2>4. CASE i > Len(s) - n
      <3>1. ~(n + i <= Len(s)) /\ ~(i <= Len(p)) /\ i - Len(p) = (n + i) - Len(s)
        BY <1>1, <1>3, <2>1, <2>4
      <3>2. l[i] = t[i - Len(p)]
        BY <1>5, <2>1, <3>1
      <3>3. c[n + i] = t[(n + i) - Len(s)]
        <4>1. \A j \in 1 .. Len(s) + Len(t) : ~(j <= Len(s)) => c[j] = t[j - Len(s)]
          BY <1>2
        <4> QED BY <2>1, <3>1, <4>1, Zenon
      <3> QED BY <2>2, <3>1, <3>2, <3>3
    <2> QED BY <1>1, <2>1, <2>3, <2>4
  <1>7. Len(l) = Len(r)
    BY <1>1, <1>2, <1>3, <1>4, <1>5
  <1>8. l = r
    BY <1>4, <1>5, <1>6, <1>7, SeqEqual
  <1> QED BY <1>8 DEF c, p, l, r

\* The first part of the whole, and the second.
LEMMA PartsOfConcat ==
  ASSUME NEW s \in Seq(Nat), NEW t \in Seq(Nat)
  PROVE  /\ SubSeq(s \o t, 1, Len(s)) = s
         /\ RemoveFirst(s \o t, Len(s)) = t
  <1>1. RemoveFirst(s \o t, Len(s)) = t
    <2>1. RemoveFirst(s, Len(s)) = <<>>
      BY SubSeqEmpty DEF RemoveFirst
    <2>2. Len(s) \in 0 .. Len(s)
      OBVIOUS
    <2>3. RemoveFirst(s, Len(s)) \o t = RemoveFirst(s \o t, Len(s))
      BY <2>2, RemoveFromConcat
    <2> QED BY <2>1, <2>3, ConcatEmptySeq
  <1>2. SubSeq(s \o t, 1, Len(s)) = s
    <2>1. CASE s = <<>>
      BY <2>1, SubSeqEmpty
    <2>2. CASE s # <<>>
      <3>1. 1 \in 1 .. Len(s) /\ Len(s) \in 1 .. Len(s)
        BY <2>2
      <3>2. SubSeq(s \o t, 1, Len(s)) = SubSeq(s, 1, Len(s))
        BY <3>1, SubSeqOfConcat1
      <3> QED BY <3>2, SubSeqFull
    <2> QED BY <2>1, <2>2
  <1> QED BY <1>1, <1>2

-----------------------------------------------------------------------------
(* The steps.                                                              *)

\* The bytes that wait for the framer ahead of those parked in `addit`.
Ahead == buffer \o (IF pc = "clear" THEN <<>> ELSE main)

\* The queue is what waits ahead of `addit`, and `addit`.
LEMMA QueueParts ==
  ASSUME IInv
  PROVE  /\ InTransit = Ahead \o addit
         /\ Ahead \in Seq(Nat) /\ Len(Ahead) \in Nat
         /\ pc # "clear" => Ahead = buffer \o main /\ Len(Ahead) = Len(buffer) + Len(main)
         /\ pc = "clear" => Ahead = buffer
         /\ InTransit \in Seq(Nat) /\ Len(InTransit) = Len(Ahead) + Len(addit)
         /\ main \in Seq(Nat) /\ addit \in Seq(Nat) /\ buffer \in Seq(Nat)
         /\ Len(main) \in Nat /\ Len(addit) \in Nat /\ Len(buffer) \in Nat
         /\ received \in Nat /\ Capacity \in Nat /\ 1 <= Capacity
  <1>1. /\ main \in Seq(Nat) /\ addit \in Seq(Nat) /\ buffer \in Seq(Nat)
        /\ Len(main) \in Nat /\ Len(addit) \in Nat /\ Len(buffer) \in Nat
        /\ received \in Nat /\ Capacity \in Nat /\ 1 <= Capacity
    BY CapacityAssumption DEF IInv, TypeOK
  <1>2. CASE pc # "clear"
    <2>1. Ahead = buffer \o main
      BY <1>2 DEF Ahead
    <2>2. Ahead \in Seq(Nat) /\ Len(Ahead) = Len(buffer) + Len(main)
      BY <1>1, <2>1, Joined
    <2>3. Ahead \o addit \in Seq(Nat) /\ Len(Ahead \o addit) = Len(Ahead) + Len(addit)
      BY <1>1, <2>2, Joined
    <2> QED BY <1>1, <1>2, <2>1, <2>2, <2>3 DEF InTransit, Ahead
  <1>3. CASE pc = "clear"
    <2>1. Ahead = buffer
      BY <1>1, <1>3, ConcatEmptySeq DEF Ahead
    <2>2. Ahead \o addit \in Seq(Nat) /\ Len(Ahead \o addit) = Len(Ahead) + Len(addit)
      BY <1>1, <2>1, Joined
    <2> QED BY <1>1, <1>3, <2>1, <2>2 DEF InTransit, Ahead
  <1> QED BY <1>2, <1>3

\* The lengths of the parts.
LEMMA QueueLengths ==
  ASSUME IInv
  PROVE  /\ InTransit \in Seq(Nat) /\ Len(InTransit) = Len(Ahead) + Len(addit)
         /\ pc # "clear" => Len(Ahead) = Len(buffer) + Len(main)
         /\ Len(main) \in Nat /\ Len(addit) \in Nat /\ Len(buffer) \in Nat
         /\ Len(Ahead) \in Nat /\ Capacity \in Nat /\ 1 <= Capacity
  BY QueueParts

\* Nothing splits the bytes of `main` from those parked in `addit`.
LEMMA QueueBehindBuffer ==
  ASSUME IInv, pc # "clear"
  PROVE  /\ main \o addit \in Seq(Nat)
         /\ Len(main \o addit) = Len(main) + Len(addit)
         /\ InTransit = buffer \o (main \o addit)
  <1>1. main \o addit \in Seq(Nat) /\ Len(main \o addit) = Len(main) + Len(addit)
    <2>1. main \in Seq(Nat) /\ addit \in Seq(Nat)
      BY DEF IInv, TypeOK
    <2> QED BY <2>1, Joined
  <1>2. InTransit = (buffer \o main) \o addit
    BY DEF InTransit
  <1>3. (buffer \o main) \o addit = buffer \o (main \o addit)
    <2>1. buffer \in Seq(Nat) /\ main \in Seq(Nat) /\ addit \in Seq(Nat)
      BY DEF IInv, TypeOK
    <2> QED BY <2>1, Regrouped, Zenon
  <1> QED BY <1>1, <1>2, <1>3

\* A byte that arrives outside the critical section joins the queue, behind the
\* parked ones, or pushes out all that is not in `buffer`.
LEMMA ReceiveToMainArrives ==
  ASSUME IInv, ReceiveToMain, received' = received + 1,
         UNCHANGED <<buffer, busy, pc, consumed>>
  PROVE  Channel!Next
  <1> DEFINE b == received + 1
             waiting == main \o addit
  <1>0. /\ pc # "clear" /\ b \in Nat
        /\ addit' = <<>> /\ buffer' = buffer /\ pc' = pc /\ consumed' = consumed
    BY QueueParts DEF IInv, MutexHeld, ReceiveToMain
  <1>1. /\ waiting \in Seq(Nat) /\ Len(waiting) = Len(main) + Len(addit)
        /\ InTransit = buffer \o waiting
    BY <1>0, QueueBehindBuffer
  <1>a. Len(InTransit) = Len(buffer) + Len(main) + Len(addit)
    BY <1>0, QueueLengths
  <1> HIDE DEF waiting
  <1>2. main' \in Seq(Nat) => InTransit' = buffer \o main'
    <2> SUFFICES ASSUME main' \in Seq(Nat) PROVE InTransit' = buffer \o main'
      OBVIOUS
    <2>1. InTransit' = (buffer \o main') \o <<>>
      BY <1>0 DEF InTransit
    <2>2. buffer \o main' \in Seq(Nat)
      BY QueueParts, Joined
    <2> QED BY <2>1, <2>2, ConcatEmptySeq
  <1>3. CASE Fits(main, Len(addit)) /\ Fits(waiting, 1)
    <2>1. main' = Append(waiting, b)
      BY <1>3 DEF ReceiveToMain, MainWithAddit, waiting
    <2>2. main' \in Seq(Nat)
      BY <1>0, <1>1, <2>1, AppendElements
    <2>3. InTransit' = Append(InTransit, b)
      <3>1. buffer \o Append(waiting, b) = Append(buffer \o waiting, b)
        <4>1. buffer \in Seq(Nat)
          BY QueueParts
        <4> QED BY <1>0, <1>1, <4>1, AppendToConcat
      <3> QED BY <1>1, <1>2, <2>1, <2>2, <3>1
    <2> QED BY <1>0, <2>3 DEF Channel!Next, Channel!Arrive
  <1>4. CASE Fits(main, Len(addit)) /\ ~Fits(waiting, 1)
    <2>1. main' = <<>>
      BY <1>4 DEF ReceiveToMain, MainWithAddit, waiting
    <2>2. InTransit' = buffer
      BY <1>2, <2>1, QueueParts, ConcatEmptySeq
    <2>3. InTransit' = SubSeq(InTransit, 1, Len(buffer))
      BY <1>1, <2>2, QueueParts, PartsOfConcat
    <2>4. Len(InTransit) >= Capacity /\ Len(buffer) \in 0 .. Len(InTransit)
      BY <1>1, <1>a, <1>4, QueueLengths DEF Fits
    <2> QED BY <1>0, <2>3, <2>4 DEF Channel!Next, Channel!PushOutYoungest
  <1>5. CASE ~Fits(main, Len(addit))
    <2>1. main' = Append(<<>>, b)
      <3>1. MainWithAddit = <<>>
        BY <1>5 DEF MainWithAddit
      <3>2. Fits(<<>>, 1)
        BY QueueParts DEF Fits
      <3> QED BY <3>1, <3>2 DEF ReceiveToMain
    <2>2. main' \in Seq(Nat)
      BY <1>0, <2>1
    <2>3. InTransit' = Append(buffer, b)
      <3>1. <<>> \in Seq(Nat)
        OBVIOUS
      <3>2. buffer \o Append(<<>>, b) = Append(buffer \o <<>>, b)
        BY <1>0, <3>1, QueueParts, AppendToConcat
      <3> QED BY <1>2, <2>1, <2>2, <3>2, QueueParts, ConcatEmptySeq
    <2>4. InTransit' = Append(SubSeq(InTransit, 1, Len(buffer)), b)
      BY <1>1, <2>3, QueueParts, PartsOfConcat
    <2>5. Len(InTransit) >= Capacity /\ Len(buffer) \in 0 .. Len(InTransit)
      BY <1>a, <1>5, QueueLengths DEF Fits
    <2> QED BY <1>0, <2>4, <2>5 DEF Channel!Next, Channel!PushOutYoungest
  <1> QED BY <1>3, <1>4, <1>5

\* A byte that interrupts the critical section joins the queue, or pushes out
\* the parked ones.
LEMMA ReceiveToAdditArrives ==
  ASSUME IInv, ReceiveToAddit, received' = received + 1,
         UNCHANGED <<buffer, busy, pc, consumed>>
  PROVE  Channel!Next
  <1>0. received + 1 \in Nat /\ InTransit' = Ahead \o addit' /\ consumed' = consumed
    BY QueueParts DEF InTransit, Ahead, ReceiveToAddit
  <1>1. CASE Fits(addit, 1)
    <2>1. addit' = Append(addit, received + 1)
      BY <1>1 DEF ReceiveToAddit
    <2>2. InTransit' = Append(InTransit, received + 1)
      <3>1. /\ Ahead \in Seq(Nat) /\ addit \in Seq(Nat)
            /\ InTransit = Ahead \o addit
        BY QueueParts
      <3>2. Ahead \o Append(addit, received + 1) = Append(Ahead \o addit, received + 1)
        BY <1>0, <3>1, AppendToConcat
      <3> QED BY <1>0, <2>1, <3>1, <3>2
    <2> QED BY <1>0, <2>2 DEF Channel!Next, Channel!Arrive
  <1>2. CASE ~Fits(addit, 1)
    <2>1. InTransit' = Ahead
      BY <1>0, <1>2, QueueParts, ConcatEmptySeq DEF ReceiveToAddit
    <2>2. InTransit' = SubSeq(InTransit, 1, Len(Ahead))
      BY <2>1, QueueParts, PartsOfConcat
    <2>3. Len(InTransit) >= Capacity /\ Len(Ahead) \in 0 .. Len(InTransit)
      BY <1>2, QueueLengths DEF Fits
    <2> QED BY <1>0, <2>2, <2>3 DEF Channel!Next, Channel!PushOutYoungest
  <1> QED BY <1>1, <1>2

\* The copy of `main` behind `buffer` does not show, unless `buffer` overflows:
\* then all that is not parked is lost.
LEMMA CopyMainHidden ==
  ASSUME IInv, CopyMain
  PROVE  [Channel!Next]_Channel!channelVars
  <1>0. /\ pc # "clear" /\ main' = main /\ addit' = addit
        /\ received' = received /\ consumed' = consumed
    BY DEF CopyMain
  <1>1. CASE main = <<>>
    <2>1. InTransit' = InTransit
      BY <1>0, <1>1 DEF CopyMain, InTransit
    <2> QED BY <1>0, <2>1 DEF Channel!channelVars
  <1>2. CASE main # <<>> /\ Fits(buffer, Len(main))
    <2>1. buffer' = Ahead /\ pc' = "clear"
      BY <1>0, <1>2, QueueParts DEF CopyMain
    <2>2. InTransit' = (Ahead \o <<>>) \o addit
      BY <1>0, <2>1 DEF InTransit
    <2>3. InTransit' = InTransit
      BY <2>2, QueueParts, ConcatEmptySeq
    <2> QED BY <1>0, <2>3 DEF Channel!channelVars
  <1>3. CASE main # <<>> /\ ~Fits(buffer, Len(main))
    <2>1. buffer' = <<>> /\ pc' = "clear"
      BY <1>3 DEF CopyMain
    <2>2. InTransit' = (<<>> \o <<>>) \o addit
      BY <1>0, <2>1 DEF InTransit
    <2>3. InTransit' = addit
      <3>1. <<>> \in Seq(Nat)
        OBVIOUS
      <3> QED BY <2>2, <3>1, QueueParts, ConcatEmptySeq
    <2>4. InTransit' = SubSeq(InTransit, Len(Ahead) + 1, Len(InTransit))
      <3>1. /\ Ahead \in Seq(Nat) /\ addit \in Seq(Nat)
            /\ InTransit = Ahead \o addit
        BY QueueParts
      <3>2. RemoveFirst(Ahead \o addit, Len(Ahead)) = addit
        BY <3>1, PartsOfConcat
      <3>3. RemoveFirst(InTransit, Len(Ahead)) = addit
        BY <3>1, <3>2
      <3> QED BY <2>3, <3>3 DEF RemoveFirst
    <2>5. Len(InTransit) > Capacity /\ Len(Ahead) \in 0 .. Len(InTransit)
      BY <1>0, <1>3, QueueLengths DEF Fits
    <2> QED BY <1>0, <2>4, <2>5 DEF Channel!Next, Channel!LoseOldest
  <1> QED BY <1>1, <1>2, <1>3

\* What the framer removes is delivered.
LEMMA FrameBufferDelivers ==
  ASSUME IInv, FrameBuffer
  PROVE  Channel!Next
  <1> DEFINE waiting == main \o addit
  <1>0. /\ pc = "frame" /\ pc' = "try" /\ main' = main /\ addit' = addit
        /\ received' = received
    BY DEF FrameBuffer
  <1>1. PICK n \in 0 .. Len(buffer) :
           /\ buffer' = RemoveFirst(buffer, n)
           /\ consumed' = consumed \cup {buffer[i] : i \in 1 .. n}
    BY DEF FrameBuffer
  <1>2. /\ waiting \in Seq(Nat) /\ InTransit = buffer \o waiting
        /\ Len(waiting) = Len(main) + Len(addit)
    BY <1>0, QueueBehindBuffer
  <1>a. Len(InTransit) = Len(buffer) + Len(waiting) /\ Len(waiting) \in Nat
    <2>1. Len(waiting) = Len(main) + Len(addit)
      BY <1>2
    <2> HIDE DEF waiting
    <2>2. /\ Len(InTransit) = Len(Ahead) + Len(addit) /\ Len(Ahead) = Len(buffer) + Len(main)
          /\ Len(main) \in Nat /\ Len(addit) \in Nat /\ Len(buffer) \in Nat
      <3>1. pc # "clear"
        BY <1>0
      <3> QED BY <3>1, QueueLengths, Zenon
    <2> QED BY <2>1, <2>2
  <1>3. buffer' \in Seq(Nat)
    BY <1>1, QueueParts, Dropped
  <1>4. InTransit' = buffer' \o waiting
    <2>1. InTransit' = (buffer' \o main) \o addit
      BY <1>0 DEF InTransit
    <2>2. main \in Seq(Nat) /\ addit \in Seq(Nat)
      BY QueueParts
    <2>3. (buffer' \o main) \o addit = buffer' \o (main \o addit)
      BY <1>3, <2>2, Regrouped, Zenon
    <2> QED BY <2>1, <2>3
  <1> HIDE DEF waiting
  <1>5. InTransit' = SubSeq(InTransit, n + 1, Len(InTransit))
    BY <1>1, <1>2, <1>4, QueueParts, RemoveFromConcat DEF RemoveFirst
  <1>6. \A i \in 1 .. n : InTransit[i] = buffer[i]
    <2>1. Len(buffer) \in Nat /\ n \in Nat /\ n <= Len(buffer)
      BY QueueParts
    <2>2. \A i \in 1 .. n : i \in 1 .. Len(buffer) + Len(waiting) /\ i <= Len(buffer)
      BY <1>a, <2>1
    <2> QED BY <1>2, <2>2, QueueParts, Joined
  <1>7. n \in 0 .. Len(InTransit)
    BY <1>a, QueueLengths
  <1>8. consumed' = consumed \cup {InTransit[i] : i \in 1 .. n}
    BY <1>1, <1>6
  <1> QED BY <1>0, <1>5, <1>7, <1>8 DEF Channel!Next, Channel!Deliver

\* The reception of bytes implements the byte channel, for every capacity and
\* every interleaving of CallbackOnReceive with InData::Update.
THEOREM ImplementsByteChannel == Spec => ImplementsChannel
  <1>1. Init => Channel!Init
    <2> SUFFICES ASSUME Init PROVE Channel!Init
      OBVIOUS
    <2>1. InTransit = (<<>> \o <<>>) \o <<>>
      BY DEF Init, InTransit
    <2>2. <<>> \in Seq(Nat)
      OBVIOUS
    <2>3. InTransit = <<>>
      BY <2>1, <2>2, ConcatEmptySeq
    <2> QED BY <2>3 DEF Init, Channel!Init
  <1>2. IInv /\ [Next]_vars => [Channel!Next]_Channel!channelVars
    <2> SUFFICES ASSUME IInv, [Next]_vars PROVE [Channel!Next]_Channel!channelVars
      OBVIOUS
    <2>1. CASE CallbackOnReceive
      BY <2>1, ReceiveToMainArrives, ReceiveToAdditArrives DEF CallbackOnReceive
    <2>2. CASE MutexTry \/ MutexRelease
      BY <2>2 DEF MutexTry, MutexRelease, InTransit, Channel!channelVars
    <2>3. CASE CopyMain
      BY <2>3, CopyMainHidden
    <2>4. CASE ClearMain
      BY <2>4 DEF ClearMain, InTransit, Channel!channelVars
    <2>5. CASE FrameBuffer
      BY <2>5, FrameBufferDelivers
    <2>6. CASE UNCHANGED vars
      BY <2>6 DEF vars, InTransit, Channel!channelVars
    <2> QED BY <2>1, <2>2, <2>3, <2>4, <2>5, <2>6 DEF Next, InDataUpdate
  <1> QED BY <1>1, <1>2, IInvHolds, PTL DEF Spec, ImplementsChannel, Channel!Spec

=============================================================================
