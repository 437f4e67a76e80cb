----------------------------- MODULE RxBuffers -----------------------------
(***************************************************************************)
(* Reception of bytes from the SIM868 modem (common/Modem/Modem.cpp).      *)
(* The UART interrupt handler calls Modem::CallbackOnReceive once per      *)
(* byte; the main loop runs Modem::InData::Update.  They share the buffer  *)
(* `main`; while the main loop works on it, it raises the flag of          *)
(* main.mutex and the handler diverts its byte to `addit`.  The main loop  *)
(* moves `main` to `buffer`, from which the framer removes what it has     *)
(* turned into answers.                                                    *)
(*                                                                         *)
(* The handler cannot be preempted by the main loop, so it is one step;    *)
(* the handler may run between any two statements of the main loop, so     *)
(* the critical section is one step per statement that touches shared      *)
(* state.  Bytes are numbered in order of arrival: byte b is the b-th      *)
(* byte the UART delivered since power-up.                                 *)
(***************************************************************************)
EXTENDS Integers, Sequences

CONSTANTS
    Capacity,       \* capacity of each Buffer<2048>
    MaxBytes        \* bound on the bytes the UART delivers in a behaviour

ASSUME CapacityAssumption == Capacity \in Nat \ {0}
ASSUME MaxBytesAssumption == MaxBytes \in Nat

VARIABLES
    main, addit, buffer,    \* the three static buffers of Modem::InData
    busy,                   \* main.mutex.busy
    pc,                     \* the next statement of InData::Update
    received,               \* number of bytes delivered by the UART so far
    consumed                \* bytes the framer has removed from `buffer`

vars == <<main, addit, buffer, busy, pc, received, consumed>>

-----------------------------------------------------------------------------
(* Buffer<capacity>: Append refuses, changing nothing, what does not fit.  *)

\* Mutant: one byte of each buffer is never used.
FitsStrictly(s, n) == Len(s) + n < Capacity

Fits(s, n) == Len(s) + n <= Capacity

RemoveFirst(s, n) == SubSeq(s, n + 1, Len(s))

Init ==
    /\ main = <<>> /\ addit = <<>> /\ buffer = <<>>
    /\ busy = FALSE
    /\ pc = "try"
    /\ received = 0
    /\ consumed = {}

-----------------------------------------------------------------------------
(* Modem::CallbackOnReceive, called by UART3_IRQHandler.                   *)

\* What `main` holds once the bytes parked in `addit` have been moved to it:
\* an overflow throws both away.
MainWithAddit == IF Fits(main, Len(addit)) THEN main \o addit ELSE <<>>

\* Mutant: the new byte is stored before the parked ones are moved.
ReceiveToMainSwapped ==
    /\ ~busy
    /\ addit' = <<>>
    /\ main' = IF Fits(main, Len(addit) + 1)
               THEN Append(main, received + 1) \o addit
               ELSE <<>>

\* Mutant: addit.Clear() forgotten.
ReceiveToMainKeepsAddit ==
    /\ ~busy
    /\ addit' = addit
    /\ main' = IF Fits(MainWithAddit, 1)
               THEN Append(MainWithAddit, received + 1)
               ELSE <<>>

\* The handler finds main.mutex free.
ReceiveToMain ==
    /\ ~busy
    /\ addit' = <<>>
    /\ main' = IF Fits(MainWithAddit, 1)
               THEN Append(MainWithAddit, received + 1)
               ELSE <<>>

\* Mutant: the handler does not look at main.mutex.
ReceiveIgnoresMutex ==
    /\ busy
    /\ addit' = addit
    /\ main' = IF Fits(main, 1) THEN Append(main, received + 1) ELSE <<>>

\* Mutant: addit's test for room is off by one.
ReceiveToAdditOverrun ==
    /\ busy
    /\ addit' = IF Len(addit) <= Capacity THEN Append(addit, received + 1) ELSE <<>>
    /\ main' = main

\* The handler interrupted InData::Update between Try() and Release().
ReceiveToAddit ==
    /\ busy
    /\ addit' = IF Fits(addit, 1) THEN Append(addit, received + 1) ELSE <<>>
    /\ main' = main

CallbackOnReceive ==
    /\ received < MaxBytes
    /\ received' = received + 1
    /\ ReceiveToMain \/ ReceiveToAddit
    /\ UNCHANGED <<buffer, busy, pc, consumed>>

-----------------------------------------------------------------------------
(* Modem::InData::Update, statement by statement.                          *)

MutexTry ==
    /\ pc = "try"
    /\ busy' = TRUE
    /\ pc' = "copy"
    /\ UNCHANGED <<main, addit, buffer, received, consumed>>

\* Mutant: the test of main.Size() is off by one.
CopyMainOffByOne ==
    /\ pc = "copy"
    /\ \/ /\ Len(main) <= 1
          /\ pc' = "release"
          /\ buffer' = buffer
       \/ /\ Len(main) > 1
          /\ pc' = "clear"
          /\ buffer' = IF Fits(buffer, Len(main)) THEN buffer \o main ELSE <<>>
    /\ UNCHANGED <<main, addit, busy, received, consumed>>

\* Mutant: `buffer` is overwritten from its start when `main` does not fit.
CopyMainWraps ==
    /\ pc = "copy"
    /\ \/ /\ main = <<>>
          /\ pc' = "release"
          /\ buffer' = buffer
       \/ /\ main # <<>>
          /\ pc' = "clear"
          /\ buffer' = IF Fits(buffer, Len(main)) THEN buffer \o main
                       ELSE main \o SubSeq(buffer, Len(main) + 1, Len(buffer))
    /\ UNCHANGED <<main, addit, busy, received, consumed>>

\* if (main.Size()) { if (!buffer.Append(main)) buffer.Clear(); ...
CopyMain ==
    /\ pc = "copy"
    /\ \/ /\ main = <<>>
          /\ pc' = "release"
          /\ buffer' = buffer
       \/ /\ main # <<>>
          /\ pc' = "clear"
          /\ buffer' = IF Fits(buffer, Len(main)) THEN buffer \o main ELSE <<>>
    /\ UNCHANGED <<main, addit, busy, received, consumed>>

\* ... main.Clear(); }
ClearMain ==
    /\ pc = "clear"
    /\ main' = <<>>
    /\ pc' = "release"
    /\ UNCHANGED <<addit, buffer, busy, received, consumed>>

MutexRelease ==
    /\ pc = "release"
    /\ busy' = FALSE
    /\ pc' = "frame"
    /\ UNCHANGED <<main, addit, buffer, received, consumed>>

\* The framing loop removes a prefix of `buffer`: the text lines it found and
\* the headers of binary packets; the rest waits for the next pass.
FrameBuffer ==
    /\ pc = "frame"
    /\ \E n \in 0..Len(buffer) :
          /\ buffer' = RemoveFirst(buffer, n)
          /\ consumed' = consumed \cup {buffer[i] : i \in 1..n}
    /\ pc' = "try"
    /\ UNCHANGED <<main, addit, busy, received>>

InDataUpdate ==
    MutexTry \/ CopyMain \/ ClearMain \/ MutexRelease \/ FrameBuffer

Next == CallbackOnReceive \/ InDataUpdate

Spec == Init /\ [][Next]_vars

\* main() calls Device::Update for ever, and Device::Update calls InData::Update
\* as long as the modem is in HARDWARE_IS_OK, which is the case this module is
\* about; interrupts take a bounded share of the processor.  While the modem is
\* being powered up InData::Update is not called and the buffers are not emptied.
FairSpec == Spec /\ WF_vars(InDataUpdate)

-----------------------------------------------------------------------------
(* Properties.                                                             *)

TypeOK ==
    /\ main \in Seq(Nat) /\ Len(main) <= Capacity
    /\ addit \in Seq(Nat) /\ Len(addit) <= Capacity
    /\ buffer \in Seq(Nat) /\ Len(buffer) <= Capacity
    /\ busy \in BOOLEAN
    /\ pc \in {"try", "copy", "clear", "release", "frame"}
    /\ received \in Nat
    /\ consumed \subseteq Nat

Elements(s) == {s[i] : i \in 1..Len(s)}

Increasing(s) == \A i, j \in 1..Len(s) : i < j => s[i] < s[j]

Before(S, T) == \A a \in S, b \in T : a < b

\* The bytes of `main` that still have to be copied: between the copy and
\* main.Clear() they are in `buffer` already (or lost with it).
Uncopied == IF pc = "clear" THEN {} ELSE Elements(main)

\* Bytes reach the framer in the order the UART delivered them and each at most
\* once, whatever the moments at which CallbackOnReceive interrupts
\* InData::Update and even across overflows: consumed bytes, `buffer`, `main`
\* and `addit` hold ever younger bytes, none of them twice.
InOrder ==
    /\ Increasing(buffer) /\ Increasing(main) /\ Increasing(addit)
    /\ Before(consumed, Elements(buffer))
    /\ Before(consumed, Uncopied)
    /\ Before(consumed, Elements(addit))
    /\ Before(Elements(buffer), Uncopied)
    /\ Before(Elements(buffer), Elements(addit))
    /\ Before(Elements(main), Elements(addit))

\* The framer is never handed a byte older than one it has removed before.
FramerNeverGoesBack ==
    [][\A b \in consumed' \ consumed : \A a \in consumed : a < b]_vars

Held == consumed \cup Elements(buffer) \cup Uncopied \cup Elements(addit)

Lost == (1..received) \ Held

Backlog == Len(buffer) + Len(main) + Len(addit)

\* A byte is discarded only by one of the Clear() calls that follow a refused
\* Append: as long as fewer than Capacity bytes wait in the three buffers, no
\* interleaving of the handler with the critical section loses a byte.
LossOnlyOnOverflow == [][Backlog < Capacity => Lost' \subseteq Lost]_vars

\* A byte parked in `addit` waits only until the next byte arrives outside the
\* critical section: whatever is parked includes the youngest byte received.
ParkedIsYoungest == addit # <<>> => addit[Len(addit)] = received

\* Every byte that reaches `main` is handed to the framer's `buffer`, or lost
\* to an overflow: InData::Update never leaves it behind.
MainIsDrained ==
    \A b \in 1..MaxBytes :
        b \in Uncopied ~> b \in Elements(buffer) \cup consumed \cup Lost

-----------------------------------------------------------------------------
(* The abstract specification.                                             *)

\* The bytes on their way to the framer, the oldest first.
InTransit == buffer \o (IF pc = "clear" THEN <<>> ELSE main) \o addit

Channel == INSTANCE ByteChannel
           WITH queue <- InTransit, arrived <- received, delivered <- consumed

\* Interrupt, flag and three buffers together are one queue: each byte the UART
\* delivers joins its end, the framer takes bytes from its front, and only a
\* queue of Capacity bytes or more loses any, a tail when a byte arrives or a
\* head when `main` is moved.  No interleaving splits or reorders the queue.
ImplementsChannel == Channel!Spec

=============================================================================
