-------------------------------- MODULE Framer --------------------------------
(***************************************************************************)
(* The framer: the scanning loop of Modem::InData::Update                  *)
(* (common/Modem/Modem.cpp), PBD (ProcessorBinaryData.cpp) and the parsing *)
(* of MQTT packets (ResponseMQTT.cpp).                                     *)
(*                                                                         *)
(* A pass scans `buffer` from its start, byte by byte.  A carriage return  *)
(* or ">" ends an answer, which goes to SIM868::Update; "+IPD,n:" announces*)
(* n bytes of a binary packet, which go to PBD.  Whatever no answer has    *)
(* ended stays in `buffer` and is scanned again by the next pass: text has *)
(* to be, but the bytes given to PBD are scanned again as well.            *)
(*                                                                         *)
(* The bytes are the real ones.  Those that arrive during a pass wait in   *)
(* the receive buffers (RxBuffers), so here bytes arrive between passes.   *)
(***************************************************************************)
EXTENDS Integers, Sequences, SequencesExt, Parser

CONSTANTS
    Scripts,    \* what the chip may send: sequences of messages
    Half        \* 2^31: the least int is -Half, the largest unsigned long 2 * Half - 1

ASSUME HalfAssumption == Half \in Nat \ {0}

Ints == -Half .. Half - 1

LF == 10
CR == 13
GT == 62            \* ">"
PLUS == 43
MINUS == 45
Blanks == (9 .. 13) \cup {32}
Bytes == 0 .. 255

Calls == {"SIM868::Update", "Modem::Reset", "MQTT OK", "SUBS OK", "FALSE",
          "PUBLISH OK", "unknown"}

(* A message of the chip is its text, which for a binary packet is the     *)
(* header, the payload announced by it, what follows it on the line, the   *)
(* events it should cause in the firmware, and whether it continues a      *)
(* packet that began in an earlier segment of the TCP connection.          *)

Event(call, text) == [call |-> call, text |-> text, stale |-> FALSE]

Line(text) ==
    [text |-> text, payload |-> <<>>, tail |-> <<CR, LF>>, continues |-> FALSE,
     events |-> <<Event("SIM868::Update", text)>>]

Prompt ==
    [text |-> <<GT>>, payload |-> <<>>, tail |-> <<>>, continues |-> FALSE,
     events |-> <<Event("SIM868::Update", <<GT>>)>>]

\* "+IPD,n:" for n < 10.
Header(n) == <<43, 73, 80, 68, 44, 48 + n, 58>>

Binary(payload, causes) ==
    [text |-> Header(Len(payload)), payload |-> payload, tail |-> <<>>,
     continues |-> FALSE, events |-> causes]

Wire(m) == <<CR, LF>> \o m.text \o m.payload \o m.tail

Events == [call : Calls, text : Seq(Bytes), stale : BOOLEAN]

Messages == [text : Seq(Bytes), payload : Seq(Bytes), tail : Seq(Bytes),
             continues : BOOLEAN, events : Seq(Events)]

ASSUME ScriptsAssumption == Scripts \subseteq Seq(Messages)

VARIABLES
    script, sent,       \* messages still to come; bytes of the first already sent
    buffer,             \* InData::buffer
    scanning,           \* InData::Update is inside its do-while loop
    i, answer,          \* its local variables
    binary_bytes_left,  \* static variable of InData::Update
    pbd,                \* PBD::buffer
    events,             \* the calls made as long as the stream was not damaged
    expected,           \* the calls the messages sent so far should cause
    fed,                \* bytes at the head of `buffer` given to PBD in this scan
    stale,              \* bytes at its head given to PBD by an earlier pass
    desync              \* the stream has been damaged, see PassEnds, HeaderFound
                        \* and ChipRestarts

envVars == <<script, sent, expected>>
scanVars == <<buffer, scanning, i, answer, binary_bytes_left, fed, stale>>
vars == <<envVars, scanVars, pbd, events, desync>>

Init ==
    /\ script \in Scripts /\ sent = 0 /\ expected = <<>>
    /\ buffer = <<>> /\ scanning = FALSE /\ i = 0 /\ answer = <<>>
    /\ binary_bytes_left = 0 /\ pbd = <<>> /\ events = <<>>
    /\ fed = 0 /\ stale = 0 /\ desync = FALSE

-----------------------------------------------------------------------------
(* The chip.                                                               *)

\* The next byte arrives and is copied to `buffer` by the next pass.
ByteArrives ==
    /\ ~scanning /\ script # <<>>
    /\ LET m == Head(script)
       IN  /\ buffer' = Append(buffer, Wire(m)[sent + 1])
           /\ expected' = IF desync THEN <<>>
                          ELSE IF sent = 0 THEN expected \o m.events ELSE expected
           /\ IF sent + 1 = Len(Wire(m))
              THEN script' = Tail(script) /\ sent' = 0
              ELSE sent' = sent + 1 /\ UNCHANGED script
    /\ UNCHANGED <<scanning, i, answer, binary_bytes_left, fed, stale, pbd, events, desync>>

\* The chip dies in the middle of a message, is started again and goes on with
\* the next one; the rest of a packet in two segments never comes.  Neither
\* `buffer` nor binary_bytes_left nor PBD::buffer is cleared.  A torn text is
\* ended by the line that follows; of a torn payload or packet the firmware
\* still expects the rest.
ChipRestarts ==
    /\ ~scanning /\ Len(script) > 1 /\ sent > 0
    /\ LET m    == Head(script)
           torn == SubSeq(m.text, 1, Min({sent - 2, Len(m.text)}))
           base == SubSeq(expected, 1, Len(expected) - Len(m.events))
       IN  /\ expected' = IF desync THEN <<>>
                          ELSE IF torn = <<>> THEN base
                          ELSE Append(base, Event("SIM868::Update", torn))
           /\ desync' = ( \/ desync
                          \/ m.payload # <<>> /\ torn = m.text
                          \/ \E k \in DOMAIN script : script[k].continues )
    /\ script' = RemoveFirstMatch(Tail(script), LAMBDA x : x.continues)
    /\ sent' = 0
    /\ UNCHANGED <<scanVars, pbd, events>>

-----------------------------------------------------------------------------
(* PBD::AppendByte, PBD::Process and ResponseMQTT.                         *)

DropFirst(s, n) == SubSeq(s, n + 1, Len(s))

\* Mutant: the byte of the type is not counted.
AllBytesShort(p) == p[2] + 1

\* Create: the packet is complete.  ReadVarByte takes one byte for the length.
AllBytes(p) == p[2] + 2

Complete(p) == Len(p) >= 2 /\ Len(p) >= AllBytes(p)

\* ResponseCONNECT, by which SUBACK is parsed as well: the second byte after
\* the length is the reason code.  In a packet too short to have one the byte
\* read was never written: one of each kind that Run tells apart.
ReasonCodes(p) == IF Len(p) >= 4 THEN {p[4]} ELSE {0, 1, 128}

\* ResponseMQTT::Run: the call it makes, by the high nibble of the type.
Run(p, reason_code) ==
    CASE p[1] \div 16 = 2 -> IF reason_code = 0 THEN "MQTT OK" ELSE "Modem::Reset"
      [] p[1] \div 16 = 9 -> IF reason_code < 128 THEN "SUBS OK" ELSE "FALSE"
      [] p[1] \div 16 = 3 -> "PUBLISH OK"
      [] OTHER            -> "unknown"

\* The observer of the calls.
Record(event) == events' = IF desync THEN <<>> ELSE Append(events, event)

\* Mutant: a packet that is not recognised is not removed.
AppendByteKeepsUnknown(byte) ==
    LET p == Append(pbd, byte)
    IN  \/ /\ ~Complete(p) \/ p[1] \div 16 \notin {2, 3, 9}
           /\ pbd' = p
           /\ UNCHANGED events
        \/ /\ Complete(p) /\ p[1] \div 16 \in {2, 3, 9}
           /\ pbd' = DropFirst(p, AllBytes(p))
           /\ \E reason_code \in ReasonCodes(p) :
                 Record(Event(Run(p, reason_code), p))

\* Process is called after every byte.
AppendByte(byte) ==
    LET p == Append(pbd, byte)
    IN  \/ /\ ~Complete(p)
           /\ pbd' = p
           /\ UNCHANGED events
        \/ /\ Complete(p)
           /\ pbd' = DropFirst(p, AllBytes(p))
           /\ \E reason_code \in ReasonCodes(p) :
                 Record(Event(Run(p, reason_code), p))

-----------------------------------------------------------------------------
(* InData::Update.                                                         *)

\* Mutant: a pass waits for the end of a line.
PassBeginsOnLine ==
    /\ ~scanning /\ buffer # <<>>
    /\ scanning' = (Last(buffer) = LF)
    /\ i' = 0 /\ answer' = <<>> /\ fed' = 0
    /\ UNCHANGED <<envVars, buffer, binary_bytes_left, stale, pbd, events, desync>>

PassBegins ==
    /\ ~scanning /\ buffer # <<>>
    /\ scanning' = TRUE
    /\ i' = 0 /\ answer' = <<>> /\ fed' = 0
    /\ UNCHANGED <<envVars, buffer, binary_bytes_left, stale, pbd, events, desync>>

Symbol == buffer[i + 1]
InLoop == scanning /\ i < Len(buffer)

\* Mutant: binary_bytes_left is not counted down.
FeedBinaryForever ==
    /\ InLoop /\ binary_bytes_left # 0
    /\ AppendByte(Symbol)
    /\ i' = i + 1 /\ fed' = fed + 1
    /\ UNCHANGED <<envVars, buffer, scanning, answer, binary_bytes_left, stale, desync>>

\* The counter is tested for zero only: from below zero it goes down to the least
\* int, and on from the largest.
FeedBinary ==
    /\ InLoop /\ binary_bytes_left # 0
    /\ AppendByte(Symbol)
    /\ binary_bytes_left' =
          IF binary_bytes_left = -Half THEN Half - 1 ELSE binary_bytes_left - 1
    /\ i' = i + 1 /\ fed' = fed + 1
    /\ UNCHANGED <<envVars, buffer, scanning, answer, stale, desync>>

\* Line feeds, and carriage returns before an answer.
SkipSymbol ==
    /\ InLoop /\ binary_bytes_left = 0
    /\ Symbol = LF \/ (Symbol = CR /\ answer = <<>>)
    /\ i' = i + 1
    /\ UNCHANGED <<envVars, buffer, scanning, answer, binary_bytes_left, fed, stale,
                   pbd, events, desync>>

\* The answer begins with bytes that were the payload of a packet.
FromPayload == \E k \in 1 .. i : k <= stale /\ buffer[k] \notin {CR, LF}

\* Mutant: answer.Clear() forgotten.
DeliverKeepsAnswer(text) ==
    /\ Record([Event("SIM868::Update", text) EXCEPT !.stale = FromPayload])
    /\ buffer' = DropFirst(buffer, i + 1)
    /\ stale' = IF stale > i + 1 THEN stale - (i + 1) ELSE 0
    /\ i' = 0 /\ fed' = 0
    /\ UNCHANGED <<envVars, scanning, answer, binary_bytes_left, pbd, desync>>

\* buffer.RemoveFirst(i + 1), SIM868::Update(answer), and the next turn of the
\* do-while loop.
Deliver(text) ==
    /\ Record([Event("SIM868::Update", text) EXCEPT !.stale = FromPayload])
    /\ buffer' = DropFirst(buffer, i + 1)
    /\ stale' = IF stale > i + 1 THEN stale - (i + 1) ELSE 0
    /\ i' = 0 /\ answer' = <<>> /\ fed' = 0
    /\ UNCHANGED <<envVars, scanning, binary_bytes_left, pbd, desync>>

EndLine ==
    /\ InLoop /\ binary_bytes_left = 0
    /\ Symbol = CR /\ answer # <<>>
    /\ Deliver(answer)

EndPrompt ==
    /\ InLoop /\ binary_bytes_left = 0
    /\ Symbol = GT
    /\ Deliver(Append(answer, GT))

\* "+IPD" in front and a colon at the end.
IsHeader(text) ==
    /\ Len(text) > 5
    /\ text[Len(text)] = 58
    /\ SubSeq(text, 1, 4) = <<43, 73, 80, 68>>

\* 2 * Half stands for every number that no unsigned long has.
Capped(n) == IF n < 2 * Half THEN n ELSE 2 * Half

\* The value of the digits up to the first character that is none.
Value(text) ==
    LET end == SelectInSeq(text, LAMBDA c : c \notin 48 .. 57)
        value[n \in 0 .. Len(text)] ==
            IF n = 0 THEN 0 ELSE Capped(10 * value[n - 1] + text[n] - 48)
    IN  value[end - 1]

\* strtoul of what stands between the fifth character and the first colon, at
\* most 31 characters, as many as buf_number holds: blanks, a sign and digits.
\* A value that is too large becomes the largest, whatever the sign.
ULong(text) ==
    LET rest  == DropFirst(text, 5)
        first == SelectInSeq(rest, LAMBDA c : c \notin Blanks)
        n     == Value(DropFirst(rest, IF rest[first] \in {PLUS, MINUS} THEN first ELSE first - 1))
    IN  IF n = 2 * Half THEN 2 * Half - 1
        ELSE IF rest[first] = MINUS /\ n > 0 THEN 2 * Half - n
        ELSE n

\* Mutant: the number is not converted.
AnnouncedUnsigned(text) == ULong(text)

\* The conversion to int: the upper half of the values is negative.
Announced(text) == IF ULong(text) < Half THEN ULong(text) ELSE ULong(text) - 2 * Half

IsLetter == Symbol \notin {LF, CR, GT}

ScanLetter ==
    /\ InLoop /\ binary_bytes_left = 0 /\ IsLetter
    /\ ~IsHeader(Append(answer, Symbol))
    /\ answer' = Append(answer, Symbol)
    /\ i' = i + 1
    /\ UNCHANGED <<envVars, buffer, scanning, binary_bytes_left, fed, stale,
                   pbd, events, desync>>

\* while (buffer[0] < 0x20) buffer.RemoveFirst(1);
WithoutControls == DropFirst(buffer, SelectInSeq(buffer, LAMBDA b : b >= 32) - 1)

\* The header is removed by its length, on the assumption that it stands at the
\* head of `buffer`; otherwise other bytes go in its place.  No chip announces
\* a number below zero.
HeaderFound ==
    LET text == Append(answer, Symbol)
    IN  /\ InLoop /\ binary_bytes_left = 0 /\ IsLetter
        /\ IsHeader(text)
        /\ binary_bytes_left' = Announced(text)
        /\ buffer' = DropFirst(WithoutControls, Len(text))
        /\ desync' = ( \/ desync
                       \/ SubSeq(WithoutControls, 1, Len(text)) # text
                       \/ Announced(text) < 0 )
        /\ i' = 0 /\ answer' = <<>> /\ fed' = 0 /\ stale' = 0
        /\ UNCHANGED <<envVars, scanning, pbd, events>>

\* No further answer: SIM868::Update("").  Payload that has been given to PBD
\* and is still in `buffer` will be scanned again.
PassEnds ==
    /\ scanning /\ i >= Len(buffer)
    /\ scanning' = FALSE
    /\ stale' = IF fed > stale THEN fed ELSE stale
    /\ desync' = (desync \/ (fed > 0 /\ binary_bytes_left # 0))
    /\ i' = 0 /\ answer' = <<>> /\ fed' = 0
    /\ UNCHANGED <<envVars, buffer, binary_bytes_left, pbd, events>>

\* Nothing in `buffer`: SIM868::Update("") and no more.
PassOverNothing == ~scanning /\ buffer = <<>> /\ UNCHANGED vars

InDataUpdate ==
    \/ PassOverNothing
    \/ PassBegins \/ FeedBinary \/ SkipSymbol \/ EndLine \/ EndPrompt
    \/ ScanLetter \/ HeaderFound \/ PassEnds

Next == ByteArrives \/ ChipRestarts \/ InDataUpdate

Spec == Init /\ [][Next]_vars
FairSpec == Spec /\ WF_vars(InDataUpdate)

-----------------------------------------------------------------------------
\* Ranges of the variables.
TypeOK ==
    /\ buffer \in Seq(Bytes) /\ answer \in Seq(Bytes) /\ pbd \in Seq(Bytes)
    /\ scanning \in BOOLEAN /\ desync \in BOOLEAN
    /\ {i, fed, stale, sent} \subseteq Nat /\ binary_bytes_left \in Ints

Genuine(e) == ~e.stale

\* However the UART cuts the stream into passes, and even if the chip dies in
\* the middle of a text, the firmware sees the lines, prompts and packets in
\* the order they were sent, each once, whole, and nothing else but payloads
\* scanned again as text; unless a payload was cut or a header followed a
\* payload within one pass, or the number in a header was no int (desync).
DeliveredInOrder == ~desync => IsPrefix(SelectSeq(events, Genuine), expected)

\* The places of s that hold letters of an answer.
Letters(s, from, to) == {k \in from .. to : s[k] \notin {CR, LF}}

\* What the framer has put together is what stands in `buffer` behind the bytes
\* given to PBD, letter by letter, without the ends of lines.  So RemoveFirst
\* never removes more than there is, which would make the size negative.
AnswerWithinBuffer ==
    scanning =>
        /\ i <= Len(buffer)
        /\ Len(answer) = Cardinality(Letters(buffer, fed + 1, i))
        /\ \A k \in Letters(buffer, fed + 1, i) :
              answer[Cardinality(Letters(buffer, fed + 1, k))] = buffer[k]

\* PBD::buffer never keeps a complete packet, whatever bytes it is fed, so 257
\* bytes of its 1024 are enough: AppendByte ignores a refused Append.
NoPacketKept == ~Complete(pbd)

\* In every answer that reaches SIM868::Update, torn lines and payloads scanned
\* again included, the loop of GetWord finds the words a reader counts.
GetWordFindsWords ==
    events # <<>> /\ Last(events).call = "SIM868::Update" =>
        LET string == CString(Last(events).text)
        IN  \A num \in 1 .. 4 : IsWord(string, num, GetWord(string, num))

\* Once everything is sent, every line, prompt and packet gets through.
EverythingDelivered ==
    script = <<>> ~> (desync \/ SelectSeq(events, Genuine) = expected)

\* The framer does not stay in binary mode while bytes come: after a payload
\* torn by a restart of the chip, and after a header whose number is no int, it
\* returns to lines.
BinaryModeEnds == (binary_bytes_left # 0 /\ buffer # <<>>) ~> binary_bytes_left = 0

-----------------------------------------------------------------------------
(* What the documents say and the code does not do.                        *)

\* doc/План.txt: the data of packets that are not recognised are to be removed
\* from the input buffer.  So no answer given to SIM868::Update consists of the
\* payload of a packet.
PacketDataRemoved == \A k \in DOMAIN events : Genuine(events[k])

\* MQTT 5, 3.9: a SUBACK carries the packet identifier and then, as its payload,
\* the reason code.  A subscription counts as granted only if that code grants.
GrantedIsGranted ==
    \A k \in DOMAIN events :
        events[k].call = "SUBS OK" => Last(events[k].text) < 128

=============================================================================
