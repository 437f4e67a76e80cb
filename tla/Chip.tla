-------------------------------- MODULE Chip --------------------------------
(***************************************************************************)
(* The other end of the UART: the SIM868 chip, the TCP connection it       *)
(* holds and the MQTT broker behind it.  None of this is code of the       *)
(* repository; it is modelled from the commands the firmware sends and the *)
(* answers it compares with.  The chip is slow (every answer may be        *)
(* delayed past any timeout), the network fails at any moment, and the     *)
(* broker follows MQTT 5: it closes the connection on a packet it cannot   *)
(* parse, on a first packet that is not CONNECT and on a second CONNECT.   *)
(***************************************************************************)
EXTENDS Integers, Sequences

CONSTANTS
    MaxRx,          \* bound on the answers waiting in the receive buffers
    MaxOwed         \* bound on the packets the broker has still to send

ASSUME ChipAssumption == MaxRx \in Nat \ {0} /\ MaxOwed \in Nat \ {0}

VARIABLES
    status,         \* GSM_STATUS: the chip runs
    chip,           \* what the chip and the broker remember, see ChipOff
    rx              \* answers received by the UART, not yet read by a pass of
                    \* InData::Update (RxBuffers: main and addit)

chipVars == <<status, chip, rx>>

Requests == {"CONNECT", "SUBSCRIBE", "PUBLISH"}

\* Text lines, as the firmware tells them apart; "" is the call without a line.
DialogAnswers ==
    {"OK", "ERROR", "RDY", "+CREG registered", "+CREG searching", "IP INITIAL",
     "IP START", "IP GPRSACT", "IP address", "IP STATUS", "CONNECT OK",
     "CONNECT FAIL", "ALREADY CONNECT"}
RunningAnswers == {">", "SEND OK", "SEND FAIL", "CLOSED", "+CSQ"}
Answers == {""} \cup DialogAnswers \cup RunningAnswers

\* Payloads of +IPD: MQTT control packets.
Packets == {"CONNACK accepted", "CONNACK refused", "SUBACK", "PUBLISH packet"}

Alive == {"open", "accepted", "subscribed"}

Chips == [link  : Alive \cup {"none", "lost"}, \* the TCP connection; "open": no
                                               \* CONNECT seen by the broker
          first : Requests \cup {"none"},      \* first packet sent over it
          data  : BOOLEAN,                     \* reads UART bytes as payload
          prompt: BOOLEAN,                     \* ">" not sent yet
          dirty : BOOLEAN,                     \* payload starts with AT commands
          owed  : Seq(Packets)]                \* on their way from the broker

ChipOff == [link |-> "none", first |-> "none", data |-> FALSE,
            prompt |-> FALSE, dirty |-> FALSE, owed |-> <<>>]

Owe(c, packet) ==
    [c EXCEPT !.owed = IF Len(@) < MaxOwed THEN Append(@, packet) ELSE @]

-----------------------------------------------------------------------------
(* What the chip makes of the bytes the firmware transmits.                *)

\* An AT command that has no effect here; in data mode it is payload.
HearCommand(c) == [c EXCEPT !.dirty = @ \/ c.data]

\* AT+CIPSEND: the chip will ask for the payload with ">", if there is a
\* connection.
HearCipsend(c) ==
    IF c.data THEN HearCommand(c)
    ELSE IF c.link \in Alive THEN [c EXCEPT !.data = TRUE, !.prompt = TRUE]
    ELSE c

BrokerHears(c, request) ==
    LET protocolError == \/ c.dirty
                         \/ c.link = "open" /\ request # "CONNECT"
                         \/ c.link # "open" /\ request = "CONNECT"
    IN  IF protocolError THEN [c EXCEPT !.link = "lost", !.owed = <<>>]
        ELSE CASE request = "CONNECT"   -> Owe([c EXCEPT !.link = "accepted"], "CONNACK accepted")
               [] request = "SUBSCRIBE" -> Owe([c EXCEPT !.link = "subscribed"], "SUBACK")
               [] OTHER                 -> Owe(c, "PUBLISH packet")

\* The bytes of an MQTT packet and 0x1A.
HearPayload(c, request) ==
    LET heard == IF c.link \in Alive THEN BrokerHears(c, request) ELSE c
    IN  IF ~c.data THEN c
        ELSE [heard EXCEPT !.data = FALSE, !.prompt = FALSE, !.dirty = FALSE,
                           !.first = IF c.link \in Alive /\ @ = "none" THEN request ELSE @]

-----------------------------------------------------------------------------
(* What the chip does on its own.                                          *)

ChipInit == status = FALSE /\ chip = ChipOff /\ rx = <<>>

Say(token) == Len(rx) < MaxRx /\ rx' = Append(rx, token)

\* The chip answers AT+CIPSEND.
ChipPrompts ==
    /\ status /\ chip.prompt
    /\ Say(">")
    /\ chip' = [chip EXCEPT !.prompt = FALSE]
    /\ UNCHANGED status

\* The broker's next packet arrives as +IPD; a CONNECT may be refused instead,
\* after which the broker closes the connection.
BrokerAnswers ==
    /\ status /\ chip.link \in Alive /\ chip.owed # <<>>
    /\ \/ /\ Say(Head(chip.owed))
          /\ chip' = [chip EXCEPT !.owed = Tail(@)]
       \/ /\ Head(chip.owed) = "CONNACK accepted"
          /\ Say("CONNACK refused")
          /\ chip' = [chip EXCEPT !.owed = <<>>, !.link = "lost"]
    /\ UNCHANGED status

\* The connection breaks.
LinkBreaks ==
    /\ status /\ chip.link \in Alive
    /\ chip' = [chip EXCEPT !.link = "lost", !.owed = <<>>]
    /\ UNCHANGED <<status, rx>>

\* The chip tells that the connection is gone.
ChipReportsLoss ==
    /\ status /\ chip.link = "lost"
    /\ \E token \in {"CLOSED", "SEND FAIL"} : Say(token)
    /\ chip' = [chip EXCEPT !.link = "none", !.data = FALSE, !.prompt = FALSE, !.dirty = FALSE]
    /\ UNCHANGED status

\* Lines that carry no news: "SEND OK" after a payload, the answer to AT+CSQ.
ChipChatters ==
    /\ status /\ chip.link \in Alive
    /\ \E token \in {"SEND OK", "+CSQ"} : Say(token)
    /\ UNCHANGED <<status, chip>>

\* The chip hangs or switches itself off; from then on it is silent.
ChipDies ==
    /\ status
    /\ status' = FALSE
    /\ chip' = ChipOff
    /\ UNCHANGED rx

-----------------------------------------------------------------------------
Tokens == (Answers \ {""}) \cup Packets

\* Ranges of the chip's memory and of the received answers.
ChipTypeOK ==
    /\ status \in BOOLEAN
    /\ chip \in Chips /\ Len(chip.owed) <= MaxOwed
    /\ rx \in Seq(Tokens) /\ Len(rx) <= MaxRx

=============================================================================
