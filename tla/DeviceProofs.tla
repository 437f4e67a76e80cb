---------------------------- MODULE DeviceProofs ----------------------------
(***************************************************************************)
(* Facts about Device for every queue length, number of attempts and size  *)
(* of the receive buffers, and for both builds (HOME_VERSION or not).      *)
(***************************************************************************)
EXTENDS Device, TLAPS

\* The null pointer is the only request without a type.
NullRequest == current.type = "none" => current = nullptr

MqttInv ==
    /\ MqttTypeOK /\ RunningHasRequest /\ NullRequest
    /\ mstate \in ModemStates /\ ExhaustedMeansRestart

IInv == TypeOK /\ MqttInv /\ SessionOwned

-----------------------------------------------------------------------------
(* The chip.                                                               *)

ChipOK(c) == c \in Chips /\ Len(c.owed) <= MaxOwed

\* A chip that owes one packet more, if there is room, is still a chip.
LEMMA OweOK ==
  ASSUME NEW c, ChipOK(c), NEW p \in Packets
  PROVE  ChipOK(Owe(c, p))
  <1>1. c.owed \in Seq(Packets) /\ Len(c.owed) <= MaxOwed
    BY DEF ChipOK, Chips
  <1>2. Append(c.owed, p) \in Seq(Packets) /\ Len(Append(c.owed, p)) = Len(c.owed) + 1
    BY <1>1
  <1>3. CASE Len(c.owed) < MaxOwed
    <2>1. Owe(c, p) = [c EXCEPT !.owed = Append(c.owed, p)]
      BY <1>3 DEF Owe
    <2>2. Len(Append(c.owed, p)) <= MaxOwed
      BY <1>1, <1>2, <1>3, ChipAssumption
    <2>3. ASSUME NEW q \in Seq(Packets)
          PROVE  [c EXCEPT !.owed = q] \in Chips /\ [c EXCEPT !.owed = q].owed = q
      BY DEF ChipOK, Chips
    <2> QED BY <1>2, <2>1, <2>2, <2>3 DEF ChipOK
  <1>4. CASE ~(Len(c.owed) < MaxOwed)
    BY <1>4 DEF Owe, ChipOK, Chips
  <1> QED BY <1>3, <1>4

\* Commands leave the chip well-formed.
LEMMA HearCommandOK ==
  ASSUME NEW c, ChipOK(c)
  PROVE  ChipOK(HearCommand(c)) /\ ChipOK(HearCipsend(c))
  <1>1. ChipOK(HearCommand(c))
    BY DEF ChipOK, Chips, HearCommand
  <1>2. ChipOK([c EXCEPT !.data = TRUE, !.prompt = TRUE])
    BY DEF ChipOK, Chips
  <1> QED BY <1>1, <1>2 DEF HearCipsend

\* So does the packet of a request, whatever the broker makes of it.
LEMMA HearPayloadOK ==
  ASSUME NEW c, ChipOK(c), NEW r \in Requests
  PROVE  ChipOK(HearPayload(c, r))
  <1>0. <<>> \in Seq(Packets) /\ Len(<<>>) = 0 /\ 0 <= MaxOwed
    BY ChipAssumption
  <1>1. ChipOK([c EXCEPT !.link = "lost", !.owed = <<>>])
    BY <1>0 DEF ChipOK, Chips
  <1>2. /\ ChipOK(Owe([c EXCEPT !.link = "accepted"], "CONNACK accepted"))
        /\ ChipOK(Owe([c EXCEPT !.link = "subscribed"], "SUBACK"))
        /\ ChipOK(Owe(c, "PUBLISH packet"))
    <2>1. /\ ChipOK([c EXCEPT !.link = "accepted"])
          /\ ChipOK([c EXCEPT !.link = "subscribed"])
      BY DEF ChipOK, Chips, Alive
    <2> QED BY <2>1, OweOK DEF Packets
  <1>3. ChipOK(BrokerHears(c, r))
    BY <1>1, <1>2 DEF BrokerHears, Requests
  <1>4. ASSUME NEW h, ChipOK(h), NEW f \in Requests \cup {"none"}
        PROVE  ChipOK([h EXCEPT !.data = FALSE, !.prompt = FALSE, !.dirty = FALSE, !.first = f])
    BY <1>4 DEF ChipOK, Chips
  <1> DEFINE h == IF c.link \in Alive THEN BrokerHears(c, r) ELSE c
             f == IF c.link \in Alive /\ h.first = "none" THEN r ELSE h.first
  <1>5. ChipOK(h) /\ f \in Requests \cup {"none"}
    BY <1>3 DEF ChipOK, Chips
  <1>6. HearPayload(c, r) = IF ~c.data THEN c
                            ELSE [h EXCEPT !.data = FALSE, !.prompt = FALSE,
                                           !.dirty = FALSE, !.first = f]
    BY DEF HearPayload
  <1>7. ChipOK([h EXCEPT !.data = FALSE, !.prompt = FALSE, !.dirty = FALSE, !.first = f])
    <2> HIDE DEF h, f
    <2> QED BY <1>4, <1>5
  <1> QED BY <1>6, <1>7

\* The initial memory of the chip.
LEMMA ChipOffOK == ChipOK(ChipOff)
  <1>0. <<>> \in Seq(Packets) /\ Len(<<>>) = 0 /\ 0 <= MaxOwed
    BY ChipAssumption
  <1> QED BY <1>0 DEF ChipOK, Chips, ChipOff

-----------------------------------------------------------------------------
(* The MQTT client.                                                        *)

\* Taking the oldest request out of a queue.
LEMMA TakeOK ==
  ASSUME NEW q \in Seq(Requests), q # <<>>
  PROVE  Head(q) \in Requests /\ Tail(q) \in Seq(Requests) /\ Len(Tail(q)) = Len(q) - 1
  OBVIOUS

\* A fresh request is well-formed and has attempts left.
LEMMA NewRequestOK ==
  ASSUME NEW type \in Requests
  PROVE  LET r == NewRequest(type) IN
         /\ r \in [type : Requests \cup {"none"}, state : RequestStates, counter : Int]
         /\ r.counter <= Attempts /\ r.counter > 0
         /\ r.type # "none" /\ r.state = "IDLE"
  BY MqttAssumption DEF NewRequest, RequestStates, Requests

\* What MQTT::Update may do: it keeps the client well-formed, may only reset the
\* modem, believes in a connection only after a request that waited for its
\* confirmation, and lets a request wait for it only after ">".
MqttStep(answer) ==
    /\ MqttInv'
    /\ mstate' \in {mstate, "IDLE"}
    /\ is_connected' => is_connected \/ current.state = "WAIT_CONFIRM"
    /\ current'.state = "WAIT_CONFIRM" => current.state = "WAIT_CONFIRM" \/ answer = ">"

\* A timeout keeps the request well-formed, and resets the modem with the last
\* attempt.
LEMMA DumpStep ==
  ASSUME MqttInv, mqtt = "RUNNING", Dump, NEW answer
  PROVE  MqttStep(answer)
  <1>1. /\ current \in [type : Requests \cup {"none"}, state : RequestStates, counter : Int]
        /\ current.type # "none" /\ current.counter <= Attempts /\ Attempts \in Int
    BY MqttAssumption DEF MqttInv, MqttTypeOK, RunningHasRequest
  <1>2. /\ UNCHANGED <<is_connected, mqtt, queue, reqLate, nested>>
        /\ mstate' \in {mstate, "IDLE"} /\ mstate' \in ModemStates
    BY SMTT(30) DEF Dump, ModemReset, MqttInv, ModemStates
  <1>3. \E left \in Int, s \in {"IDLE", current.state} :
            /\ left = current.counter - 1
            /\ current' = [current EXCEPT !.counter = left, !.state = s]
            /\ left > 0 \/ mstate' = "IDLE"
    <2> DEFINE left == current.counter - 1
    <2>1. left \in Int
      BY <1>1
    <2>2. CASE left > 0 /\ current' = [current EXCEPT !.counter = left, !.state = "IDLE"]
      BY <2>1, <2>2
    <2>3. CASE mstate' = "IDLE" /\ current' = [current EXCEPT !.counter = left]
      <3>1. [current EXCEPT !.counter = left]
              = [current EXCEPT !.counter = left, !.state = current.state]
        BY <1>1
      <3> QED BY <2>1, <2>3, <3>1
    <2> QED BY <2>2, <2>3 DEF Dump, ModemReset
  <1>4. PICK left \in Int, s \in {"IDLE", current.state} :
            /\ left = current.counter - 1
            /\ current' = [current EXCEPT !.counter = left, !.state = s]
            /\ left > 0 \/ mstate' = "IDLE"
    BY <1>3
  <1>5. /\ current' \in [type : Requests \cup {"none"}, state : RequestStates, counter : Int]
        /\ current'.type # "none" /\ current'.counter = left
        /\ current'.state \in {"IDLE", current.state}
    BY <1>1, <1>4 DEF RequestStates
  <1>6. left <= Attempts
    BY <1>1, <1>4
  <1>7. MqttInv'
    BY <1>2, <1>4, <1>5, <1>6 DEF MqttInv, MqttTypeOK, RunningHasRequest, NullRequest,
                                  ExhaustedMeansRestart
  <1> QED BY <1>2, <1>5, <1>7 DEF MqttStep

\* A call of RequestMQTT::Update.
LEMMA RequestStep ==
  ASSUME MqttInv, mqtt = "RUNNING", NEW answer, RequestUpdate(answer)
  PROVE  MqttStep(answer)
  <1>1. /\ current \in [type : Requests \cup {"none"}, state : RequestStates, counter : Int]
        /\ current.type # "none" /\ current.counter <= Attempts
    BY DEF MqttInv, MqttTypeOK, RunningHasRequest
  <1>2. CASE RequestStart
    BY <1>1, <1>2 DEF RequestStart, MqttStep, MqttInv, MqttTypeOK, RunningHasRequest,
                      NullRequest, ExhaustedMeansRestart, RequestStates
  <1>3. CASE RequestNeedSend(answer)
    <2>1. CASE Dump
      BY <2>1, DumpStep
    <2>2. CASE /\ answer = ">" /\ reqLate' = FALSE
               /\ current' = [current EXCEPT !.state = "WAIT_CONFIRM"]
               /\ UNCHANGED <<is_connected, mqtt, queue, nested, mstate>>
      BY <1>1, <2>2 DEF MqttStep, MqttInv, MqttTypeOK, RunningHasRequest,
                        NullRequest, ExhaustedMeansRestart, RequestStates
    <2>3. CASE UNCHANGED <<mqttVars, mstate>>
      BY <2>3 DEF mqttVars, MqttStep, MqttInv, MqttTypeOK, RunningHasRequest,
                  NullRequest, ExhaustedMeansRestart
    <2> QED BY <1>3, <2>1, <2>2, <2>3 DEF RequestNeedSend
  <1>4. CASE RequestWaitConfirm(answer)
    <2>1. CASE Dump
      BY <2>1, DumpStep
    <2>2. CASE RequestFinish
      <3>1. /\ queue' \in Seq(Requests) /\ Len(queue') <= MaxRequests
            /\ is_connected' \in BOOLEAN /\ nested' \in BOOLEAN
        <4>1. queue \in Seq(Requests) /\ Len(queue) <= MaxRequests
          BY DEF MqttInv, MqttTypeOK
        <4>2. CASE OnConnect
          <5>1. CASE ~Full /\ queue' = Append(queue, "SUBSCRIBE") /\ nested' = nested
            BY <4>1, <4>2, <5>1, MqttAssumption
               DEF Full, OnConnect, Requests, MqttInv, MqttTypeOK
          <5>2. CASE queue' = queue /\ nested' = TRUE
            BY <4>1, <4>2, <5>2 DEF OnConnect
          <5> QED BY <4>2, <5>1, <5>2 DEF OnConnect, Enqueue
        <4>3. CASE UNCHANGED <<is_connected, queue, nested>>
          BY <4>3 DEF MqttInv, MqttTypeOK
        <4> QED BY <2>2, <4>2, <4>3 DEF RequestFinish
      <3>2. /\ current' = nullptr /\ mqtt' = "IDLE" /\ UNCHANGED <<reqLate, mstate>>
        BY <2>2 DEF RequestFinish
      <3>3. 0 <= Attempts
        BY MqttAssumption
      <3> QED BY <1>4, <3>1, <3>2, <3>3
              DEF MqttStep, MqttInv, MqttTypeOK, RunningHasRequest, NullRequest,
                  ExhaustedMeansRestart, nullptr, RequestStates, RequestWaitConfirm
    <2>3. CASE UNCHANGED <<mqttVars, mstate>>
      BY <2>3 DEF mqttVars, MqttStep, MqttInv, MqttTypeOK, RunningHasRequest,
                  NullRequest, ExhaustedMeansRestart
    <2> QED BY <1>4, <2>1, <2>2, <2>3 DEF RequestWaitConfirm
  <1> QED BY <1>2, <1>3, <1>4 DEF RequestUpdate

\* A call of MQTT::Update.
LEMMA UpdateStep ==
  ASSUME MqttInv, NEW answer, MqttUpdate(answer)
  PROVE  MqttStep(answer)
  <1> USE DEF MqttInv, MqttTypeOK
  <1>1. queue \in Seq(Requests) /\ Len(queue) <= MaxRequests /\ MaxRequests \in Nat
    BY MqttAssumption
  <1>2. ASSUME NEW q \in Seq(Requests), q # <<>>, Len(q) <= MaxRequests + 1,
               current' = NewRequest(Head(q)), queue' = Tail(q),
               mqtt' \in {mqtt, "RUNNING"},
               UNCHANGED <<is_connected, reqLate, mstate>>, nested' \in BOOLEAN
        PROVE  MqttStep(answer)
    <2>1. Head(q) \in Requests /\ Tail(q) \in Seq(Requests) /\ Len(Tail(q)) <= MaxRequests
      BY <1>1, <1>2, TakeOK
    <2>2. /\ current' \in [type : Requests \cup {"none"}, state : RequestStates, counter : Int]
          /\ current'.counter <= Attempts /\ current'.counter > 0
          /\ current'.type # "none" /\ current'.state = "IDLE"
      BY <1>2, <2>1, NewRequestOK
    <2> QED BY <1>2, <2>1, <2>2
            DEF MqttStep, RunningHasRequest, NullRequest, ExhaustedMeansRestart
  <1>3. CASE MqttConnect
    <2>1. CASE nested' = TRUE /\ UNCHANGED <<queue, current>>
      BY <1>3, <2>1 DEF MqttConnect, MqttStep, RunningHasRequest, NullRequest,
                        ExhaustedMeansRestart
    <2>2. CASE /\ ~Full /\ UNCHANGED nested
               /\ current' = NewRequest(Head(Append(queue, "CONNECT")))
               /\ queue' = Tail(Append(queue, "CONNECT"))
      <3>1. /\ Append(queue, "CONNECT") \in Seq(Requests)
            /\ Append(queue, "CONNECT") # <<>>
            /\ Len(Append(queue, "CONNECT")) <= MaxRequests + 1
        BY <1>1 DEF Requests
      <3> QED BY <1>2, <1>3, <2>2, <3>1 DEF MqttConnect
    <2> QED BY <1>3, <2>1, <2>2 DEF MqttConnect
  <1>4. CASE MqttTake
    <2>1. CASE UNCHANGED <<mqtt, current, queue>>
      BY <1>4, <2>1 DEF MqttTake, MqttStep, RunningHasRequest, NullRequest,
                        ExhaustedMeansRestart
    <2>2. CASE /\ queue # <<>> /\ current' = NewRequest(Head(queue))
               /\ queue' = Tail(queue) /\ mqtt' = "RUNNING"
      BY <1>1, <1>2, <1>4, <2>2 DEF MqttTake
    <2>3. CASE current # nullptr /\ mqtt' = "RUNNING" /\ UNCHANGED <<current, queue>>
      BY <1>4, <2>3 DEF MqttTake, MqttStep, RunningHasRequest, NullRequest,
                        ExhaustedMeansRestart
    <2> QED BY <1>4, <2>1, <2>2, <2>3 DEF MqttTake
  <1>5. CASE mqtt = "RUNNING" /\ RequestUpdate(answer)
    BY <1>5, RequestStep
  <1> QED BY <1>3, <1>4, <1>5 DEF MqttUpdate

\* What the client transmits leaves the chip well-formed.
LEMMA TransmitsOK ==
  ASSUME MqttInv, ChipOK(chip), NEW answer
  PROVE  ChipOK(MqttTransmits(answer))
  <1>1. ChipOK(HearCipsend(chip))
    BY HearCommandOK
  <1>2. CASE mqtt = "RUNNING"
    <2>1. current.type \in Requests
      BY <1>2 DEF MqttInv, MqttTypeOK, RunningHasRequest
    <2>2. ChipOK(HearPayload(chip, current.type))
      BY <2>1, HearPayloadOK
    <2> QED BY <1>1, <2>2 DEF MqttTransmits
  <1>3. CASE mqtt # "RUNNING"
    BY <1>3 DEF MqttTransmits
  <1> QED BY <1>2, <1>3

-----------------------------------------------------------------------------
(* The dialog and the responses.                                           *)

\* What a delivered answer may do, besides consuming it.
Delivered == MqttInv' /\ SimTypeOK' /\ SessionOwned' /\ ChipOK(chip')

\* A packet that reaches the client in any state of the dialog: it confirms a
\* request only where one waits, and none does outside RUNNING_MQTT.
LEMMA ResponseStep ==
  ASSUME MqttInv, SimTypeOK, SessionOwned, ChipOK(chip), NEW packet \in Packets,
         ResponseRun(packet), UNCHANGED simVars
  PROVE  Delivered
  <1>1. CASE ModemReset /\ UNCHANGED <<mqttVars, chip>>
    BY <1>1 DEF ModemReset, mqttVars, simVars, Delivered, MqttInv, MqttTypeOK, SimTypeOK,
                SessionOwned, RunningHasRequest, NullRequest, ExhaustedMeansRestart, ModemStates
  <1>2. CASE /\ packet # "CONNACK refused"
             /\ MqttUpdate(PacketAnswer(packet))
             /\ chip' = MqttTransmits(PacketAnswer(packet))
    <2>1. PacketAnswer(packet) # ">"
      BY <1>2 DEF PacketAnswer, Packets
    <2>2. MqttStep(PacketAnswer(packet))
      BY <1>2, UpdateStep
    <2>3. ChipOK(chip')
      BY <1>2, TransmitsOK
    <2> QED BY <2>1, <2>2, <2>3 DEF MqttStep, Delivered, simVars, SimTypeOK, SessionOwned
  <1> QED BY <1>1, <1>2 DEF ResponseRun

\* A call of SIM868::Update.
LEMMA SimStep ==
  ASSUME MqttInv, SimTypeOK, SessionOwned, ChipOK(chip), NEW answer, SimUpdate(answer)
  PROVE  Delivered
  <1>1. ASSUME UNCHANGED mqttVars, mstate' \in {mstate, "IDLE"}
        PROVE  MqttInv'
    BY <1>1 DEF mqttVars, MqttInv, MqttTypeOK, RunningHasRequest, NullRequest,
                ExhaustedMeansRestart, ModemStates
  <1>2. CASE Unsolicited(answer)
    BY <1>1, <1>2 DEF Unsolicited, ModemReset, simVars, mqttVars, Delivered, SimTypeOK, SessionOwned
  <1>3. CASE SimStart
    <2>1. ChipOK(chip')
      BY <1>3, HearCommandOK DEF SimStart
    <2> QED BY <1>1, <1>3, <2>1
            DEF SimStart, mqttVars, Delivered, SimTypeOK, SessionOwned, States, DialogStates
  <1>4. CASE SimDialog(answer)
    <2>1. UNCHANGED mqttVars /\ mstate' \in {mstate, "IDLE"}
      BY <1>4 DEF SimDialog, ModemReset
    <2>2. sim \in DialogStates
      BY <1>4 DEF SimDialog
    <2>3. Following(sim) \in States
      BY <2>2 DEF Following, States, DialogStates
    <2>4. SimTypeOK'
      BY <1>4, <2>3 DEF SimDialog, SimTypeOK, simVars
    <2>5. SessionOwned'
      BY <2>1, <2>2 DEF SessionOwned, mqttVars, DialogStates
    <2>6. ChipOK(chip')
      BY <1>4, HearCommandOK DEF SimDialog, Commanded
    <2> QED BY <1>1, <2>1, <2>4, <2>5, <2>6 DEF Delivered
  <1>5. CASE SimRunning(answer)
    <2>1. MqttStep(answer)
      BY <1>5, UpdateStep DEF SimRunning
    <2>2. ChipOK(MqttTransmits(answer)) /\ ChipOK(HearCommand(MqttTransmits(answer)))
      BY TransmitsOK, HearCommandOK
    <2>3. ChipOK(chip') /\ UNCHANGED simVars /\ sim = "RUNNING_MQTT"
      BY <1>5, <2>2 DEF SimRunning
    <2> QED BY <2>1, <2>3 DEF MqttStep, Delivered, SimTypeOK, SessionOwned, simVars
  <1> QED BY <1>2, <1>3, <1>4, <1>5 DEF SimUpdate

-----------------------------------------------------------------------------
(* The whole device.                                                       *)

\* A step that leaves the received answers and the pass alone.
KeepsBuffers == UNCHANGED <<rx, passVars>>

\* Steps of the power-up sequence.  The restart clears the client and the dialog
\* together, so that neither outlives the other.
LEMMA PowerStepOK ==
  ASSUME IInv, PowerStep
  PROVE  /\ Delivered /\ status' \in BOOLEAN
         /\ pwr' \in BOOLEAN /\ pwrkey' \in {0, 1} /\ modemLate' \in BOOLEAN
         /\ KeepsBuffers
  <1> USE DEF IInv, TypeOK, MqttInv, MqttTypeOK, ModemTypeOK, SimTypeOK, ModemStates
  <1>1. KeepsBuffers
    BY DEF PowerStep, KeepsBuffers
  <1>2. CASE PowerIdle
    <2>1. /\ sim' = "START" /\ simLate' = simLate
          /\ is_connected' = FALSE /\ mqtt' = "IDLE" /\ queue' = <<>> /\ current' = nullptr
          /\ mstate' = "WAIT_DISCHARGE_CAPS" /\ status' = FALSE
          /\ pwr' = FALSE /\ modemLate' = FALSE /\ pwrkey' = pwrkey
          /\ reqLate' = reqLate /\ nested' = nested
      BY <1>2 DEF PowerIdle, SimReset, MqttReset
    <2>2. queue' \in Seq(Requests) /\ Len(queue') <= MaxRequests /\ 0 <= Attempts
      BY <2>1, MqttAssumption
    <2>3. ChipOK(chip')
      BY <1>2, ChipOffOK DEF PowerIdle
    <2>4. /\ current' \in [type : Requests \cup {"none"}, state : RequestStates, counter : Int]
          /\ current'.counter <= Attempts
          /\ current'.type = "none" /\ current'.state = "IDLE"
      BY <2>1, <2>2 DEF nullptr, RequestStates
    <2>5. MqttTypeOK'
      BY <2>1, <2>2, <2>4
    <2>6. MqttInv'
      BY <2>1, <2>4, <2>5 DEF RunningHasRequest, NullRequest, ExhaustedMeansRestart, nullptr
    <2>7. SimTypeOK' /\ SessionOwned'
      BY <2>1, <2>4 DEF SessionOwned, States
    <2> QED BY <1>1, <2>1, <2>3, <2>6, <2>7 DEF Delivered
  <1>3. CASE WaitDischargeCaps \/ WaitHiGsmPg \/ Wait500Ms \/ Wait1250Ms \/ Wait5000Ms
    <2>1. /\ UNCHANGED <<simVars, mqttVars, status, chip>>
          /\ mstate # "IDLE" /\ mstate' \in ModemStates
      BY <1>3 DEF WaitDischargeCaps, WaitHiGsmPg, Wait500Ms, Wait1250Ms, Wait5000Ms
    <2>2. pwr' \in BOOLEAN /\ pwrkey' \in {0, 1} /\ modemLate' \in BOOLEAN
      BY <1>3 DEF WaitDischargeCaps, WaitHiGsmPg, Wait500Ms, Wait1250Ms, Wait5000Ms
    <2> QED BY <1>1, <2>1, <2>2
            DEF Delivered, SessionOwned, RunningHasRequest, NullRequest, simVars, mqttVars,
                ExhaustedMeansRestart, ChipOK, ChipTypeOK
  <1> QED BY <1>2, <1>3 DEF PowerStep

\* Steps of the chip and the network.
LEMMA ChipStepOK ==
  ASSUME IInv, ChipStep
  PROVE  ChipTypeOK'
  <1>0. /\ status \in BOOLEAN /\ chip \in Chips /\ Len(chip.owed) <= MaxOwed
        /\ rx \in Seq(Tokens) /\ Len(rx) <= MaxRx
        /\ <<>> \in Seq(Packets) /\ Len(<<>>) = 0 /\ 0 <= MaxOwed
    BY ChipAssumption DEF IInv, TypeOK, ChipTypeOK
  <1>1. ASSUME NEW token \in Tokens, Say(token)
        PROVE  rx' \in Seq(Tokens) /\ Len(rx') <= MaxRx
    BY <1>0, <1>1, ChipAssumption DEF Say
  <1>2. Packets \subseteq Tokens
    BY DEF Tokens
  <1>3. ASSUME NEW token \in Answers \ {""}, Say(token)
        PROVE  rx' \in Seq(Tokens) /\ Len(rx') <= MaxRx
    BY <1>1, <1>3 DEF Tokens
  <1>4. CASE ChipPrompts
    <2>1. rx' \in Seq(Tokens) /\ Len(rx') <= MaxRx
      BY <1>3, <1>4 DEF ChipPrompts, Answers, RunningAnswers
    <2>2. chip' \in Chips /\ chip'.owed = chip.owed
      BY <1>0, <1>4 DEF ChipPrompts, Chips
    <2> QED BY <1>0, <1>4, <2>1, <2>2 DEF ChipPrompts, ChipTypeOK
  <1>5. CASE BrokerAnswers
    <2>1. Head(chip.owed) \in Packets /\ Tail(chip.owed) \in Seq(Packets)
          /\ Len(Tail(chip.owed)) <= MaxOwed
      <3>1. chip.owed \in Seq(Packets) /\ chip.owed # <<>>
        BY <1>0, <1>5 DEF BrokerAnswers, Chips
      <3> QED BY <1>0, <3>1, ChipAssumption
    <2>2. rx' \in Seq(Tokens) /\ Len(rx') <= MaxRx
      BY <1>1, <1>2, <1>5, <2>1 DEF BrokerAnswers, Packets
    <2>3. CASE chip' = [chip EXCEPT !.owed = Tail(@)]
      <3>1. chip' \in Chips /\ chip'.owed = Tail(chip.owed)
        BY <1>0, <2>1, <2>3 DEF Chips
      <3> QED BY <1>0, <1>5, <2>1, <2>2, <3>1 DEF BrokerAnswers, ChipTypeOK
    <2>4. CASE chip' = [chip EXCEPT !.owed = <<>>, !.link = "lost"]
      <3>1. chip' \in Chips /\ chip'.owed = <<>>
        BY <1>0, <2>4 DEF Chips
      <3> QED BY <1>0, <1>5, <2>2, <3>1 DEF BrokerAnswers, ChipTypeOK
    <2> QED BY <1>5, <2>3, <2>4 DEF BrokerAnswers
  <1>6. CASE LinkBreaks
    <2>1. chip' \in Chips /\ chip'.owed = <<>>
      BY <1>0, <1>6 DEF LinkBreaks, Chips
    <2> QED BY <1>0, <1>6, <2>1 DEF LinkBreaks, ChipTypeOK
  <1>7. CASE ChipReportsLoss
    <2>1. rx' \in Seq(Tokens) /\ Len(rx') <= MaxRx
      BY <1>3, <1>7 DEF ChipReportsLoss, Answers, RunningAnswers
    <2>2. chip' \in Chips /\ chip'.owed = chip.owed
      BY <1>0, <1>7 DEF ChipReportsLoss, Chips
    <2> QED BY <1>0, <1>7, <2>1, <2>2 DEF ChipReportsLoss, ChipTypeOK
  <1>8. CASE ChipChatters
    <2>1. rx' \in Seq(Tokens) /\ Len(rx') <= MaxRx
      BY <1>3, <1>8 DEF ChipChatters, Answers, RunningAnswers
    <2> QED BY <1>0, <1>8, <2>1 DEF ChipChatters, ChipTypeOK
  <1>9. CASE ChipDies
    BY <1>0, <1>9, ChipOffOK DEF ChipDies, ChipTypeOK, ChipOK
  <1>10. CASE ChipAnswers
    <2>1. Says(sim) \subseteq Answers \ {""}
      BY <1>10 DEF ChipAnswers, Says, Accepts, DialogStates, Answers, DialogAnswers
    <2>2. rx' \in Seq(Tokens) /\ Len(rx') <= MaxRx
      BY <1>3, <1>10, <2>1 DEF ChipAnswers, Answers, DialogAnswers
    <2>3. chip' \in Chips /\ chip'.owed = chip.owed
      BY <1>0, <1>10 DEF ChipAnswers, Chips, Alive
    <2> QED BY <1>0, <1>10, <2>2, <2>3 DEF ChipAnswers, ChipTypeOK
  <1>11. CASE ChipStarts
    BY <1>0, <1>11 DEF ChipStarts, ChipTypeOK
  <1> QED BY <1>4, <1>5, <1>6, <1>7, <1>8, <1>9, <1>10, <1>11 DEF ChipStep

\* A pass over the received answers, genuine, garbled and misread.
LEMMA PassStepOK ==
  ASSUME IInv, PassBegins \/ PassDelivers \/ PassMisreads \/ PassEnds
  PROVE  /\ Delivered
         /\ pass' \in BOOLEAN /\ buf' \in Seq(Tokens)
         /\ misread' \in 0 .. MaxMisread /\ astray' \in BOOLEAN
         /\ rx' \in Seq(Tokens) /\ Len(rx') <= MaxRx
         /\ UNCHANGED <<status, powerVars>>
  <1>0. /\ MqttInv /\ SimTypeOK /\ SessionOwned /\ ChipOK(chip)
        /\ rx \in Seq(Tokens) /\ Len(rx) <= MaxRx /\ buf \in Seq(Tokens) /\ pass \in BOOLEAN
        /\ misread \in 0 .. MaxMisread /\ astray \in BOOLEAN
    BY DEF IInv, TypeOK, ChipTypeOK, ChipOK, ModemTypeOK
  <1>1. ASSUME UNCHANGED <<simVars, mqttVars, mstate, chip>>
        PROVE  Delivered
    BY <1>0, <1>1 DEF simVars, mqttVars, Delivered, MqttInv, MqttTypeOK, SimTypeOK,
                      SessionOwned, RunningHasRequest, NullRequest, ExhaustedMeansRestart
  <1>2. CASE PassBegins
    <2>1. Delivered
      BY <1>1, <1>2 DEF PassBegins
    <2>2. rx' = <<>> /\ <<>> \in Seq(Tokens) /\ Len(<<>>) <= MaxRx
      BY <1>2, ChipAssumption DEF PassBegins
    <2>3. astray' \in BOOLEAN /\ misread' = misread
      <3>1. astray' = (astray \/ (sim = "START" /\ Len(rx) > FarthestStep)) /\ misread' = misread
        BY <1>2 DEF PassBegins
      <3> QED BY <3>1
    <2> QED BY <1>0, <1>2, <2>1, <2>2, <2>3 DEF PassBegins
  <1>5. ASSUME NEW token, Deliver(token) PROVE Delivered
    <2>1. CASE token \in Answers /\ SimUpdate(token)
      BY <1>0, <2>1, SimStep
    <2>2. CASE token \in Packets /\ ResponseRun(token) /\ UNCHANGED simVars
      BY <1>0, <2>2, ResponseStep
    <2> QED BY <1>5, <2>1, <2>2 DEF Deliver
  <1>3. CASE PassDelivers
    <2>1. Delivered
      <3>1. CASE SimUpdate("")
        BY <1>0, <3>1, SimStep
      <3>2. CASE UNCHANGED <<simVars, mqttVars, mstate, chip>>
        BY <1>1, <3>2
      <3> QED BY <1>3, <1>5, <3>1, <3>2 DEF PassDelivers
    <2>2. Tail(buf) \in Seq(Tokens)
      <3>1. buf # <<>> /\ buf \in Seq(Tokens)
        BY <1>0, <1>3 DEF PassDelivers
      <3> QED BY <3>1
    <2> QED BY <1>0, <1>3, <2>1, <2>2 DEF PassDelivers
  <1>6. CASE PassMisreads
    <2>1. Delivered
      BY <1>5, <1>6 DEF PassMisreads
    <2>2. misread' \in 0 .. MaxMisread /\ astray' = TRUE
      BY <1>0, <1>6, ModemAssumption DEF PassMisreads
    <2> QED BY <1>0, <1>6, <2>1, <2>2 DEF PassMisreads
  <1>4. CASE PassEnds
    <2>1. Delivered
      BY <1>0, <1>4, SimStep DEF PassEnds
    <2> QED BY <1>0, <1>4, <2>1 DEF PassEnds
  <1> QED BY <1>2, <1>3, <1>4, <1>6

\* IInv holds at the start and is kept by every step of the processor, of the
\* chip and of the clock.
LEMMA InitIInv == Init => IInv
  <1> SUFFICES ASSUME Init PROVE IInv
    OBVIOUS
  <1>1. ChipTypeOK
    <2>1. <<>> \in Seq(Tokens) /\ Len(<<>>) = 0 /\ 0 <= MaxRx
      BY ChipAssumption
    <2> QED BY <2>1, ChipOffOK DEF Init, ChipInit, ChipTypeOK, ChipOK
  <1>2. MqttTypeOK
    <2>1. <<>> \in Seq(Requests) /\ Len(<<>>) = 0 /\ 0 <= MaxRequests /\ 0 <= Attempts
      BY MqttAssumption
    <2>2. nullptr \in [type : Requests \cup {"none"}, state : RequestStates, counter : Int]
          /\ nullptr.counter <= Attempts
      BY <2>1 DEF nullptr, RequestStates
    <2>3. is_connected \in BOOLEAN /\ reqLate \in BOOLEAN /\ nested \in BOOLEAN
      BY Zenon DEF Init, MqttInit
    <2>4. mqtt = "IDLE" /\ queue = <<>> /\ current = nullptr
      BY DEF Init, MqttInit
    <2> QED BY <2>1, <2>2, <2>3, <2>4 DEF MqttTypeOK
  <1>3. SimTypeOK /\ ModemTypeOK /\ caller = "device"
    <2>1. /\ simLate \in BOOLEAN /\ pwr \in BOOLEAN
          /\ modemLate \in BOOLEAN /\ pass \in BOOLEAN
      BY Zenon DEF Init, SimInit, ModemInit
    <2>2. buf \in Seq(Tokens)
      <3>1. <<>> \in Seq(Tokens)
        OBVIOUS
      <3> QED BY <3>1 DEF Init, ModemInit
    <2>3. sim = "START" /\ mstate = "IDLE" /\ pwrkey = 0 /\ caller = "device"
      BY DEF Init, SimInit, ModemInit
    <2>4. misread \in 0 .. MaxMisread /\ astray \in BOOLEAN
      <3>1. misread = 0 /\ 0 \in 0 .. MaxMisread
        BY ModemAssumption DEF Init, ModemInit
      <3>2. astray \in BOOLEAN
        BY Zenon DEF Init, ModemInit
      <3> QED BY <3>1, <3>2
    <2> QED BY <2>1, <2>2, <2>3, <2>4 DEF SimTypeOK, States, ModemTypeOK, ModemStates
  <1>4. MqttInv /\ SessionOwned
    BY <1>2, <1>3 DEF Init, MqttInit, MqttInv, ModemTypeOK, RunningHasRequest, NullRequest,
                      ExhaustedMeansRestart, SessionOwned, nullptr
  <1> QED BY <1>1, <1>2, <1>3, <1>4 DEF IInv, TypeOK

\* See InitIInv.
LEMMA NextIInv == IInv /\ [Next]_vars => IInv'
  <1> SUFFICES ASSUME IInv, [Next]_vars PROVE IInv'
    OBVIOUS
  <1>0. /\ TypeOK /\ MqttInv /\ SessionOwned /\ ChipTypeOK /\ MqttTypeOK /\ SimTypeOK
        /\ ModemTypeOK /\ caller \in {"device", "append", "update"}
    BY DEF IInv, TypeOK
  <1>1. ASSUME Delivered, status' \in BOOLEAN, rx' \in Seq(Tokens), Len(rx') <= MaxRx,
               pwr' \in BOOLEAN, pwrkey' \in {0, 1}, modemLate' \in BOOLEAN,
               pass' \in BOOLEAN, buf' \in Seq(Tokens),
               misread' \in 0 .. MaxMisread, astray' \in BOOLEAN,
               caller' \in {"device", "append", "update"}
        PROVE  IInv'
    BY <1>1 DEF Delivered, MqttInv, ChipOK, IInv, TypeOK, ChipTypeOK, ModemTypeOK
  <1>2. ASSUME UNCHANGED <<mqttVars, mstate, simVars>>
        PROVE  MqttInv' /\ SessionOwned' /\ MqttTypeOK' /\ SimTypeOK'
    BY <1>0, <1>2 DEF mqttVars, simVars, MqttInv, MqttTypeOK, SimTypeOK, SessionOwned,
                      RunningHasRequest, NullRequest, ExhaustedMeansRestart
  <1>3. ASSUME UNCHANGED <<powerVars, mstate, passVars>>
        PROVE  ModemTypeOK'
    BY <1>0, <1>3 DEF powerVars, passVars, ModemTypeOK
  <1>4. ASSUME UNCHANGED chipVars
        PROVE  ChipTypeOK'
    BY <1>0, <1>4 DEF chipVars, ChipTypeOK
  <1>5. CASE GetTime
    <2>1. caller' \in {"device", "append", "update"}
      BY <1>5 DEF GetTime
    <2> QED BY <1>2, <1>3, <1>4, <1>5, <2>1 DEF GetTime, chipVars, IInv, TypeOK
  <1>6. CASE AppendHeld
    <2>1. queue' \in Seq(Requests) /\ Len(queue') <= MaxRequests
      BY <1>0, <1>6, MqttAssumption DEF AppendHeld, Full, MqttTypeOK, Requests
    <2>2. MqttInv' /\ SessionOwned' /\ SimTypeOK'
      BY <1>0, <1>6, <2>1 DEF AppendHeld, simVars, MqttInv, MqttTypeOK, SimTypeOK, SessionOwned,
                              RunningHasRequest, NullRequest, ExhaustedMeansRestart
    <2>3. ChipTypeOK' /\ ModemTypeOK' /\ caller' = "update"
      BY <1>3, <1>4, <1>6 DEF AppendHeld, chipVars
    <2> QED BY <2>2, <2>3 DEF IInv, TypeOK, MqttInv
  <1>7. CASE ModemUpdate
    <2>1. caller' \in {"device", "append", "update"}
      BY <1>0, <1>7 DEF ModemUpdate, Return
    <2>2. CASE PowerStep
      BY <1>0, <1>1, <2>1, <2>2, PowerStepOK
         DEF KeepsBuffers, passVars, ChipTypeOK, ModemTypeOK
    <2>3. CASE PassBegins \/ PassDelivers \/ PassMisreads \/ PassEnds
      <3>1. /\ status' \in BOOLEAN /\ pwr' \in BOOLEAN
            /\ pwrkey' \in {0, 1} /\ modemLate' \in BOOLEAN
        BY <1>0, <2>3, PassStepOK DEF powerVars, ChipTypeOK, ModemTypeOK
      <3> QED BY <1>1, <2>1, <2>3, <3>1, PassStepOK
    <2> QED BY <1>7, <2>2, <2>3 DEF ModemUpdate
  <1>8. CASE ChipStep
    <2>1. ChipTypeOK'
      BY <1>8, ChipStepOK
    <2> QED BY <1>0, <1>2, <1>3, <1>8, <2>1 DEF ChipStep, IInv, TypeOK
  <1>9. CASE ClockStep
    <2>1. CASE /\ RequestMeterRunsOut
               /\ UNCHANGED <<chipVars, simVars, powerVars, passVars, caller>>
      <3>1. MqttInv' /\ SessionOwned' /\ SimTypeOK'
        BY <1>0, <2>1 DEF RequestMeterRunsOut, simVars, MqttInv, MqttTypeOK, SimTypeOK,
                          SessionOwned, RunningHasRequest, NullRequest, ExhaustedMeansRestart
      <3>2. ChipTypeOK' /\ ModemTypeOK'
        BY <1>3, <1>4, <2>1 DEF RequestMeterRunsOut
      <3> QED BY <1>0, <2>1, <3>1, <3>2 DEF IInv, TypeOK, MqttInv
    <2>2. CASE /\ StateMeterRunsOut
               /\ UNCHANGED <<chipVars, mqttVars, mstate, powerVars, passVars, caller>>
      <3>1. MqttInv' /\ SessionOwned' /\ SimTypeOK'
        BY <1>0, <2>2 DEF StateMeterRunsOut, mqttVars, MqttInv, MqttTypeOK, SimTypeOK,
                          SessionOwned, RunningHasRequest, NullRequest, ExhaustedMeansRestart
      <3>2. ChipTypeOK' /\ ModemTypeOK'
        BY <1>3, <1>4, <2>2
      <3> QED BY <1>0, <2>2, <3>1, <3>2 DEF IInv, TypeOK, MqttInv
    <2>3. CASE /\ ModemMeterRunsOut
               /\ UNCHANGED <<chipVars, mqttVars, mstate, simVars, passVars, caller>>
      <3>1. ModemTypeOK'
        BY <1>0, <2>3 DEF ModemMeterRunsOut, passVars, ModemTypeOK
      <3> QED BY <1>0, <1>2, <1>4, <2>3, <3>1 DEF IInv, TypeOK
    <2> QED BY <1>9, <2>1, <2>2, <2>3 DEF ClockStep
  <1>10. CASE UNCHANGED vars
    <2>1. UNCHANGED <<mqttVars, mstate, simVars>> /\ UNCHANGED <<powerVars, mstate, passVars>>
          /\ UNCHANGED chipVars /\ UNCHANGED caller
      BY <1>10 DEF vars, mqttVars, simVars, powerVars, passVars, chipVars
    <2> QED BY <1>0, <1>2, <1>3, <1>4, <2>1 DEF IInv, TypeOK
  <1> QED BY <1>5, <1>6, <1>7, <1>8, <1>9, <1>10 DEF Next, DeviceUpdate

\* The inductive invariant of the device.
THEOREM IInvHolds == Spec => []IInv
  BY InitIInv, NextIInv, PTL DEF Spec

-----------------------------------------------------------------------------
(* Theorems.                                                               *)

\* No variable leaves its range, for every number of requests, attempts and
\* answers: Queue::requests is never written past its end.
THEOREM TypeCorrect == Spec => []TypeOK
  <1>1. IInv => TypeOK
    BY DEF IInv
  <1> QED BY <1>1, IInvHolds, PTL

\* MQTT::Update in state RUNNING never dereferences a null Queue::current.
THEOREM NoNullRequest == Spec => []RunningHasRequest
  <1>1. IInv => RunningHasRequest
    BY DEF IInv, MqttInv
  <1> QED BY <1>1, IInvHolds, PTL

\* Packets left over from an earlier session never make the client believe in a
\* connection before the dialog has opened a new one.
THEOREM SessionIsOwned == Spec => []SessionOwned
  <1>1. IInv => SessionOwned
    BY DEF IInv
  <1> QED BY <1>1, IInvHolds, PTL

\* A request that has used up its attempts is not started again: the restart of
\* the modem is due.
THEOREM ExhaustedRestarts == Spec => []ExhaustedMeansRestart
  <1>1. IInv => ExhaustedMeansRestart
    BY DEF IInv, MqttInv
  <1> QED BY <1>1, IInvHolds, PTL
-----------------------------------------------------------------------------
(* The start of the dialog.                                                *)

\* The states before AT+CIPSTART has been answered.
BeforeConnection ==
    {"START", "WAIT_ATE0", "WAIT_BAUDRADE", "WAIT_GSMBUSY", "WAIT_CREG_INIT",
     "WAIT_REGISTRATION", "WAIT_IP_INITIAL", "WAIT_CSTT", "WAIT_IP_START",
     "WAIT_CIICR", "WAIT_IP_GPRSACT", "WAIT_CIFSR", "WAIT_IP_STATUS"}

NoSession(c) == c.link = "none" /\ c.data = FALSE

\* DialogStartsClean speaks of the first states only, but a stale packet may run
\* the MQTT client, which transmits, in every state of the dialog: the chip has
\* no session until the dialog asks for one.
CleanBefore == sim \in BeforeConnection => NoSession(chip)

\* A chip without a session does not get one from what the firmware transmits.
LEMMA DeafWithoutSession ==
  ASSUME NEW c \in Chips, NoSession(c), NEW r
  PROVE  NoSession(HearCommand(c)) /\ NoSession(HearCipsend(c)) /\ NoSession(HearPayload(c, r))
  <1>1. NoSession(HearCommand(c))
    BY DEF NoSession, Chips, HearCommand
  <1>2. HearCipsend(c) = c
    BY DEF NoSession, HearCipsend, Alive
  <1>3. HearPayload(c, r) = c
    BY DEF NoSession, HearPayload
  <1> QED BY <1>1, <1>2, <1>3

\* No answer and no packet brings the dialog back from a later state, and none
\* opens a session early.
LEMMA NextCleanBefore == IInv /\ CleanBefore /\ [Next]_vars => CleanBefore'
  <1> SUFFICES ASSUME IInv, CleanBefore, [Next]_vars, sim' \in BeforeConnection
               PROVE  NoSession(chip')
    BY DEF CleanBefore
  <1>0. chip \in Chips
    BY DEF IInv, TypeOK, ChipTypeOK
  <1>1. ASSUME UNCHANGED <<sim, chip>> PROVE NoSession(chip')
    BY <1>1 DEF CleanBefore
  <1>2. ASSUME sim \in BeforeConnection, NEW answer
        PROVE  NoSession(MqttTransmits(answer))
    BY <1>0, <1>2, DeafWithoutSession DEF CleanBefore, MqttTransmits
  <1>3. ASSUME NEW answer, SimUpdate(answer) PROVE NoSession(chip')
    <2>1. CASE Unsolicited(answer)
      BY <1>1, <2>1 DEF Unsolicited, simVars
    <2>2. CASE SimStart
      <3>1. NoSession(chip) /\ chip' = HearCommand(chip)
        BY <2>2 DEF SimStart, CleanBefore, BeforeConnection
      <3> QED BY <1>0, <3>1, DeafWithoutSession
    <2>3. CASE SimDialog(answer)
      <3>1. CASE UNCHANGED <<simVars, chip>>
        BY <1>1, <3>1 DEF simVars
      <3>2. CASE sim \in DialogStates /\ sim' = Following(sim) /\ chip' = Commanded(sim)
        <4>1. sim \in BeforeConnection
          BY <3>2 DEF Following, DialogStates, BeforeConnection
        <4>2. NoSession(chip)
          BY <4>1 DEF CleanBefore
        <4> QED BY <1>0, <3>2, <4>2, DeafWithoutSession DEF Commanded
      <3> QED BY <2>3, <3>1, <3>2 DEF SimDialog
    <2>4. CASE SimRunning(answer)
      BY <2>4 DEF SimRunning, simVars, BeforeConnection
    <2> QED BY <1>3, <2>1, <2>2, <2>3, <2>4 DEF SimUpdate
  <1>4. CASE GetTime \/ AppendHeld \/ PassBegins
    BY <1>1, <1>4 DEF GetTime, AppendHeld, PassBegins, simVars
  <1>5. CASE PowerStep
    <2>1. CASE PowerIdle
      BY <2>1 DEF PowerIdle, ChipOff, NoSession
    <2>2. CASE UNCHANGED <<simVars, chip>>
      BY <1>1, <2>2 DEF simVars
    <2> QED BY <1>5, <2>1, <2>2 DEF PowerStep, WaitDischargeCaps, WaitHiGsmPg, Wait500Ms,
                                    Wait1250Ms, Wait5000Ms
  <1>6. CASE PassDelivers \/ PassMisreads
    <2>1. CASE UNCHANGED <<simVars, mqttVars, mstate, chip>>
      BY <1>1, <2>1 DEF simVars
    <2>2. ASSUME NEW token, Deliver(token) PROVE NoSession(chip')
      <3>1. CASE ResponseRun(token) /\ UNCHANGED simVars
        <4>1. sim \in BeforeConnection
          BY <3>1 DEF simVars
        <4>2. chip' = chip \/ chip' = MqttTransmits(PacketAnswer(token))
          BY <3>1 DEF ResponseRun
        <4> QED BY <1>2, <4>1, <4>2 DEF CleanBefore
      <3> QED BY <1>3, <2>2, <3>1 DEF Deliver
    <2> QED BY <1>3, <1>6, <2>1, <2>2 DEF PassDelivers, PassMisreads
  <1>7. CASE PassEnds
    BY <1>3, <1>7 DEF PassEnds
  <1>8. CASE ChipStep
    <2>1. NoSession(chip) /\ sim \in BeforeConnection
      BY <1>8 DEF ChipStep, simVars, CleanBefore
    <2>2. CASE ChipPrompts
      BY <1>0, <2>1, <2>2 DEF ChipPrompts, NoSession, Chips
    <2>3. CASE ChipDies
      BY <2>3 DEF ChipDies, ChipOff, NoSession
    <2>4. CASE ChipAnswers \/ ChipStarts \/ ChipChatters
      BY <2>1, <2>4 DEF ChipAnswers, ChipStarts, ChipChatters, BeforeConnection
    <2>5. CASE BrokerAnswers \/ LinkBreaks \/ ChipReportsLoss
      BY <2>1, <2>5 DEF BrokerAnswers, LinkBreaks, ChipReportsLoss, NoSession, Alive
    <2> QED BY <1>8, <2>2, <2>3, <2>4, <2>5 DEF ChipStep
  <1>9. CASE ClockStep
    BY <1>1, <1>9 DEF ClockStep, StateMeterRunsOut, chipVars, simVars
  <1>10. CASE UNCHANGED vars
    BY <1>1, <1>10 DEF vars
  <1> QED BY <1>4, <1>5, <1>6, <1>7, <1>8, <1>9, <1>10 DEF Next, DeviceUpdate, ModemUpdate

\* A dialog that starts, first or again, meets a chip that remembers no session:
\* the power cut of the restart is never overtaken by an answer, a stale packet
\* or a timeout, for every size of the buffers and the queue.
THEOREM DialogIsClean == Spec => []DialogStartsClean
  <1>1. Init => CleanBefore
    BY DEF Init, ChipInit, ChipOff, CleanBefore, NoSession
  <1>2. CleanBefore => DialogStartsClean
    BY DEF CleanBefore, DialogStartsClean, BeforeConnection, NoSession
  <1> QED BY <1>1, <1>2, NextCleanBefore, IInvHolds, PTL DEF Spec
-----------------------------------------------------------------------------
(* The session.                                                            *)
(*                                                                         *)
(* The framer passes packets to MQTT::Update in every state of the dialog, *)
(* so the receive buffers may carry the packets of one session into the    *)
(* pass that starts the next.  Such a packet does harm only if it finds a  *)
(* request waiting for its confirmation, and the answers in front of it    *)
(* would have to take the dialog and the client there.  Each of them takes *)
(* one step at most: it needs FarthestStep of them in front of it.         *)

Holds(s, x) == \E i \in 1..Len(s) : s[i] = x

\* A sequence of received answers with a packet among them.
Carries(s) == \E i \in 1..Len(s) : s[i] \in Packets

\* How far the dialog is from SIM868::Reset, in answers.
DialogRank(state) ==
    CASE state = "START"             -> 0
      [] state = "WAIT_ATE0"         -> 1
      [] state = "WAIT_BAUDRADE"     -> 2
      [] state = "WAIT_GSMBUSY"      -> 3
      [] state = "WAIT_CREG_INIT"    -> 4
      [] state = "WAIT_REGISTRATION" -> 5
      [] state = "WAIT_IP_INITIAL"   -> 6
      [] state = "WAIT_CSTT"         -> 7
      [] state = "WAIT_IP_START"     -> 8
      [] state = "WAIT_CIICR"        -> 9
      [] state = "WAIT_IP_GPRSACT"   -> 10
      [] state = "WAIT_CIFSR"        -> 11
      [] state = "WAIT_IP_STATUS"    -> 12
      [] state = "WAIT_TCP_CONNECT"  -> 13
      [] state = "WAIT_CIPHEAD"      -> 14
      [] state = "WAIT_CGNSPWR"      -> 15
      [] state = "WAIT_CGNSURC"      -> 16
      [] state = "RUNNING_MQTT"      -> IF HomeVersion THEN 15 ELSE 17

\* How far the client that is not connected is from MQTT::Reset, in calls of
\* MQTT::Update.
ClientRank ==
    CASE current.type = "none"            -> 0
      [] current.type # "none" /\ mqtt = "IDLE" -> 1
      [] current.type # "none" /\ mqtt # "IDLE" ->
            CASE current.state = "IDLE"      -> 2
              [] current.state = "NEED_SEND" -> 3
              [] OTHER                       -> 4

Progress == DialogRank(sim) + ClientRank

\* What the chip remembers of its connection is coherent: the broker serves no
\* client whose first packet was not CONNECT.
LinkOK(c) ==
    /\ c.link = "open" => c.first = "none"
    /\ c.link \in {"accepted", "subscribed"} => c.first = "CONNECT"
    /\ c.owed # <<>> => c.link \in {"accepted", "subscribed"}
    /\ Holds(c.owed, "SUBACK") => c.link = "subscribed"

Off(c) == c.link = "none" /\ c.data = FALSE /\ c.first = "none"

LinkInv == LinkOK(chip) /\ (~status => Off(chip))

\* Whose connection it is.
OwnerInv ==
    /\ chip.first # "none" => sim = "RUNNING_MQTT"
    /\ chip.first = "CONNECT" => is_connected \/ current.type = "CONNECT"
    /\ is_connected => ~status \/ chip.first = "CONNECT"

\* Until the client is connected there is room in the queue, and never more than
\* one CONNECT.
QueueInv ==
    /\ nested = FALSE
    /\ mqtt = "IDLE" => current.state = "IDLE"
    /\ ~is_connected => /\ Len(queue) <= 1
                        /\ caller = "append" => queue = <<>>
                        /\ current.type \in {"none", "CONNECT"} => ~Holds(queue, "CONNECT")
    /\ is_connected => ~Holds(queue, "CONNECT") /\ current.type # "CONNECT"

Pending == current.type = "SUBSCRIBE" \/ Holds(queue, "SUBSCRIBE")

PendingInv == is_connected /\ chip.link \in Alive => chip.link = "subscribed" \/ Pending

\* A pass runs only over a chip that is powered, and leaves START behind.
PassInv ==
    /\ ~pass => buf = <<>>
    /\ mstate \notin {"IDLE", "HARDWARE_IS_OK"} => ~pass /\ sim = "START"
    /\ ~pass /\ sim = "START" => current = nullptr /\ mqtt = "IDLE"

\* The packets the client may receive are answers to its own session.
Served ==
    /\ sim = "RUNNING_MQTT"
    /\ is_connected \/ current.type = "CONNECT"
    /\ status => chip.first = "CONNECT"

Genuine(s) == Served /\ (Holds(s, "SUBACK") => chip.link # "accepted")

\* A packet in the receive buffers is genuine, or waits for the restart to begin
\* its pass, or is in a pass that is too short to do harm.
TransitInv ==
    /\ Carries(rx) => Genuine(rx) \/ (~pass /\ sim = "START")
    /\ Carries(buf) => Genuine(buf) \/ (~is_connected /\ Progress + Len(buf) <= FarthestStep)

SessionInv ==
    LinkInv /\ OwnerInv /\ QueueInv /\ PendingInv /\ PassInv /\ TransitInv

-----------------------------------------------------------------------------
(* Sequences of answers, packets and requests.                             *)

\* The empty sequence holds nothing.
LEMMA HoldsNothing == (\A x : ~Holds(<<>>, x)) /\ ~Carries(<<>>)
  BY DEF Holds, Carries

\* One element more.
LEMMA HoldsMore ==
  ASSUME NEW S, NEW s \in Seq(S), NEW x \in S
  PROVE  /\ \A y : Holds(Append(s, x), y) <=> Holds(s, y) \/ x = y
         /\ Carries(Append(s, x)) <=> Carries(s) \/ x \in Packets
         /\ Append(s, x) # <<>>
  <1>1. /\ Len(Append(s, x)) = Len(s) + 1 /\ Len(s) \in Nat
        /\ \A i \in 1..Len(s) : Append(s, x)[i] = s[i]
        /\ Append(s, x)[Len(s) + 1] = x
    OBVIOUS
  <1>2. 1..(Len(s) + 1) = 1..Len(s) \cup {Len(s) + 1}
    BY <1>1
  <1>3. ASSUME NEW y PROVE Holds(Append(s, x), y) <=> Holds(s, y) \/ x = y
    BY <1>1, <1>2 DEF Holds
  <1>4. Carries(Append(s, x)) <=> Carries(s) \/ x \in Packets
    BY <1>1, <1>2 DEF Carries
  <1> QED BY <1>1, <1>3, <1>4

\* One element less.
LEMMA HoldsLess ==
  ASSUME NEW S, NEW s \in Seq(S), s # <<>>
  PROVE  /\ \A y : Holds(s, y) <=> Holds(Tail(s), y) \/ Head(s) = y
         /\ Carries(Tail(s)) => Carries(s)
         /\ Head(s) \in Packets => Carries(s)
         /\ Len(Tail(s)) = Len(s) - 1 /\ Len(s) \in Nat \ {0}
  <1>1. /\ Len(Tail(s)) = Len(s) - 1 /\ Len(s) \in Nat \ {0} /\ Head(s) = s[1]
        /\ \A i \in 1..Len(Tail(s)) : Tail(s)[i] = s[i + 1]
    OBVIOUS
  <1>2. \A i \in 1..Len(Tail(s)) : i + 1 \in 1..Len(s)
    BY <1>1
  <1>3. \A i \in 1..Len(s) : i # 1 => i - 1 \in 1..Len(Tail(s)) /\ Tail(s)[i - 1] = s[i]
    BY <1>1
  <1>4. 1 \in 1..Len(s)
    BY <1>1
  <1>5. ASSUME NEW y PROVE Holds(s, y) <=> Holds(Tail(s), y) \/ Head(s) = y
    <2>1. Holds(Tail(s), y) \/ Head(s) = y => Holds(s, y)
      BY <1>1, <1>2, <1>4 DEF Holds
    <2>2. ASSUME NEW i \in 1..Len(s), s[i] = y PROVE Holds(Tail(s), y) \/ Head(s) = y
      BY <1>1, <1>3, <2>2 DEF Holds
    <2> QED BY <2>1, <2>2 DEF Holds
  <1>6. Carries(Tail(s)) => Carries(s)
    BY <1>1, <1>2 DEF Carries
  <1>7. Head(s) \in Packets => Carries(s)
    BY <1>1, <1>4 DEF Carries
  <1> QED BY <1>1, <1>5, <1>6, <1>7

-----------------------------------------------------------------------------
(* What the firmware transmits, in a session.                              *)

\* A transmission never brings a connection back, never changes its first packet
\* and never undoes a subscription.
Heard(c, d) ==
    /\ d \in Chips /\ LinkOK(d)
    /\ c.first # "none" => d.first = c.first
    /\ d.link \in Alive => c.link \in Alive
    /\ d.link = "accepted" => c.link \in {"open", "accepted"}
    /\ d.link = "open" => c.link = "open"
    /\ Off(c) => Off(d)

\* AT commands and AT+CIPSEND leave the connection alone.
LEMMA CommandHeard ==
  ASSUME NEW c \in Chips, LinkOK(c)
  PROVE  /\ Heard(c, HearCommand(c)) /\ HearCommand(c).first = c.first
         /\ Heard(c, HearCipsend(c)) /\ HearCipsend(c).first = c.first
  <1>1. ASSUME NEW d \in Chips, d.link = c.link, d.first = c.first, d.owed = c.owed,
               Off(c) => d.data = c.data
        PROVE  Heard(c, d)
    BY <1>1 DEF Heard, LinkOK, Off
  <1>2. /\ HearCommand(c) \in Chips /\ HearCommand(c).link = c.link
        /\ HearCommand(c).first = c.first /\ HearCommand(c).owed = c.owed
        /\ HearCommand(c).data = c.data
    BY DEF HearCommand, Chips
  <1>3. Heard(c, HearCommand(c))
    BY <1>1, <1>2
  <1>4. CASE HearCipsend(c) = HearCommand(c)
    BY <1>2, <1>3, <1>4
  <1>5. CASE c.link \in Alive /\ HearCipsend(c) = [c EXCEPT !.data = TRUE, !.prompt = TRUE]
    <2> DEFINE d == [c EXCEPT !.data = TRUE, !.prompt = TRUE]
    <2>1. d \in Chips /\ d.link = c.link /\ d.first = c.first /\ d.owed = c.owed
      BY DEF Chips
    <2>2. ~Off(c)
      BY <1>5 DEF Off, Alive
    <2> QED BY <1>1, <1>2, <1>3, <1>5, <2>1, <2>2
  <1>6. CASE HearCipsend(c) = c
    BY <1>1, <1>2, <1>3, <1>6
  <1> QED BY <1>4, <1>5, <1>6 DEF HearCipsend

\* The broker answers a packet, or closes the connection.
LEMMA BrokerHeard ==
  ASSUME NEW c \in Chips, LinkOK(c), c.link \in Alive, NEW r \in Requests
  PROVE  LET h == BrokerHears(c, r) IN
         /\ h \in Chips /\ h.first = c.first
         /\ \/ h.link = "lost" /\ h.owed = <<>>
            \/ h.link = "accepted" /\ c.link = "open" /\ r = "CONNECT"
                /\ ~Holds(h.owed, "SUBACK")
            \/ h.link = "subscribed" /\ c.link \in {"accepted", "subscribed"}
            \/ h.link = "accepted" /\ c.link = "accepted" /\ ~Holds(h.owed, "SUBACK")
  <1>0. c.owed \in Seq(Packets) /\ <<>> \in Seq(Packets)
    BY DEF Chips
  <1>1. ASSUME NEW d \in Chips, NEW p \in Packets
        PROVE  /\ Owe(d, p) \in Chips /\ Owe(d, p).first = d.first /\ Owe(d, p).link = d.link
               /\ Holds(Owe(d, p).owed, "SUBACK") => Holds(d.owed, "SUBACK") \/ p = "SUBACK"
    <2>1. d.owed \in Seq(Packets) /\ Append(d.owed, p) \in Seq(Packets)
      BY DEF Chips
    <2>2. Holds(Append(d.owed, p), "SUBACK") => Holds(d.owed, "SUBACK") \/ p = "SUBACK"
      BY <2>1, HoldsMore
    <2>3. ASSUME NEW q \in Seq(Packets)
          PROVE  LET e == [d EXCEPT !.owed = q] IN
                 e \in Chips /\ e.first = d.first /\ e.link = d.link /\ e.owed = q
      BY DEF Chips
    <2>4. CASE Len(d.owed) < MaxOwed
      <3>1. Owe(d, p) = [d EXCEPT !.owed = Append(d.owed, p)]
        BY <2>4 DEF Owe
      <3> QED BY <2>1, <2>2, <2>3, <3>1
    <2>5. CASE ~(Len(d.owed) < MaxOwed)
      <3>1. Owe(d, p) = [d EXCEPT !.owed = d.owed]
        BY <2>5 DEF Owe
      <3> QED BY <2>1, <2>3, <3>1
    <2> QED BY <2>4, <2>5
  <1>2. ASSUME NEW l \in {"accepted", "subscribed", "lost"}
        PROVE  LET d == [c EXCEPT !.link = l] IN
               d \in Chips /\ d.first = c.first /\ d.link = l /\ d.owed = c.owed
    BY DEF Chips, Alive
  <1>3. LET d == [c EXCEPT !.link = "lost", !.owed = <<>>] IN
        d \in Chips /\ d.first = c.first /\ d.link = "lost" /\ d.owed = <<>>
    BY <1>0 DEF Chips
  <1>4. c.link \in {"open", "accepted"} => ~Holds(c.owed, "SUBACK")
    BY DEF LinkOK
  <1>5. /\ "CONNACK accepted" \in Packets /\ "SUBACK" \in Packets /\ "PUBLISH packet" \in Packets
        /\ "CONNACK accepted" # "SUBACK" /\ "PUBLISH packet" # "SUBACK"
    BY DEF Packets
  <1>6. \/ BrokerHears(c, r) = [c EXCEPT !.link = "lost", !.owed = <<>>]
        \/ /\ r = "CONNECT" /\ c.link = "open"
           /\ BrokerHears(c, r) = Owe([c EXCEPT !.link = "accepted"], "CONNACK accepted")
        \/ /\ r = "SUBSCRIBE" /\ c.link # "open"
           /\ BrokerHears(c, r) = Owe([c EXCEPT !.link = "subscribed"], "SUBACK")
        \/ /\ r = "PUBLISH" /\ c.link # "open"
           /\ BrokerHears(c, r) = Owe(c, "PUBLISH packet")
    BY DEF BrokerHears, Requests
  <1>7. c.link \in {"open", "accepted", "subscribed"}
    BY DEF Alive
  <1>8. CASE BrokerHears(c, r) = [c EXCEPT !.link = "lost", !.owed = <<>>]
    BY <1>3, <1>8
  <1>9. CASE /\ r = "CONNECT" /\ c.link = "open"
             /\ BrokerHears(c, r) = Owe([c EXCEPT !.link = "accepted"], "CONNACK accepted")
    <2> DEFINE d == [c EXCEPT !.link = "accepted"]
               h == Owe(d, "CONNACK accepted")
    <2>1. d \in Chips /\ d.first = c.first /\ d.link = "accepted" /\ d.owed = c.owed
      BY <1>2
    <2>2. /\ h \in Chips /\ h.first = d.first /\ h.link = d.link
          /\ Holds(h.owed, "SUBACK") => Holds(d.owed, "SUBACK") \/ "CONNACK accepted" = "SUBACK"
      <3> HIDE DEF d
      <3> QED BY <1>1, <1>5, <2>1
    <2>3. BrokerHears(c, r) = h
      BY <1>9
    <2> HIDE DEF d, h
    <2> QED BY <1>4, <1>5, <1>7, <1>9, <2>1, <2>2, <2>3
  <1>10. CASE /\ r = "SUBSCRIBE" /\ c.link # "open"
             /\ BrokerHears(c, r) = Owe([c EXCEPT !.link = "subscribed"], "SUBACK")
    <2> DEFINE d == [c EXCEPT !.link = "subscribed"]
               h == Owe(d, "SUBACK")
    <2>1. d \in Chips /\ d.first = c.first /\ d.link = "subscribed" /\ d.owed = c.owed
      BY <1>2
    <2>2. /\ h \in Chips /\ h.first = d.first /\ h.link = d.link
          /\ Holds(h.owed, "SUBACK") => Holds(d.owed, "SUBACK") \/ "SUBACK" = "SUBACK"
      <3> HIDE DEF d
      <3> QED BY <1>1, <1>5, <2>1
    <2>3. BrokerHears(c, r) = h
      BY <1>10
    <2> HIDE DEF d, h
    <2> QED BY <1>4, <1>5, <1>7, <1>10, <2>1, <2>2, <2>3
  <1>11. CASE /\ r = "PUBLISH" /\ c.link # "open"
             /\ BrokerHears(c, r) = Owe(c, "PUBLISH packet")
    <2> DEFINE d == c
               h == Owe(d, "PUBLISH packet")
    <2>1. d \in Chips /\ d.first = c.first /\ d.link = c.link /\ d.owed = c.owed
      OBVIOUS
    <2>2. /\ h \in Chips /\ h.first = d.first /\ h.link = d.link
          /\ Holds(h.owed, "SUBACK") => Holds(d.owed, "SUBACK") \/ "PUBLISH packet" = "SUBACK"
      <3> HIDE DEF d
      <3> QED BY <1>1, <1>5, <2>1
    <2>3. BrokerHears(c, r) = h
      BY <1>11
    <2> HIDE DEF d, h
    <2> QED BY <1>4, <1>5, <1>7, <1>11, <2>1, <2>2, <2>3
  <1> QED BY <1>6, <1>8, <1>9, <1>10, <1>11

\* The packet of a request, whatever the broker makes of it.
LEMMA PayloadHeard ==
  ASSUME NEW c \in Chips, LinkOK(c), NEW r \in Requests
  PROVE  /\ Heard(c, HearPayload(c, r))
         /\ HearPayload(c, r).first # c.first => HearPayload(c, r).first = r
  <1>1. ASSUME NEW h \in Chips, NEW f \in Requests \cup {"none"}
        PROVE  LET d == [h EXCEPT !.data = FALSE, !.prompt = FALSE, !.dirty = FALSE, !.first = f]
               IN  /\ d \in Chips /\ d.link = h.link /\ d.owed = h.owed
                   /\ d.first = f /\ d.data = FALSE
    BY DEF Chips
  <1>2. CASE ~c.data
    <2>1. HearPayload(c, r) = c
      BY <1>2 DEF HearPayload
    <2> QED BY <2>1 DEF Heard
  <1>3. CASE c.data /\ c.link \notin Alive
    <2> DEFINE d == [c EXCEPT !.data = FALSE, !.prompt = FALSE, !.dirty = FALSE, !.first = c.first]
    <2>1. HearPayload(c, r) = d
      BY <1>3 DEF HearPayload
    <2>2. /\ d \in Chips /\ d.link = c.link /\ d.owed = c.owed
          /\ d.first = c.first /\ d.data = FALSE
      BY <1>1 DEF Chips
    <2> HIDE DEF d
    <2> QED BY <2>1, <2>2 DEF Heard, LinkOK, Off
  <1>4. CASE c.data /\ c.link \in Alive
    <2> DEFINE h == BrokerHears(c, r)
               f == IF h.first = "none" THEN r ELSE h.first
               d == [h EXCEPT !.data = FALSE, !.prompt = FALSE, !.dirty = FALSE, !.first = f]
    <2>1. HearPayload(c, r) = d
      BY <1>4 DEF HearPayload
    <2>2. /\ h \in Chips /\ h.first = c.first
          /\ \/ h.link = "lost" /\ h.owed = <<>>
             \/ h.link = "accepted" /\ c.link = "open" /\ r = "CONNECT"
                 /\ ~Holds(h.owed, "SUBACK")
             \/ h.link = "subscribed" /\ c.link \in {"accepted", "subscribed"}
             \/ h.link = "accepted" /\ c.link = "accepted" /\ ~Holds(h.owed, "SUBACK")
      BY <1>4, BrokerHeard
    <2>3. c.first \in Requests \cup {"none"} /\ f \in Requests \cup {"none"}
      <3>1. c.first \in Requests \cup {"none"}
        BY DEF Chips
      <3> HIDE DEF h
      <3> QED BY <2>2, <3>1
    <2>4. /\ d \in Chips /\ d.link = h.link /\ d.owed = h.owed
          /\ d.first = f /\ d.data = FALSE
      <3> HIDE DEF h, f
      <3> QED BY <1>1, <2>2, <2>3
    <2>5. f = IF c.first = "none" THEN r ELSE c.first
      BY <2>2
    <2> HIDE DEF h, f, d
    <2>6. LinkOK(d)
      BY <2>2, <2>4, <2>5, HoldsNothing DEF LinkOK
    <2>7. ~Off(c) /\ c.link \in {"open", "accepted", "subscribed"}
      BY <1>4 DEF Off, Alive
    <2> QED BY <2>1, <2>2, <2>4, <2>5, <2>6, <2>7 DEF Heard, Alive
  <1> QED BY <1>2, <1>3, <1>4

\* What a call of MQTT::Update transmits.
LEMMA TransmitsHeard ==
  ASSUME MqttInv, chip \in Chips, LinkOK(chip), NEW answer
  PROVE  /\ Heard(chip, MqttTransmits(answer))
         /\ MqttTransmits(answer).first # chip.first =>
                answer = ">" /\ MqttTransmits(answer).first = current.type
  <1>1. CASE mqtt = "RUNNING" /\ current.state = "IDLE"
    <2>1. MqttTransmits(answer) = HearCipsend(chip)
      BY <1>1 DEF MqttTransmits
    <2> QED BY <2>1, CommandHeard
  <1>2. CASE mqtt = "RUNNING" /\ current.state = "NEED_SEND" /\ ~reqLate /\ answer = ">"
    <2>1. current.type \in Requests
      BY <1>2 DEF MqttInv, MqttTypeOK, RunningHasRequest
    <2>2. MqttTransmits(answer) = HearPayload(chip, current.type)
      BY <1>2 DEF MqttTransmits
    <2> QED BY <1>2, <2>1, <2>2, PayloadHeard
  <1>3. CASE MqttTransmits(answer) = chip
    BY <1>3 DEF Heard
  <1> QED BY <1>1, <1>2, <1>3 DEF MqttTransmits

-----------------------------------------------------------------------------
(* MQTT::Update in a session.                                              *)

\* What a call of MQTT::Update may do to the session: it never forgets that the
\* client is connected or about to be, it believes in a connection only by the
\* confirmation of a CONNECT, it gives up the subscription only by that of a
\* SUBSCRIBE, and it goes on by one step at most.
ClientStep(answer) ==
    /\ QueueInv'
    /\ is_connected => is_connected'
    /\ current.type = "CONNECT" => is_connected' \/ current'.type = "CONNECT"
    /\ is_connected' => \/ is_connected
                        \/ current.state = "WAIT_CONFIRM" /\ Confirms(answer)
    /\ is_connected' => \/ Pending'
                        \/ is_connected /\ ~Pending
                        \/ current.state = "WAIT_CONFIRM" /\ Confirms(answer) /\ answer = "SUBS OK"
    /\ ~is_connected' => ClientRank' <= ClientRank + 1
    /\ mstate' \in {mstate, "IDLE"}

\* A confirmation is trusted if it comes to a connected client or to its CONNECT.
Trusted(answer) ==
    current.state = "WAIT_CONFIRM" /\ Confirms(answer) =>
        is_connected \/ current.type = "CONNECT"

\* The steps of a request leave the queue alone.
LEMMA RequestKept ==
  ASSUME MqttInv, QueueInv, NEW answer,
         UNCHANGED <<is_connected, queue, nested>>, current'.type = current.type,
         caller' = "append" <=> caller = "append",
         mqtt' = "IDLE" => current'.state = "IDLE",
         ClientRank' <= ClientRank + 1, mstate' \in {mstate, "IDLE"}
  PROVE  ClientStep(answer)
  <1>1. QueueInv'
    BY DEF QueueInv
  <1> QED BY <1>1 DEF ClientStep, Pending

\* A request is taken from the queue.
LEMMA RequestTaken ==
  ASSUME MqttInv, QueueInv, NEW answer, MqttConnect \/ MqttTake, MaxRequests >= 2,
         caller' = "append" <=> caller = "append"
  PROVE  ClientStep(answer)
  <1>1. queue \in Seq(Requests) /\ Len(queue) <= MaxRequests /\ MaxRequests \in Nat
    BY MqttAssumption DEF MqttInv, MqttTypeOK
  <1>2. nullptr.type = "none" /\ (current.type = "none" <=> current = nullptr)
    BY DEF nullptr, MqttInv, NullRequest
  <1>3. mqtt = "IDLE" /\ current.state = "IDLE" /\ UNCHANGED <<is_connected, mstate>>
    BY DEF MqttConnect, MqttTake, QueueInv
  <1>4. ASSUME NEW type \in Requests, current' = NewRequest(type)
        PROVE  /\ current'.type = type /\ current'.state = "IDLE"
               /\ current'.type # "none"
    BY <1>4 DEF NewRequest, Requests
  <1>5. CASE MqttConnect
    <2>1. ~is_connected /\ current.type = "none" /\ mqtt' = "IDLE"
      BY <1>2, <1>3, <1>5 DEF MqttConnect
    <2>2. Len(queue) <= 1 /\ ~Holds(queue, "CONNECT") /\ (caller = "append" => queue = <<>>)
      BY <2>1 DEF QueueInv
    <2>3. ~Full
      BY <1>1, <2>2 DEF Full
    <2> DEFINE q == Append(queue, "CONNECT")
    <2>4. current' = NewRequest(Head(q)) /\ queue' = Tail(q) /\ nested' = nested
      BY <1>5, <2>3 DEF MqttConnect
    <2>5. "CONNECT" \in Requests
      BY DEF Requests
    <2>6. CASE queue = <<>>
      <3>1. Head(q) = "CONNECT" /\ Tail(q) = <<>>
        BY <2>5, <2>6
      <3>2. current'.type = "CONNECT" /\ current'.state = "IDLE" /\ queue' = <<>>
        BY <1>4, <2>4, <2>5, <3>1
      <3>3. QueueInv'
        <4>1. Len(queue') <= 1 /\ ~Holds(queue', "CONNECT")
          BY <3>2, HoldsNothing
        <4> QED BY <1>3, <2>1, <2>4, <3>2, <4>1 DEF QueueInv
      <3>4. ClientRank' <= ClientRank + 1
        BY <2>1, <3>2 DEF ClientRank
      <3> QED BY <1>3, <2>1, <3>3, <3>4 DEF ClientStep
    <2>7. CASE queue # <<>>
      <3>1. Len(queue) = 1
        <4>1. Len(queue) # 0 /\ Len(queue) \in Nat
          BY <1>1, <2>7
        <4> QED BY <2>2, <4>1
      <3>2. Head(q) = queue[1] /\ Len(Tail(q)) = 1 /\ queue[1] \in Requests
        BY <1>1, <2>5, <3>1, SMTT(30)
      <3>3. queue[1] # "CONNECT"
        BY <2>2, <3>1 DEF Holds
      <3>4. current'.type = queue[1] /\ current'.type \notin {"none", "CONNECT"}
            /\ current'.state = "IDLE"
        BY <1>4, <2>4, <3>2, <3>3
      <3>5. QueueInv'
        BY <1>3, <2>1, <2>2, <2>4, <2>7, <3>2, <3>4 DEF QueueInv
      <3>6. ClientRank' <= ClientRank + 1
        BY <2>1, <3>4 DEF ClientRank
      <3> QED BY <1>3, <2>1, <3>5, <3>6 DEF ClientStep
    <2> QED BY <2>6, <2>7
  <1>6. CASE MqttTake
    <2>1. nested' = nested
      BY <1>6 DEF MqttTake
    <2>2. CASE UNCHANGED <<mqtt, current, queue>>
      <3>1. ClientRank' = ClientRank /\ ClientRank \in 0..4
        BY <2>2 DEF ClientRank
      <3> QED BY <1>3, <2>1, <2>2, <3>1, RequestKept
    <2>3. CASE /\ current = nullptr /\ queue # <<>>
               /\ current' = NewRequest(Head(queue)) /\ queue' = Tail(queue)
      <3>1. is_connected
        BY <1>6, <2>3 DEF MqttTake
      <3>2. ~Holds(queue, "CONNECT")
        BY <3>1 DEF QueueInv
      <3>3. \A y : Holds(queue, y) <=> Holds(Tail(queue), y) \/ Head(queue) = y
        BY <1>1, <2>3, HoldsLess
      <3>4. current'.type = Head(queue) /\ current'.state = "IDLE"
        BY <1>1, <1>4, <2>3, TakeOK
      <3>5. QueueInv'
        BY <1>3, <2>1, <2>3, <3>1, <3>2, <3>3, <3>4 DEF QueueInv
      <3>6. Pending => Pending'
        BY <1>2, <2>3, <3>3, <3>4 DEF Pending
      <3> QED BY <1>2, <1>3, <2>3, <3>1, <3>5, <3>6 DEF ClientStep
    <2>4. CASE current # nullptr /\ mqtt' = "RUNNING" /\ UNCHANGED <<current, queue>>
      <3>1. ClientRank = 1 /\ ClientRank' = 2
        BY <1>2, <1>3, <2>4 DEF ClientRank
      <3> QED BY <1>3, <2>1, <2>4, <3>1, RequestKept
    <2> QED BY <1>6, <2>2, <2>3, <2>4 DEF MqttTake
  <1> QED BY <1>5, <1>6

\* A confirmed request is deleted, and a confirmed CONNECT asks for the answers
\* of the server.
LEMMA RequestFinished ==
  ASSUME MqttInv, QueueInv, NEW answer, RequestFinish, MaxRequests >= 2,
         current.state = "WAIT_CONFIRM", Confirms(answer), Trusted(answer),
         caller' = "append" <=> caller = "append"
  PROVE  ClientStep(answer)
  <1>1. queue \in Seq(Requests) /\ MaxRequests \in Nat
    BY MqttAssumption DEF MqttInv, MqttTypeOK
  <1>2. current'.type = "none" /\ current'.state = "IDLE" /\ mstate' = mstate
    BY DEF RequestFinish, nullptr
  <1>3. CASE current.type = "CONNECT"
    <2>1. ~is_connected /\ Len(queue) <= 1 /\ ~Holds(queue, "CONNECT")
      BY <1>3 DEF QueueInv
    <2>2. ~Full
      BY <1>1, <2>1 DEF Full
    <2>3. is_connected' /\ nested' = nested /\ queue' = Append(queue, "SUBSCRIBE")
      BY <1>3, <2>2 DEF RequestFinish, OnConnect, Enqueue
    <2>4. "SUBSCRIBE" \in Requests
      BY DEF Requests
    <2>5. Holds(queue', "SUBSCRIBE") /\ ~Holds(queue', "CONNECT")
      BY <1>1, <2>1, <2>3, <2>4, HoldsMore
    <2>6. QueueInv'
      BY <1>2, <2>3, <2>5 DEF QueueInv
    <2> QED BY <1>2, <1>3, <2>1, <2>3, <2>5, <2>6 DEF ClientStep, Pending
  <1>4. CASE current.type # "CONNECT"
    <2>1. is_connected /\ UNCHANGED <<is_connected, queue, nested>>
      BY <1>4 DEF Trusted, RequestFinish
    <2>2. QueueInv'
      BY <1>2, <2>1 DEF QueueInv
    <2>3. CASE current.type = "SUBSCRIBE"
      <3>1. answer = "SUBS OK"
        BY <2>3 DEF Confirms
      <3> QED BY <1>2, <1>4, <2>1, <2>2, <3>1 DEF ClientStep
    <2>4. CASE current.type # "SUBSCRIBE"
      <3>1. Pending => Pending'
        BY <2>1, <2>4 DEF Pending
      <3> QED BY <1>2, <1>4, <2>1, <2>2, <3>1 DEF ClientStep
    <2> QED BY <2>3, <2>4
  <1> QED BY <1>3, <1>4

\* A call of MQTT::Update.
LEMMA UpdateKeepsSession ==
  ASSUME MqttInv, QueueInv, NEW answer, MqttUpdate(answer), MaxRequests >= 2,
         Trusted(answer), caller' = "append" <=> caller = "append"
  PROVE  ClientStep(answer)
  <1>1. CASE MqttConnect \/ MqttTake
    BY <1>1, RequestTaken
  <1>2. CASE mqtt = "RUNNING" /\ RequestUpdate(answer)
    <2>1. /\ current \in [type : Requests \cup {"none"}, state : RequestStates, counter : Int]
          /\ current.type # "none"
      BY <1>2 DEF MqttInv, MqttTypeOK, RunningHasRequest
    <2>2. ASSUME UNCHANGED <<is_connected, mqtt, queue, nested>>, current'.type = current.type,
                 mstate' \in {mstate, "IDLE"},
                 ClientRank' <= ClientRank + 1
          PROVE  ClientStep(answer)
      BY <1>2, <2>2, RequestKept
    <2>3. ClientRank = IF current.state = "IDLE" THEN 2
                       ELSE IF current.state = "NEED_SEND" THEN 3 ELSE 4
      BY <1>2, <2>1 DEF ClientRank
    <2>4. ASSUME mqtt' = mqtt, current'.type = current.type
          PROVE  ClientRank' = IF current'.state = "IDLE" THEN 2
                               ELSE IF current'.state = "NEED_SEND" THEN 3 ELSE 4
      BY <1>2, <2>1, <2>4 DEF ClientRank
    <2>5. ASSUME Dump PROVE ClientStep(answer)
      <3>1. /\ UNCHANGED <<is_connected, mqtt, queue, nested>> /\ mstate' \in {mstate, "IDLE"}
            /\ current'.type = current.type /\ current'.state \in {"IDLE", current.state}
        BY <2>1, <2>5 DEF Dump, ModemReset
      <3>2. ClientRank' <= ClientRank + 1
        BY <2>3, <2>4, <3>1
      <3> QED BY <2>2, <3>1, <3>2
    <2>6. CASE RequestStart
      <3>1. /\ UNCHANGED <<is_connected, mqtt, queue, nested, mstate>>
            /\ current'.type = current.type /\ current'.state = "NEED_SEND"
            /\ current.state = "IDLE"
        BY <2>1, <2>6 DEF RequestStart
      <3>2. ClientRank' <= ClientRank + 1
        BY <2>3, <2>4, <3>1
      <3> QED BY <2>2, <3>1, <3>2
    <2>7. CASE RequestNeedSend(answer)
      <3>1. CASE UNCHANGED <<mqttVars, mstate>>
        <4>1. ClientRank' <= ClientRank + 1
          BY <2>3, <2>4, <3>1 DEF mqttVars
        <4> QED BY <2>2, <3>1, <4>1 DEF mqttVars
      <3>2. CASE /\ current' = [current EXCEPT !.state = "WAIT_CONFIRM"]
                 /\ UNCHANGED <<is_connected, mqtt, queue, nested, mstate>>
        <4>1. current'.type = current.type /\ current'.state = "WAIT_CONFIRM"
              /\ current.state = "NEED_SEND"
          BY <2>1, <2>7, <3>2 DEF RequestNeedSend
        <4>2. ClientRank' <= ClientRank + 1
          BY <2>3, <2>4, <3>2, <4>1
        <4> QED BY <2>2, <3>2, <4>1, <4>2
      <3> QED BY <2>5, <2>7, <3>1, <3>2 DEF RequestNeedSend
    <2>8. CASE RequestWaitConfirm(answer)
      <3>1. CASE UNCHANGED <<mqttVars, mstate>>
        <4>1. ClientRank' <= ClientRank + 1
          BY <2>3, <2>4, <3>1 DEF mqttVars
        <4> QED BY <2>2, <3>1, <4>1 DEF mqttVars
      <3>2. CASE Confirms(answer) /\ RequestFinish
        BY <2>8, <3>2, RequestFinished DEF RequestWaitConfirm
      <3> QED BY <2>5, <2>8, <3>1, <3>2 DEF RequestWaitConfirm
    <2> QED BY <1>2, <2>6, <2>7, <2>8 DEF RequestUpdate
  <1> QED BY <1>1, <1>2 DEF MqttUpdate

-----------------------------------------------------------------------------
(* A pass in a session.                                                    *)

\* What an answer or a packet may do to the session.  A packet that is an answer
\* to it remains one.
SessionStep ==
    /\ LinkInv' /\ OwnerInv' /\ QueueInv' /\ PendingInv'
    /\ Served => Served'
    /\ Served /\ chip.link # "accepted" => chip'.link # "accepted"
    /\ is_connected => is_connected'
    /\ is_connected' => is_connected \/ Genuine(buf)
    /\ ~is_connected' => Progress' <= Progress + 1
    /\ mstate' \in {mstate, "IDLE"}

\* Nobody is confirmed by a packet of another session.
GenuineConfirm(answer) ==
    current.state = "WAIT_CONFIRM" /\ Confirms(answer) =>
        /\ Genuine(buf)
        /\ answer = "SUBS OK" => Holds(buf, "SUBACK")

\* The ranks are numbers, and the dialog goes on by one.
LEMMA Ranks ==
  /\ \A state \in States : DialogRank(state) \in 0..17
  /\ DialogRank("START") = 0 /\ DialogRank("WAIT_ATE0") = 1
  /\ DialogRank("RUNNING_MQTT") = IF HomeVersion THEN 15 ELSE 17
  /\ \A state \in DialogStates : /\ Following(state) \in States \ {"START"}
                                 /\ DialogRank(Following(state)) <= DialogRank(state) + 1
  /\ ClientRank \in 0..4
  <1>1. /\ \A state \in States : DialogRank(state) \in 0..17
        /\ DialogRank("START") = 0 /\ DialogRank("WAIT_ATE0") = 1
        /\ DialogRank("RUNNING_MQTT") = IF HomeVersion THEN 15 ELSE 17
    BY DEF DialogRank, States, DialogStates
  <1>2. ASSUME NEW state \in DialogStates
        PROVE  /\ Following(state) \in States \ {"START"}
               /\ DialogRank(Following(state)) <= DialogRank(state) + 1
    <2>1. Following(state) \in States \ {"START"}
      BY DEF Following, States, DialogStates
    <2>2. DialogRank(Following(state)) <= DialogRank(state) + 1
      <3>1. CASE state = "WAIT_ATE0"
        BY <3>1 DEF Following, DialogRank
      <3>2. CASE state = "WAIT_BAUDRADE"
        BY <3>2 DEF Following, DialogRank
      <3>3. CASE state = "WAIT_GSMBUSY"
        BY <3>3 DEF Following, DialogRank
      <3>4. CASE state = "WAIT_CREG_INIT"
        BY <3>4 DEF Following, DialogRank
      <3>5. CASE state = "WAIT_REGISTRATION"
        BY <3>5 DEF Following, DialogRank
      <3>6. CASE state = "WAIT_IP_INITIAL"
        BY <3>6 DEF Following, DialogRank
      <3>7. CASE state = "WAIT_CSTT"
        BY <3>7 DEF Following, DialogRank
      <3>8. CASE state = "WAIT_IP_START"
        BY <3>8 DEF Following, DialogRank
      <3>9. CASE state = "WAIT_CIICR"
        BY <3>9 DEF Following, DialogRank
      <3>10. CASE state = "WAIT_IP_GPRSACT"
        BY <3>10 DEF Following, DialogRank
      <3>11. CASE state = "WAIT_CIFSR"
        BY <3>11 DEF Following, DialogRank
      <3>12. CASE state = "WAIT_IP_STATUS"
        BY <3>12 DEF Following, DialogRank
      <3>13. CASE state = "WAIT_TCP_CONNECT"
        BY <3>13 DEF Following, DialogRank
      <3>14. CASE state = "WAIT_CIPHEAD"
        BY <3>14 DEF Following, DialogRank
      <3>15. CASE state = "WAIT_CGNSPWR"
        BY <3>15 DEF Following, DialogRank
      <3>16. CASE state = "WAIT_CGNSURC"
        BY <3>16 DEF Following, DialogRank
      <3> QED BY <3>1, <3>2, <3>3, <3>4, <3>5, <3>6, <3>7, <3>8,
                 <3>9, <3>10, <3>11, <3>12, <3>13, <3>14, <3>15, <3>16 DEF DialogStates
    <2> QED BY <2>1, <2>2
  <1>3. ClientRank \in 0..4
    BY DEF ClientRank
  <1> QED BY <1>1, <1>2, <1>3

\* A call of MQTT::Update, with what it transmits.
LEMMA ClientRun ==
  ASSUME MqttInv, chip \in Chips, sim \in States, LinkInv, OwnerInv, QueueInv, PendingInv,
         MaxRequests >= 2,
         NEW answer, MqttUpdate(answer), GenuineConfirm(answer),
         \/ chip' = MqttTransmits(answer)
         \/ chip' = HearCommand(MqttTransmits(answer)),
         UNCHANGED <<sim, status>>, answer = ">" => sim = "RUNNING_MQTT",
         caller' = "append" <=> caller = "append"
  PROVE  SessionStep
  <1>1. ClientStep(answer)
    <2>1. Trusted(answer)
      BY DEF GenuineConfirm, Trusted, Genuine, Served
    <2> QED BY <2>1, UpdateKeepsSession
  <1>2. /\ Heard(chip, chip')
        /\ chip'.first # chip.first => answer = ">" /\ chip'.first = current.type
    <2> DEFINE d == MqttTransmits(answer)
    <2>1. Heard(chip, d) /\ (d.first # chip.first => answer = ">" /\ d.first = current.type)
      BY TransmitsHeard DEF LinkInv
    <2>2. d \in Chips /\ LinkOK(d)
      BY <2>1 DEF Heard
    <2>3. Heard(d, HearCommand(d)) /\ HearCommand(d).first = d.first
      <3> HIDE DEF d
      <3> QED BY <2>2, CommandHeard
    <2>4. Heard(chip, HearCommand(d))
      <3> HIDE DEF d
      <3> QED BY <2>1, <2>3 DEF Heard
    <2> QED BY <2>1, <2>3, <2>4
  <1>3. LinkInv'
    BY <1>2 DEF LinkInv, Heard
  <1>4. is_connected' => is_connected \/ Genuine(buf)
    BY <1>1 DEF ClientStep, GenuineConfirm
  <1>5. OwnerInv'
    BY <1>1, <1>2, <1>4 DEF OwnerInv, ClientStep, Heard, Genuine, Served
  <1>6. Served => Served'
    BY <1>1, <1>2 DEF Served, ClientStep, Heard
  <1>7. Served => chip.link # "open"
    BY DEF Served, LinkInv, LinkOK, Off
  <1>8. Served /\ chip.link # "accepted" => chip'.link # "accepted"
    BY <1>2, <1>7 DEF Heard
  <1>9. PendingInv'
    <2> SUFFICES ASSUME is_connected', chip'.link \in Alive, ~Pending'
                 PROVE  chip'.link = "subscribed"
      BY DEF PendingInv
    <2>1. chip.link \in Alive
      BY <1>2 DEF Heard
    <2>2. CASE is_connected /\ ~Pending
      <3>1. chip.link = "subscribed"
        BY <2>1, <2>2 DEF PendingInv
      <3> QED BY <1>2, <3>1 DEF Heard, Alive
    <2>3. CASE current.state = "WAIT_CONFIRM" /\ Confirms(answer) /\ answer = "SUBS OK"
      <3>1. Served /\ chip.link # "accepted"
        BY <2>3 DEF GenuineConfirm, Genuine
      <3>2. chip'.link # "open"
        BY <1>2, <1>7, <3>1 DEF Heard
      <3> QED BY <1>8, <3>1, <3>2 DEF Alive
    <2> QED BY <1>1, <2>2, <2>3 DEF ClientStep
  <1>10. ~is_connected' => Progress' <= Progress + 1
    <2>1. ClientRank \in 0..4 /\ DialogRank(sim) \in 0..17
      BY Ranks
    <2>2. (ClientRank \in 0..4)'
      BY DEF ClientRank
    <2>3. DialogRank(sim)' = DialogRank(sim)
      BY DEF DialogRank
    <2>4. Progress = DialogRank(sim) + ClientRank /\ Progress' = DialogRank(sim)' + ClientRank'
      BY DEF Progress
    <2>5. ~is_connected' => ClientRank' <= ClientRank + 1
      BY <1>1 DEF ClientStep
    <2> QED BY <2>1, <2>2, <2>3, <2>4, <2>5
  <1> QED BY <1>1, <1>3, <1>4, <1>5, <1>6, <1>8, <1>9, <1>10 DEF SessionStep, ClientStep

\* A step of the dialog, which the client does not notice.
LEMMA DialogRun ==
  ASSUME chip \in Chips, sim \in States, sim' \in States, sim # "RUNNING_MQTT",
         LinkInv, OwnerInv, QueueInv, PendingInv, SessionOwned,
         chip' = chip \/ chip' = HearCommand(chip),
         DialogRank(sim') <= DialogRank(sim) + 1,
         UNCHANGED <<mqttVars, status>>, mstate' \in {mstate, "IDLE"},
         caller' = "append" <=> caller = "append"
  PROVE  SessionStep
  <1>1. Heard(chip, chip') /\ chip'.first = chip.first
    <2>1. Heard(chip, chip)
      BY DEF Heard, LinkInv
    <2> QED BY <2>1, CommandHeard DEF LinkInv
  <1>2. chip.first = "none" /\ ~is_connected /\ ~Served
    BY DEF OwnerInv, SessionOwned, Served
  <1>3. LinkInv' /\ OwnerInv' /\ PendingInv'
    BY <1>1, <1>2 DEF LinkInv, OwnerInv, PendingInv, Heard, mqttVars
  <1>4. QueueInv'
    BY DEF QueueInv, mqttVars
  <1>5. Progress' <= Progress + 1
    <2>1. ClientRank \in 0..4 /\ DialogRank(sim) \in 0..17 /\ DialogRank(sim') \in 0..17
      BY Ranks
    <2>2. ClientRank' = ClientRank
      BY DEF ClientRank, mqttVars
    <2>3. DialogRank(sim)' = DialogRank(sim')
      BY DEF DialogRank
    <2> QED BY <2>1, <2>2, <2>3 DEF Progress
  <1> QED BY <1>2, <1>3, <1>4, <1>5 DEF SessionStep, mqttVars

\* An answer that changes nothing, or only marks the modem for a restart.
LEMMA NothingRun ==
  ASSUME LinkInv, OwnerInv, QueueInv, PendingInv, sim \in States,
         UNCHANGED <<chip, status, sim, mqttVars>>, mstate' \in {mstate, "IDLE"},
         caller' = "append" <=> caller = "append"
  PROVE  SessionStep
  <1>1. LinkInv' /\ OwnerInv' /\ PendingInv' /\ QueueInv'
    BY DEF LinkInv, OwnerInv, PendingInv, QueueInv, Pending, mqttVars
  <1>2. Served => Served'
    BY DEF Served, mqttVars
  <1>3. Progress' = Progress /\ Progress \in Int
    <2>1. ClientRank \in 0..4 /\ DialogRank(sim) \in 0..17
      BY Ranks
    <2>2. Progress' = Progress
      BY DEF Progress, ClientRank, DialogRank, mqttVars
    <2> QED BY <2>1, <2>2 DEF Progress
  <1> QED BY <1>1, <1>2, <1>3 DEF SessionStep, mqttVars

\* A call of SIM868::Update.  No line of text is a confirmation.
LEMMA SimKeepsSession ==
  ASSUME IInv, SessionInv, MaxRequests >= 2, NEW answer \in Answers, SimUpdate(answer),
         UNCHANGED status, caller' = "append" <=> caller = "append"
  PROVE  SessionStep
  <1>0. /\ MqttInv /\ SessionOwned /\ chip \in Chips /\ sim \in States
        /\ LinkInv /\ OwnerInv /\ QueueInv /\ PendingInv
    BY DEF IInv, TypeOK, ChipTypeOK, SimTypeOK, SessionInv
  <1>1. CASE Unsolicited(answer)
    BY <1>0, <1>1, NothingRun DEF Unsolicited, ModemReset, simVars
  <1>2. CASE SimStart
    <2>1. sim = "START" /\ sim' = "WAIT_ATE0" /\ sim' \in States
      BY <1>2 DEF SimStart, States, DialogStates
    <2>2. DialogRank(sim') <= DialogRank(sim) + 1
      BY <2>1, Ranks
    <2> QED BY <1>0, <1>2, <2>1, <2>2, DialogRun DEF SimStart
  <1>3. CASE SimDialog(answer)
    <2>1. sim \in DialogStates /\ sim # "RUNNING_MQTT" /\ UNCHANGED mqttVars
      BY <1>3 DEF SimDialog, DialogStates
    <2>2. CASE UNCHANGED <<simVars, chip>> /\ mstate' \in {mstate, "IDLE"}
      BY <1>0, <2>1, <2>2, NothingRun DEF simVars
    <2>3. CASE sim' = Following(sim) /\ chip' = Commanded(sim) /\ mstate' = mstate
      <3>1. sim' \in States /\ DialogRank(sim') <= DialogRank(sim) + 1
        BY <2>1, <2>3, Ranks
      <3>2. chip' = chip \/ chip' = HearCommand(chip)
        BY <2>3 DEF Commanded
      <3> QED BY <1>0, <2>1, <2>3, <3>1, <3>2, DialogRun
    <2> QED BY <1>3, <2>2, <2>3 DEF SimDialog, ModemReset
  <1>4. CASE SimRunning(answer)
    <2>1. GenuineConfirm(answer)
      BY DEF GenuineConfirm, Confirms, Answers, DialogAnswers, RunningAnswers
    <2> QED BY <1>0, <1>4, <2>1, ClientRun DEF SimRunning, simVars
  <1> QED BY <1>1, <1>2, <1>3, <1>4 DEF SimUpdate

\* A packet, which the framer passes to the client in every state of the dialog.
\* If it confirms a request, the answers in front of it were too few to bring
\* the client there from a restart.
LEMMA ResponseKeepsSession ==
  ASSUME IInv, SessionInv, MaxRequests >= 2,
         buf # <<>>, Head(buf) \in Packets, ResponseRun(Head(buf)), UNCHANGED simVars,
         UNCHANGED status, caller' = "append" <=> caller = "append"
  PROVE  SessionStep
  <1>0. /\ MqttInv /\ SessionOwned /\ chip \in Chips /\ sim \in States /\ buf \in Seq(Tokens)
        /\ LinkInv /\ OwnerInv /\ QueueInv /\ PendingInv /\ TransitInv
    BY DEF IInv, TypeOK, ChipTypeOK, ModemTypeOK, SimTypeOK, SessionInv
  <1> DEFINE packet == Head(buf)
             answer == PacketAnswer(packet)
  <1>1. CASE ModemReset /\ UNCHANGED <<mqttVars, chip>>
    BY <1>0, <1>1, NothingRun DEF ModemReset, simVars
  <1>2. CASE packet # "CONNACK refused" /\ MqttUpdate(answer) /\ chip' = MqttTransmits(answer)
    <2>1. Carries(buf) /\ Holds(buf, packet) /\ Len(buf) \in Nat \ {0}
      BY <1>0, HoldsLess
    <2>2. answer # ">" /\ (answer = "SUBS OK" => packet = "SUBACK")
      BY <1>2 DEF PacketAnswer, Packets
    <2>3. GenuineConfirm(answer)
      <3> SUFFICES ASSUME current.state = "WAIT_CONFIRM", Confirms(answer)
                   PROVE  Genuine(buf)
        BY <2>1, <2>2 DEF GenuineConfirm
      <3>1. sim = "RUNNING_MQTT" /\ current.type # "none" /\ mqtt # "IDLE"
        BY <1>0 DEF SessionOwned, Confirms, QueueInv
      <3>2. ClientRank = 4
        BY <3>1 DEF ClientRank
      <3>3. Progress = FarthestStep
        BY <3>1, <3>2, Ranks DEF Progress, FarthestStep
      <3>4. ~(Progress + Len(buf) <= FarthestStep)
        BY <2>1, <3>3 DEF FarthestStep
      <3> QED BY <1>0, <2>1, <3>4 DEF TransitInv
    <2> HIDE DEF answer, packet
    <2> QED BY <1>0, <1>2, <2>2, <2>3, ClientRun DEF simVars
  <1> QED BY <1>1, <1>2 DEF ResponseRun

\* What is in the receive buffers during a pass: a packet is delivered in the
\* session that asked for it, or goes on being a leftover that is too early.
LEMMA PassKeepsSession ==
  ASSUME IInv, SessionInv, ~astray', MaxRequests >= 2,
         PassBegins \/ PassDelivers \/ PassMisreads \/ PassEnds,
         caller' = "append" <=> caller = "append"
  PROVE  SessionInv'
  <1>0. /\ sim \in States /\ rx \in Seq(Tokens) /\ Len(rx) <= MaxRx /\ buf \in Seq(Tokens)
        /\ pass \in BOOLEAN /\ SessionOwned /\ FarthestStep \in Nat
        /\ LinkInv /\ OwnerInv /\ QueueInv /\ PendingInv /\ PassInv /\ TransitInv
    BY DEF FarthestStep, IInv, TypeOK, ChipTypeOK, ModemTypeOK, SimTypeOK, SessionInv
  <1>1. CASE PassBegins
    <2>1. /\ ~pass /\ pass' /\ buf' = rx /\ rx' = <<>> /\ mstate = "HARDWARE_IS_OK"
          /\ UNCHANGED <<status, chip, mstate, sim, mqttVars>>
      BY <1>1 DEF PassBegins, simVars
    <2>2. LinkInv' /\ OwnerInv' /\ PendingInv' /\ QueueInv'
      BY <1>0, <2>1 DEF LinkInv, OwnerInv, PendingInv, QueueInv, Pending, mqttVars
    <2>3. PassInv'
      BY <2>1 DEF PassInv
    <2>4. Genuine(rx) => Genuine(buf)'
      BY <2>1 DEF Genuine, Served, mqttVars
    <2>5. CASE sim = "START"
      <3>1. current.type = "none" /\ ~is_connected
        BY <1>0, <2>1, <2>5 DEF PassInv, nullptr, SessionOwned
      <3>2. Progress' = 0
        <4>1. ClientRank' = 0
          BY <2>1, <3>1 DEF ClientRank, mqttVars
        <4>2. DialogRank(sim)' = 0
          BY <2>1, <2>5 DEF DialogRank
        <4> QED BY <4>1, <4>2 DEF Progress
      <3>4. ~(Len(rx) > FarthestStep)
        BY <1>1, <2>5 DEF PassBegins
      <3>3. Progress' + Len(buf') <= FarthestStep /\ ~is_connected'
        BY <1>0, <2>1, <3>1, <3>2, <3>4 DEF mqttVars
      <3> QED BY <2>1, <2>2, <2>3, <3>3, HoldsNothing DEF TransitInv, SessionInv
    <2>6. CASE sim # "START"
      <3>1. TransitInv'
        BY <1>0, <2>1, <2>4, <2>6, HoldsNothing DEF TransitInv
      <3> QED BY <2>2, <2>3, <3>1 DEF SessionInv
    <2> QED BY <2>5, <2>6
  <1>2. ASSUME SessionStep, NEW s, Genuine(s) PROVE Genuine(s)'
    BY <1>2 DEF SessionStep, Genuine
  <1>3. CASE PassDelivers
    <2>1. /\ pass /\ pass' /\ buf # <<>> /\ buf' = Tail(buf)
          /\ UNCHANGED <<rx, status>>
      BY <1>3 DEF PassDelivers
    <2>2. SessionStep
      <3>1. CASE Head(buf) \in Answers /\ SimUpdate(Head(buf))
        BY <2>1, <3>1, SimKeepsSession
      <3>2. CASE Head(buf) \in Packets /\ ResponseRun(Head(buf)) /\ UNCHANGED simVars
        BY <2>1, <3>2, ResponseKeepsSession
      <3>3. CASE UNCHANGED <<simVars, mqttVars, mstate, chip>>
        BY <1>0, <2>1, <3>3, NothingRun DEF simVars
      <3>4. CASE SimUpdate("")
        BY <2>1, <3>4, SimKeepsSession DEF Answers
      <3> QED BY <1>3, <3>1, <3>2, <3>3, <3>4 DEF PassDelivers, Deliver
    <2>3. PassInv'
      BY <1>0, <2>1, <2>2 DEF PassInv, SessionStep
    <2>4. Carries(rx') => Genuine(rx)'
      <3>1. Genuine(rx) => Genuine(rx)'
        BY <2>1, <2>2 DEF SessionStep, Genuine
      <3> QED BY <1>0, <2>1, <3>1 DEF TransitInv
    <2>5. /\ Carries(buf') => Carries(buf)
          /\ Holds(buf', "SUBACK") => Holds(buf, "SUBACK")
          /\ Len(buf') = Len(buf) - 1 /\ Len(buf) \in Nat
      BY <1>0, <2>1, HoldsLess
    <2>6. Genuine(buf) => Genuine(buf)'
      BY <2>2, <2>5 DEF SessionStep, Genuine
    <2>7. ASSUME ~Genuine(buf), ~is_connected, Progress + Len(buf) <= FarthestStep
          PROVE  ~is_connected' /\ Progress' + Len(buf') <= FarthestStep
      <3>1. ~is_connected' /\ Progress' <= Progress + 1
        BY <2>2, <2>7 DEF SessionStep
      <3>2. Progress \in Int
        <4>1. ClientRank \in 0..4 /\ DialogRank(sim) \in 0..17
          BY <1>0, Ranks
        <4> QED BY <4>1 DEF Progress
      <3>3. Progress' \in Int
        <4>1. (ClientRank \in 0..4)'
          BY DEF ClientRank
        <4>2. (DialogRank(sim) \in 0..17)'
          <5>1. sim' \in States
            BY PassStepOK DEF Delivered, SimTypeOK
          <5>2. DialogRank(sim') \in 0..17
            BY <5>1, Ranks
          <5> QED BY <5>2 DEF DialogRank
        <4> QED BY <4>1, <4>2 DEF Progress
      <3> QED BY <1>0, <2>5, <2>7, <3>1, <3>2, <3>3
    <2>8. TransitInv'
      BY <1>0, <2>4, <2>5, <2>6, <2>7 DEF TransitInv
    <2> QED BY <2>2, <2>3, <2>8 DEF SessionInv, SessionStep
  <1>4. CASE PassEnds
    <2>1. /\ SimUpdate("") /\ ~pass' /\ buf = <<>> /\ UNCHANGED <<buf, rx, status>>
          /\ (pass \/ (mstate = "HARDWARE_IS_OK" /\ rx = <<>>))
      BY <1>0, <1>4 DEF PassEnds, PassInv
    <2>2. SessionStep
      BY <2>1, SimKeepsSession DEF Answers
    <2>3. sim' # "START"
      <3>1. "" \notin Ignored \cup Fatal
        BY DEF Ignored, Fatal
      <3>2. CASE SimStart
        BY <3>2 DEF SimStart
      <3>3. CASE SimDialog("")
        <4>1. sim \in DialogStates /\ sim # "START" /\ sim' \in {sim, Following(sim)}
          BY <3>3 DEF SimDialog, DialogStates, simVars
        <4> QED BY <4>1, Ranks
      <3>4. CASE SimRunning("")
        BY <3>4 DEF SimRunning, simVars
      <3> QED BY <2>1, <3>1, <3>2, <3>3, <3>4 DEF SimUpdate, Unsolicited
    <2>4. PassInv'
      BY <1>0, <2>1, <2>2, <2>3 DEF PassInv, SessionStep
    <2>5. Carries(rx') => Genuine(rx)'
      <3>1. Genuine(rx) => Genuine(rx)'
        BY <2>1, <2>2 DEF SessionStep, Genuine
      <3> QED BY <1>0, <2>1, <3>1, HoldsNothing DEF TransitInv
    <2>6. TransitInv'
      BY <2>1, <2>5, HoldsNothing DEF TransitInv
    <2> QED BY <2>2, <2>4, <2>6 DEF SessionInv, SessionStep
  <1>5. ~PassMisreads
    BY DEF PassMisreads
  <1> QED BY <1>1, <1>3, <1>4, <1>5

-----------------------------------------------------------------------------
(* The power, the chip and the clock in a session.                         *)

\* The restart ends the session on both sides; what it leaves in the receive
\* buffers is what the next pass begins with.
LEMMA PowerKeepsSession ==
  ASSUME IInv, SessionInv, PowerStep, caller' = "append" <=> caller = "append"
  PROVE  SessionInv'
  <1>0. LinkInv /\ OwnerInv /\ QueueInv /\ PendingInv /\ PassInv /\ TransitInv
    BY DEF SessionInv
  <1>1. ~pass /\ ~pass' /\ buf = <<>> /\ UNCHANGED <<buf, rx>>
    BY <1>0 DEF PowerStep, PassInv, passVars
  <1>2. CASE PowerIdle
    <2>1. /\ sim' = "START" /\ ~is_connected' /\ mqtt' = "IDLE" /\ queue' = <<>>
          /\ current' = nullptr /\ nested' = nested /\ ~status' /\ chip' = ChipOff
      BY <1>2 DEF PowerIdle, SimReset, MqttReset
    <2>2. current'.type = "none" /\ current'.state = "IDLE"
      BY <2>1 DEF nullptr
    <2>3. /\ chip'.link = "none" /\ chip'.first = "none" /\ chip'.data = FALSE
          /\ chip'.owed = <<>>
      BY <2>1 DEF ChipOff
    <2>4. LinkInv'
      BY <2>3, HoldsNothing DEF LinkInv, LinkOK, Off
    <2>5. OwnerInv' /\ PendingInv'
      BY <2>1, <2>3 DEF OwnerInv, PendingInv
    <2>6. QueueInv'
      <3>1. Len(queue') <= 1 /\ ~Holds(queue', "CONNECT")
        BY <2>1, HoldsNothing
      <3> QED BY <1>0, <2>1, <2>2, <3>1 DEF QueueInv
    <2>7. PassInv' /\ TransitInv'
      BY <1>1, <2>1, HoldsNothing DEF PassInv, TransitInv
    <2> QED BY <2>4, <2>5, <2>6, <2>7 DEF SessionInv
  <1>3. CASE WaitDischargeCaps \/ WaitHiGsmPg \/ Wait500Ms \/ Wait1250Ms \/ Wait5000Ms
    <2>1. /\ UNCHANGED <<sim, mqttVars, status, chip>>
          /\ mstate \notin {"IDLE", "HARDWARE_IS_OK"}
      BY <1>3 DEF WaitDischargeCaps, WaitHiGsmPg, Wait500Ms, Wait1250Ms, Wait5000Ms, simVars
    <2>2. LinkInv' /\ OwnerInv' /\ PendingInv' /\ QueueInv'
      BY <1>0, <2>1 DEF LinkInv, OwnerInv, PendingInv, QueueInv, Pending, mqttVars
    <2>3. sim = "START"
      BY <1>0, <2>1 DEF PassInv
    <2>4. PassInv' /\ TransitInv'
      BY <1>0, <1>1, <2>1, <2>3, HoldsNothing DEF PassInv, TransitInv, mqttVars
    <2> QED BY <2>2, <2>4 DEF SessionInv
  <1> QED BY <1>2, <1>3 DEF PowerStep

\* A SUBACK is a packet.
LEMMA SubackCarried == \A s : Holds(s, "SUBACK") => Carries(s)
  BY DEF Holds, Carries, Packets

\* A step of the surroundings that keeps the session sound on the chip's side,
\* and adds to the receive buffers nothing but lines of text and packets of this
\* session.
LEMMA SurroundingsStep ==
  ASSUME IInv, SessionInv, LinkInv', OwnerInv', PendingInv',
         Served => Served',
         Served /\ chip.link # "accepted" => chip'.link # "accepted",
         UNCHANGED <<mqttVars, mstate, simVars, pass, buf, caller>>,
         \/ rx' = rx
         \/ \E token \in Tokens :
               /\ rx' = Append(rx, token)
               /\ token \in Packets => Served
               /\ token = "SUBACK" => chip'.link # "accepted"
  PROVE  SessionInv'
  <1>0. /\ rx \in Seq(Tokens) /\ QueueInv /\ PassInv /\ TransitInv
    BY DEF IInv, TypeOK, ChipTypeOK, SessionInv
  <1>1. QueueInv' /\ PassInv'
    BY <1>0 DEF QueueInv, PassInv, mqttVars, simVars
  <1>2. Progress' = Progress
    BY DEF Progress, ClientRank, DialogRank, mqttVars, simVars
  <1>3. Genuine(buf) => Genuine(buf)'
    BY DEF Genuine
  <1>4. (Carries(buf) => Genuine(buf) \/ (~is_connected /\ Progress + Len(buf) <= FarthestStep))'
    BY <1>0, <1>2, <1>3 DEF TransitInv, mqttVars
  <1>5. (Carries(rx) => Genuine(rx) \/ (~pass /\ sim = "START"))'
    <2>1. CASE rx' = rx
      <3>1. Genuine(rx) => Genuine(rx)'
        BY <2>1 DEF Genuine
      <3> QED BY <1>0, <2>1, <3>1 DEF TransitInv, simVars
    <2>2. ASSUME NEW token \in Tokens, rx' = Append(rx, token),
                 token \in Packets => Served,
                 token = "SUBACK" => chip'.link # "accepted"
          PROVE  (Carries(rx) => Genuine(rx) \/ (~pass /\ sim = "START"))'
      <3>1. /\ Carries(rx') <=> Carries(rx) \/ token \in Packets
            /\ Holds(rx', "SUBACK") <=> Holds(rx, "SUBACK") \/ token = "SUBACK"
        BY <1>0, <2>2, HoldsMore
      <3>2. Genuine(rx) => Genuine(rx)'
        BY <2>2, <3>1 DEF Genuine
      <3>3. CASE Carries(rx)
        BY <1>0, <3>2, <3>3 DEF TransitInv, simVars
      <3>4. CASE ~Carries(rx) /\ token \in Packets
        <4>1. Genuine(rx)'
          BY <2>2, <3>1, <3>4, SubackCarried DEF Genuine
        <4> QED BY <4>1
      <3> QED BY <3>1, <3>3, <3>4
    <2> QED BY <2>1, <2>2
  <1> QED BY <1>1, <1>4, <1>5 DEF SessionInv, TransitInv

\* The chip keeps its connection or loses it.
LEMMA ChipDrifts ==
  ASSUME LinkInv, OwnerInv, PendingInv, LinkOK(chip'), chip'.first = chip.first,
         chip'.link \in {chip.link, "lost", "none"}, status, status' = status,
         UNCHANGED <<mqttVars, simVars>>
  PROVE  /\ LinkInv' /\ OwnerInv' /\ PendingInv' /\ (Served => Served')
         /\ Served /\ chip.link # "accepted" => chip'.link # "accepted"
  <1>1. LinkInv' /\ OwnerInv' /\ (Served => Served')
    BY DEF LinkInv, OwnerInv, Served, mqttVars, simVars
  <1>2. PendingInv'
    BY DEF PendingInv, Pending, Alive, mqttVars
  <1> QED BY <1>1, <1>2

\* Steps of the chip and the network.
LEMMA ChipKeepsSession ==
  ASSUME IInv, SessionInv, ChipStep
  PROVE  SessionInv'
  <1>0. /\ LinkInv /\ OwnerInv /\ PendingInv /\ PassInv /\ SessionOwned
        /\ chip \in Chips /\ chip.owed \in Seq(Packets) /\ LinkOK(chip)
        /\ UNCHANGED <<mqttVars, mstate, simVars, pass, buf, caller>>
    BY DEF IInv, TypeOK, ChipTypeOK, SessionInv, ChipStep, Chips, LinkInv, passVars
  <1>1. ASSUME NEW token \in Answers \ {""}
        PROVE  token \in Tokens /\ token \notin Packets
    BY <1>1 DEF Tokens, Packets, Answers, DialogAnswers, RunningAnswers
  <1>2. ASSUME LinkOK(chip'), chip'.first = chip.first, status, status' = status,
               chip'.link \in {chip.link, "lost", "none"},
               rx' = rx \/ \E token \in Answers \ {""} : Say(token)
        PROVE  SessionInv'
    <2>1. /\ LinkInv' /\ OwnerInv' /\ PendingInv' /\ (Served => Served')
          /\ Served /\ chip.link # "accepted" => chip'.link # "accepted"
      BY <1>0, <1>2, ChipDrifts
    <2>2. "SUBACK" \in Packets
      BY DEF Packets
    <2>3. CASE rx' = rx
      BY <1>0, <2>1, <2>3, SurroundingsStep
    <2>4. ASSUME NEW token \in Answers \ {""}, Say(token) PROVE SessionInv'
      <3>1. /\ token \in Tokens /\ rx' = Append(rx, token) /\ (token \in Packets => Served)
            /\ (token = "SUBACK" => chip'.link # "accepted")
        BY <1>1, <2>2, <2>4 DEF Say
      <3> QED BY <1>0, <2>1, <3>1, SurroundingsStep
    <2> QED BY <1>2, <2>3, <2>4
  <1>3. CASE ChipPrompts
    <2>1. /\ chip'.link = chip.link /\ chip'.first = chip.first /\ chip'.owed = chip.owed
          /\ status /\ status' = status /\ Say(">")
      BY <1>0, <1>3 DEF ChipPrompts, Chips
    <2>2. LinkOK(chip')
      BY <1>0, <2>1 DEF LinkOK
    <2> QED BY <1>2, <2>1, <2>2 DEF Answers, RunningAnswers
  <1>4. CASE BrokerAnswers
    <2>1. /\ status /\ status' = status /\ chip.owed # <<>>
          /\ chip.link \in {"accepted", "subscribed"} /\ chip.first = "CONNECT"
      BY <1>0, <1>4 DEF BrokerAnswers, LinkOK
    <2>2. Served
      BY <1>0, <2>1 DEF Served, OwnerInv
    <2>3. /\ Head(chip.owed) \in Packets /\ Packets \subseteq Tokens
          /\ Holds(chip.owed, Head(chip.owed))
          /\ Holds(Tail(chip.owed), "SUBACK") => Holds(chip.owed, "SUBACK")
      <3>1. Head(chip.owed) \in Packets /\ Packets \subseteq Tokens
        <4>1. Head(chip.owed) \in Packets
          BY <1>0, <2>1
        <4> QED BY <4>1 DEF Tokens
      <3>2. \A y : Holds(chip.owed, y) <=> Holds(Tail(chip.owed), y) \/ Head(chip.owed) = y
        BY <1>0, <2>1, HoldsLess
      <3> QED BY <3>1, <3>2
    <2>4. ASSUME LinkOK(chip'), chip'.first = chip.first, chip'.link \in {chip.link, "lost"},
                 NEW token \in Packets, Say(token),
                 token = "SUBACK" => chip'.link # "accepted"
          PROVE  SessionInv'
      <3>1. /\ LinkInv' /\ OwnerInv' /\ PendingInv' /\ (Served => Served')
            /\ Served /\ chip.link # "accepted" => chip'.link # "accepted"
        BY <1>0, <2>1, <2>4, ChipDrifts
      <3>2. rx' = Append(rx, token) /\ token \in Tokens
        BY <2>3, <2>4 DEF Say
      <3> QED BY <1>0, <2>2, <2>4, <3>1, <3>2, SurroundingsStep
    <2>5. CASE Say(Head(chip.owed)) /\ chip' = [chip EXCEPT !.owed = Tail(@)]
      <3>1. /\ chip'.link = chip.link /\ chip'.first = chip.first
            /\ chip'.owed = Tail(chip.owed)
        BY <1>0, <2>5 DEF Chips
      <3>2. LinkOK(chip')
        BY <1>0, <2>1, <2>3, <3>1 DEF LinkOK
      <3>3. Head(chip.owed) = "SUBACK" => chip'.link # "accepted"
        BY <1>0, <2>3, <3>1 DEF LinkOK
      <3> QED BY <2>3, <2>4, <2>5, <3>1, <3>2, <3>3
    <2>6. CASE Say("CONNACK refused") /\ chip' = [chip EXCEPT !.owed = <<>>, !.link = "lost"]
      <3>1. chip'.link = "lost" /\ chip'.first = chip.first /\ chip'.owed = <<>>
        BY <1>0, <2>6 DEF Chips
      <3>2. LinkOK(chip')
        BY <3>1, HoldsNothing DEF LinkOK
      <3> QED BY <2>4, <2>6, <3>1, <3>2 DEF Packets
    <2> QED BY <1>4, <2>5, <2>6 DEF BrokerAnswers
  <1>5. CASE LinkBreaks
    <2>1. /\ chip'.link = "lost" /\ chip'.first = chip.first /\ chip'.owed = <<>>
          /\ status /\ status' = status /\ rx' = rx
      BY <1>0, <1>5 DEF LinkBreaks, Chips
    <2>2. LinkOK(chip')
      BY <2>1, HoldsNothing DEF LinkOK
    <2> QED BY <1>2, <2>1, <2>2
  <1>6. CASE ChipReportsLoss
    <2>1. /\ chip.link = "lost" /\ chip'.link = "none" /\ chip'.first = chip.first
          /\ chip'.owed = chip.owed /\ status /\ status' = status
      BY <1>0, <1>6 DEF ChipReportsLoss, Chips
    <2>2. LinkOK(chip')
      BY <1>0, <2>1 DEF LinkOK
    <2>3. \E token \in Answers \ {""} : Say(token)
      BY <1>6 DEF ChipReportsLoss, Answers, RunningAnswers
    <2> QED BY <1>2, <2>1, <2>2, <2>3
  <1>7. CASE ChipChatters
    <2>1. \E token \in Answers \ {""} : Say(token)
      BY <1>7 DEF ChipChatters, Answers, RunningAnswers
    <2> QED BY <1>0, <1>2, <1>7, <2>1 DEF ChipChatters
  <1>8. CASE ChipDies
    <2>1. /\ chip'.link = "none" /\ chip'.first = "none" /\ chip'.data = FALSE
          /\ chip'.owed = <<>> /\ ~status' /\ rx' = rx
      BY <1>8 DEF ChipDies, ChipOff
    <2>2. LinkInv'
      BY <2>1, HoldsNothing DEF LinkInv, LinkOK, Off
    <2>3. OwnerInv' /\ PendingInv' /\ (Served => Served')
      BY <1>0, <2>1 DEF OwnerInv, PendingInv, Served, Alive, mqttVars, simVars
    <2> QED BY <1>0, <2>1, <2>2, <2>3, SurroundingsStep
  <1>9. CASE ChipAnswers
    <2>1. status /\ status' = status /\ sim \in DialogStates
      BY <1>9 DEF ChipAnswers
    <2>2. CASE \E token \in Says(sim) : Say(token) /\ UNCHANGED chip
      <3>1. Says(sim) \subseteq Answers \ {""}
        BY <2>1 DEF Says, Accepts, DialogStates, Answers, DialogAnswers
      <3>2. \E token \in Answers \ {""} : Say(token)
        BY <2>2, <3>1
      <3> QED BY <1>0, <1>2, <2>1, <2>2, <3>2
    <2>3. CASE Say("ALREADY CONNECT") /\ UNCHANGED chip
      <3>1. \E token \in Answers \ {""} : Say(token)
        BY <2>3 DEF Answers, DialogAnswers
      <3> QED BY <1>0, <1>2, <2>1, <2>3, <3>1
    <2>4. CASE /\ chip.link = "none" /\ Say("CONNECT OK")
               /\ chip' = [chip EXCEPT !.link = "open"]
      <3>1. sim # "RUNNING_MQTT"
        BY <2>1 DEF DialogStates
      <3>2. chip.first = "none" /\ ~is_connected /\ ~Served
        BY <1>0, <3>1 DEF OwnerInv, SessionOwned, Served
      <3>3. chip'.link = "open" /\ chip'.first = "none" /\ chip'.owed = chip.owed
        BY <1>0, <2>4, <3>2 DEF Chips
      <3>4. LinkInv'
        BY <1>0, <2>1, <2>4, <3>3 DEF LinkInv, LinkOK
      <3>5. OwnerInv' /\ PendingInv'
        BY <1>0, <3>2, <3>3 DEF OwnerInv, PendingInv, mqttVars
      <3>6. /\ "CONNECT OK" \in Tokens /\ "CONNECT OK" \notin Packets
            /\ rx' = Append(rx, "CONNECT OK") /\ "CONNECT OK" # "SUBACK"
        BY <1>1, <2>4 DEF Say, Answers, DialogAnswers
      <3> QED BY <1>0, <3>2, <3>4, <3>5, <3>6, SurroundingsStep
    <2> QED BY <1>9, <2>2, <2>3, <2>4 DEF ChipAnswers
  <1>10. CASE ChipStarts
    <2>1. /\ ~status /\ status' /\ UNCHANGED <<chip, rx>> /\ mstate = "WAIT_5000_MS"
      BY <1>10 DEF ChipStarts
    <2>2. sim = "START" /\ ~is_connected /\ ~Served
      BY <1>0, <2>1 DEF PassInv, SessionOwned, Served
    <2>3. LinkInv' /\ OwnerInv' /\ PendingInv'
      BY <1>0, <2>1, <2>2 DEF LinkInv, OwnerInv, PendingInv, mqttVars, simVars
    <2> QED BY <1>0, <2>1, <2>2, <2>3, SurroundingsStep
  <1> QED BY <1>3, <1>4, <1>5, <1>6, <1>7, <1>8, <1>9, <1>10 DEF ChipStep

\* No step but the first makes what is delivered genuine again.
LEMMA StaysAstray == [Next]_vars /\ astray => astray'
  <1> SUFFICES ASSUME [Next]_vars, astray PROVE astray'
    OBVIOUS
  <1>1. CASE ModemUpdate
    BY <1>1 DEF ModemUpdate, PowerStep, passVars, PassBegins, PassDelivers, PassMisreads, PassEnds
  <1>2. CASE GetTime \/ AppendHeld \/ ChipStep \/ ClockStep
    BY <1>2 DEF GetTime, AppendHeld, ChipStep, ClockStep, passVars
  <1>3. CASE UNCHANGED vars
    BY <1>3 DEF vars
  <1> QED BY <1>1, <1>2, <1>3 DEF Next, DeviceUpdate

\* SessionInv is kept by every step of the processor, of the chip and of the
\* clock that does not lead astray.
LEMMA NextSession ==
  ASSUME MaxRequests >= 2
  PROVE  IInv /\ (astray \/ SessionInv) /\ [Next]_vars => (astray \/ SessionInv)'
  <1> SUFFICES ASSUME IInv, SessionInv, [Next]_vars, ~astray' PROVE SessionInv'
    BY StaysAstray
  <1>0. LinkInv /\ OwnerInv /\ QueueInv /\ PendingInv /\ PassInv /\ TransitInv
    BY DEF SessionInv
  <1>1. ASSUME UNCHANGED <<status, chip, rx, mstate, sim, pass, buf, mqtt, current, is_connected>>,
               QueueInv', Pending => Pending'
        PROVE  SessionInv'
    <2>1. LinkInv' /\ OwnerInv' /\ PassInv'
      BY <1>0, <1>1 DEF LinkInv, OwnerInv, PassInv
    <2>2. PendingInv'
      BY <1>0, <1>1 DEF PendingInv
    <2>3. TransitInv'
      BY <1>0, <1>1 DEF TransitInv, Genuine, Served, Progress, ClientRank, DialogRank
    <2> QED BY <1>1, <2>1, <2>2, <2>3 DEF SessionInv
  <1>2. CASE GetTime
    <2>1. /\ UNCHANGED <<status, chip, rx, mstate, sim, pass, buf, mqttVars>> /\ is_connected
      BY <1>2 DEF GetTime, simVars, passVars
    <2>2. QueueInv'
      BY <1>0, <2>1 DEF QueueInv, mqttVars
    <2>3. Pending => Pending'
      BY <2>1 DEF Pending, mqttVars
    <2> QED BY <1>1, <2>1, <2>2, <2>3 DEF mqttVars
  <1>3. CASE AppendHeld
    <2>1. /\ UNCHANGED <<status, chip, rx, mstate, sim, pass, buf, mqtt, current, is_connected>>
          /\ queue' = Append(queue, "PUBLISH") /\ nested' = nested
          /\ caller = "append" /\ caller' = "update"
      BY <1>3 DEF AppendHeld, simVars, passVars
    <2>2. queue \in Seq(Requests) /\ "PUBLISH" \in Requests
      BY DEF IInv, TypeOK, MqttTypeOK, Requests
    <2>3. \A y : Holds(queue', y) <=> Holds(queue, y) \/ "PUBLISH" = y
      BY <2>1, <2>2, HoldsMore
    <2>4. queue = <<>> => Len(queue') <= 1
      BY <2>1, <2>2
    <2>5. QueueInv'
      BY <1>0, <2>1, <2>3, <2>4 DEF QueueInv
    <2>6. Pending => Pending'
      BY <2>1, <2>3 DEF Pending
    <2> QED BY <1>1, <2>1, <2>5, <2>6
  <1>4. CASE ModemUpdate
    <2>1. caller' = "append" <=> caller = "append"
      BY <1>4 DEF ModemUpdate, Return
    <2> QED BY <1>4, <2>1, PowerKeepsSession, PassKeepsSession DEF ModemUpdate
  <1>5. CASE ChipStep
    BY <1>5, ChipKeepsSession
  <1>6. CASE ClockStep \/ UNCHANGED vars
    <2>1. UNCHANGED <<status, chip, rx, mstate, sim, pass, buf, mqtt, current, is_connected,
                      queue, nested, caller>>
      BY <1>6 DEF ClockStep, RequestMeterRunsOut, StateMeterRunsOut, ModemMeterRunsOut,
                  chipVars, simVars, mqttVars, powerVars, passVars, vars
    <2>2. QueueInv' /\ (Pending => Pending')
      BY <1>0, <2>1 DEF QueueInv, Pending
    <2> QED BY <1>1, <2>1, <2>2
  <1> QED BY <1>2, <1>3, <1>4, <1>5, <1>6 DEF Next, DeviceUpdate

\* See NextSession.
LEMMA InitSession == Init => SessionInv
  <1> SUFFICES ASSUME Init PROVE SessionInv
    OBVIOUS
  <1>1. /\ status = FALSE /\ chip = ChipOff /\ rx = <<>> /\ is_connected = FALSE
        /\ mqtt = "IDLE" /\ queue = <<>> /\ current = nullptr /\ nested = FALSE
        /\ sim = "START" /\ mstate = "IDLE" /\ pass = FALSE /\ buf = <<>> /\ caller = "device"
    BY DEF Init, ChipInit, MqttInit, SimInit, ModemInit
  <1>2. /\ chip.link = "none" /\ chip.first = "none" /\ chip.data = FALSE /\ chip.owed = <<>>
        /\ current.type = "none" /\ current.state = "IDLE"
    BY <1>1 DEF ChipOff, nullptr
  <1>3. LinkInv /\ OwnerInv /\ PendingInv
    BY <1>1, <1>2, HoldsNothing DEF LinkInv, LinkOK, Off, OwnerInv, PendingInv
  <1>4. QueueInv
    <2>1. Len(queue) <= 1 /\ ~Holds(queue, "CONNECT")
      BY <1>1, HoldsNothing
    <2> QED BY <1>1, <1>2, <2>1 DEF QueueInv
  <1>5. PassInv /\ TransitInv
    BY <1>1, HoldsNothing DEF PassInv, TransitInv
  <1> QED BY <1>3, <1>4, <1>5 DEF SessionInv

\* The invariant of the session, as long as nothing leads astray.
THEOREM SessionHolds ==
  ASSUME MaxRequests >= 2
  PROVE  Spec => [](astray \/ SessionInv)
  <1>1. IInv /\ (astray \/ SessionInv) /\ [Next]_vars => (astray \/ SessionInv)'
    BY NextSession
  <1>2. Init => astray \/ SessionInv
    BY InitSession
  <1> QED BY <1>1, <1>2, IInvHolds, PTL DEF Spec

\* MQTT::IsConnected never tells of a connection that the broker has not
\* accepted: neither lost and garbled answers nor the packets a restart leaves in
\* the receive buffers, whatever their size, make the client believe in one,
\* unless an answer was delivered that nobody sent, or a dialog began with more
\* than FarthestStep leftovers.  The queue holds two requests at least
\* (Queue::MAX_REQUESTS is 2).
THEOREM ConnectionIsReal ==
  ASSUME MaxRequests >= 2
  PROVE  Spec => []ConnectedIsReal
  <1>1. astray \/ SessionInv => ConnectedIsReal
    BY DEF SessionInv, LinkInv, LinkOK, OwnerInv, ConnectedIsReal
  <1> QED BY <1>1, SessionHolds, PTL

\* The subscription that OnConnect asks for is carried out or still to come as
\* long as the connection lives: no confirmation but its own deletes the request,
\* with the same exception.
THEOREM SubscriptionIsKept ==
  ASSUME MaxRequests >= 2
  PROVE  Spec => []SubscriptionPending
  <1>1. astray \/ SessionInv => SubscriptionPending
    BY DEF SessionInv, PendingInv, Pending, Holds, SubscriptionPending
  <1> QED BY <1>1, SessionHolds, PTL

\* Queue::Append is never called with a full queue from inside MQTT::Update, so
\* Modem::Update never runs inside the framer, with the same exception.
THEOREM AppendNeverNests ==
  ASSUME MaxRequests >= 2
  PROVE  Spec => []NoNestedAppend
  <1>1. astray \/ SessionInv => NoNestedAppend
    BY DEF SessionInv, QueueInv, NoNestedAppend
  <1> QED BY <1>1, SessionHolds, PTL
=============================================================================
