-------------------------------- MODULE Mqtt --------------------------------
(***************************************************************************)
(* The MQTT client of the device (Device/src/Modem/MQTT/MQTT.cpp,          *)
(* RequestMQTT.cpp): a queue of requests, the request being executed and   *)
(* the flag that says whether the broker has accepted the connection.      *)
(*                                                                         *)
(* A request sends AT+CIPSEND, waits for ">", sends its packet and waits   *)
(* for the broker's confirmation; a Dumper counts the timeouts and asks    *)
(* for a modem reset when they are too many.                               *)
(***************************************************************************)
EXTENDS Chip

CONSTANTS
    MaxRequests,    \* Queue::MAX_REQUESTS
    Attempts        \* the Dumper's initial counter

ASSUME MqttAssumption ==
    MaxRequests \in Nat \ {0} /\ Attempts \in Nat \ {0}

VARIABLES
    is_connected, mqtt,     \* MQTT::is_connected, MQTT::state
    queue,                  \* types of the requests in Queue::requests
    current,                \* Queue::current
    reqLate,                \* the time set in RequestMQTT's meter is over
    nested,                 \* Queue::Append has been called inside MQTT::Update
                            \* with a full queue, see Enqueue
    mstate                  \* Modem::State::state, which Modem::Reset changes

mqttVars == <<is_connected, mqtt, queue, current, reqLate, nested>>

nullptr == [type |-> "none", state |-> "IDLE", counter |-> 0]

NewRequest(type) == [type |-> type, state |-> "IDLE", counter |-> Attempts]

MqttInit ==
    /\ is_connected = FALSE /\ mqtt = "IDLE"
    /\ queue = <<>> /\ current = nullptr
    /\ reqLate = FALSE /\ nested = FALSE

\* Modem::Reset only marks the modem for a restart by the next Modem::Update.
ModemReset == mstate' = "IDLE"

-----------------------------------------------------------------------------
(* Queue.  Append waits for room by calling Modem::Update in a loop.       *)

Full == Len(queue) = MaxRequests

\* Append(request), called by MQTT::Update.  With a full queue it would run
\* Modem::Update, hence MQTT::Update and the framer, inside themselves: the
\* model stops there and records it.
Enqueue(type) ==
    \/ Full /\ nested' = TRUE /\ queue' = queue
    \/ ~Full /\ nested' = nested /\ queue' = Append(queue, type)

-----------------------------------------------------------------------------
(* RequestMQTT::Update, for the current request.                           *)

\* Mutant: the counter is compared with >= 0.
DumpTooLate ==
    LET left == current.counter - 1 IN
    /\ \/ /\ left >= 0
          /\ current' = [current EXCEPT !.counter = left, !.state = "IDLE"]
          /\ UNCHANGED mstate
       \/ /\ left < 0
          /\ current' = [current EXCEPT !.counter = left]
          /\ ModemReset
    /\ UNCHANGED <<is_connected, mqtt, queue, reqLate, nested>>

\* Mutant: the request is rescheduled for ever.
DumpForever ==
    /\ current' = [current EXCEPT !.state = "IDLE"]
    /\ UNCHANGED <<is_connected, mqtt, queue, reqLate, nested, mstate>>

\* Dumper::Update: one timeout more; start the request again, or give up.
Dump ==
    LET left == current.counter - 1 IN
    /\ \/ /\ left > 0
          /\ current' = [current EXCEPT !.counter = left, !.state = "IDLE"]
          /\ UNCHANGED mstate
       \/ /\ left <= 0
          /\ current' = [current EXCEPT !.counter = left]
          /\ ModemReset
    /\ UNCHANGED <<is_connected, mqtt, queue, reqLate, nested>>

\* The answer by which ProcessAnswer of each kind of request knows success.
Confirms(answer) ==
    \/ current.type = "CONNECT" /\ answer = "MQTT OK"
    \/ current.type = "SUBSCRIBE" /\ answer = "SUBS OK"
    \/ current.type = "PUBLISH" /\ answer = "PUBLISH OK"

\* AT+CIPSEND
RequestStart ==
    /\ current.state = "IDLE"
    /\ current' = [current EXCEPT !.state = "NEED_SEND"]
    /\ reqLate' = FALSE
    /\ UNCHANGED <<is_connected, mqtt, queue, nested, mstate>>

RequestNeedSend(answer) ==
    /\ current.state = "NEED_SEND"
    /\ \/ reqLate /\ Dump
       \/ /\ ~reqLate /\ answer = ">"
          /\ current' = [current EXCEPT !.state = "WAIT_CONFIRM"]
          /\ reqLate' = FALSE
          /\ UNCHANGED <<is_connected, mqtt, queue, nested, mstate>>
       \/ /\ ~reqLate /\ answer # ">"
          /\ UNCHANGED <<mqttVars, mstate>>

\* Mutant: Callback::OnConnect does not subscribe.
OnConnectOnly == is_connected' = TRUE /\ UNCHANGED <<queue, nested>>

\* MQTT::Callback::OnConnect(true) and the MQTT::Send it calls
OnConnect == is_connected' = TRUE /\ Enqueue("SUBSCRIBE")

\* ProcessAnswer succeeded; MQTT::Update then deletes the finished request.
RequestFinish ==
    /\ \/ current.type = "CONNECT" /\ OnConnect
       \/ current.type # "CONNECT" /\ UNCHANGED <<is_connected, queue, nested>>
    /\ current' = nullptr
    /\ mqtt' = "IDLE"
    /\ UNCHANGED <<reqLate, mstate>>

RequestWaitConfirm(answer) ==
    /\ current.state = "WAIT_CONFIRM"
    /\ \/ reqLate /\ Dump
       \/ ~reqLate /\ Confirms(answer) /\ RequestFinish
       \/ ~reqLate /\ ~Confirms(answer) /\ UNCHANGED <<mqttVars, mstate>>

RequestUpdate(answer) ==
    RequestStart \/ RequestNeedSend(answer) \/ RequestWaitConfirm(answer)

-----------------------------------------------------------------------------
(* MQTT::Update                                                            *)

\* Not connected and nothing to do: queue a CONNECT, then take the oldest
\* request of the queue, which need not be that CONNECT.
MqttConnect ==
    /\ mqtt = "IDLE" /\ ~is_connected /\ current = nullptr
    /\ \/ /\ Full
          /\ nested' = TRUE
          /\ UNCHANGED <<queue, current>>
       \/ /\ ~Full
          /\ LET q == Append(queue, "CONNECT")
             IN  current' = NewRequest(Head(q)) /\ queue' = Tail(q)
          /\ UNCHANGED nested
    /\ UNCHANGED <<is_connected, mqtt, reqLate, mstate>>

MqttTake ==
    /\ mqtt = "IDLE" /\ (is_connected \/ current # nullptr)
    /\ \/ /\ current = nullptr /\ queue = <<>>
          /\ UNCHANGED <<mqtt, current, queue>>
       \/ /\ current = nullptr /\ queue # <<>>
          /\ current' = NewRequest(Head(queue))
          /\ queue' = Tail(queue)
          /\ mqtt' = "RUNNING"
       \/ /\ current # nullptr
          /\ mqtt' = "RUNNING"
          /\ UNCHANGED <<current, queue>>
    /\ UNCHANGED <<is_connected, reqLate, nested, mstate>>

MqttUpdate(answer) ==
    \/ MqttConnect
    \/ MqttTake
    \/ mqtt = "RUNNING" /\ RequestUpdate(answer)

\* The chip after what MqttUpdate(answer) transmits to it.
MqttTransmits(answer) ==
    IF mqtt = "RUNNING" /\ current.state = "IDLE"
    THEN HearCipsend(chip)
    ELSE IF mqtt = "RUNNING" /\ current.state = "NEED_SEND" /\ ~reqLate /\ answer = ">"
    THEN HearPayload(chip, current.type)
    ELSE chip

-----------------------------------------------------------------------------
(* MQTT::Reset, which Modem::Update calls when it restarts the modem.      *)

\* Mutant: is_connected survives the restart.
MqttResetKeepsConnected ==
    /\ mqtt' = "IDLE" /\ queue' = <<>> /\ current' = nullptr
    /\ UNCHANGED <<is_connected, reqLate, nested>>

\* Mutant: Queue::Clear does not empty the queue.
MqttResetKeepsQueue ==
    /\ is_connected' = FALSE /\ mqtt' = "IDLE" /\ current' = nullptr
    /\ UNCHANGED <<queue, reqLate, nested>>

\* Mutant: MQTT::state survives the restart.
MqttResetKeepsState ==
    /\ is_connected' = FALSE /\ queue' = <<>> /\ current' = nullptr
    /\ UNCHANGED <<mqtt, reqLate, nested>>

MqttReset ==
    /\ is_connected' = FALSE
    /\ mqtt' = "IDLE"
    /\ queue' = <<>>
    /\ current' = nullptr
    /\ UNCHANGED <<reqLate, nested>>

\* The response the framer recognised in a binary packet calls MQTT::Update
\* itself, whatever SIM868 is doing, or resets the modem.
PacketAnswer(packet) ==
    CASE packet = "CONNACK accepted" -> "MQTT OK"
      [] packet = "SUBACK"           -> "SUBS OK"
      [] packet = "PUBLISH packet"   -> "PUBLISH OK"

ResponseRun(packet) ==
    \/ /\ packet = "CONNACK refused"
       /\ ModemReset
       /\ UNCHANGED <<mqttVars, chip>>
    \/ /\ packet # "CONNACK refused"
       /\ MqttUpdate(PacketAnswer(packet))
       /\ chip' = MqttTransmits(PacketAnswer(packet))

\* The time set in the meter of RequestMQTT::Update is over.
RequestMeterRunsOut ==
    /\ current.state \in {"NEED_SEND", "WAIT_CONFIRM"}
    /\ reqLate' = TRUE
    /\ UNCHANGED <<is_connected, mqtt, queue, current, nested, mstate>>

-----------------------------------------------------------------------------
RequestStates == {"IDLE", "NEED_SEND", "WAIT_CONFIRM"}

\* Ranges of the client's state: the queue keeps within Queue::requests.
MqttTypeOK ==
    /\ is_connected \in BOOLEAN /\ mqtt \in {"IDLE", "RUNNING"}
    /\ queue \in Seq(Requests) /\ Len(queue) <= MaxRequests
    /\ current \in [type : Requests \cup {"none"}, state : RequestStates, counter : Int]
    /\ current.counter <= Attempts
    /\ reqLate \in BOOLEAN /\ nested \in BOOLEAN

=============================================================================
