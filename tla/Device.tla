------------------------------- MODULE Device -------------------------------
(***************************************************************************)
(* The device: the main loop (Device/src/Device.cpp) over Modem, Sim868    *)
(* and Mqtt, together with the chip, the network and the clock.            *)
(*                                                                         *)
(* Device::Update asks the server for the time once a second while the     *)
(* broker is connected: a PUBLISH request that Queue::Append holds, calling*)
(* Modem::Update, until the queue has room.                                *)
(***************************************************************************)
EXTENDS Modem

VARIABLE caller     \* who calls Modem::Update next:
                    \*   "device"  Device::Update, before its test of the meter
                    \*   "append"  Queue::Append, holding the PUBLISH request
                    \*   "update"  Device::Update, the request having been queued

vars == <<status, chip, rx, is_connected, mqtt, queue, current, reqLate, nested,
          mstate, sim, simLate, pwr, pwrkey, modemLate, pass, buf, misread, astray,
          caller>>

Init == ChipInit /\ MqttInit /\ SimInit /\ ModemInit /\ caller = "device"

-----------------------------------------------------------------------------
(* The processor.                                                          *)

\* Mutant: the test of MQTT::IsConnected is inverted.
GetTimeInverted ==
    /\ ~pass /\ caller = "device"
    /\ ~is_connected
    /\ caller' = "append"
    /\ UNCHANGED <<status, chip, rx, mqttVars, mstate, simVars, powerVars, passVars>>

\* The meter of Device::Update is over: MQTT::GET::Time calls MQTT::Send.
GetTime ==
    /\ ~pass /\ caller = "device"
    /\ is_connected
    /\ caller' = "append"
    /\ UNCHANGED <<status, chip, rx, mqttVars, mstate, simVars, powerVars, passVars>>

\* Mutant: Append does not wait for room.
AppendHeldAtOnce ==
    /\ ~pass /\ caller = "append"
    /\ queue' = Append(queue, "PUBLISH")
    /\ caller' = "update"
    /\ UNCHANGED <<is_connected, mqtt, current, reqLate, nested>>
    /\ UNCHANGED <<status, chip, rx, mstate, simVars, powerVars, passVars>>

\* Queue::Append finds room for the request it holds.
AppendHeld ==
    /\ ~pass /\ caller = "append" /\ ~Full
    /\ queue' = Append(queue, "PUBLISH")
    /\ caller' = "update"
    /\ UNCHANGED <<is_connected, mqtt, current, reqLate, nested>>
    /\ UNCHANGED <<status, chip, rx, mstate, simVars, powerVars, passVars>>

\* Modem::Update returns to Queue::Append or ends Device::Update.
Return == caller' = IF caller = "append" THEN "append" ELSE "device"

MayCallModem == pass \/ caller # "append" \/ Full

ModemUpdate ==
    /\ MayCallModem
    /\ \/ (PowerStep \/ PassEnds) /\ Return
       \/ (PassBegins \/ PassDelivers \/ PassMisreads) /\ UNCHANGED caller

DeviceUpdate == GetTime \/ AppendHeld \/ ModemUpdate

-----------------------------------------------------------------------------
(* The surroundings.                                                       *)

\* What the chip may say in a state of the dialog, to the last command and of
\* its own accord.
Says(state) ==
    CASE state = "WAIT_CIFSR"        -> {"IP address", "ERROR"}
      [] state = "WAIT_REGISTRATION" -> {"+CREG registered", "+CREG searching"}
      [] state = "WAIT_TCP_CONNECT"  -> {"OK", "CONNECT FAIL"}
      [] OTHER                       -> Accepts(state) \cup {"OK", "ERROR"}

ChipAnswers ==
    /\ status /\ sim \in DialogStates
    /\ \/ /\ \E token \in Says(sim) : Say(token)
          /\ UNCHANGED chip
       \/ /\ sim = "WAIT_TCP_CONNECT" /\ chip.link = "none"
          /\ Say("CONNECT OK")
          /\ chip' = [chip EXCEPT !.link = "open"]
       \/ /\ sim = "WAIT_TCP_CONNECT" /\ chip.link = "open"
          /\ Say("ALREADY CONNECT")
          /\ UNCHANGED chip
    /\ UNCHANGED status

\* The chip starts after its button has been pressed.
ChipStarts ==
    /\ ~status /\ pwr /\ mstate = "WAIT_5000_MS"
    /\ status' = TRUE
    /\ UNCHANGED <<chip, rx>>

ChipStep ==
    /\ \/ ChipPrompts \/ BrokerAnswers \/ LinkBreaks \/ ChipReportsLoss
       \/ ChipChatters \/ ChipDies \/ ChipAnswers \/ ChipStarts
    /\ UNCHANGED <<mqttVars, mstate, simVars, powerVars, passVars, caller>>

ClockStep ==
    \/ /\ RequestMeterRunsOut
       /\ UNCHANGED <<chipVars, simVars, powerVars, passVars, caller>>
    \/ /\ StateMeterRunsOut
       /\ UNCHANGED <<chipVars, mqttVars, mstate, powerVars, passVars, caller>>
    \/ /\ ModemMeterRunsOut
       /\ UNCHANGED <<chipVars, mqttVars, mstate, simVars, passVars, caller>>

Next == DeviceUpdate \/ ChipStep \/ ClockStep

Spec == Init /\ [][Next]_vars

-----------------------------------------------------------------------------
(* Properties.                                                             *)

\* Ranges of all variables; the queue never holds more than MAX_REQUESTS.
TypeOK ==
    /\ ChipTypeOK /\ MqttTypeOK /\ SimTypeOK /\ ModemTypeOK
    /\ caller \in {"device", "append", "update"}

\* MQTT::Update never calls Queue::Append with a full queue, unless it was
\* delivered confirmations that were never sent.  If it did, Append would call
\* Modem::Update from inside the framer and the current request, which a modem
\* reset would delete under their feet.
NoNestedAppend == nested => astray

\* In state RUNNING there is a request for MQTT::Update to dereference.
RunningHasRequest == mqtt = "RUNNING" => current.type # "none"

\* Answers left in the receive buffers by the session before a restart cannot
\* make the client believe in a connection: the framer passes packets to
\* MQTT::Update in every state of the dialog, but is_connected is set, and a
\* request waits for its confirmation, only in RUNNING_MQTT.
SessionOwned ==
    is_connected \/ current.state = "WAIT_CONFIRM" => sim = "RUNNING_MQTT"

\* While is_connected is set and no restart is due, the broker has answered the
\* CONNECT of this very connection, which was its first packet, unless the chip
\* has stopped: whatever answers were lost, the flag never survives from one
\* connection to the next, nor comes from a CONNACK of the one before.
ConnectedIsReal ==
    is_connected /\ mstate # "IDLE" /\ ~astray =>
        ~status \/ (chip.first = "CONNECT" /\ chip.link # "open")

\* On a live connection the subscription to the answers of the server is never
\* forgotten: its request is queued, under way, or has reached the broker.
SubscriptionPending ==
    is_connected /\ mstate # "IDLE" /\ ~astray /\ chip.link \in Alive =>
        \/ chip.link = "subscribed"
        \/ current.type = "SUBSCRIBE"
        \/ \E i \in 1..Len(queue) : queue[i] = "SUBSCRIBE"

\* A request whose Dumper has run out is never tried again: the restart of the
\* modem that deletes it is due.
ExhaustedMeansRestart ==
    current.type # "none" /\ current.counter <= 0 => mstate = "IDLE"

\* A restarted dialog meets a chip that has forgotten the session before: no
\* connection, not waiting for payload.  SIM868::Reset alone would send ATE0
\* into a chip in data mode; only the power cut of Modem::Update prevents it.
DialogStartsClean ==
    mstate = "HARDWARE_IS_OK" /\ sim \in {"START", "WAIT_ATE0", "WAIT_BAUDRADE"} =>
        chip.link = "none" /\ ~chip.data

-----------------------------------------------------------------------------
(* Liveness.  The main loop never stops; each meter runs out unless it is   *)
(* restarted; Device::Update finds its meter over at some visit, because    *)
(* nothing but GET::Time restarts it.  Nothing is assumed of the chip.      *)

FairSpec ==
    /\ Spec
    /\ WF_vars(DeviceUpdate)
    /\ SF_vars(GetTime)
    /\ WF_vars(ClockStep /\ RequestMeterRunsOut)
    /\ WF_vars(ClockStep /\ StateMeterRunsOut)
    /\ WF_vars(ClockStep /\ ModemMeterRunsOut)

\* A request is confirmed or given up: it never blocks the queue for ever.
RequestSettles == current.type # "none" ~> current.type = "none"

\* Queue::Append's loop ends: the main loop is never captured by it.
AppendReturns == caller = "append" ~> caller # "append"

\* A connection that is gone leads to a restart even if the chip never says so.
LossNoticed ==
    (sim = "RUNNING_MQTT" /\ chip.link \notin Alive) ~> mstate = "IDLE"

\* Whatever the chip does or fails to do, the device gets connected or starts
\* the modem again: no state of the power sequence or of the dialog is final.
NeverStuck == []<>(is_connected \/ mstate = "IDLE")

-----------------------------------------------------------------------------
(* What the documents say and the code does not do.                        *)

\* MQTT 5, 3.1: the first packet over a connection is CONNECT.
FirstPacketIsConnect == chip.first \in {"none", "CONNECT"}

=============================================================================
