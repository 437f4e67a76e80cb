-------------------------------- MODULE Modem --------------------------------
(***************************************************************************)
(* Modem::Update (common/Modem/Modem.cpp): the power-up sequence of the    *)
(* modem and, once the hardware runs, passes over the received data.       *)
(*                                                                         *)
(* Here the receive buffers hold whole answers and packets.  RxBuffers     *)
(* shows that bytes get there in order and are lost only by overflow,      *)
(* Framer that what is made of them keeps its order as long as no payload  *)
(* is cut by the end of a pass.  After an overflow or a cut anything may   *)
(* be made of them: an answer nothing compares with, nothing, or another   *)
(* answer or packet (PassMisreads).                                        *)
(***************************************************************************)
EXTENDS Sim868

CONSTANT MaxMisread     \* bound on the answers and packets that were never sent

ASSUME ModemAssumption == MaxMisread \in Nat

VARIABLES
    pwr,            \* the modem is powered (GSM_PWR is 0)
    pwrkey,         \* level of GSM_PWRKEY; 0 is a pressed button
    modemLate,      \* the meter of Modem::Update has passed the state's limit
    pass,           \* InData::Update is inside its do-while loop
    buf,            \* InData::buffer: answers this pass has still to deliver
    misread,        \* answers and packets delivered that were never sent
    astray          \* observer: what is delivered is not what this session sent,
                    \* see PassMisreads and PassBegins

passVars == <<pass, buf, misread, astray>>
powerVars == <<pwr, pwrkey, modemLate>>

ModemStates == {"IDLE", "WAIT_DISCHARGE_CAPS", "WAIT_HI_GSM_PG", "WAIT_500_MS",
                "WAIT_1250_MS", "WAIT_5000_MS", "HARDWARE_IS_OK"}

\* Modem::Init
ModemInit ==
    /\ mstate = "IDLE"
    /\ pwr = FALSE /\ pwrkey = 0 /\ modemLate = FALSE
    /\ pass = FALSE /\ buf = <<>> /\ misread = 0 /\ astray = FALSE

-----------------------------------------------------------------------------
(* The power-up sequence: one call of Modem::Update each.                  *)

\* Mutant: the supply is left on while the capacitors should discharge.
PowerIdleKeepsSupply ==
    /\ mstate = "IDLE"
    /\ SimReset
    /\ MqttReset
    /\ mstate' = "WAIT_DISCHARGE_CAPS"
    /\ modemLate' = FALSE
    /\ UNCHANGED <<pwr, pwrkey, status, chip>>

\* The chip loses power, and with it the connection.
PowerIdle ==
    /\ mstate = "IDLE"
    /\ SimReset
    /\ MqttReset
    /\ pwr' = FALSE
    /\ mstate' = "WAIT_DISCHARGE_CAPS"
    /\ modemLate' = FALSE
    /\ status' = FALSE /\ chip' = ChipOff
    /\ UNCHANGED pwrkey

WaitDischargeCaps ==
    /\ mstate = "WAIT_DISCHARGE_CAPS"
    /\ \/ /\ modemLate
          /\ pwr' = TRUE
          /\ mstate' = "WAIT_HI_GSM_PG"
          /\ modemLate' = FALSE
       \/ ~modemLate /\ UNCHANGED <<pwr, mstate, modemLate>>
    /\ UNCHANGED <<pwrkey, simVars, mqttVars, status, chip>>

\* GSM_PG is read once per call; a 1 restarts the meter before it is tested.
WaitHiGsmPg ==
    /\ mstate = "WAIT_HI_GSM_PG"
    /\ \/ mstate' = "WAIT_500_MS" /\ modemLate' = FALSE
       \/ modemLate /\ mstate' = "IDLE" /\ UNCHANGED modemLate
       \/ ~modemLate /\ UNCHANGED <<mstate, modemLate>>
    /\ UNCHANGED <<pwr, pwrkey, simVars, mqttVars, status, chip>>

Wait500Ms ==
    /\ mstate = "WAIT_500_MS"
    /\ \/ /\ modemLate
          /\ pwrkey' = 0
          /\ mstate' = "WAIT_1250_MS"
          /\ modemLate' = FALSE
       \/ ~modemLate /\ UNCHANGED <<pwrkey, mstate, modemLate>>
    /\ UNCHANGED <<pwr, simVars, mqttVars, status, chip>>

Wait1250Ms ==
    /\ mstate = "WAIT_1250_MS"
    /\ \/ /\ modemLate
          /\ pwrkey' = 1
          /\ mstate' = "WAIT_5000_MS"
          /\ modemLate' = FALSE
       \/ ~modemLate /\ UNCHANGED <<pwrkey, mstate, modemLate>>
    /\ UNCHANGED <<pwr, simVars, mqttVars, status, chip>>

Wait5000Ms ==
    /\ mstate = "WAIT_5000_MS"
    /\ \/ status /\ mstate' = "HARDWARE_IS_OK" /\ modemLate' = FALSE
       \/ ~status /\ modemLate /\ mstate' = "IDLE" /\ UNCHANGED modemLate
       \/ ~status /\ ~modemLate /\ UNCHANGED <<mstate, modemLate>>
    /\ UNCHANGED <<pwr, pwrkey, simVars, mqttVars, status, chip>>

PowerStep ==
    /\ ~pass
    /\ \/ PowerIdle \/ WaitDischargeCaps \/ WaitHiGsmPg
       \/ Wait500Ms \/ Wait1250Ms \/ Wait5000Ms
    /\ UNCHANGED <<passVars, rx>>

-----------------------------------------------------------------------------
(* InData::Update: a pass over the received answers.                       *)

\* Answers that bring the dialog from its start to the point where the broker
\* has accepted the client: 16 or 18 states, ">" and the acceptance.
FarthestStep == IF HomeVersion THEN 19 ELSE 21

\* What the UART has received is taken over under main.mutex.  When a dialog
\* starts it may find more answers of the session before than it will wait for.
PassBegins ==
    /\ ~pass /\ mstate = "HARDWARE_IS_OK" /\ rx # <<>>
    /\ pass' = TRUE
    /\ buf' = rx /\ rx' = <<>>
    /\ astray' = (astray \/ (sim = "START" /\ Len(rx) > FarthestStep))
    /\ UNCHANGED <<misread, status, chip, mstate, simVars, mqttVars, powerVars>>

\* An answer calls SIM868::Update, a packet Response::Run.
Deliver(token) ==
    \/ token \in Answers /\ SimUpdate(token)
    \/ token \in Packets /\ ResponseRun(token) /\ UNCHANGED simVars

\* The do-while loop goes on through every complete answer, even after one of
\* them has called Modem::Reset.  Garbled, the answer is one that nothing
\* compares with, or is swallowed as a part of a payload.
PassDelivers ==
    /\ pass /\ buf # <<>>
    /\ \/ Deliver(Head(buf))
       \/ SimUpdate("")
       \/ UNCHANGED <<simVars, mqttVars, mstate, chip>>
    /\ buf' = Tail(buf)
    /\ UNCHANGED <<pass, misread, astray, rx, status, powerVars>>

\* After an overflow, or after the end of a pass has cut a payload, whose bytes
\* are then fed to PBD again, the bytes form an answer or a packet that was
\* never sent.
PassMisreads ==
    /\ pass /\ misread < MaxMisread
    /\ \E token \in Tokens : Deliver(token)
    /\ misread' = misread + 1 /\ astray' = TRUE
    /\ UNCHANGED <<pass, buf, rx, status, powerVars>>

\* No complete answer, or none left: SIM868::Update("") ends the call.
PassEnds ==
    /\ \/ pass /\ buf = <<>>
       \/ ~pass /\ mstate = "HARDWARE_IS_OK" /\ rx = <<>>
    /\ SimUpdate("")
    /\ pass' = FALSE
    /\ UNCHANGED <<buf, misread, astray, rx, status, powerVars>>

\* The meter of Modem::Update passes the limit of the state.
ModemMeterRunsOut ==
    /\ mstate \notin {"IDLE", "HARDWARE_IS_OK"}
    /\ modemLate' = TRUE
    /\ UNCHANGED <<pwr, pwrkey>>

-----------------------------------------------------------------------------
\* Ranges of the power sequence's state, its pins and the pass.
ModemTypeOK ==
    /\ mstate \in ModemStates
    /\ pwr \in BOOLEAN /\ pwrkey \in {0, 1} /\ modemLate \in BOOLEAN
    /\ pass \in BOOLEAN /\ buf \in Seq(Tokens)
    /\ misread \in 0 .. MaxMisread /\ astray \in BOOLEAN

=============================================================================
