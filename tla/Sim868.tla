------------------------------- MODULE Sim868 -------------------------------
(***************************************************************************)
(* The dialog with the SIM868 chip (Device/src/Modem/SIM868.cpp): a chain  *)
(* of AT commands up to an open TCP connection, then the MQTT client.      *)
(* SIM868::Update is called with one line of text, or with "" when there   *)
(* is none.  (need_reset is never set in the code and levelSignal is only  *)
(* displayed: both are left out.)                                          *)
(***************************************************************************)
EXTENDS Mqtt

CONSTANT HomeVersion        \* HOME_VERSION is defined (common_defines.h)

ASSUME HomeVersionAssumption == HomeVersion \in BOOLEAN

VARIABLES
    sim,            \* SIM868::state
    simLate         \* state_meter has passed the limit of this state

simVars == <<sim, simLate>>

DialogStates ==
    {"WAIT_ATE0", "WAIT_BAUDRADE", "WAIT_GSMBUSY", "WAIT_CREG_INIT",
     "WAIT_REGISTRATION", "WAIT_IP_INITIAL", "WAIT_CSTT", "WAIT_IP_START",
     "WAIT_CIICR", "WAIT_IP_GPRSACT", "WAIT_CIFSR", "WAIT_IP_STATUS",
     "WAIT_TCP_CONNECT", "WAIT_CIPHEAD", "WAIT_CGNSPWR", "WAIT_CGNSURC"}

States == {"START", "RUNNING_MQTT"} \cup DialogStates

SimInit == sim = "START" /\ simLate = FALSE

\* The answers that complete a state of the dialog.  WAIT_CIFSR tests for
\* anything but "OK", which includes the call without a line.
Accepts(state) ==
    CASE state = "WAIT_BAUDRADE"     -> {"RDY"}
      [] state = "WAIT_REGISTRATION" -> {"+CREG registered"}
      [] state = "WAIT_IP_INITIAL"   -> {"IP INITIAL"}
      [] state = "WAIT_IP_START"     -> {"IP START"}
      [] state = "WAIT_IP_GPRSACT"   -> {"IP GPRSACT"}
      [] state = "WAIT_CIFSR"        -> Answers \ {"OK"}
      [] state = "WAIT_IP_STATUS"    -> {"IP STATUS"}
      [] state = "WAIT_TCP_CONNECT"  -> {"CONNECT OK", "ALREADY CONNECT"}
      [] OTHER                       -> {"OK"}

\* The state entered, and the command sent, when a state is completed.
Following(state) ==
    CASE state = "WAIT_ATE0"         -> "WAIT_BAUDRADE"
      [] state = "WAIT_BAUDRADE"     -> "WAIT_GSMBUSY"
      [] state = "WAIT_GSMBUSY"      -> "WAIT_CREG_INIT"
      [] state = "WAIT_CREG_INIT"    -> "WAIT_REGISTRATION"
      [] state = "WAIT_REGISTRATION" -> "WAIT_IP_INITIAL"
      [] state = "WAIT_IP_INITIAL"   -> "WAIT_CSTT"
      [] state = "WAIT_CSTT"         -> "WAIT_IP_START"
      [] state = "WAIT_IP_START"     -> "WAIT_CIICR"
      [] state = "WAIT_CIICR"        -> "WAIT_IP_GPRSACT"
      [] state = "WAIT_IP_GPRSACT"   -> "WAIT_CIFSR"
      [] state = "WAIT_CIFSR"        -> "WAIT_IP_STATUS"
      [] state = "WAIT_IP_STATUS"    -> "WAIT_TCP_CONNECT"
      [] state = "WAIT_TCP_CONNECT"  -> "WAIT_CIPHEAD"
      [] state = "WAIT_CIPHEAD"      -> IF HomeVersion THEN "RUNNING_MQTT" ELSE "WAIT_CGNSPWR"
      [] state = "WAIT_CGNSPWR"      -> "WAIT_CGNSURC"
      [] state = "WAIT_CGNSURC"      -> "RUNNING_MQTT"

\* States that are completed without a command.
Silent == {"WAIT_CREG_INIT", "WAIT_CGNSURC"}

\* The chip after the command sent on completing a state.
Commanded(state) == IF state \in Silent THEN chip ELSE HearCommand(chip)

SimReset == sim' = "START" /\ UNCHANGED simLate

-----------------------------------------------------------------------------
(* SIM868::Update(answer)                                                  *)

Ignored == {"ERROR", "SEND OK", "+CSQ"}
Fatal   == {"CLOSED", "SEND FAIL"}

\* ProcessUnsolicited returns true: SIM868::Update does nothing else.
Unsolicited(answer) ==
    /\ \/ answer \in Ignored /\ UNCHANGED mstate
       \/ answer \in Fatal /\ ModemReset
    /\ UNCHANGED <<simVars, mqttVars, chip>>

\* ATE0 is sent and its answer awaited.
SimStart ==
    /\ sim = "START"
    /\ sim' = "WAIT_ATE0"
    /\ simLate' = FALSE
    /\ chip' = HearCommand(chip)
    /\ UNCHANGED <<mqttVars, mstate>>

MeterIsRunning == ~simLate

\* Mutant: MeterIsRunning does not reset the modem.
SimDialogNoTimeout(answer) ==
    /\ sim \in DialogStates
    /\ MeterIsRunning /\ answer \in Accepts(sim)
    /\ sim' = Following(sim)
    /\ simLate' = FALSE
    /\ chip' = Commanded(sim)
    /\ UNCHANGED <<mqttVars, mstate>>

SimDialog(answer) ==
    /\ sim \in DialogStates
    /\ \/ /\ ~MeterIsRunning
          /\ ModemReset
          /\ UNCHANGED <<simVars, chip>>
       \/ /\ MeterIsRunning /\ answer \in Accepts(sim)
          /\ sim' = Following(sim)
          /\ simLate' = FALSE
          /\ chip' = Commanded(sim)
          /\ UNCHANGED mstate
       \/ /\ MeterIsRunning /\ sim = "WAIT_TCP_CONNECT" /\ answer = "CONNECT FAIL"
          /\ ModemReset
          /\ UNCHANGED <<simVars, chip>>
       \/ /\ MeterIsRunning /\ answer \notin Accepts(sim)
          /\ ~(sim = "WAIT_TCP_CONNECT" /\ answer = "CONNECT FAIL")
          /\ UNCHANGED <<simVars, mstate, chip>>
    /\ UNCHANGED mqttVars

\* The MQTT client runs; every 5 seconds AT+CSQ is sent as well, whatever the
\* client has just transmitted.
SimRunning(answer) ==
    /\ sim = "RUNNING_MQTT"
    /\ MqttUpdate(answer)
    /\ \/ chip' = MqttTransmits(answer)
       \/ chip' = HearCommand(MqttTransmits(answer))
    /\ UNCHANGED simVars

SimUpdate(answer) ==
    \/ Unsolicited(answer)
    \/ /\ answer \notin Ignored \cup Fatal
       /\ SimStart \/ SimDialog(answer) \/ SimRunning(answer)

\* state_meter passes the limit of the state.
StateMeterRunsOut ==
    /\ sim \in DialogStates
    /\ simLate' = TRUE
    /\ UNCHANGED sim

-----------------------------------------------------------------------------
\* Ranges of the dialog's state.
SimTypeOK == sim \in States /\ simLate \in BOOLEAN

=============================================================================
