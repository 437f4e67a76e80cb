------------------------------ MODULE MCFramer ------------------------------
(* Framer for TLC: lines, a prompt and the packets of a broker, as bytes.   *)
EXTENDS Framer

OK      == Line(<<79, 75>>)
Creg    == Line(<<43, 67, 58, 32, 48, 44, 49>>)     \* "+C: 0,1"

Connack == <<32, 3, 0, 0, 0>>
Suback  == <<144, 4, 0, 1, 0, 0>>
Publish == <<48, 4, 0, 1, 13, 0>>       \* its topic is a carriage return
Pingresp == <<208, 0>>

Packet(p, call) == Binary(p, <<Event(call, p)>>)

\* A packet in two segments of the TCP connection.
FirstHalf  == Binary(<<32, 3, 0>>, <<>>)
SecondHalf == [Binary(<<0, 0>>, <<Event("MQTT OK", Connack)>>) EXCEPT !.continues = TRUE]

\* A header whose number is no length: too large for an unsigned long, "99", or
\* below zero, " -9", as it may be put together when bytes behind "+IPD," are lost.
DamagedHeader(number) ==
    [Line(<<43, 73, 80, 68, 44>> \o number \o <<58>>) EXCEPT !.events = <<>>]
DamagedHeaders == {DamagedHeader(<<57, 57>>), DamagedHeader(<<32, 45, 57>>)}

Texts   == {OK, Prompt}
Packets == {Packet(Connack, "MQTT OK"), Packet(Publish, "PUBLISH OK"),
            Packet(Pingresp, "unknown"),
            Binary(Pingresp \o Suback, <<Event("unknown", Pingresp), Event("SUBS OK", Suback)>>)}

\* A packet between two texts, a packet in two segments, a packet right after
\* another, which is where the framer removes the wrong bytes, a damaged header.
MCScripts ==
    {<<OK, p, t>> : p \in Packets, t \in Texts}
    \cup {<<Creg, OK>>} \cup {<<h, OK>> : h \in DamagedHeaders}
    \cup {<<FirstHalf, OK, SecondHalf, Prompt>>}
    \cup {<<Packet(Pingresp, "unknown"), Packet(Pingresp, "unknown"), OK>>,
          <<Packet(Connack, "MQTT OK"), Packet(Pingresp, "unknown"), OK>>}

UnknownScripts == {<<Packet(Pingresp, "unknown"), OK>>}

\* The broker refuses the subscription (0x87, not authorized).
SubackRefused == <<144, 4, 0, 1, 0, 135>>
RefusedScripts == {<<Packet(SubackRefused, "FALSE"), OK>>}
=============================================================================
