------------------------------- MODULE MCRouter -------------------------------
(* A router with two interfaces and addresses of two bits.                   *)
EXTENDS RouterSpec

MCIp           == [1 .. 2 -> {0, 1}]
MCNoIp         == <<0, 0>>
MCEthernet     == MCIp \cup {ETHERNET_BROADCAST}
MCEthernetOf(ip) == ip
MCInterfaceIps == << <<0, 0>>, <<1, 1>> >>
MCNeighbours   == << {<<0, 1>>}, {<<1, 0>>} >>
MCGateways     == << {}, {<<1, 0>>} >>
MCDestinations == {<<0, 1>>, <<1, 0>>}
=============================================================================
