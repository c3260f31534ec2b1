-------------------------- MODULE MCNetworkInterface --------------------------
(* Three hosts, of which two send to each other.                          *)
EXTENDS NetworkInterfaceSpec, TLC

CONSTANTS a, b, c

MCHost      == {a, b, c}
MCEthernet  == (MCHost \X BOOLEAN) \cup {ETHERNET_BROADCAST, NoEthernet}
MCEthernetOf(h, isReplaced) == <<h, isReplaced>>
MCMaxDatagrams(h) == IF h = a THEN 2 ELSE 1
=============================================================================
