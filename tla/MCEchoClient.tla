---------------------------- MODULE MCEchoClient ----------------------------
(* EchoClient for TLC: the in-tree build with IPv6 only, and both protocols.*)
EXTENDS EchoClient

CONSTANTS ipv4, ipv6

Ipv6Only == <<ipv6>>
BothProtos == <<ipv6, ipv4>>
=============================================================================
