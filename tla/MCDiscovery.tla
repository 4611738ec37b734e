---------------------------- MODULE MCDiscovery ----------------------------
(* Instances of Discovery for TLC: two hosts, the network between them     *)
(* passing the broadcasts of one only.  A tick is two seconds.             *)
EXTENDS Discovery, TLC

CONSTANTS ana, luis

OneWay   == {<<ana, luis>>}
OtherWay == {<<luis, ana>>}
=============================================================================
