---------------------------- MODULE MCCovNotify ----------------------------
(* Values of the constants of CovNotify for TLC.  The runs differ in the   *)
(* clients they let subscribe.                                             *)
EXTENDS CovNotify, TLC

CONSTANTS ip1, ip2, mac1, octets0, obj1, obj2, ai0, v0, v1, none

MCIpPort == {ip1, ip2}
MCMstpMac == {mac1}
MCNetwork == {5}
MCValue == {v0, v1}
OneValue == {v0}

OneObject == {obj1}
(* One IP client, two processes of which subscribe to one object.          *)
TwoPerObject == {<<BipSource(ip1), 1, obj1>>, <<BipSource(ip1), 2, obj1>>}

OneClient == {<<BipSource(ip1), 1, obj1>>}

TwoIpClients == {<<BipSource(ip1), 1, obj1>>, <<BipSource(ip2), 1, obj1>>}

MstpClient == {<<MstpSource(mac1), 1, obj1>>}

(* Two processes of an IP station share an address; a station behind a     *)
(* router has the process id of one of them.                               *)
SharedAddress ==
  {<<BipSource(ip1), 1, obj1>>, <<BipSource(ip1), 2, obj1>>,
   <<RoutedBipSource(5, mac1), 1, obj1>>}

MCLifetime == {0}
MCLifetimeOne == {0, 1}
=============================================================================
