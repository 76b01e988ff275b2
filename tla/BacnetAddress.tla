---------------------------- MODULE BacnetAddress ----------------------------
(***************************************************************************)
(* A BACNET_ADDRESS and the comparison the stack makes of two of them.     *)
(*                                                                         *)
(* The C structure has a station part (mac_len, mac[]), a network number   *)
(* and a remote part (len, adr[]).  A length together with the octets it   *)
(* covers is one value here: Nothing is the length 0.                      *)
(***************************************************************************)
EXTENDS Naturals

CONSTANTS
  Nothing,    \* an octet string of length 0
  IpPort,     \* the 6-octet strings "IPv4 address, UDP port"
  MstpMac,    \* the 1-octet MS/TP station addresses
  Network     \* network numbers behind a router, all above 0

ASSUME AddressAssumption ==
  /\ Network \subseteq (Nat \ {0})
  /\ Nothing \notin IpPort \cup MstpMac

Octets == {Nothing} \cup IpPort \cup MstpMac

Address == [mac : Octets, net : {0} \cup Network, adr : Octets]

(* What bip_receive leaves in src for a station on the IP network, after   *)
(* bacnet_receive_task has put back the source the NPDU did not name.      *)
BipSource(p) == [mac |-> Nothing, net |-> 0, adr |-> p]

(* What dlmstp_receive leaves in src for a station of the MS/TP segment.   *)
MstpSource(m) == [mac |-> m, net |-> 0, adr |-> Nothing]

(* An address behind a router on the IP network: SNET and SADR of the NPDU *)
(* overwrite the IP source.                                                *)
RoutedBipSource(n, a) == [mac |-> Nothing, net |-> n, adr |-> a]

(* The zeroed address a table of static storage starts with.               *)
ZeroAddress == [mac |-> Nothing, net |-> 0, adr |-> Nothing]

(* Variant: only the station part is compared.                             *)
bacnet_address_same_NoNet(a, b) == a.mac = b.mac

(* Station and network number are compared; the remote part only counts    *)
(* when the network number is not 0.                                       *)
bacnet_address_same(a, b) ==
  /\ a.mac = b.mac
  /\ a.net = b.net
  /\ a.net # 0 => a.adr = b.adr

(* bip_send_pdu refuses a destination whose len is not 6.                  *)
BipCanSend(dest) == dest.adr \in IpPort

=============================================================================
