----------------------------- MODULE MCDeepSleep -----------------------------
(***************************************************************************)
(* Small configurations for DeepSleep: addresses that fit, that fill a     *)
(* table exactly, that overflow it on the port and on the VLANs, VLANs     *)
(* that are down, and devices that are no VLAN of the port.                *)
(***************************************************************************)
EXTENDS DeepSleep

MCIP == 1..7
MCMAC == {"m0", "m1"}
MCVid == {0, 5, 6}

A(i) == [ip |-> i, flags |-> {}]
T(i) == [ip |-> i, flags |-> {"TEMPORARY"}]
P(i) == [ip |-> i, flags |-> {"PERMANENT"}]

Vlan(isup, v, four, six) ==
    [vlan |-> TRUE, up |-> isup, mac |-> "m1", vid |-> v, v4 |-> four, v6 |-> six]
Other(four, six) ==
    [vlan |-> FALSE, up |-> TRUE, mac |-> "m1", vid |-> 0, v4 |-> four, v6 |-> six]
Port(four, six, devs) ==
    [mac |-> "m0", v4 |-> four, v6 |-> six, devs |-> devs]

MCNets == {
    \* fits: both families, a VLAN, a VLAN that is down, another device
    Port(<<A(1)>>, <<A(2), T(1)>>,
         <<Other(<<A(7)>>, <<P(7)>>), Vlan(TRUE, 5, <<A(2)>>, <<P(3)>>),
           Vlan(FALSE, 6, <<A(6)>>, <<P(6)>>)>>),
    \* no address on the port, the VLANs fill the ARP table exactly
    Port(<<>>, <<>>,
         <<Vlan(TRUE, 5, <<A(3)>>, <<T(3), P(4)>>),
           Vlan(TRUE, 6, <<A(4)>>, <<P(5), T(5)>>)>>),
    \* the port alone overflows the tables
    Port(<<A(1), A(2), A(3)>>, <<T(1), P(2), P(4), P(5), T(7)>>,
         <<Vlan(TRUE, 5, <<A(4)>>, <<T(6), P(6)>>)>>),
    \* three VLANs with more addresses than slots
    Port(<<A(1)>>, <<P(1)>>,
         <<Vlan(TRUE, 5, <<A(2), A(3)>>, <<P(2), P(3), T(2)>>),
           Vlan(TRUE, 6, <<A(4), A(5)>>, <<T(4), P(5), T(5)>>),
           Vlan(TRUE, 5, <<A(6)>>, <<T(6), P(7)>>)>>),
    \* nothing at all
    Port(<<>>, <<>>, <<>>)}
=============================================================================
