---------------------------- MODULE MCWakeupRules ----------------------------
(***************************************************************************)
(* A small instance of WakeupRules: more rules than slots in every table,  *)
(* a UDP rule and a protocol name that look like a free slot, two names of *)
(* one protocol and a name of none.                                        *)
(***************************************************************************)
EXTENDS WakeupRules

R(s, d, m) == [src_port |-> s, dst_port |-> d,
               src_port_mask |-> m, dst_port_mask |-> m]

\* The last rule leaves both ports open.
MCUdpRule == {R(53, 0, 65535), R(53, 0, 255), R(0, 67, 65535), R(0, 0, 1)}
MCTcpRule == {R(22, 0, 65535), R(22, 0, 255), R(0, 80, 65535)}

\* Three rows of prot_info, in its order.
MCprot_info == [r \in 0..2 |-> r]
MCProtName == {"HOPOPT", "IGMP", "I", "none"}
MCNameRows == [n \in MCProtName |-> CASE n = "HOPOPT" -> {0}
                                      [] n = "IGMP" -> {2}
                                      [] n = "I" -> {1, 2}
                                      [] n = "none" -> {}]
=============================================================================
