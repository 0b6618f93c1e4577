---------------------------- MODULE MCWakeupTool ----------------------------
(***************************************************************************)
(* WakeupTool on every file of up to MaxLines lines, of three section      *)
(* heads, a comment, the names of a protocol and of none, port rules, one  *)
(* of which looks like a free slot, and a line that cannot be scanned.     *)
(***************************************************************************)
EXTENDS WakeupTool, SequencesExt

CONSTANT MaxLines

R(s, d) == [src_port |-> s, dst_port |-> d,
            src_port_mask |-> 65535, dst_port_mask |-> 65535]
MCRule == {R(1, 2), R(1, 0), R(0, 0)}
MCprot_info == [r \in 0..2 |-> r]
MCProtName == {"HOPOPT", "IGMP", "none"}
MCNameRows == [n \in MCProtName |-> CASE n = "HOPOPT" -> {0}
                                      [] n = "IGMP" -> {2}
                                      [] n = "none" -> {}]

H(p) == [kind |-> p]
T(n, e) == [kind |-> "text", name |-> n, reads |-> e]
MCLine == {H("UDP"), H("TCP"), H("IP_PROT"), H("comment"),
           T("IGMP", MCRule), T("HOPOPT", {R(0, 0)}),
           T("none", {R(1, 2)}), T("none", {R(1, 0)})}
MCFiles == SeqOf(MCLine, MaxLines)
=============================================================================
