----------------------------- MODULE WakeupRules -----------------------------
(***************************************************************************)
(* The wake-up rule database of the kernel module: the UDP, TCP and IP     *)
(* protocol filter tables of arctrl_wakeup.c and the ioctl that fills them *)
(* (arctrl_wakeuptool.c).  The tables and their sizes are what the deep    *)
(* sleep handler passes to the frame manager (FMan).                       *)
(*                                                                         *)
(* One ioctl is one step: /dev/ar_wakeup_dev admits one open file and its  *)
(* only client, ar_wakeup_tool, has one thread.                            *)
(***************************************************************************)
EXTENDS Integers, FiniteSetsExt

CONSTANTS
    UdpRule,     \* the UDP rules a client may send, records of PortEntry
    TcpRule,     \* the TCP rules a client may send
    ProtName,    \* the protocol names a client may send
    prot_info,   \* the protocol codes of the rows of prot_info, in row order
    NameRows,    \* NameRows[n]: the rows whose prot_name begins with n
    udptblsize,  \* slots FMan has for UDP rules,
    tcptblsize,  \* ... for TCP rules,
    iptblsize,   \* ... and for IP protocols
    MaxSize      \* bound of the model on the table_size counters

Byte == 0..255
Port == 0..65535

\* struct auto_res_port_filtering_entry
PortEntry == [src_port: Port, dst_port: Port,
              src_port_mask: Port, dst_port_mask: Port]

\* A slot as kzalloc leaves it.
ZeroEntry == [src_port |-> 0, dst_port |-> 0,
              src_port_mask |-> 0, dst_port_mask |-> 0]

PortProt == {"UDP", "TCP"}
Prot == PortProt \cup {"IP_PROT"}

ASSUME RuleAssumption ==
    /\ UdpRule \subseteq PortEntry
    /\ TcpRule \subseteq PortEntry
    /\ \A r \in DOMAIN prot_info : r \in Nat /\ prot_info[r] \in Byte
    /\ \A n \in ProtName : NameRows[n] \subseteq DOMAIN prot_info
ASSUME SizeAssumption ==
    /\ udptblsize \in Nat
    /\ tcptblsize \in Nat
    /\ iptblsize \in Nat
    /\ MaxSize \in Nat

VARIABLES
    tbl,         \* tbl[p]: ar_wakeup_udp_entity, _tcp_entity, _ip_prot_tbl
    table_size,  \* table_size[p]: the *_table_size fields of ar_wakeup_db
    reply        \* the last ioctl: its protocol, its rule and what it returned

vars == <<tbl, table_size, reply>>

TblSize == [p \in Prot |-> CASE p = "UDP" -> udptblsize
                             [] p = "TCP" -> tcptblsize
                             [] p = "IP_PROT" -> iptblsize]
Slot(p) == 0..(TblSize[p] - 1)
Entry(p) == IF p = "IP_PROT" THEN Byte ELSE PortEntry
Zero(p) == IF p = "IP_PROT" THEN 0 ELSE ZeroEntry

-----------------------------------------------------------------------------
(* Lookups                                                                 *)

\* The test ar_wakeup_get_free_index makes of a slot: a rule whose two ports
\* are 0, and the protocol code 0 (HOPOPT), look like a free slot.
IsFree(p, e) == IF p = "IP_PROT" THEN e = 0
                                 ELSE e.src_port = 0 /\ e.dst_port = 0

Occupied(p) == {i \in Slot(p) : ~IsFree(p, tbl[p][i])}

\* Mutants: the search stops one slot early; a full table yields slot 0.
FreeIndexOffByOne(p) ==
    LET free == {i \in Slot(p) \ Occupied(p) : i < TblSize[p] - 1}
    IN  IF free = {} THEN -1 ELSE Min(free)

FreeIndexNeverFull(p) ==
    LET free == Slot(p) \ Occupied(p)
    IN  IF free = {} THEN 0 ELSE Min(free)

\* The first slot that looks free, or -1.
ar_wakeup_get_free_index(p) ==
    LET free == Slot(p) \ Occupied(p)
    IN  IF free = {} THEN -1 ELSE Min(free)

\* Mutant: the search misses the last counted slot.
GetIndexOffByOne(p, e) ==
    LET hits == {i \in Slot(p) : i < table_size[p] - 1 /\ tbl[p][i] = e}
    IN  IF hits # {} THEN {Min(hits)}
                     ELSE {-1} \cup (TblSize[p]..(table_size[p] - 1))

\* What the search of the first table_size slots may return.  Beyond the
\* allocated slots it reads memory that is not the table's, where it may
\* find anything, an equal entry included.
ar_wakeup_get_index(p, e) ==
    LET hits == {i \in Slot(p) : i < table_size[p] /\ tbl[p][i] = e}
    IN  IF hits # {} THEN {Min(hits)}
                     ELSE {-1} \cup (TblSize[p]..(table_size[p] - 1))

\* Mutant: the -1 is not cut to a uint8_t, yet still stored.
ProtCodeUncut(n) ==
    IF NameRows[n] = {} THEN -1 ELSE prot_info[Min(NameRows[n])]

\* The code of the first row the name is a prefix of.  Without one the
\* function returns -1 as a uint8_t, and no caller's test "< 0" sees it.
ar_wakeup_get_prot_code(n) ==
    IF NameRows[n] = {} THEN 255 ELSE prot_info[Min(NameRows[n])]

-----------------------------------------------------------------------------
(* The ioctl                                                               *)

Reply(p, e, r) == reply' = [prot |-> p, rule |-> e, ret |-> r]

Refuse(r) ==
    /\ Reply(reply.prot, reply.rule, r)
    /\ UNCHANGED <<tbl, table_size>>

\* The assignments into the slot found.  A slot "found" beyond the table
\* already reads as e, so writing e there changes nothing.
Put(p, i, e) == IF i \in Slot(p) THEN [tbl EXCEPT ![p][i] = e] ELSE tbl

\* Mutant: a new rule is not counted.
CountMissing(p) == table_size

Counted(p) == [table_size EXCEPT ![p] = @ + 1]

\* ar_wakeup_recv_config for one table: rewrite the entry if it is there,
\* else take the first free slot and count it, else the table is full.
Rewrite(p, e) ==
    \E i \in ar_wakeup_get_index(p, e) \ {-1} :
        /\ tbl' = Put(p, i, e)
        /\ Reply(p, e, "AR_SUCCESS")
        /\ UNCHANGED table_size

AddRule(p, e) ==
    /\ -1 \in ar_wakeup_get_index(p, e)
    /\ ar_wakeup_get_free_index(p) # -1
    /\ table_size[p] < MaxSize
    /\ tbl' = Put(p, ar_wakeup_get_free_index(p), e)
    /\ table_size' = Counted(p)
    /\ Reply(p, e, "AR_SUCCESS")

\* Mutant: a rule that found no slot is counted.
NoSpaceCounts(p, e, ret) ==
    /\ -1 \in ar_wakeup_get_index(p, e)
    /\ ar_wakeup_get_free_index(p) = -1
    /\ Reply(p, e, ret)
    /\ table_size' = Counted(p)
    /\ UNCHANGED tbl

NoSpace(p, e, ret) ==
    /\ -1 \in ar_wakeup_get_index(p, e)
    /\ ar_wakeup_get_free_index(p) = -1
    /\ Reply(p, e, ret)
    /\ UNCHANGED <<tbl, table_size>>

\* Mutant: a full table is only logged, as it is for IP protocols.
PortRuleSilent(p, e) ==
    \/ Rewrite(p, e)
    \/ AddRule(p, e)
    \/ NoSpace(p, e, "AR_SUCCESS")

\* CONFIG_WAKEUP_UDP_RULE and CONFIG_WAKEUP_TCP_RULE.
PortRule(p, e) ==
    \/ Rewrite(p, e)
    \/ AddRule(p, e)
    \/ NoSpace(p, e, "-1")

\* CONFIG_WAKEUP_IP_PROTO: a full table is only logged, the call succeeds.
IpProto(n) ==
    LET e == ar_wakeup_get_prot_code(n)
    IN  \/ Rewrite("IP_PROT", e)
        \/ AddRule("IP_PROT", e)
        \/ NoSpace("IP_PROT", e, "AR_SUCCESS")

\* What the ioctl refuses before it reaches the database: no memory for the
\* protocol name, an argument it cannot read, an unknown command.
BadIoctl ==
    \/ Refuse("AR_MEMORY_UNAVALABLE_ERROR")
    \/ Refuse("EFAULT")
    \/ Refuse("EBADRQC")

\* ar_wakeup_init_db: zeroed tables of the sizes FMan reports.
Init ==
    /\ tbl = [p \in Prot |-> [i \in Slot(p) |-> Zero(p)]]
    /\ table_size = [p \in Prot |-> 0]
    /\ reply = [prot |-> "UDP", rule |-> ZeroEntry, ret |-> "none"]

Next ==
    \/ \E e \in UdpRule : PortRule("UDP", e)
    \/ \E e \in TcpRule : PortRule("TCP", e)
    \/ \E n \in ProtName : IpProto(n)
    \/ BadIoctl

Spec == Init /\ [][Next]_vars

-----------------------------------------------------------------------------
(* Properties                                                              *)

Answer == {"none", "AR_SUCCESS", "-1", "AR_MEMORY_UNAVALABLE_ERROR",
           "EFAULT", "EBADRQC"}

\* The state has its type: every table keeps its allocated slots, each with
\* an entry of its kind, and the counters are natural numbers.
TypeOK ==
    /\ DOMAIN tbl = Prot
    /\ \A p \in Prot : tbl[p] \in [Slot(p) -> Entry(p)]
    /\ table_size \in [Prot -> Nat]
    /\ reply.prot \in Prot
    /\ reply.rule \in Entry(reply.prot)
    /\ reply.ret \in Answer

\* Every rule in a table lies among the first table_size slots, with no
\* unused slot before it: the search of ar_wakeup_get_index and FMan, which
\* both look at the first table_size slots only, miss no rule.
RulesAnnounced ==
    \A p \in Prot : \A i \in Occupied(p) :
        /\ i < table_size[p]
        /\ \A j \in 0..i : j \in Occupied(p)

\* No rule is held twice: a repeated configuration call finds the slot the
\* rule is in and takes no second one.
NoDuplicateRules ==
    \A p \in Prot : \A i, j \in Occupied(p) :
        tbl[p][i] = tbl[p][j] => i = j

\* The entries a client can have the module store in table p.
Sendable(p) == CASE p = "UDP" -> UdpRule
                 [] p = "TCP" -> TcpRule
                 [] p = "IP_PROT" ->
                        {ar_wakeup_get_prot_code(n) : n \in ProtName}

\* While no client sends a rule that looks like a free slot (both ports 0,
\* or a name of protocol 0), table_size counts exactly the rules stored, so
\* it never exceeds the table and FMan is given no unused slot.
CountExact ==
    \A p \in Prot :
        (\A e \in Sendable(p) : ~IsFree(p, e)) =>
            /\ table_size[p] =< TblSize[p]
            /\ Occupied(p) = 0..(table_size[p] - 1)

\* The rule of the last ioctl is in one of the slots FMan is given.
RuleInForce ==
    \E i \in Slot(reply.prot) : /\ i < table_size[reply.prot]
                                /\ tbl[reply.prot][i] = reply.rule

\* What the ioctl answers for a UDP or TCP rule is so: success means the
\* rule is in force, -1 means that it is not and that no slot is left.
\* (Stated while the counter is within the table; beyond it the search
\* reads foreign memory.)
PortReplyHonest ==
    reply.prot \in PortProt /\ table_size[reply.prot] =< TblSize[reply.prot] =>
        /\ reply.ret = "AR_SUCCESS" => RuleInForce
        /\ reply.ret = "-1" => /\ ~RuleInForce
                               /\ Occupied(reply.prot) = Slot(reply.prot)

\* A stored rule is never changed or moved by a later configuration call.
RulesKept ==
    [][\A p \in Prot : \A i \in Occupied(p) : tbl'[p][i] = tbl[p][i]]_vars

\* The tables as BoundedMaps: the keys are the rules stored, and a rule has
\* no value but that it is in force.  A count beyond the table, which only
\* rules that look like a free slot produce, ends the promise for it.
InForce(p) == [e \in {tbl[p][i] : i \in Occupied(p)} |-> TRUE]
LastCall(p) ==
    IF reply.prot # p \/ reply.ret = "none"
    THEN [key |-> Zero(p), val |-> TRUE, ret |-> "other"]
    ELSE [key |-> reply.rule, val |-> TRUE,
          ret |-> CASE reply.ret = "AR_SUCCESS" -> "ok"
                    [] reply.ret = "-1" -> "full"
                    [] OTHER -> "failed"]

Store == INSTANCE BoundedMap WITH
    Table <- Prot,
    Key <- [p \in Prot |-> Sendable(p)],
    Val <- {TRUE},
    Blank <- [p \in Prot |-> {e \in Sendable(p) : IsFree(p, e)}],
    Cap <- TblSize,
    FullRet <- [p \in Prot |-> IF p = "IP_PROT" THEN "ok" ELSE "full"],
    map <- [p \in Prot |-> InForce(p)],
    last <- [p \in Prot |-> LastCall(p)],
    trusted <- [p \in Prot |-> table_size[p] =< TblSize[p]]

\* The tables behave as BoundedMaps: a configuration call adds the rule it
\* names to its table or leaves the rules in force as they are, whatever
\* calls came before, and a call that succeeds has its rule in force (but
\* for an IP protocol that finds the table full, and a rule that looks like
\* a free slot).
StoresRules == Store!Spec

\* The comment in the IP protocol case of ar_wakeup_recv_config: "if DB is
\* full then then return an error".  A call that succeeds has its protocol
\* in force.
IpReplyHonest ==
    reply.prot = "IP_PROT" /\ reply.ret = "AR_SUCCESS" => RuleInForce

\* The message "Protocol code does not exist": a name that is in no row of
\* prot_info puts no code in the table.
KnownProtocolsOnly ==
    \A i \in Occupied("IP_PROT") :
        \E r \in DOMAIN prot_info : tbl["IP_PROT"][i] = prot_info[r]
=============================================================================
