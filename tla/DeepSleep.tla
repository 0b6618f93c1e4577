------------------------------ MODULE DeepSleep ------------------------------
(***************************************************************************)
(* The deep sleep handler: ar_process_deep_sleep_event (arctrl_fmd.c) finds *)
(* the auto response port, copies the addresses of the port and of its     *)
(* VLANs into the ARP and NDP tables (arctrl_core.c) and hands them to the *)
(* frame manager (FMan); ar_process_resume_event takes FMan back.  The     *)
(* power management notifier (arctrl_pm.c) and a write to the proc file    *)
(* (arctrl_proc.c) call the first, the notifier calls the second.          *)
(*                                                                         *)
(* A step reads one address.  Between two steps the port may go up, down   *)
(* or away; the address lists change only between two handlers, and one    *)
(* handler runs at a time.                                                 *)
(***************************************************************************)
EXTENDS Integers, Sequences, FiniteSets, Functions

CONSTANTS
    IP, MAC,        \* addresses
    Vid,            \* VLAN identifiers
    Nets,           \* the network configurations the handler may meet
    Unused,         \* a slot as kzalloc leaves it
    ar_arptblsize,  \* slots FMan has for ARP entries
    ar_ndptblsize   \* ... and for each kind of NDP entries

\* The tables: ARP, and NDP for temporary and for permanent addresses.
Kind == {"arp", "tem", "tgt"}
Family == {"v4", "v6"}

\* The flags of inet6_ifaddr that are read.  An IPv4 address has none.
Addr == [ip: IP, flags: SUBSET {"TEMPORARY", "PERMANENT"}]

\* A device of init_net: whether it is a VLAN of the port, whether it is up.
Dev == [vlan: BOOLEAN, up: BOOLEAN, mac: MAC, vid: Vid,
        v4: Seq(Addr), v6: Seq(Addr)]

\* The port and the devices of init_net in list order.
Net == [mac: MAC, v4: Seq(Addr), v6: Seq(Addr), devs: Seq(Dev)]

\* struct auto_res_arp_entry and auto_res_ndp_entry
Entry == [ip: IP, mac: MAC, is_vlan: BOOLEAN, vid: Vid]

ASSUME NetAssumption == Nets \subseteq Net /\ 0 \in Vid
ASSUME SizeAssumption ==
    ar_arptblsize \in Nat \ {0} /\ ar_ndptblsize \in Nat \ {0}

VARIABLES
    net,        \* the addresses and devices of the Linux stack
    listed,     \* dev_get_by_name finds the port
    up,         \* the port has IFF_UP
    pm,         \* the power management cycle
    pc,         \* where the handler is
    d, k,       \* the device it walks (0 is the port) and the address in it
    index,      \* its locals index, index_tem and index_tgt
    maxlim,     \* its locals maxlim_flag, maxlim_flag_tem and maxlim_flag_tgt
    tbl,        \* ar_arp_tbl, ar_ndp_tem_tbl and ar_ndp_tgt_tbl
    table_size, \* the table_size fields of ar_arp_db and ar_nd_db
    echo_size,  \* the table_size fields of ar_ipv4_echo_db, ar_ipv6_echo_db
    autores,    \* FMan answers for the host
    wakeup,     \* the MAC may wake the host
    retcode,    \* what FMan answered to the last hand-off
    status      \* out_status of the last event

walk == <<d, k, index, maxlim>>
tables == <<tbl, table_size>>
fman == <<echo_size, autores, wakeup, retcode>>
stack == <<net, listed, up>>
vars == <<stack, pm, pc, walk, tables, fman, status>>

Cap == [t \in Kind |-> IF t = "arp" THEN ar_arptblsize ELSE ar_ndptblsize]
Zero == [t \in Kind |-> 0]
Clear == [t \in Kind |-> FALSE]

-----------------------------------------------------------------------------
(* The walk over the addresses                                             *)

\* The list walked for device i: the port's own, or that of a device that is
\* a VLAN of the port and is up.
Addrs(f, i) ==
    IF i = 0 THEN net[f]
    ELSE IF net.devs[i].vlan /\ net.devs[i].up THEN net.devs[i][f] ELSE <<>>

EntryOf(i, a) ==
    IF i = 0
    THEN [ip |-> a.ip, mac |-> net.mac, is_vlan |-> FALSE, vid |-> 0]
    ELSE [ip |-> a.ip, mac |-> net.devs[i].mac, is_vlan |-> TRUE,
          vid |-> net.devs[i].vid]

\* The tables address a may go to at this point: an IPv6 address to the one
\* of its flags, TEMPORARY before PERMANENT, as long as the port's own
\* addresses have not filled it.
Target(f, a) ==
    IF f = "v4" THEN {"arp"}
    ELSE IF "TEMPORARY" \in a.flags /\ ~maxlim["tem"] THEN {"tem"}
    ELSE IF "PERMANENT" \in a.flags /\ ~maxlim["tgt"] THEN {"tgt"}
    ELSE {}

\* What follows the last device of a family: IPv6 after IPv4, then FMan.
After(f) == IF f = "v4" THEN "v6" ELSE "handoff"

\* Mutant: the device after the last one is walked.
NextDevOffByOne(f, full) ==
    IF d > Len(net.devs) \/ (f = "v4" /\ full["arp"])
    THEN pc' = After(f) /\ d' = 0 /\ k' = 1
    ELSE pc' = f /\ d' = d + 1 /\ k' = 1

\* To the next device.  The VLANs get no IPv4 turn once the port's own
\* addresses have filled the ARP table.
NextDev(f, full) ==
    IF d = Len(net.devs) \/ (f = "v4" /\ full["arp"])
    THEN pc' = After(f) /\ d' = 0 /\ k' = 1
    ELSE pc' = f /\ d' = d + 1 /\ k' = 1

\* Mutants: the rest of the list is dropped; the walk stays where it is.
NextAddrDropsRest(f) == NextDev(f, maxlim)
NextAddrStays(f) == UNCHANGED <<pc, d, k>>

NextAddr(f) == pc' = f /\ d' = d /\ k' = k + 1

EndOfList(f) ==
    /\ pc = f
    /\ k > Len(Addrs(f, d))
    /\ NextDev(f, maxlim)
    /\ UNCHANGED <<stack, pm, index, maxlim, tables, fman, status>>

\* An address that goes to no table.
Skip(f) ==
    /\ pc = f
    /\ k =< Len(Addrs(f, d))
    /\ Target(f, Addrs(f, d)[k]) = {}
    /\ NextAddr(f)
    /\ UNCHANGED <<stack, pm, index, maxlim, tables, fman, status>>

\* The assignments into the slot at index.  A write beyond the table would
\* hit other memory; InBounds says that there is none.
Put(t, e) == IF index[t] < Cap[t] THEN [tbl EXCEPT ![t][index[t]] = e] ELSE tbl

\* Mutant: the limit is noticed one entry late.
LateLimit(t) == table_size[t] + 1 > Cap[t]

\* The test after table_size has been incremented.
AtLimit(t) == table_size[t] + 1 >= Cap[t]

\* Mutant: the limit does not end the list.
BreakIgnored(f, t) == NextAddr(f) /\ UNCHANGED <<index, maxlim>>

\* At the limit the walk leaves this list and not the table: the index stays
\* and only the port's own list sets the flag.
Break(f, t) ==
    /\ maxlim' = [maxlim EXCEPT ![t] = @ \/ d = 0]
    /\ NextDev(f, maxlim')
    /\ UNCHANGED index

Store(f) ==
    /\ pc = f
    /\ k =< Len(Addrs(f, d))
    /\ \E t \in Target(f, Addrs(f, d)[k]) :
        /\ tbl' = Put(t, EntryOf(d, Addrs(f, d)[k]))
        /\ table_size' = [table_size EXCEPT ![t] = @ + 1]
        /\ IF AtLimit(t)
           THEN Break(f, t)
           ELSE /\ index' = [index EXCEPT ![t] = @ + 1]
                /\ NextAddr(f)
                /\ UNCHANGED maxlim
    /\ UNCHANGED <<stack, pm, fman, status>>

-----------------------------------------------------------------------------
(* The handler                                                             *)

Fail(s) == pc' = "idle" /\ status' = s

\* ar_process_deep_sleep_event up to its first test: the port must be there
\* and up.
Event ==
    /\ pc = "idle"
    /\ IF listed /\ up
       THEN pc' = "device" /\ UNCHANGED status
       ELSE Fail("AR_GET_INFO_ERROR")
    /\ UNCHANGED <<stack, walk, tables, fman>>

\* PM_SUSPEND_PREPARE.  The notifier returns 0 whatever the status, so the
\* suspend goes on.
ar_suspend_noirq == pm = "awake" /\ pm' = "prepared" /\ Event

\* A write to the proc file, while user space runs.
ar_handle_deep_sleep_event == pm # "asleep" /\ UNCHANGED pm /\ Event

\* Mutant: the sizes of the last suspend are kept.
SizesKept == UNCHANGED table_size

SizesReset == table_size' = Zero

\* The second lookup and ar_get_interface_info, which resets the sizes
\* before it tests the device.
ar_get_interface_info ==
    /\ pc = "device"
    /\ SizesReset
    /\ IF listed
       THEN /\ pc' = "v4" /\ d' = 0 /\ k' = 1
            /\ index' = Zero /\ maxlim' = Clear
            /\ UNCHANGED status
       ELSE Fail("AR_GET_INFO_ERROR") /\ UNCHANGED walk
    /\ UNCHANGED <<stack, pm, tbl, fman>>

\* The rest of the handler: the echo tables share the ARP and NDP tables.
\* FMan may refuse; the handler ignores its answer.
Handoff ==
    /\ pc = "handoff"
    /\ echo_size' = [f \in Family |-> IF f = "v4" THEN table_size["arp"]
                                                 ELSE table_size["tgt"]]
    /\ wakeup' = TRUE
    /\ \/ retcode' = "ok" /\ autores' = TRUE
       \/ retcode' = "error" /\ UNCHANGED autores
    /\ pc' = "idle"
    /\ status' = "AR_SUCCESS"
    /\ UNCHANGED <<stack, pm, walk, tables>>

\* PM_POST_SUSPEND, after a sleep or after a suspend that was given up.
ar_process_resume_event ==
    /\ pm # "awake"
    /\ pc = "idle"
    /\ pm' = "awake"
    /\ IF listed /\ up
       THEN autores' = FALSE /\ status' = "AR_SUCCESS"
       ELSE UNCHANGED autores /\ status' = "AR_GET_INFO_ERROR"
    /\ UNCHANGED <<stack, pc, walk, tables, echo_size, wakeup, retcode>>

-----------------------------------------------------------------------------
(* The system around it                                                    *)

Sleep ==
    /\ pm = "prepared"
    /\ pc = "idle"
    /\ pm' = "asleep"
    /\ UNCHANGED <<stack, pc, walk, tables, fman, status>>

\* The port goes up or down, is unregistered or comes back.
PortChanges ==
    /\ pm # "asleep"
    /\ \/ up' = ~up /\ UNCHANGED listed
       \/ listed' = ~listed /\ UNCHANGED up
    /\ UNCHANGED <<net, pm, pc, walk, tables, fman, status>>

\* Addresses and VLANs are configured.
Reconfigure ==
    /\ pm # "asleep"
    /\ pc = "idle"
    /\ net' \in Nets
    /\ UNCHANGED <<listed, up, pm, pc, walk, tables, fman, status>>

\* The state ar_intf_init_db leaves.
Init ==
    /\ net \in Nets /\ listed = TRUE /\ up = TRUE
    /\ pm = "awake" /\ pc = "idle"
    /\ d = 0 /\ k = 1 /\ index = Zero /\ maxlim = Clear
    /\ tbl = [t \in Kind |-> [i \in 0..(Cap[t] - 1) |-> Unused]]
    /\ table_size = Zero
    /\ echo_size = [f \in Family |-> 0]
    /\ autores = FALSE /\ wakeup = FALSE
    /\ retcode = "none" /\ status = "none"

Handler ==
    \/ ar_get_interface_info
    \/ \E f \in Family : EndOfList(f) \/ Skip(f) \/ Store(f)
    \/ Handoff

Next ==
    \/ Handler
    \/ ar_suspend_noirq
    \/ ar_handle_deep_sleep_event
    \/ ar_process_resume_event
    \/ Sleep
    \/ PortChanges
    \/ Reconfigure

\* Kernel code that has been entered runs on.
Spec == Init /\ [][Next]_vars /\ WF_vars(Handler)

-----------------------------------------------------------------------------
(* Properties                                                              *)

Walking == pc \in Family \cup {"handoff"}

\* The state has its type: the tables keep their allocated slots.
TypeOK ==
    /\ net \in Nets
    /\ listed \in BOOLEAN /\ up \in BOOLEAN
    /\ pm \in {"awake", "prepared", "asleep"}
    /\ pc \in {"idle", "device", "v4", "v6", "handoff"}
    /\ d \in Nat /\ k \in Nat \ {0}
    /\ Walking => d =< Len(net.devs)
    /\ index \in [Kind -> Nat]
    /\ maxlim \in [Kind -> BOOLEAN]
    /\ DOMAIN tbl = Kind
    /\ \A t \in Kind : tbl[t] \in [0..(Cap[t] - 1) -> Entry \cup {Unused}]
    /\ table_size \in [Kind -> Nat]
    /\ echo_size \in [Family -> Nat]
    /\ autores \in BOOLEAN /\ wakeup \in BOOLEAN
    /\ retcode \in {"none", "ok", "error"}
    /\ status \in {"none", "AR_SUCCESS", "AR_GET_INFO_ERROR"}

\* No address is written beyond its table, however many the port and its
\* VLANs have: the loops of ar_get_ipv4_info and ar_get_ipv6_info stop
\* moving the index at the last slot.
InBounds == \A t \in Kind : index[t] < Cap[t]

FamilyOf(t) == IF t = "arp" THEN "v4" ELSE "v6"

\* FMan is given no entry of an earlier suspend: every slot it may use holds
\* an address that a device of the present configuration has now.
NoStaleEntries ==
    pc = "handoff" =>
        \A t \in Kind : \A i \in 0..(Cap[t] - 1) :
            i < table_size[t] =>
                \E j \in 0..Len(net.devs) :
                    \E a \in Range(Addrs(FamilyOf(t), j)) :
                        tbl[t][i] = EntryOf(j, a)

\* A table_size grows past its table by less than one per device of
\* init_net: each further VLAN counts one address before it breaks off.
OverrunBounded ==
    Walking => \A t \in Kind :
        table_size[t] > Cap[t] => table_size[t] - Cap[t] < Len(net.devs)

\* The table an address belongs in by its flags.
Belongs(t, a) ==
    CASE t = "arp" -> TRUE
      [] t = "tem" -> "TEMPORARY" \in a.flags
      [] t = "tgt" -> "PERMANENT" \in a.flags /\ "TEMPORARY" \notin a.flags

\* The entries table t should hold, each with its place in the lists: those
\* of the port, untagged, and those of its VLANs that are up.
Wanted(t) ==
    LET f == FamilyOf(t)
        Tag(j, list, m, isvlan, v) ==
            {[dev |-> j, pos |-> i,
              entry |-> [ip |-> list[i].ip, mac |-> m, is_vlan |-> isvlan, vid |-> v]] :
                i \in {i \in DOMAIN list : Belongs(t, list[i])}}
        vlans == {j \in DOMAIN net.devs : net.devs[j].vlan /\ net.devs[j].up}
    IN  Tag(0, net[f], net.mac, FALSE, 0) \cup
        UNION {Tag(j, net.devs[j][f], net.devs[j].mac, TRUE, net.devs[j].vid) :
                j \in vlans}

\* The slot for w is the number of entries of its table that come before it.
Earlier(v, w) == v.dev < w.dev \/ (v.dev = w.dev /\ v.pos < w.pos)
SlotOf(t, w) == Cardinality({v \in Wanted(t) : Earlier(v, w)})

\* An NDP table that is filled to the last slot cuts the other one short.
Fits(t) ==
    IF t = "arp" THEN Cardinality(Wanted(t)) =< Cap[t]
                 ELSE \A s \in {"tem", "tgt"} : Cardinality(Wanted(s)) < Cap[s]

\* When the addresses fit, the tables FMan is given hold every address of
\* the port and of its VLANs, in order, and nothing else.
TablesExact ==
    pc = "handoff" => \A t \in Kind : Fits(t) =>
        /\ table_size[t] = Cardinality(Wanted(t))
        /\ \A w \in Wanted(t) : tbl[t][SlotOf(t, w)] = w.entry

\* The handler returns, whatever the port and the lists are.
HandlerReturns == (pc # "idle") ~> (pc = "idle")

\* "Get Maximum table sizes from FMAN" (ar_intf_init_db): FMan is told of no
\* more entries than the maximum it gave.
AnnouncedWithinMax ==
    pc = "handoff" => \A t \in Kind : table_size[t] =< Cap[t]

\* "Send network device information to the FMD for configuring FM ucode.
\* Wait for the ack" (ar_process_deep_sleep_event): a suspend that reports
\* success has FMan's consent.
AckAwaited ==
    pm = "prepared" /\ pc = "idle" /\ status = "AR_SUCCESS" => retcode = "ok"
=============================================================================
