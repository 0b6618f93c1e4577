------------------------------ MODULE Settings ------------------------------
(***************************************************************************)
(* The settings that two interfaces change at the same time: the SNMP      *)
(* community strings and the control flag, written by the sysfs stores     *)
(* (arctrl_sysfs.c) and by the ioctls of /dev/ar_dev (arctrl_snmptool.c,   *)
(* arctrl_snmp.c) that the library ar_snmp_api.c sends, and the other      *)
(* sysfs settings.  A deep sleep event, which has FMan read the strings,   *)
(* may come at any time.                                                   *)
(*                                                                         *)
(* No lock covers both interfaces.  A sysfs store writes the string in     *)
(* place, through a pointer it loads anew for every access; the ioctl      *)
(* frees the string, clears the pointer, installs a buffer of its own and  *)
(* then measures and terminates it.  Each access of either is a step.  The *)
(* device admits one agent; sysfs admits any number of writers, one for    *)
(* each open file.                                                         *)
(*                                                                         *)
(* Once memory is misused nothing more is said of the kernel: harm records *)
(* how it came about and the model stops.                                  *)
(***************************************************************************)
EXTENDS Integers, Sequences

CONSTANTS
    Agent,    \* processes that use the library
    Writer,   \* processes that write to sysfs
    Text,     \* the texts they write to a string,
    strlen,   \* ... and how long each is, newline included
    Comm,     \* the 16 byte arguments of the community ioctls,
    byte1,    \* ... the length byte of each, which nobody checks,
    nul,      \* ... and where it has zero bytes
    Flag,     \* the one digit sysfs settings, control among them
    Char,     \* the characters read from what is written to them
    Digits,   \* the hexadecimal digits written to tcp_flag_mask
    Buf,      \* the addresses kzalloc may return; bound of the model
    NULL

AR_SNMP_MAX_COMM_LENGTH == 64
IOCTL_LENGTH == 16

Strings == {"read_write", "read_only"}
Byte == 0..255
Uint16 == 0..(2^16 - 1)

ASSUME SettingsAssumption ==
    /\ strlen \in [Text -> Nat]
    /\ Text \cap Comm = {}
    /\ {"default", "freed", "pending", "raced"} \cap (Text \cup Comm) = {}
    /\ byte1 \in [Comm -> Byte]
    /\ nul \in [Comm -> SUBSET (0..(IOCTL_LENGTH - 1))]
    /\ \A c \in Comm : 1 \in nul[c] <=> byte1[c] = 0
    /\ "control" \in Flag
    /\ Char \subseteq Byte
    /\ Digits \subseteq Seq(0..15)
    /\ NULL \notin Buf /\ \E b, c \in Buf : b # c

VARIABLES
    heap,            \* the buffers: their size and what was put there
    ptr,             \* ar_snmp_db.community_read_write_string, _read_only_
    flags,           \* ar_snmp_db.control and the other one digit settings
    tcp_flags_mask,
    ar_open_count,
    agent,           \* agent[a]: the call agent a is in
    writer,          \* writer[w]: the store writer w is in
    last,            \* history: the text or argument string s was last given,
                     \* "pending" during a call, "raced" if calls overlapped
    harm             \* history: the misuse of memory, and its cause

simple == <<flags, tcp_flags_mask>>
vars == <<heap, ptr, simple, ar_open_count, agent, writer, last, harm>>

Idle == [pc |-> "idle"]

-----------------------------------------------------------------------------
(* The strings                                                             *)

\* uint8_t len = strlen(buf) - 1
len(t) == (strlen[t] - 1) % 256

\* What a buffer holds: its length byte, how many characters of what, and
\* where its zero bytes are.
Buffer(n, h, x, k, z) ==
    [size |-> n, head |-> h, of |-> x, chars |-> k, zeros |-> z]

\* The bytes of an ioctl, taken as they are: 16 for a string, 1 for the flag.
CommBuffer(c) == Buffer(IOCTL_LENGTH, byte1[c], c, IOCTL_LENGTH - 2, nul[c])
IoctlBuffer(cmd, c) ==
    IF cmd \in Strings THEN CommBuffer(c) ELSE Buffer(1, 0, c, 0, {})

\* The strings of ar_snmp_init_db, "private" and "public", in zeroed memory.
InitBuffer(s) ==
    LET n == IF s = "read_write" THEN 7 ELSE 6
    IN  Buffer(AR_SNMP_MAX_COMM_LENGTH, n, "default", n,
               (n + 2)..(AR_SNMP_MAX_COMM_LENGTH - 1))

Freed == Buffer(0, 0, "freed", 0, {})
Live(b) == b \in Buf /\ heap[b] # Freed

\* Address b may be returned by kzalloc.
kzalloc(b) == heap[b] = Freed

\* An agent has freed string s and not yet put another one in its place.
Swapping(s) ==
    \E a \in Agent : agent[a].pc \in {"clear", "install"} /\ agent[a].cmd = s

\* The calls that are changing string s.
Busy(s) ==
    \/ Swapping(s)
    \/ \E a \in Agent : agent[a].pc \in {"kzfree", "strlen", "terminate"}
                        /\ agent[a].cmd = s
    \/ \E w \in Writer : writer[w].pc # "idle" /\ writer[w].s = s

Begin(s) == last' = [last EXCEPT ![s] = IF Busy(s) THEN "raced" ELSE "pending"]
End(s, x) == last' = [last EXCEPT ![s] = IF @ = "raced" THEN @ ELSE x]

Harm(kind, cause) == harm' = harm \cup {<<kind, cause>>}

\* The buffer an access finds through the pointer.
Found(s) == heap[ptr[s]]

\* An access to string s through the pointer: the first n bytes of the
\* buffer are its reach, and new what the buffer then holds.
Access(s, n, new) ==
    LET b == ptr[s]
    IN  IF Live(b) /\ n =< heap[b].size
        THEN /\ heap' = [heap EXCEPT ![b] = new]
             /\ UNCHANGED harm
        ELSE /\ IF Live(b)
                THEN Harm("overrun", IF heap[b].size = IOCTL_LENGTH
                                     THEN "ioctl" ELSE "init")
                ELSE Harm("wild", IF last[s] = "raced" THEN "raced" ELSE "alone")
             /\ UNCHANGED heap

\* A zero is written to byte i of buffer b.
WithNul(b, i) ==
    [b EXCEPT !.zeros = @ \cup {i}, !.head = IF i = 1 THEN 0 ELSE @]

-----------------------------------------------------------------------------
(* Sysfs stores                                                            *)

\* The test of ar_snmp_pvt_string_store and ar_snmp_pub_string_store.
Fits(t) == len(t) < AR_SNMP_MAX_COMM_LENGTH - 3

\* A text that does not fit changes nothing.
StartStore(w, s, t) ==
    /\ writer[w].pc = "idle"
    /\ Fits(t)
    /\ writer' = [writer EXCEPT ![w] = [pc |-> "type", s |-> s, t |-> t]]
    /\ Begin(s)
    /\ UNCHANGED <<heap, ptr, simple, ar_open_count, agent, harm>>

\* The four accesses of a store: the type, 4, in byte 0,
StoreType(w) ==
    LET s == writer[w].s
    IN  /\ writer[w].pc = "type"
        /\ Access(s, 1, [Found(s) EXCEPT !.zeros = @ \ {0}])
        /\ writer' = [writer EXCEPT ![w].pc = "length"]
        /\ UNCHANGED <<ptr, simple, ar_open_count, agent, last>>

\* Mutant: the length byte is left as it was.
LengthLeft(w) ==
    LET s == writer[w].s
    IN  /\ writer[w].pc = "length"
        /\ Access(s, 2, Found(s))
        /\ writer' = [writer EXCEPT ![w].pc = "text"]
        /\ UNCHANGED <<ptr, simple, ar_open_count, agent, last>>

\* ... the length in byte 1,
StoreLength(w) ==
    LET s == writer[w].s
        n == len(writer[w].t)
        zero == IF n = 0 THEN {1} ELSE {}
    IN  /\ writer[w].pc = "length"
        /\ Access(s, 2, [Found(s) EXCEPT !.head = n, !.zeros = (@ \ {1}) \cup zero])
        /\ writer' = [writer EXCEPT ![w].pc = "text"]
        /\ UNCHANGED <<ptr, simple, ar_open_count, agent, last>>

\* ... memcpy of the characters, none of which is zero,
StoreText(w) ==
    LET s == writer[w].s
        t == writer[w].t
    IN  /\ writer[w].pc = "text"
        /\ Access(s, len(t) + 2,
                  [Found(s) EXCEPT !.of = t, !.chars = len(t),
                                   !.zeros = @ \ (2..(len(t) + 1))])
        /\ writer' = [writer EXCEPT ![w].pc = "end"]
        /\ UNCHANGED <<ptr, simple, ar_open_count, agent, last>>

\* ... and the terminator.
StoreEnd(w) ==
    LET s == writer[w].s
        t == writer[w].t
    IN  /\ writer[w].pc = "end"
        /\ Access(s, len(t) + 3, WithNul(Found(s), len(t) + 2))
        /\ writer' = [writer EXCEPT ![w] = Idle]
        /\ End(s, t)
        /\ UNCHANGED <<ptr, simple, ar_open_count, agent>>

\* Mutant: the difference is kept in an int.
FlagStoreUncut(w, f, c) ==
    /\ writer[w].pc = "idle"
    /\ flags' = [flags EXCEPT ![f] = c - 48]
    /\ UNCHANGED <<heap, ptr, tcp_flags_mask, ar_open_count, agent, writer,
                   last, harm>>

\* ar_snmp_flag_store and the four stores like it: *pArg - '0' in a field of
\* FMan's structures, which are not in the repository; taken to be uint8_t.
FlagStore(w, f, c) ==
    /\ writer[w].pc = "idle"
    /\ flags' = [flags EXCEPT ![f] = (c - 48) % 256]
    /\ UNCHANGED <<heap, ptr, tcp_flags_mask, ar_open_count, agent, writer,
                   last, harm>>

\* Four digits, the ones that are missing on the right read as 0.
ar_wakeup_atoi(d) ==
    LET digit(i) == IF i =< Len(d) THEN d[i] ELSE 0
    IN  ((16 * digit(1) + digit(2)) * 256 + 16 * digit(3) + digit(4)) % 2^16

\* The digits come with or without a newline, and are read from a copy that
\* has a byte more than they and the newline together.
ar_tcp_flag_mask_store(w, d, newline) ==
    /\ writer[w].pc = "idle"
    /\ tcp_flags_mask' = ar_wakeup_atoi(d)
    /\ IF Len(d) + newline + 1 >= 4 THEN UNCHANGED harm
                                    ELSE Harm("overrun", "digits")
    /\ UNCHANGED <<heap, ptr, flags, ar_open_count, agent, writer, last>>

\* These six stores copy what was written before they read it, and do not
\* ask whether kzalloc gave them memory for it.
StoreStarved(w) ==
    /\ writer[w].pc = "idle"
    /\ Harm("wild", "no memory")
    /\ UNCHANGED <<heap, ptr, simple, ar_open_count, agent, writer, last>>

-----------------------------------------------------------------------------
(* The library and the ioctl                                               *)

\* Mutant: the device admits everyone.
OpenShared(a) == ar_open_count' = ar_open_count + 1

\* -EUSERS while the device is open.
ar_interface_open(a) ==
    /\ ar_open_count = 0
    /\ ar_open_count' = ar_open_count + 1

GoTo(a, l) == agent' = [agent EXCEPT ![a].pc = l]

\* ar_snmp_agent_get_comm and ar_snmp_agent_get_pdu.  When the open fails the
\* call goes on, for its result is kept in an unsigned int and found not to
\* be below 0, but its ioctl and its close go to the descriptor -1: it
\* changes nothing and is no step here.
ar_snmp_dev_open(a, cmd, c) ==
    /\ agent[a].pc = "idle"
    /\ ar_interface_open(a)
    /\ agent' = [agent EXCEPT
           ![a] = [pc |-> "ioctl", cmd |-> cmd, arg |-> c, buf |-> NULL, at |-> 0]]
    /\ UNCHANGED <<heap, ptr, simple, writer, last, harm>>

\* The ioctl finds no memory, is CREATE (which is SnmpTable's) or a command
\* that is not known.
IoctlNothing(a) ==
    /\ agent[a].pc = "ioctl"
    /\ GoTo(a, "close")
    /\ UNCHANGED <<heap, ptr, simple, ar_open_count, writer, last, harm>>

\* The argument cannot be read: the buffer is not given back.
IoctlFault(a) ==
    /\ agent[a].pc = "ioctl"
    /\ agent[a].cmd \in Strings \cup {"getall"}
    /\ \E b \in Buf :
          /\ kzalloc(b)
          /\ heap' = [heap EXCEPT ![b] = IoctlBuffer(agent[a].cmd, agent[a].arg)]
    /\ GoTo(a, "close")
    /\ UNCHANGED <<ptr, simple, ar_open_count, writer, last, harm>>

IoctlComm(a) ==
    /\ agent[a].pc = "ioctl"
    /\ agent[a].cmd \in Strings
    /\ \E b \in Buf :
          /\ kzalloc(b)
          /\ heap' = [heap EXCEPT ![b] = CommBuffer(agent[a].arg)]
          /\ agent' = [agent EXCEPT ![a] = [@ EXCEPT !.pc = "kzfree", !.buf = b]]
    /\ Begin(agent[a].cmd)
    /\ UNCHANGED <<ptr, simple, ar_open_count, writer, harm>>

\* ar_snmp_config_comm_str in its five accesses.
kzfree(a) ==
    LET b == ptr[agent[a].cmd]
    IN  /\ agent[a].pc = "kzfree"
        /\ IF Live(b) \/ b = NULL THEN UNCHANGED harm
                                  ELSE Harm("freed twice", "swap")
        /\ heap' = IF b = NULL THEN heap ELSE [heap EXCEPT ![b] = Freed]
        /\ GoTo(a, IF b = NULL THEN "install" ELSE "clear")
        /\ UNCHANGED <<ptr, simple, ar_open_count, writer, last>>

Clear(a) ==
    /\ agent[a].pc = "clear"
    /\ ptr' = [ptr EXCEPT ![agent[a].cmd] = NULL]
    /\ GoTo(a, "install")
    /\ UNCHANGED <<heap, simple, ar_open_count, writer, last, harm>>

Install(a) ==
    /\ agent[a].pc = "install"
    /\ ptr' = [ptr EXCEPT ![agent[a].cmd] = agent[a].buf]
    /\ GoTo(a, "strlen")
    /\ UNCHANGED <<heap, simple, ar_open_count, writer, last, harm>>

\* strlen(pConfigStr): the buffer is in use by now, and may have no zero byte.
Measure(a) ==
    LET arg == agent[a].arg
        zeros == heap[agent[a].buf].zeros
    IN  /\ agent[a].pc = "strlen"
        /\ \/ /\ zeros = {}
              /\ Harm("overrun",
                      IF nul[arg] = {} THEN "unterminated"
                      ELSE IF last[agent[a].cmd] = "raced" THEN "raced" ELSE "alone")
              /\ UNCHANGED agent
           \/ \E i \in zeros :
                /\ \A j \in zeros : i =< j
                /\ agent' = [agent EXCEPT
                       ![a] = [@ EXCEPT !.pc = "terminate", !.at = i]]
                /\ UNCHANGED harm
        /\ UNCHANGED <<heap, ptr, simple, ar_open_count, writer, last>>

\* Mutant: the buffer is given back when the call ends.
TerminateAndFree(a) ==
    LET s == agent[a].cmd
    IN  /\ agent[a].pc = "terminate"
        /\ heap' = [heap EXCEPT ![agent[a].buf] = Freed]
        /\ End(s, agent[a].arg)
        /\ GoTo(a, "close")
        /\ UNCHANGED <<ptr, simple, ar_open_count, writer, harm>>

\* The zero that ends the string is written once more.
Terminate(a) ==
    LET s == agent[a].cmd
    IN  /\ agent[a].pc = "terminate"
        /\ Access(s, agent[a].at + 1, WithNul(Found(s), agent[a].at))
        /\ End(s, agent[a].arg)
        /\ GoTo(a, "close")
        /\ UNCHANGED <<ptr, simple, ar_open_count, writer>>

\* CONFIG_SNMP_GETALL_FLAG: ar_snmp_config_getall_flag_str frees the buffer
\* and the ioctl frees it again, both in one step here.
IoctlGetall(a, c) ==
    /\ agent[a].pc = "ioctl"
    /\ agent[a].cmd = "getall"
    /\ \E b \in Buf : kzalloc(b)
    /\ flags' = [flags EXCEPT !["control"] = (c - 48) % 256]
    /\ Harm("freed twice", "getall")
    /\ GoTo(a, "close")
    /\ UNCHANGED <<heap, ptr, tcp_flags_mask, ar_open_count, writer, last>>

\* close, or the end of the process: ar_interface_release.
ar_snmp_dev_close(a) ==
    /\ agent[a].pc = "close"
    /\ agent' = [agent EXCEPT ![a] = Idle]
    /\ ar_open_count' = ar_open_count - 1
    /\ UNCHANGED <<heap, ptr, simple, writer, last, harm>>

-----------------------------------------------------------------------------
(* The deep sleep event                                                    *)

\* FMan reads the strings through ar_snmp_db.  The notifier is called for
\* PM_SUSPEND_PREPARE, when processes still run, so this may come between
\* any two of their steps.
HandOff ==
    /\ harm' = harm \cup {<<"wild", IF Swapping(s) THEN "swapping" ELSE "alone">> :
                             s \in {x \in Strings : ~Live(ptr[x])}}
    /\ UNCHANGED <<heap, ptr, simple, ar_open_count, agent, writer, last>>

-----------------------------------------------------------------------------

\* The state ar_snmp_init_db leaves, strings "private" and "public".
Init ==
    /\ ptr \in {p \in [Strings -> Buf] : p["read_write"] # p["read_only"]}
    /\ heap = [x \in Buf |->
                CASE x = ptr["read_write"] -> InitBuffer("read_write")
                  [] x = ptr["read_only"] -> InitBuffer("read_only")
                  [] OTHER -> Freed]
    /\ flags = [f \in Flag |-> 0]
    /\ tcp_flags_mask = 0
    /\ ar_open_count = 0
    /\ agent = [a \in Agent |-> Idle]
    /\ writer = [w \in Writer |-> Idle]
    /\ last = [s \in Strings |-> "default"]
    /\ harm = {}

StoreStep(w) ==
    \/ \E s \in Strings, t \in Text : StartStore(w, s, t)
    \/ StoreType(w)
    \/ StoreLength(w)
    \/ StoreText(w)
    \/ StoreEnd(w)
    \/ \E f \in Flag, c \in Char : FlagStore(w, f, c)
    \/ \E d \in Digits, n \in {0, 1} : ar_tcp_flag_mask_store(w, d, n)
    \/ StoreStarved(w)

\* The rest of a call of the library, once the device is opened.
CallStep(a) ==
    \/ IoctlNothing(a)
    \/ IoctlFault(a)
    \/ IoctlComm(a)
    \/ kzfree(a)
    \/ Clear(a)
    \/ Install(a)
    \/ Measure(a)
    \/ Terminate(a)
    \/ \E c \in Char : IoctlGetall(a, c)
    \/ ar_snmp_dev_close(a)

Cmd == Strings \cup {"getall", "other"}

Next ==
    \/ /\ harm = {}
       /\ \/ \E w \in Writer : StoreStep(w)
          \/ \E a \in Agent : CallStep(a)
          \/ \E a \in Agent, cmd \in Cmd, c \in Comm :
                    ar_snmp_dev_open(a, cmd, c)
          \/ HandOff
    \/ harm # {} /\ UNCHANGED vars

Spec == Init /\ [][Next]_vars

-----------------------------------------------------------------------------
(* Properties                                                              *)

\* The state has its type: a setting of one digit is a byte whatever was
\* written to it, and the length byte of a string too.
TypeOK ==
    /\ \A b \in Buf : heap[b] # Freed =>
            /\ heap[b].size \in {1, IOCTL_LENGTH, AR_SNMP_MAX_COMM_LENGTH}
            /\ heap[b].head \in Byte /\ heap[b].chars \in Byte
            /\ heap[b].of \in Text \cup Comm \cup {"default"}
    /\ ptr \in [Strings -> Buf \cup {NULL}]
    /\ flags \in [Flag -> Byte]
    /\ tcp_flags_mask \in Uint16
    /\ ar_open_count \in {0, 1}
    /\ last \in [Strings -> Text \cup Comm \cup {"default", "pending", "raced"}]

\* Whenever no call is changing the strings a deep sleep event gives FMan
\* two strings that are allocated and are not the same buffer, even if
\* stores and ioctls overlapped before.
StringsLive ==
    harm = {} /\ (\A s \in Strings : ~Busy(s)) =>
        /\ \A s \in Strings : Live(ptr[s])
        /\ ptr["read_write"] # ptr["read_only"]

\* The strings and the stores misuse memory in eight ways only: a store that
\* overlaps an ioctl on the same string, whose buffer is gone or which finds
\* its zero byte overwritten; a deep sleep event that comes between an
\* ioctl's free and its new string; a store into the 16 byte buffer of an
\* ioctl that takes it for one of 64 bytes; an ioctl whose 16 bytes have
\* no zero among them, which strlen then leaves; the second free of the
\* GETALL ioctl; a mask of too few digits; and a store that gets no memory for
\* its copy.  In particular no store overruns a buffer of ar_snmp_init_db,
\* whatever length is written, no two ioctls free one string, and an ioctl that
\* overlaps no store leaves its buffer only if its argument is not terminated.
HarmCauses ==
    harm \subseteq {<<"wild", "raced">>, <<"overrun", "raced">>,
                    <<"wild", "swapping">>, <<"overrun", "ioctl">>,
                    <<"overrun", "unterminated">>, <<"freed twice", "getall">>,
                    <<"overrun", "digits">>, <<"wild", "no memory">>}

\* A string that was last changed by a call that overlapped no other holds
\* what that call gave: the 16 bytes of an ioctl, none of them changed by the
\* terminator it writes, or the text of a store, whole, with its own length
\* byte and terminated; only a sysfs text of more than 256 characters
\* is cut, because its length is.
LastWriteHolds ==
    \A s \in Strings :
        harm = {} /\ ~Busy(s) /\ last[s] # "raced" =>
            LET is == Found(s)
            IN  /\ is.of = last[s]
                /\ is.of \in Comm =>
                        is.head = byte1[is.of] /\ is.zeros = nul[is.of]
                /\ is.of \notin Comm =>
                        is.head = is.chars /\ is.chars + 2 \in is.zeros
                /\ is.of \in Text /\ strlen[is.of] =< 256 =>
                        is.chars = strlen[is.of] - 1
=============================================================================
