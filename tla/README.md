# auto-resp: verification of the auto response control module

Before a QorIQ host goes to deep sleep, the kernel module of this repository
(`armodule/`) copies the host's network identity into tables and hands them to
the frame manager (FMan), which answers ARP, NDP, ICMP echo and SNMP requests
for the sleeping host and wakes it for the packets the wake-up rules select.
Two user space tools (`usr/`) fill the SNMP table and the wake-up rules.

This directory holds TLA+ models of that code, the TLC configurations that check
them and proofs for TLAPS. `PROJECT.json` records which definition models which
source lines.

## Inventory

| Part | State | Operations | What is hard | What makes it correct |
|---|---|---|---|---|
| Wake-up rules (`arctrl_wakeup.c`) | UDP, TCP and IP protocol tables, three `*_table_size` counters | `ar_wakeup_recv_config` and its lookups | free slots are recognised by their content, one search covers the counted slots and the other the whole table, full tables, `-1` in a `uint8_t` | no rule lost, doubled, moved or left uncounted; replies that are true |
| Wake-up device (`arctrl_wakeuptool.c`) | open count | open, release, ioctl | a shared descriptor, lengths taken from the user's string | one client at a time; nothing stored on a refused call |
| Interface information (`arctrl_core.c`) | ARP table, temporary and permanent NDP tables, their `table_size` fields | `ar_get_ipv4_info`, `ar_get_ipv6_info`, `ar_get_interface_info`, `ar_get_fm_port` | nested walks with breaks at a limit, indexes carried from the port to its VLANs, tables reused by every suspend | no write beyond a table, all addresses when they fit, none of an earlier suspend |
| Hand-off (`arctrl_fmd.c`) | echo table sizes, `ar_port_param` | deep sleep event, resume event | two lookups of a port that may vanish, FMan's refusal | FMan gets complete and present tables, failure is reported |
| Triggers (`arctrl_pm.c`, `arctrl_proc.c`) | none of their own | suspend and resume notifier, proc write | they may run the handler at the same time | the handler returns |
| SNMP table (`arctrl_snmp.c`) | OID table, `oid_table_size`, two kernel buffers per entry | CREATE, DELETE | ownership of buffers, binary keys compared as strings, leaks on failures | a packed table, every entry owns live buffers, one entry per key |
| SNMP device (`arctrl_snmptool.c`) | open count | open, release, ioctl | half-done calls | as above |
| Community strings (`arctrl_snmp.c`, `arctrl_sysfs.c`) | two strings, control flag | in-place store by sysfs, swap by ioctl | two writers with different buffer sizes and no lock, a suspend in the middle | the string FMan is given is whole and live |
| Sysfs flags (`arctrl_sysfs.c`) | pass and conflict flags, TCP mask | stores | text to number | the value written is the value meant |
| Life cycle (`arctrl_core.c`, `ar_init`, `ar_exit`) | registrations, allocations | init, exit | order, failure paths | nothing left registered, nothing used before it is allocated |
| Wake-up tool (`ar_wakeup_tool.c`) | section of the rule file | line parsing, ioctls | section carried from line to line, failed ioctls, a file sent twice | each rule in its own table, or reported |
| SNMP tool and library (`ar_snmp_tool.c`, `ar_snmp_api.c`) | one static entry, its two buffers | encoding, ioctls | zero bytes, lengths, an entry that outlives its line, ignored errors | the entry sent is the line meant |

How they interact: the tools reach the two databases by ioctls on
`/dev/ar_wakeup_dev` and `/dev/ar_dev`; sysfs stores write the same databases
directly; the power management core calls the notifier, which calls the deep
sleep handler; the handler fills the address tables and passes pointers to all
databases to FMan, at `PM_SUSPEND_PREPARE`, when processes still run. All of it is
shared static state. The only locks are those of
the two open counts.

The hazards that follow from this are listed under `hazards` in `PROJECT.json`,
each at its line, with the properties that cover it or the reason why none does.

## Modules

### WakeupRules

Models `arctrl_wakeup.c` and the ioctl in `arctrl_wakeuptool.c`.
`tbl[p]` is the table of protocol `p` (`"UDP"`, `"TCP"`, `"IP_PROT"`),
`table_size[p]` its counter, and `reply` remembers what the last ioctl was about
and what it returned. A port rule is the record of four 16 bit numbers of
`auto_res_port_filtering_entry`; a protocol is its byte. One ioctl is one step.

| Model | Code |
|---|---|
| `Init` | `ar_wakeup_init_db` |
| `ar_wakeup_get_free_index`, `ar_wakeup_get_index`, `ar_wakeup_get_prot_code` | the functions of those names |
| `Rewrite`, `AddRule`, `NoSpace` | the branches of each case of `ar_wakeup_recv_config`: found, new, full |
| `PortRule`, `IpProto` | the UDP and TCP cases, the IP protocol case |
| `BadIoctl` | the ioctl's early returns and its default case |

Two effects of the code are kept on purpose. A rule whose ports are both 0, and
protocol 0, look like a free slot, so they are counted and then overwritten.
And once `table_size` exceeds the table, `ar_wakeup_get_index` reads beyond the
allocation: it may then return an index outside the table. A protocol name is
known only by the rows of `prot_info` it is a prefix of (`NameRows`), which is
all that `strncmp` with the name's length sees.

### DeepSleep

Models `arctrl_fmd.c`, the table code of `arctrl_core.c`, `arctrl_pm.c` and the
write in `arctrl_proc.c`. The handler is a walk: `pc` says where it is, `d` which
device it reads (0 is the port, then the devices of `init_net` in order), `k`
which address. `index`, `maxlim`, `tbl` and `table_size` are the code's variables
for the three tables `arp`, `tem` and `tgt`. IPv4 and IPv6 are the same walk over
different lists, with the differences in `Target` (flags choose the table) and
`NextDev` (only IPv4 skips the VLANs when the port filled the table).

| Model | Code |
|---|---|
| `ar_suspend_noirq`, `ar_handle_deep_sleep_event` | the notifier's `PM_SUSPEND_PREPARE` and the proc write, up to the first test of the port (`Event`) |
| `ar_get_interface_info` | the second lookup and the reset of the sizes |
| `Store`, `Skip`, `EndOfList` | one turn of the loops of `ar_get_ipv4_info` and `ar_get_ipv6_info` |
| `Handoff` | the rest of `ar_process_deep_sleep_event` |
| `ar_process_resume_event` | the notifier's `PM_POST_SUSPEND` |
| `Sleep`, `PortChanges`, `Reconfigure` | the kernel around the module (external) |

The port can go up, down or away between any two steps of the handler. The
addresses change only between two handlers, one handler runs at a time,
every device has an (possibly empty) IPv4 and IPv6 list, and `ar_resport` names
the physical port, not a VLAN.

### SnmpTable

Models `arctrl_snmp.c`'s OID table and the CREATE ioctl of `arctrl_snmptool.c`.
`heap` is the kernel memory that the entries' `oidVal` and `resVal` point to: a
buffer is freed, zeroed, or holds an OID or a value. `Str` is what `strcmp` sees
of an OID, its bytes before the first zero byte. `CreateFails` has the five ways in
which the ioctl fails half way, with what each leaves allocated. `Delete` is the
interface of `ar_snmp_recv_agent_config`; the ioctl has no case for it. Its
`deleted` flag is a history variable: several properties are about the calls
that a client can make, and are stated for histories without a DELETE that
found its entry.

### Lifecycle

Models `ar_init` and `ar_exit` with everything they call: `ar_proc_init`,
`ar_sysfs_init`, the three `*_init_db` functions, `ar_pm_register` and their
counterparts. `pc` names the call that comes next; each call has one disjunct
per outcome, with what the code leaves registered (`reg`) and stored (`ptr`).
A pointer is null, live or dangling (freed, and not reset). `todo` is the list of
hooks a failure path or `ar_exit` still has to remove. Between any two calls a client may open or
close a device, use an ioctl or a sysfs store, or cause a deep sleep event,
through whatever is registered at that moment; `misused` collects the pointers
used while they were not live. The module has no owner in its file operations, so
that a file can outlive it (`orphan`). An initialisation of one database is one
step. FMan's table sizes are taken to be above 0, and `AR_DEBUG_API` (the proc
interface) is a constant, true in the run.

### BoundedMap

The abstract specification: a family of maps of at most `Cap` keys that only
grow. A call that reports success has stored its value, a call that finds its
table full says so or, for a table that cannot, does not; keys that look like
an unused entry (`Blank`) may be dropped. `WakeupRules` implements three of them
and `SnmpTable` one, by

| | `map` | `last` | `trusted` |
|---|---|---|---|
| `WakeupRules` | the rules in the slots that are not free, each to `TRUE` | the ioctl's rule and answer | the counter of the table has not run past it |
| `SnmpTable` | what `strcmp` sees of an OID, to the OID and the value in the buffers | the CREATE and its answer | no DELETE has found its entry |

`StoresRules` and `StoresEntries` are the refinements. The IP protocol table and
the OID table are maps with the silent kind of refusal: their code reports
success when they are full. `SnmpTool` is composed with this abstract table.

### Settings

Models the string and flag stores of `arctrl_sysfs.c`, the community and flag
commands of `arctrl_snmptool.c` and `arctrl_snmp.c`, and `ar_snmp_api.c`, the
library that sends them. `heap` is the kernel memory the two string pointers
`ptr` point to: each buffer has a size (64 from `ar_snmp_init_db`, 16 from an
ioctl), a length byte (`head`), a text, and the set of its bytes that are zero,
which is what `strlen` depends on. An ioctl takes 16 bytes as they are: `byte1`
and `nul` give the length byte and the zero bytes of each argument. No lock covers
both interfaces, so every access is a step: a store is `StartStore` (the test of
the length, cut to a byte), `StoreType`, `StoreLength`, `StoreText` and `StoreEnd`,
each through the pointer as it is at that moment; the ioctl is `IoctlComm`, `kzfree`,
`Clear`, `Install`, and then, on the buffer that is in use by now, `Measure` (the
`strlen`) and `Terminate`. `HandOff` is a
deep sleep event, in which FMan reads the strings. The other six stores are one step
each: they work on a copy of their own, for which there may be no memory
(`StoreStarved`) and of which `ar_wakeup_atoi` reads four bytes even if it has fewer.
Agents go through the library:
`ar_snmp_dev_open`, one ioctl, `ar_snmp_dev_close`. `harm` records a misuse
of memory with its cause, after which the model stops, for nothing is known of a
kernel whose memory is overwritten. `last` remembers which call wrote a string
last, and whether it overlapped another.

### WakeupTool

Models `ar_wakeup_tool.c`. It extends `WakeupRules`: a line that becomes an ioctl
is the same step there (`PortRule`, `IpProto`, `Refuse`). A line is a section
head, a comment or a text; `RuleToConfig` is the section, `pos` the line,
`errors` the lines for which an error was printed. A text that has fewer than four
numbers leaves some of the tool's variables unwritten, so that any rule of a
given set may be sent for it. The database outlives the run, and the tool runs
several times.

### SnmpTool

Models `ar_snmp_tool.c`: the encoders as operators (`ar_snmp_get_size`,
`ar_snmp_get_val`, `ar_snmp_process_string`, `ar_snmp_convert_value`,
`ar_snmp_convert_bitvalue`, each with what it does at a zero byte, an odd digit or
missing bits), and the loop over the lines with the one static entry. The encoders
are written without recursion, so that they can be proved about: the loop of
`ar_snmp_get_size` counts a byte at its 9th, 17th and 25th shift, and `strlen` is the
number of bytes with no zero up to them. A line is
`Parse` (with both allocations and their failures), then one of `SendFails`,
`SendStarved` and `Send`; `FreeEntry` is the end of a successful line. `harm`
records each second free: the line for which the memory was allocated and the line
that was being sent. Memory that
was not written to holds a byte of `Junk`. The processor is big-endian. `Means` says,
independently of the encoders, when bytes stand for a value: how a number, digits
or bits are read back from them.

### Instances and proofs

`MCWakeupRules`, `MCDeepSleep`, `MCSnmpTable`, `MCSettings`, `MCWakeupTool` and
`MCSnmpTool` give the constants small values; `WakeupRulesProofs`,
`DeepSleepProofs`, `SnmpTableProofs`, `LifecycleProofs`, `SettingsProofs`,
`WakeupToolProofs` and `SnmpToolProofs` hold the theorems.

## Runs

Passing:

* `wakeup` (164,804 distinct states): two slots in each table, so that full, last
  slot, and overtaken counters all occur; four UDP rules (two that differ only
  in their masks, one with both ports 0), three TCP rules, four names: protocol 0,
  one protocol under two names, an unknown one. `MaxSize` = 3 bounds the counters;
  it is one more than the table, the first value at which the search leaves
  the table. Shows `RulesAnnounced`, `NoDuplicateRules`, `CountExact`,
  `PortReplyHonest`, `RulesKept` and the refinement `StoresRules`.
* `deep_sleep` (87,260): two ARP slots, three slots per NDP kind, five
  networks: all addresses fit; the VLANs fill the tables; the port alone
  overflows them; three VLANs overflow them; no addresses. Each table is
  met below, at and above its limit, on the port and on a VLAN, and after every
  other network. Shows `InBounds`, `NoStaleEntries`, `OverrunBounded`,
  `TablesExact` and `HandlerReturns`.
* `snmp` (133,407): two slots and four OIDs, two of which `strcmp` takes for equal;
  six buffers (the bound `Buf` of the model: two entries, and one more CREATE
  or the leaks of two failed ones). Buffers are interchangeable and
  declared symmetric. Shows `Packed`, `BuffersOwned`, `KeysUnique`,
  `OthersKept` and the refinement `StoresEntries`.
* `lifecycle` (730,198): repeated loads and unloads, with every combination of
  failing calls and every order of client calls. No bound is needed. Shows that a
  suspend always finds its tables (`PmServed`), that nothing stays registered
  after an unload or after a load that failed later than the device registrations
  (`UnloadedClean`; a refusal of the second device does leave the first one
  registered, and no later load succeeds), which half-done creations lead to
  a second free (`FreedOnce`), and that after a load without failures no client
  call meets missing memory (`ClientsSafe`). Before the load has ended that
  is not so: a sysfs store or a proc write that comes early uses null pointers.
* `community` (1,490,910, up to symmetry of agents and addresses): two agents, one
  sysfs writer, three buffers (the two
  strings and the one being installed; when a faulting ioctl leaks the third, the
  next finds no memory). Texts are one that fits every buffer, an empty one and one
  that are refused, and one of 316 characters, whose length becomes 60, the largest
  that is accepted. Arguments are one with two zero bytes, its length byte among
  them, and one with none. `HarmCauses` lists the ways in which the strings and the
  stores misuse memory and shows that the model has no others: a store that
  overlaps an ioctl on the same string, whose buffer is gone or which finds its
  zero byte overwritten; a deep sleep event between an ioctl's free and
  its new string; a store into the 16 bytes of an ioctl; the `strlen` and terminator
  of an ioctl whose 16 bytes have no zero among them, which needs no overlap at all;
  the second free of the GETALL ioctl; a mask of too few digits; a store without
  memory for its copy. `StringsLive` and `LastWriteHolds` say what the
  strings are worth after any other history. With two writers the state space is out
  of reach; `SettingsProofs` covers any number.
* `wakeup_tool` (211,341): every file of up to four lines made of three section
  heads, a comment and four texts (a port line that cannot be scanned, a rule that
  looks like a free slot, two that do not), read twice, with two, one and one
  slots, so that tables fill up within a file. `MaxSize` = 8 is never reached.
  Shows `PortLinesReported`, `TableFromFile`, `RerunChangesNothing` and `ToolEnds`.
* `snmp_tool` (723,881): files of one line for every type with values at the
  boundaries (byte sizes of numbers, components 0, 255, 256 and 999, up to four
  hexadecimal digits and 18 bits), and every file of up to four lines out of five,
  with one slot, so that the table is full after one OID. `EntryExact` reads
  the value back from its encoding. `TableSound`, `FreedTwiceCause` and
  `LinesStored` are about what failures leave behind: a line of unknown type sends
  the previous line's entry again if that one's ioctl failed, and memory is
  freed twice only when the tool finds no memory for the value of a line and the
  kernel none for the value it is sent. The two failures need not be on one line:
  when the line's own ioctl fails, the freed pointer stays in the entry, and the
  kernel's may come with one of the lines of unknown type right after it.

Runs in which TLC finds a disagreement between the code and its own comments or
messages, each described under `findings`:

* `ip_full`: a full IP protocol table reports success, where the comment says
  that it returns an error.
* `unknown_protocol`: the test for an unknown protocol can never be true; code
  255 is stored.
* `arp_overrun`: `table_size` exceeds the maximum obtained from FMan once several
  VLANs have more addresses than there are slots. `OverrunBounded` says by how
  much it can.
* `fman_ack`: FMan's answer, which the comment says is waited for, is not read.
* `snmp_delete`: DELETE of an entry that is not the last frees buffers in use.

`TablesExact` has a precondition that a reader should know of: an NDP table must
have a slot to spare, because filling either kind to the last slot ends the walk of
that device's list and loses addresses of the other kind.

Deadlock is checked in every run: an ioctl, and an event of the kernel around the
module, are always possible.

Fairness is assumed for two properties. `HandlerReturns`: `WF_vars(Handler)`, the
handler's own steps; it is kernel code without waiting in it, called from a
notifier or a system call, so once entered it runs on. `ToolEnds`: the tool's own
steps, for it waits for nobody. Nothing is assumed of the power management core, of the
network, of sysfs writers, or of when a client calls.

## Proofs

All theorems hold for every value of the constants that the named assumptions
allow:

| Assumption | Says |
|---|---|
| `RuleAssumption`, `SizeAssumption` (`WakeupRules`) | rules and protocol codes have their types, sizes are natural numbers |
| `NetAssumption`, `SizeAssumption` (`DeepSleep`) | networks of any size, well-typed; tables with at least one slot |
| `BufAssumption` (`SnmpTable`) | `NULL` is no address and no OID; the marks of freed and zeroed memory are no contents |
| `BuildAssumption` (`Lifecycle`) | `AR_DEBUG_API` is set or not: both builds are covered |
| `SettingsAssumption` (`Settings`) | texts have lengths, and are neither arguments nor the marks of the history variable; an argument has a length byte and zero bytes that agree; memory has two addresses for the two strings `ar_snmp_init_db` allocates |
| `ToolAssumption` (`WakeupTool`) | a file is a sequence of lines of the known kinds |
| `ToolAssumption` (`SnmpTool`) | a file is a sequence of lines whose value fits in `value[128]` and is made of what its type takes (a 32 bit number, components of up to three digits, characters, hexadecimal digits, bits); memory holds bytes |

**`WakeupRulesProofs`.** The inductive invariant `IInv` is the conjunction of
`TypeOK`, `RulesAnnounced`, `NoDuplicateRules` and `CountExact`. They need each
other: a rule is not doubled because the search covers every rule
(`RulesAnnounced`), and that stays true because the first free slot is at most at
`table_size`. Rewriting and refusals leave the tables alone, so the work is in
`AddRule` (lemma `AddRuleEffect`). From it: `TypeCorrect`, `AllRulesAnnounced`,
`RulesUnique`, `CountsExact`, the action property `StoredRulesKept`, and
`PortRepliesHonest`. `TablesStoreRules` is the refinement of `BoundedMap`, one case
for each branch of an ioctl: an `AddRule` adds one key to one map, which has room
because occupied slots and keys are equally many (no duplicates); all other branches
leave the maps alone, and a refusal is one of a full map because no slot is free.

**`DeepSleepProofs`.** `IInv` adds to `TypeOK` and `InBounds` the invariant of the
walk, `WalkInv`: index and `table_size` agree below the limit, the index stays on
the last slot from the limit on, the excess is at most the number of devices
already left, and every counted slot holds an address of the present
configuration. Without it neither `InBounds` nor `OverrunBounded` is inductive. From
it: `TypeCorrect`, `WritesInBounds`, `HandoffGenuine`, `OverrunLimited`.
`HandoffComplete` (`TablesExact`) needs more: which slot an address ends in. `Wanted(t)`
is the set of entries table `t` should have, each with its device and place in
the list, and `SlotOf` ranks it by the number of wanted entries before it on the walk.
`ExactSoFar` says that, while what is wanted fits, `table_size` is the number of
wanted entries the walk has passed (`Seen`) and each of them is in the slot of its rank. A
`Store` passes exactly one wanted entry of its table and none of the others; a `Skip`
or the end of a list passes none; and a break at the limit loses nothing, because a
table that still has something coming is not full.

**`SnmpTableProofs`.** `TypeOK` and `Packed` are inductive together, for CREATE and
DELETE; `BuffersOwned` and `KeysUnique` are proved on top of them
(`OwnedInvariance`), because `KeysUnique` speaks of what is in memory, and a CREATE
leaves the other entries' memory alone only if they own it. From it: `TypeCorrect`,
`TablePacked`, `EntriesSound`, `KeysAreUnique`, the action property
`OtherEntriesKept`, and `TableStoresEntries`, the refinement of `BoundedMap`, in
which an entry is read through its buffers.

**`LifecycleProofs`.** None of the properties is inductive, for what is safe depends
on where `ar_init` or `ar_exit` is. `IInv` says for each place what may be there:
what is registered is still on the list of hooks to remove, and each hook is there
once (`RemovalComplete`); which hooks there can be, by `pc` (`HooksInOrder`); which
pointers are live, by `pc` (`LiveInOrder`); and a pointer to freed memory was left
by a creation that failed or belongs to a hook no longer on the list
(`FreedBefore`), which is why no hook frees it again. From it: `TypeCorrect`,
`SuspendServed`, `UnloadsClean`, `FreesOnce` and the action property
`ClientCallsSafe`.

**`SettingsProofs`.** `IInv` is about histories in which no memory was misused
yet, with the reasons for it at hand: the device has one agent (`Exclusive`); every
string has a live buffer of its own unless that agent is swapping it, and the buffer
it brings is nobody's until it is that string's (`Owned`); the history variable tells
a string that one call is changing from one that several are (`Noted`); and a string
that no call is changing, or one that a single call has half changed, holds what it
should (`Whole`). `HarmCauses` is part of it: a misuse of a kind it does not list would
need a state these four exclude. So `strlen` leaves the buffer of an ioctl that no
store has overlapped only if its argument has no zero byte, because by `Whole` the
buffer still is the argument; and the terminator never does, because by `Owned` the
string still is the buffer that was measured. The theorems, `TypeCorrect`, `HarmExplained`,
`StringsAreLive` and `LastWriteKept`, are for any number of agents and writers,
where the run has one writer.

**`WakeupToolProofs`.** Extends the database's proofs. `ToolIsClient` shows that
the composed program implements the database's specification, so that all its
theorems hold under the tool. `ToolInv` adds to the database's `IInv` the section the
tool is in (`InSection`), exact counters for a file whose lines are definite
(`ToolCount`, the assumption of `CountExact` made about a file instead of all
possible rules), and that a line that was sent is stored or its table is full
(`Sent`). The last one is what a second run needs: each of its ioctls finds
its rule, or finds no free slot. From it: `ToolTypeCorrect`, `TablesFromFile`,
`LinesReported` and the action property `RerunsChangeNothing`.

**`SnmpToolProofs`.** Two parts. The encoders: for each kind of value, that the
result consists of bytes and is at most 127 long (`ValueType`), and that for a plain
line it `Means` the value (`ValueMeans`); the number in the fewest bytes by the four
cases of its size (`SizeOfNumber`), bits by the eight weights of a byte
(`BitByteBits`), where an unwritten byte cannot show since at most one bit is
missing. The loop: `ToolInv` adds `EntryInv` to the properties, for what the one
entry holds between lines. If its OID is allocated, so is its value, and both encode
one line, which is the one being sent, or one whose ioctl failed and after which
only unknown types were met (`EntryCurrent`); if its OID is freed, the same holds of
the line whose value could not be allocated, and it has no value, so a
successful `Send` never frees it again. From it: `TypeCorrect`, `EntriesExact`,
`TablesSound`, `FreedTwiceExplained`, `AllLinesStored`.

Only model-checked, with the reason:

* `HandlerReturns`, `ToolEnds`: liveness under fairness.
* The five properties of the violation runs, which do not hold.

## Not modelled

* The dump and statistics functions, which print, and the headers.
* Two deep sleep handlers at the same time (a proc write during a suspend): each
  resets indexes and sizes that the other is using, so no bound on the tables is
  left to state, and no document promises anything about it. The proc file exists
  only in debug builds.
* Two ioctls at the same time on one open device (a shared descriptor). The open
  count of either device keeps out a second client that opens it itself, and no
  other; the repository's tools have one thread and hand their descriptor to nobody.
* The width of FMan's flag fields (`control` and the others), whose structures are not
  in the repository: taken to be `uint8_t`. What `TypeOK` says of `flags` rests on it.
* Inputs for which the code leaves undefined what happens: lists that change
  under the walk, protocol names longer than their ten byte buffers, OID components of
  more than three digits, SNMP lines with missing or over-long fields, other
  characters than digits for the TCP flag mask.
* The layout of kernel memory beyond the tables, little-endian processors for the SNMP
  tool, references on the port (`dev_get_by_name` takes one for every event and none is
  given back), and a response port that is itself a VLAN.

## Plan

1. Done: all components modelled and checked; every safety invariant, action
   property and refinement of the passing runs proved for every value of the
   constants. The liveness properties stay with TLC.
2. Open: the hazards without a property (see their notes in `PROJECT.json`): two deep
   sleep handlers at once, a shared descriptor, lists that change under the
   walk, a port that is down at resume. Each would need a statement of
   what the code is meant to promise there, which the repository does not make.
