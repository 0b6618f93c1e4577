------------------------------ MODULE Lifecycle ------------------------------
(***************************************************************************)
(* Loading and unloading the kernel module: ar_init and ar_exit            *)
(* (arctrl_core.c) with the initialisations they call, each of which may   *)
(* fail, and the clients that call in through whatever is registered so    *)
(* far.                                                                    *)
(*                                                                         *)
(* A pointer of the module is null, live, or dangling: freed and still     *)
(* stored.  A step is one call that ar_init or ar_exit makes, or one call  *)
(* of a client.  A failed load and an unload drop the module's code and    *)
(* variables; what is registered or open stays in the kernel.              *)
(***************************************************************************)
EXTENDS Integers, Sequences

CONSTANT AR_DEBUG_API   \* the build has the proc interface

ASSUME BuildAssumption == AR_DEBUG_API \in BOOLEAN

Device == {"ar_dev", "ar_wakeup_dev"}

\* What the module registers with the kernel.
Hook == Device \cup {"proc", "sysfs", "pm"}

Tables == {"ar_arp_tbl", "ar_ndp_tem_tbl", "ar_ndp_tgt_tbl"}
Rules == {"ar_wakeup_udp_entity", "ar_wakeup_tcp_entity",
          "ar_wakeup_ip_prot_tbl"}
Strings == {"community_read_write_string", "community_read_only_string"}
Ptr == Tables \cup Rules \cup Strings \cup
            {"ar_snmp_entity", "ar_dir", "ar_data", "ar_kobj"}

VARIABLES
    pc,       \* "out", the call ar_init makes next, "live", "undo" or
              \* "exit" while hooks are removed, "oops" after a crash
    todo,     \* the hooks that are still to be removed
    result,   \* what the last load returned
    reg,      \* the hooks the kernel has
    ptr,      \* the pointers of the module
    sized,    \* the databases whose table sizes are no longer 0
    failed,   \* the calls that failed in this load
    misused,  \* the pointers used in this load while they were not live;
              \* "text" is the module's code itself
    file,     \* the devices that are open
    orphan    \* the devices with an open file of an earlier load

vars == <<pc, todo, result, reg, ptr, sized, failed, misused, file,
          orphan>>

files == <<file, orphan>>

Misuse(S) == misused' = misused \cup S
NotLive(S) == {p \in S : ptr[p] # "live"}
Dangling(S) == {p \in S : ptr[p] = "dangling"}

\* The pointers after kzalloc has been called for those of s in turn, n times
\* with success: on a failure the earlier ones are freed but not reset.
Alloc(f, s, n) ==
    [p \in Ptr |->
        IF \E i \in 1..n : s[i] = p
        THEN IF n = Len(s) THEN "live" ELSE "dangling"
        ELSE IF n < Len(s) /\ s[n + 1] = p THEN "null" ELSE f[p]]

\* The module leaves the kernel.
Return(r) ==
    /\ pc' = "out"
    /\ result' = r
    /\ orphan' = orphan \cup file
    /\ file' = {}

-----------------------------------------------------------------------------
(* ar_init                                                                 *)

\* Mutants: the failure path forgets sysfs; it removes it twice.
UndoForgetsSysfs == <<"ar_dev", "ar_wakeup_dev", "proc">>
UndoSysfsTwice == <<"ar_dev", "ar_wakeup_dev", "sysfs", "sysfs", "proc">>

\* The hooks the failure paths of ar_init remove, in their order.
UndoList == IF AR_DEBUG_API
            THEN <<"ar_dev", "ar_wakeup_dev", "proc", "sysfs">>
            ELSE <<"ar_dev", "ar_wakeup_dev", "sysfs">>

Undo ==
    /\ pc' = "undo"
    /\ todo' = UndoList
    /\ result' = "-AR_INIT_ERROR"

Insmod ==
    /\ pc = "out"
    /\ pc' = "ar_dev"
    /\ ptr' = [p \in Ptr |-> "null"]
    /\ sized' = {} /\ failed' = {} /\ misused' = {}
    /\ UNCHANGED <<todo, result, reg, files>>

\* register_chrdev: fails on a number that is taken.  A failure returns at
\* once, with what was registered before left in place.
RegisterChrdev(v, next) ==
    /\ pc = v
    /\ \/ /\ v \notin reg
          /\ reg' = reg \cup {v}
          /\ pc' = next
          /\ UNCHANGED <<result, failed, files>>
       \/ /\ Return("-1")
          /\ failed' = failed \cup {v}
          /\ UNCHANGED reg
    /\ UNCHANGED <<todo, ptr, sized, misused>>

\* ar_proc_init.  ar_init ignores its result.
ar_proc_init ==
    /\ pc = "proc"
    /\ pc' = "sysfs"
    /\ \/ /\ reg' = reg \cup {"proc"}
          /\ ptr' = [ptr EXCEPT !["ar_dir"] = "live", !["ar_data"] = "live"]
          /\ UNCHANGED failed
       \/ /\ failed' = failed \cup {"proc_mkdir"}
          /\ UNCHANGED <<reg, ptr>>
       \/ /\ failed' = failed \cup {"ar_data"}
          /\ ptr' = [ptr EXCEPT !["ar_dir"] = "dangling"]
          /\ UNCHANGED reg
       \/ /\ failed' = failed \cup {"proc_create"}
          /\ ptr' = [ptr EXCEPT !["ar_dir"] = "dangling",
                                !["ar_data"] = "dangling"]
          /\ UNCHANGED reg
    /\ UNCHANGED <<todo, result, sized, misused, files>>

\* ar_create_sysfs returns an error as an unsigned number, so that ar_init's
\* test "< 0" is never true and it goes on.
ar_create_sysfs ==
    /\ pc = "sysfs"
    /\ pc' = "intf"
    /\ \/ /\ reg' = reg \cup {"sysfs"}
          /\ ptr' = [ptr EXCEPT !["ar_kobj"] = "live"]
          /\ UNCHANGED failed
       \/ /\ failed' = failed \cup {"kobject_create"}
          /\ UNCHANGED <<reg, ptr>>
       \/ /\ failed' = failed \cup {"sysfs_create_group"}
          /\ ptr' = [ptr EXCEPT !["ar_kobj"] = "dangling"]
          /\ UNCHANGED reg
    /\ UNCHANGED <<todo, result, sized, misused, files>>

\* Mutant: ar_init goes on without the tables.
IntfIgnored == pc' = "snmp_db" /\ UNCHANGED <<todo, result>>

IntfFails == Undo

ar_intf_init_db ==
    /\ pc = "intf"
    /\ \/ /\ ptr' = Alloc(ptr, <<"ar_arp_tbl", "ar_ndp_tem_tbl",
                                 "ar_ndp_tgt_tbl">>, 3)
          /\ pc' = "snmp_db"
          /\ UNCHANGED <<todo, result, failed>>
       \/ \* no port that is up, or no sizes from FMan
          /\ failed' = failed \cup {"fm_port"}
          /\ IntfFails
          /\ UNCHANGED ptr
       \/ \E n \in 0..2 :
            /\ ptr' = Alloc(ptr, <<"ar_arp_tbl", "ar_ndp_tem_tbl",
                                   "ar_ndp_tgt_tbl">>, n)
            /\ failed' = failed \cup {"intf_init"}
            /\ IntfFails
    /\ UNCHANGED <<reg, sized, misused, files>>

\* ar_snmp_init_db.  The allocation of the entries is not tested before they
\* are cleared; ar_init ignores the result, which is 0 in any case.  The
\* database is cleared first, and with it a string a client has set.
ar_snmp_init_db ==
    LET cleared == [p \in Ptr |-> IF p \in Strings THEN "null" ELSE ptr[p]]
        entity == [cleared EXCEPT !["ar_snmp_entity"] = "live"]
        strings == <<"community_read_write_string",
                     "community_read_only_string">>
    IN  /\ pc = "snmp_db"
        /\ sized' = sized \cup {"snmp"}
        /\ \/ /\ ptr' = Alloc(entity, strings, 2)
              /\ pc' = "wakeup_db"
              /\ UNCHANGED <<failed, misused>>
           \/ \E n \in 0..1 :
                /\ ptr' = Alloc(entity, strings, n)
                /\ failed' = failed \cup {"snmp_init"}
                /\ pc' = "wakeup_db"
                /\ UNCHANGED misused
           \/ /\ ptr' = cleared
              /\ failed' = failed \cup {"snmp_init"}
              /\ Misuse({"ar_snmp_entity"})
              /\ pc' = "oops"
        /\ UNCHANGED <<todo, result, reg, files>>

\* ar_wakeup_init_db, its result ignored as well.
ar_wakeup_init_db ==
    LET rules == <<"ar_wakeup_udp_entity", "ar_wakeup_tcp_entity",
                   "ar_wakeup_ip_prot_tbl">>
    IN  /\ pc = "wakeup_db"
        /\ pc' = "pm"
        /\ sized' = sized \cup {"wakeup"}
        /\ \/ /\ ptr' = Alloc(ptr, rules, 3)
              /\ UNCHANGED failed
           \/ \E n \in 0..2 :
                /\ ptr' = Alloc(ptr, rules, n)
                /\ failed' = failed \cup {"wakeup_init"}
        /\ UNCHANGED <<todo, result, reg, misused, files>>

ar_pm_register ==
    /\ pc = "pm"
    /\ \/ /\ reg' = reg \cup {"pm"}
          /\ pc' = "live"
          /\ result' = "AR_SUCCESS"
          /\ UNCHANGED <<todo, failed>>
       \/ /\ failed' = failed \cup {"pm"}
          /\ Undo
          /\ UNCHANGED reg
    /\ UNCHANGED <<ptr, sized, misused, files>>

-----------------------------------------------------------------------------
(* Removing the hooks                                                      *)

\* Nothing holds the module while a device is open: the file operations
\* name no owner.
ar_exit ==
    /\ pc = "live"
    /\ pc' = "exit"
    /\ todo' = IF AR_DEBUG_API
               THEN <<"ar_dev", "ar_wakeup_dev", "sysfs", "proc", "pm">>
               ELSE <<"ar_dev", "ar_wakeup_dev", "sysfs", "pm">>
    /\ UNCHANGED <<result, reg, ptr, sized, failed, misused, files>>

\* What removing a hook does with the module's pointers.  Only ar_data is
\* reset after it is freed.
Freed(h) ==
    CASE h = "sysfs" -> {"ar_kobj"}
      [] h = "proc" -> {"ar_dir", "ar_data"}
      [] OTHER -> {}

Drop(h) ==
    [p \in Ptr |->
        IF h = "proc" /\ p = "ar_data" THEN "null"
        ELSE IF p \in Freed(h) /\ ptr[p] = "live" THEN "dangling" ELSE ptr[p]]

\* Mutant: the last hook does not end the list.
UnregisterNoReturn ==
    /\ todo # <<>>
    /\ reg' = reg \ {Head(todo)}
    /\ Misuse(Dangling(Freed(Head(todo))))
    /\ ptr' = Drop(Head(todo))
    /\ todo' = Tail(todo)
    /\ UNCHANGED <<pc, result, files, sized, failed>>

Unregister ==
    /\ todo # <<>>
    /\ reg' = reg \ {Head(todo)}
    /\ Misuse(Dangling(Freed(Head(todo))))
    /\ ptr' = Drop(Head(todo))
    /\ todo' = Tail(todo)
    /\ IF Len(todo) = 1
       THEN Return(IF pc = "exit" THEN "removed" ELSE result)
       ELSE UNCHANGED <<pc, result, files>>
    /\ UNCHANGED <<sized, failed>>

-----------------------------------------------------------------------------
(* Clients                                                                 *)

\* The open function of a device admits one file.  Opening a device whose
\* module is gone calls code that is gone.
Open(v) ==
    /\ v \in reg
    /\ IF pc = "out"
       THEN Misuse({"text"}) /\ UNCHANGED file
       ELSE v \notin file /\ file' = file \cup {v} /\ UNCHANGED misused
    /\ UNCHANGED <<pc, todo, result, reg, ptr, sized, failed, orphan>>

\* The release function, on a file of this load or of one that is gone.
Release(v) ==
    /\ \/ v \in file /\ file' = file \ {v} /\ UNCHANGED <<orphan, misused>>
       \/ /\ v \in orphan
          /\ orphan' = orphan \ {v}
          /\ Misuse({"text"})
          /\ UNCHANGED file
    /\ UNCHANGED <<pc, todo, result, reg, ptr, sized, failed>>

\* An ioctl that adds a rule or an OID looks at the slots its sizes name.
IoctlAdd(v, db, S) ==
    /\ v \in file
    /\ Misuse(IF db \in sized THEN NotLive(S) ELSE {})
    /\ UNCHANGED <<pc, todo, result, reg, ptr, sized, failed, files>>

\* Mutant: the new string is not stored.
CommStrLost(s) ==
    /\ "ar_dev" \in file
    /\ Misuse(Dangling({s}))
    /\ ptr' = [ptr EXCEPT ![s] = IF @ = "live" THEN "dangling" ELSE @]
    /\ UNCHANGED <<pc, todo, result, reg, sized, failed, files>>

\* ar_snmp_config_comm_str frees the string and stores the client's.
ar_snmp_config_comm_str(s) ==
    /\ "ar_dev" \in file
    /\ Misuse(Dangling({s}))
    /\ ptr' = [ptr EXCEPT ![s] = "live"]
    /\ UNCHANGED <<pc, todo, result, reg, sized, failed, files>>

\* A store to one of the two string attributes writes into the string.
SysfsStore(s) ==
    /\ "sysfs" \in reg
    /\ Misuse(NotLive({s}))
    /\ UNCHANGED <<pc, todo, result, reg, ptr, sized, failed, files>>

\* A suspend, or a write to the proc file, fills the address tables.
DeepSleepEvent(h) ==
    /\ h \in reg
    /\ Misuse(NotLive(Tables))
    /\ UNCHANGED <<pc, todo, result, reg, ptr, sized, failed, files>>

-----------------------------------------------------------------------------

Init ==
    /\ pc = "out" /\ todo = <<>> /\ result = "none"
    /\ reg = {}
    /\ ptr = [p \in Ptr |-> "null"]
    /\ sized = {} /\ failed = {} /\ misused = {}
    /\ file = {} /\ orphan = {}

Module ==
    \/ RegisterChrdev("ar_dev", "ar_wakeup_dev")
    \/ RegisterChrdev("ar_wakeup_dev", IF AR_DEBUG_API THEN "proc" ELSE "sysfs")
    \/ ar_proc_init
    \/ ar_create_sysfs
    \/ ar_intf_init_db
    \/ ar_snmp_init_db
    \/ ar_wakeup_init_db
    \/ ar_pm_register
    \/ Unregister

Client ==
    \/ \E v \in Device : Open(v) \/ Release(v)
    \/ IoctlAdd("ar_dev", "snmp", {"ar_snmp_entity"})
    \/ IoctlAdd("ar_wakeup_dev", "wakeup", Rules)
    \/ \E s \in Strings : ar_snmp_config_comm_str(s) \/ SysfsStore(s)
    \/ \E h \in {"proc", "pm"} : DeepSleepEvent(h)

Next == Insmod \/ Module \/ ar_exit \/ Client

Spec == Init /\ [][Next]_vars

-----------------------------------------------------------------------------
(* Properties                                                              *)

Loading == {"ar_dev", "ar_wakeup_dev", "proc", "sysfs", "intf", "snmp_db",
            "wakeup_db", "pm"}

\* The state has its type, and hooks are being removed exactly in the phases
\* "undo" and "exit".
TypeOK ==
    /\ pc \in Loading \cup {"out", "live", "undo", "exit", "oops"}
    /\ todo \in Seq(Hook)
    /\ pc \in {"undo", "exit"} <=> todo # <<>>
    /\ result \in {"none", "-1", "-AR_INIT_ERROR", "AR_SUCCESS", "removed"}
    /\ reg \subseteq Hook
    /\ ptr \in [Ptr -> {"null", "live", "dangling"}]
    /\ sized \subseteq {"snmp", "wakeup"}
    /\ misused \subseteq Ptr \cup {"text"}
    /\ file \subseteq Device /\ orphan \subseteq Device

\* A suspend never meets a table that is not allocated: the notifier is
\* registered only with the address tables in place, and stays no longer than
\* they do, whatever fails on the way.
PmServed == "pm" \in reg => NotLive(Tables) = {}

\* An unload, and a load that failed after the devices were registered, leave
\* nothing of the module in the kernel.
UnloadedClean == pc = "out" /\ result # "-1" => reg = {}

\* Loading and unloading free the proc directory, its data and the sysfs
\* object once, except after a creation that failed half way and has freed
\* them already.
FreedOnce ==
    /\ "ar_dir" \in misused => failed \cap {"ar_data", "proc_create"} # {}
    /\ "ar_data" \in misused => "proc_create" \in failed
    /\ "ar_kobj" \in misused => "sysfs_create_group" \in failed

\* After a load in which nothing failed, no call of a client uses memory that
\* is not there, in any order of calls and until the module is removed; only
\* files that outlived an earlier load are not safe to touch.
ClientsSafe ==
    [][pc = "live" /\ failed = {} => misused' \subseteq misused \cup {"text"}]_vars
=============================================================================
