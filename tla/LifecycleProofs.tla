-------------------------- MODULE LifecycleProofs --------------------------
(***************************************************************************)
(* Proofs about Lifecycle, for a build with the proc interface and one     *)
(* without.  The inductive invariant IInv says, for each place of ar_init  *)
(* and ar_exit, which hooks the kernel may have and which pointers are     *)
(* live: what is registered is still on the list of hooks to remove, each  *)
(* hook is there once, and a pointer freed by a removal belongs to a hook  *)
(* that is no longer on the list.                                          *)
(***************************************************************************)
EXTENDS Lifecycle, SequenceTheorems, TLAPS

State == {"null", "live", "dangling"}

\* The names on a list, of hooks or of pointers, and that none is there
\* twice.
Names(s) == {s[i] : i \in 1..Len(s)}
Distinct(s) == \A i, j \in 1..Len(s) : s[i] = s[j] => i = j

Removing == pc \in {"undo", "exit"}

\* What is registered is to be removed, once.
RemovalComplete ==
    /\ Distinct(todo)
    /\ Removing => reg \subseteq Names(todo)

\* The hooks there are at each place of ar_init.
HooksInOrder ==
    /\ "proc" \in reg \/ pc = "proc" => AR_DEBUG_API
    /\ pc \in {"out", "ar_dev", "ar_wakeup_dev"} => reg \subseteq {"ar_dev"}
    /\ "pm" \in reg => pc \in {"live", "exit"}

\* The pointers that are live at each place of ar_init.
LiveInOrder ==
    /\ pc \in {"snmp_db", "wakeup_db", "pm", "live", "exit"} =>
            \A p \in Tables : ptr[p] = "live"
    /\ pc \in {"wakeup_db", "pm", "live"} /\ failed = {} =>
            \A p \in Strings \cup {"ar_snmp_entity"} : ptr[p] = "live"
    /\ pc \in {"pm", "live"} /\ failed = {} =>
            \A p \in Rules : ptr[p] = "live"

\* A pointer to freed memory has been freed by a creation that failed, or
\* its hook is no longer on the list.
Gone(h) == pc = "out" \/ (Removing /\ h \notin Names(todo))
FreedBefore ==
    /\ ptr["ar_dir"] = "dangling" =>
            failed \cap {"ar_data", "proc_create"} # {} \/ Gone("proc")
    /\ ptr["ar_data"] = "dangling" => "proc_create" \in failed
    /\ ptr["ar_kobj"] = "dangling" =>
            "sysfs_create_group" \in failed \/ Gone("sysfs")

IInv ==
    /\ TypeOK
    /\ RemovalComplete
    /\ HooksInOrder
    /\ LiveInOrder
    /\ FreedBefore
    /\ UnloadedClean
    /\ FreedOnce

-----------------------------------------------------------------------------
(* Lists of hooks                                                          *)

\* Taking the head off a list without repetitions takes that hook off.
LEMMA TailHooks ==
  ASSUME NEW s \in Seq(Hook), s # <<>>, Distinct(s)
  PROVE  /\ Head(s) \in Names(s) /\ Head(s) \in Hook
         /\ Tail(s) \in Seq(Hook)
         /\ Distinct(Tail(s))
         /\ Names(Tail(s)) = Names(s) \ {Head(s)}
         /\ Len(s) = 1 <=> Tail(s) = <<>>
<1>1. /\ Len(s) \in Nat /\ Len(s) >= 1
      /\ Head(s) = s[1]
      /\ Tail(s) \in Seq(Hook) /\ Len(Tail(s)) = Len(s) - 1
      /\ \A i \in 1..(Len(s) - 1) : Tail(s)[i] = s[i + 1]
  OBVIOUS
<1>2. Head(s) \in Names(s) /\ Head(s) \in Hook
  BY <1>1 DEF Names
<1>3. Distinct(Tail(s))
  BY <1>1 DEF Distinct
<1>4. Names(Tail(s)) = Names(s) \ {Head(s)}
  <2>1. ASSUME NEW h \in Names(Tail(s))
        PROVE  h \in Names(s) \ {Head(s)}
    <3>1. PICK i \in 1..(Len(s) - 1) : h = s[i + 1]
      BY <1>1 DEF Names
    <3>2. i + 1 \in 1..Len(s) /\ i + 1 # 1 /\ 1 \in 1..Len(s)
      BY <1>1
    <3>3. h # s[1]
      BY <3>1, <3>2 DEF Distinct
    <3> QED  BY <1>1, <3>1, <3>2, <3>3 DEF Names
  <2>2. ASSUME NEW h \in Names(s), h # Head(s)
        PROVE  h \in Names(Tail(s))
    <3>1. PICK i \in 1..Len(s) : h = s[i]
      BY DEF Names
    <3>2. i - 1 \in 1..(Len(s) - 1) /\ (i - 1) + 1 = i
      BY <1>1, <2>2, <3>1
    <3>3. Tail(s)[i - 1] = h
      BY <1>1, <3>1, <3>2
    <3> QED  BY <1>1, <3>2, <3>3 DEF Names
  <2> QED  BY <2>1, <2>2
<1>5. Len(s) = 1 <=> Tail(s) = <<>>
  <2>1. Tail(s) = <<>> <=> Len(Tail(s)) = 0
    BY <1>1, EmptySeq
  <2> QED  BY <1>1, <2>1
<1> QED  BY <1>1, <1>2, <1>3, <1>4, <1>5

\* The lists of ar_init's failure paths and of ar_exit name every hook there
\* can be at that point, each once.
LEMMA UndoHooks ==
  /\ UndoList \in Seq(Hook) /\ UndoList # <<>> /\ Distinct(UndoList)
  /\ Names(UndoList) = {h \in Hook : h # "pm" /\ (h = "proc" => AR_DEBUG_API)}
<1> DEFINE with == <<"ar_dev", "ar_wakeup_dev", "proc", "sysfs">>
           without == <<"ar_dev", "ar_wakeup_dev", "sysfs">>
<1>1. /\ with \in Seq(Hook) /\ with # <<>> /\ Distinct(with)
      /\ Names(with) = {"ar_dev", "ar_wakeup_dev", "proc", "sysfs"}
  BY DEF Distinct, Names, Hook, Device
<1>2. /\ without \in Seq(Hook) /\ without # <<>> /\ Distinct(without)
      /\ Names(without) = {"ar_dev", "ar_wakeup_dev", "sysfs"}
  BY DEF Distinct, Names, Hook, Device
<1>3. UndoList = IF AR_DEBUG_API THEN with ELSE without
  BY DEF UndoList
<1> HIDE DEF with, without
<1> QED  BY <1>1, <1>2, <1>3 DEF Hook, Device

\* The list of ar_exit, in the build with the proc interface and without.
ExitList == IF AR_DEBUG_API
            THEN <<"ar_dev", "ar_wakeup_dev", "sysfs", "proc", "pm">>
            ELSE <<"ar_dev", "ar_wakeup_dev", "sysfs", "pm">>

\* The same of the list of ar_exit.
LEMMA ExitHooks ==
  /\ ExitList \in Seq(Hook) /\ ExitList # <<>> /\ Distinct(ExitList)
  /\ Names(ExitList) = {h \in Hook : h = "proc" => AR_DEBUG_API}
<1> DEFINE with == <<"ar_dev", "ar_wakeup_dev", "sysfs", "proc", "pm">>
           without == <<"ar_dev", "ar_wakeup_dev", "sysfs", "pm">>
<1>1. /\ with \in Seq(Hook) /\ with # <<>> /\ Distinct(with)
      /\ Names(with) = {"ar_dev", "ar_wakeup_dev", "sysfs", "proc", "pm"}
  BY DEF Distinct, Names, Hook, Device
<1>2. /\ without \in Seq(Hook) /\ without # <<>> /\ Distinct(without)
      /\ Names(without) = {"ar_dev", "ar_wakeup_dev", "sysfs", "pm"}
  BY DEF Distinct, Names, Hook, Device
<1>3. ExitList = IF AR_DEBUG_API THEN with ELSE without
  BY DEF ExitList
<1> HIDE DEF with, without
<1> QED  BY <1>1, <1>2, <1>3 DEF Hook, Device

-----------------------------------------------------------------------------
(* Allocations                                                             *)

\* Allocating the pointers of s touches no other, and makes them all live
\* when nothing fails.
LEMMA AllocEffect ==
  ASSUME NEW f \in [Ptr -> State], NEW s \in Seq(Ptr), NEW n \in 0..Len(s)
  PROVE  /\ Alloc(f, s, n) \in [Ptr -> State]
         /\ \A p \in Ptr : p \notin Names(s) =>
                Alloc(f, s, n)[p] = f[p]
         /\ n = Len(s) => \A p \in Names(s) :
                Alloc(f, s, n)[p] = "live"
<1>1. Len(s) \in Nat /\ \A i \in 1..Len(s) : s[i] \in Ptr
  OBVIOUS
<1>2. Alloc(f, s, n) \in [Ptr -> State]
  BY DEF Alloc, State
<1>3. \A p \in Ptr : p \notin Names(s) => Alloc(f, s, n)[p] = f[p]
  <2>1. TAKE p \in Ptr
  <2>2. HAVE p \notin Names(s)
  <2>3. \A i \in 1..Len(s) : s[i] # p
    BY <2>2 DEF Names
  <2>4. (\A i \in 1..n : s[i] # p) /\ ~(n < Len(s) /\ s[n + 1] = p)
    BY <1>1, <2>3
  <2> QED  BY <2>4 DEF Alloc
<1>4. n = Len(s) => \A p \in Names(s) : Alloc(f, s, n)[p] = "live"
  BY <1>1 DEF Names, Alloc
<1> QED  BY <1>2, <1>3, <1>4

\* The address tables, the wake-up rules and the community strings, in the
\* order in which they are allocated.
TableList == <<"ar_arp_tbl", "ar_ndp_tem_tbl", "ar_ndp_tgt_tbl">>
RuleList == <<"ar_wakeup_udp_entity", "ar_wakeup_tcp_entity",
              "ar_wakeup_ip_prot_tbl">>
StringList == <<"community_read_write_string", "community_read_only_string">>

\* The lists name the pointers of their component.
LEMMA AllocLists ==
  /\ TableList \in Seq(Ptr) /\ Len(TableList) = 3 /\ Names(TableList) = Tables
  /\ RuleList \in Seq(Ptr) /\ Len(RuleList) = 3 /\ Names(RuleList) = Rules
  /\ StringList \in Seq(Ptr) /\ Len(StringList) = 2
  /\ Names(StringList) = Strings
<1> USE DEF Names, Ptr, Tables, Rules, Strings
<1>1. TableList \in Seq(Ptr) /\ Len(TableList) = 3 /\ Names(TableList) = Tables
  BY DEF TableList
<1>2. RuleList \in Seq(Ptr) /\ Len(RuleList) = 3 /\ Names(RuleList) = Rules
  BY DEF RuleList
<1>3. StringList \in Seq(Ptr) /\ Len(StringList) = 2
        /\ Names(StringList) = Strings
  BY DEF StringList
<1> QED  BY <1>1, <1>2, <1>3

-----------------------------------------------------------------------------
(* ar_init                                                                 *)

\* Loading starts with everything null.
LEMMA InsmodKeepsIInv ==
  ASSUME IInv, Insmod
  PROVE  IInv'
<1> USE DEF IInv, Insmod, files
<1>1. ptr' \in [Ptr -> {"null", "live", "dangling"}]
        /\ \A p \in Ptr : ptr'[p] = "null"
  OBVIOUS
<1>2. TypeOK'
  BY <1>1 DEF TypeOK, Loading
<1>3. RemovalComplete' /\ HooksInOrder' /\ LiveInOrder'
  BY DEF TypeOK, RemovalComplete, HooksInOrder, LiveInOrder, Removing
<1>4. FreedBefore' /\ UnloadedClean' /\ FreedOnce'
  BY <1>1 DEF FreedBefore, UnloadedClean, FreedOnce, Ptr
<1> QED  BY <1>2, <1>3, <1>4

\* register_chrdev adds the device or ends the load.
LEMMA RegisterKeepsIInv ==
  ASSUME IInv,
         \/ RegisterChrdev("ar_dev", "ar_wakeup_dev")
         \/ RegisterChrdev("ar_wakeup_dev",
                           IF AR_DEBUG_API THEN "proc" ELSE "sysfs")
  PROVE  IInv'
<1> USE DEF IInv, RegisterChrdev, Return, files
<1>1. TypeOK'
  BY DEF TypeOK, Loading, Hook, Device
<1>2. RemovalComplete' /\ LiveInOrder'
  BY DEF TypeOK, RemovalComplete, LiveInOrder, Removing
<1>3. HooksInOrder'
  BY DEF HooksInOrder
<1>4. FreedBefore' /\ UnloadedClean' /\ FreedOnce'
  BY DEF FreedBefore, UnloadedClean, FreedOnce, Gone, Removing
<1> QED  BY <1>1, <1>2, <1>3, <1>4

\* ar_proc_init leaves a directory or its data dangling only when it fails.
LEMMA ProcKeepsIInv ==
  ASSUME IInv, ar_proc_init
  PROVE  IInv'
<1> USE DEF IInv, ar_proc_init, files
<1>0. /\ ptr' \in [Ptr -> State]
      /\ \A p \in Ptr \ {"ar_dir", "ar_data"} : ptr'[p] = ptr[p]
  BY DEF TypeOK, State, Ptr
<1>1. TypeOK'
  BY <1>0 DEF TypeOK, Loading, Hook, Device, State
<1>2. RemovalComplete' /\ HooksInOrder' /\ LiveInOrder'
  BY DEF TypeOK, RemovalComplete, HooksInOrder, LiveInOrder, Removing
<1>3. FreedBefore'
  BY <1>0 DEF FreedBefore, Gone, Removing, TypeOK, Ptr
<1>4. UnloadedClean' /\ FreedOnce'
  BY DEF UnloadedClean, FreedOnce
<1> QED  BY <1>1, <1>2, <1>3, <1>4

\* ar_create_sysfs leaves the object dangling only when it fails.
LEMMA SysfsKeepsIInv ==
  ASSUME IInv, ar_create_sysfs
  PROVE  IInv'
<1> USE DEF IInv, ar_create_sysfs, files
<1>0. /\ ptr' \in [Ptr -> State]
      /\ \A p \in Ptr \ {"ar_kobj"} : ptr'[p] = ptr[p]
  BY DEF TypeOK, State, Ptr
<1>1. TypeOK'
  BY <1>0 DEF TypeOK, Loading, Hook, Device, State
<1>2. RemovalComplete' /\ HooksInOrder' /\ LiveInOrder'
  BY DEF TypeOK, RemovalComplete, HooksInOrder, LiveInOrder, Removing
<1>3. FreedBefore'
  BY <1>0 DEF FreedBefore, Gone, Removing, TypeOK, Ptr
<1>4. UnloadedClean' /\ FreedOnce'
  BY DEF UnloadedClean, FreedOnce
<1> QED  BY <1>1, <1>2, <1>3, <1>4

\* A failure path of ar_init puts what is registered on its list.
LEMMA UndoKeepsIInv ==
  ASSUME IInv, Undo, pc \in {"intf", "pm"},
         ptr' \in [Ptr -> State],
         \A p \in {"ar_dir", "ar_data", "ar_kobj"} : ptr'[p] = ptr[p],
         failed \subseteq failed',
         UNCHANGED <<reg, sized, misused, files>>
  PROVE  IInv'
<1> USE DEF IInv, Undo, files
<1>1. TypeOK'
  BY UndoHooks DEF TypeOK, State
<1>2. HooksInOrder' /\ LiveInOrder' /\ UnloadedClean' /\ FreedOnce'
  BY DEF HooksInOrder, LiveInOrder, UnloadedClean, FreedOnce
<1>3. RemovalComplete'
  BY UndoHooks DEF RemovalComplete, HooksInOrder, TypeOK
<1>4. FreedBefore'
  BY DEF FreedBefore, Gone, Removing
<1> QED  BY <1>1, <1>2, <1>3, <1>4

\* ar_intf_init_db has the tables in place or takes the failure path.
LEMMA IntfKeepsIInv ==
  ASSUME IInv, ar_intf_init_db
  PROVE  IInv'
<1>0. ptr \in [Ptr -> State] /\ pc = "intf"
  BY DEF IInv, TypeOK, State, ar_intf_init_db
<1>1. ASSUME NEW n \in 0..3
      PROVE  /\ Alloc(ptr, TableList, n) \in [Ptr -> State]
             /\ \A p \in Ptr \ Tables : Alloc(ptr, TableList, n)[p] = ptr[p]
             /\ n = 3 => \A p \in Tables : Alloc(ptr, TableList, n)[p] = "live"
  <2>1. n \in 0..Len(TableList) /\ TableList \in Seq(Ptr)
    BY AllocLists
  <2>2. /\ Alloc(ptr, TableList, n) \in [Ptr -> State]
        /\ \A p \in Ptr : p \notin Names(TableList) =>
                Alloc(ptr, TableList, n)[p] = ptr[p]
        /\ n = Len(TableList) => \A p \in Names(TableList) :
                Alloc(ptr, TableList, n)[p] = "live"
    BY <1>0, <2>1, AllocEffect
  <2> QED  BY <2>2, AllocLists
<1>2. \A p \in {"ar_dir", "ar_data", "ar_kobj"} : p \in Ptr \ Tables
  BY DEF Ptr, Tables
<1>3. CASE /\ ptr' = Alloc(ptr, TableList, 3)
           /\ pc' = "snmp_db"
           /\ UNCHANGED <<todo, result, failed, reg, sized, misused, files>>
  <2> USE DEF IInv, files
  <2>0. /\ ptr' \in [Ptr -> State]
        /\ \A p \in {"ar_dir", "ar_data", "ar_kobj"} : ptr'[p] = ptr[p]
        /\ \A p \in Tables : ptr'[p] = "live"
    BY <1>1, <1>2, <1>3
  <2>1. TypeOK'
    BY <1>0, <1>3, <2>0 DEF TypeOK, Loading, State
  <2>2. RemovalComplete' /\ HooksInOrder' /\ LiveInOrder'
    BY <1>0, <1>3, <2>0
       DEF TypeOK, RemovalComplete, HooksInOrder, LiveInOrder, Removing
  <2>3. FreedBefore' /\ UnloadedClean' /\ FreedOnce'
    BY <1>0, <1>3, <2>0
       DEF FreedBefore, Gone, Removing, UnloadedClean, FreedOnce
  <2> QED  BY <2>1, <2>2, <2>3
<1>4. CASE /\ IntfFails
           /\ failed \subseteq failed'
           /\ ptr' = ptr \/ \E n \in 0..2 : ptr' = Alloc(ptr, TableList, n)
           /\ UNCHANGED <<reg, sized, misused, files>>
  <2>1. /\ ptr' \in [Ptr -> State]
        /\ \A p \in {"ar_dir", "ar_data", "ar_kobj"} : ptr'[p] = ptr[p]
    BY <1>0, <1>1, <1>2, <1>4
  <2> QED  BY <1>0, <1>4, <2>1, UndoKeepsIInv DEF IntfFails
<1> QED  BY <1>3, <1>4 DEF ar_intf_init_db, TableList

\* ar_snmp_init_db keeps the tables; unless it fails, its entries and
\* strings are live.
LEMMA SnmpKeepsIInv ==
  ASSUME IInv, ar_snmp_init_db
  PROVE  IInv'
<1> DEFINE cleared == [p \in Ptr |-> IF p \in Strings THEN "null" ELSE ptr[p]]
           entity == [cleared EXCEPT !["ar_snmp_entity"] = "live"]
<1>0. /\ ptr \in [Ptr -> State] /\ pc = "snmp_db"
      /\ UNCHANGED <<todo, result, reg, files>>
      /\ sized' = sized \cup {"snmp"}
      /\ \/ /\ ptr' = Alloc(entity, StringList, 2)
            /\ pc' = "wakeup_db"
            /\ UNCHANGED <<failed, misused>>
         \/ \E n \in 0..1 :
                /\ ptr' = Alloc(entity, StringList, n)
                /\ failed' = failed \cup {"snmp_init"}
                /\ pc' = "wakeup_db"
                /\ UNCHANGED misused
         \/ /\ ptr' = cleared
            /\ failed' = failed \cup {"snmp_init"}
            /\ misused' = misused \cup {"ar_snmp_entity"}
            /\ pc' = "oops"
  BY DEF IInv, TypeOK, State, ar_snmp_init_db, StringList, Misuse
<1>1. /\ cleared \in [Ptr -> State] /\ entity \in [Ptr -> State]
      /\ entity["ar_snmp_entity"] = "live"
      /\ \A p \in Ptr \ (Strings \cup {"ar_snmp_entity"}) :
            cleared[p] = ptr[p] /\ entity[p] = ptr[p]
  BY <1>0 DEF State, Ptr
<1>2. "ar_snmp_entity" \in Ptr \ Strings
  BY DEF Ptr, Strings
<1> HIDE DEF cleared, entity
<1>3. ASSUME NEW n \in 0..2
      PROVE  /\ Alloc(entity, StringList, n) \in [Ptr -> State]
             /\ \A p \in Ptr \ (Strings \cup {"ar_snmp_entity"}) :
                    Alloc(entity, StringList, n)[p] = ptr[p]
             /\ n = 2 => \A p \in Strings \cup {"ar_snmp_entity"} :
                    Alloc(entity, StringList, n)[p] = "live"
  <2>1. n \in 0..Len(StringList) /\ StringList \in Seq(Ptr)
    BY AllocLists
  <2>2. /\ Alloc(entity, StringList, n) \in [Ptr -> State]
        /\ \A p \in Ptr : p \notin Names(StringList) =>
                Alloc(entity, StringList, n)[p] = entity[p]
        /\ n = Len(StringList) => \A p \in Names(StringList) :
                Alloc(entity, StringList, n)[p] = "live"
    BY <1>1, <2>1, AllocEffect
  <2> QED  BY <1>1, <1>2, <2>2, AllocLists
<1>4. /\ ptr' \in [Ptr -> State]
      /\ \A p \in Ptr \ (Strings \cup {"ar_snmp_entity"}) : ptr'[p] = ptr[p]
      /\ failed' = {} => \A p \in Strings \cup {"ar_snmp_entity"} :
                            ptr'[p] = "live"
  BY <1>0, <1>1, <1>3
<1>5. /\ \A p \in {"ar_dir", "ar_data", "ar_kobj"} : ptr'[p] = ptr[p]
      /\ \A p \in Tables : ptr'[p] = ptr[p]
  BY <1>4 DEF Ptr, Tables, Strings
<1>6. /\ pc' \in {"wakeup_db", "oops"} /\ failed \subseteq failed'
      /\ misused' \subseteq misused \cup {"ar_snmp_entity"}
  BY <1>0
<1> USE DEF IInv, files
<1>7. TypeOK'
  BY <1>0, <1>2, <1>4, <1>6 DEF TypeOK, Loading, State
<1>8. RemovalComplete' /\ HooksInOrder' /\ LiveInOrder'
  BY <1>0, <1>4, <1>5, <1>6
     DEF TypeOK, RemovalComplete, HooksInOrder, LiveInOrder, Removing
<1>9. FreedBefore' /\ UnloadedClean' /\ FreedOnce'
  BY <1>0, <1>5, <1>6 DEF FreedBefore, Gone, Removing, UnloadedClean, FreedOnce
<1> QED  BY <1>7, <1>8, <1>9

\* ar_wakeup_init_db keeps what is live; unless it fails, the rules are.
LEMMA WakeupKeepsIInv ==
  ASSUME IInv, ar_wakeup_init_db
  PROVE  IInv'
<1>0. /\ ptr \in [Ptr -> State] /\ pc = "wakeup_db" /\ pc' = "pm"
      /\ UNCHANGED <<todo, result, reg, misused, files>>
      /\ sized' = sized \cup {"wakeup"}
      /\ \/ ptr' = Alloc(ptr, RuleList, 3) /\ UNCHANGED failed
         \/ \E n \in 0..2 : /\ ptr' = Alloc(ptr, RuleList, n)
                            /\ failed' = failed \cup {"wakeup_init"}
  BY DEF IInv, TypeOK, State, ar_wakeup_init_db, RuleList
<1>1. ASSUME NEW n \in 0..3
      PROVE  /\ Alloc(ptr, RuleList, n) \in [Ptr -> State]
             /\ \A p \in Ptr \ Rules : Alloc(ptr, RuleList, n)[p] = ptr[p]
             /\ n = 3 => \A p \in Rules : Alloc(ptr, RuleList, n)[p] = "live"
  <2>1. n \in 0..Len(RuleList) /\ RuleList \in Seq(Ptr)
    BY AllocLists
  <2>2. /\ Alloc(ptr, RuleList, n) \in [Ptr -> State]
        /\ \A p \in Ptr : p \notin Names(RuleList) =>
                Alloc(ptr, RuleList, n)[p] = ptr[p]
        /\ n = Len(RuleList) => \A p \in Names(RuleList) :
                Alloc(ptr, RuleList, n)[p] = "live"
    BY <1>0, <2>1, AllocEffect
  <2> QED  BY <2>2, AllocLists
<1>2. /\ ptr' \in [Ptr -> State]
      /\ \A p \in Ptr \ Rules : ptr'[p] = ptr[p]
      /\ failed' = {} => \A p \in Rules : ptr'[p] = "live"
  BY <1>0, <1>1
<1>3. \A p \in Tables \cup Strings \cup
                {"ar_snmp_entity", "ar_dir", "ar_data", "ar_kobj"} :
        ptr'[p] = ptr[p]
  BY <1>2 DEF Ptr, Tables, Rules, Strings
<1>4. failed \subseteq failed'
  BY <1>0
<1> USE DEF IInv, files
<1>5. TypeOK'
  BY <1>0, <1>2 DEF TypeOK, Loading, State
<1>6. RemovalComplete' /\ HooksInOrder'
  BY <1>0 DEF TypeOK, RemovalComplete, HooksInOrder, Removing
<1>7. LiveInOrder'
  BY <1>0, <1>2, <1>3, <1>4 DEF LiveInOrder
<1>8. FreedBefore' /\ UnloadedClean' /\ FreedOnce'
  BY <1>0, <1>3, <1>4 DEF FreedBefore, Gone, Removing, UnloadedClean, FreedOnce
<1> QED  BY <1>5, <1>6, <1>7, <1>8

\* The notifier is registered with the tables in place.
LEMMA PmKeepsIInv ==
  ASSUME IInv, ar_pm_register
  PROVE  IInv'
<1>1. CASE /\ reg' = reg \cup {"pm"}
           /\ pc = "pm" /\ pc' = "live"
           /\ result' = "AR_SUCCESS"
           /\ UNCHANGED <<todo, failed, ptr, sized, misused, files>>
  <2> USE <1>1 DEF IInv, files
  <2>1. TypeOK'
    BY DEF TypeOK, Hook
  <2>2. RemovalComplete' /\ HooksInOrder' /\ LiveInOrder'
    BY DEF TypeOK, RemovalComplete, HooksInOrder, LiveInOrder, Removing
  <2>3. FreedBefore' /\ UnloadedClean' /\ FreedOnce'
    BY DEF FreedBefore, Gone, Removing, UnloadedClean, FreedOnce
  <2> QED  BY <2>1, <2>2, <2>3
<1>2. CASE /\ failed' = failed \cup {"pm"}
           /\ pc = "pm" /\ Undo
           /\ UNCHANGED <<reg, ptr, sized, misused, files>>
  <2>1. ptr' \in [Ptr -> State]
    BY <1>2 DEF IInv, TypeOK, State
  <2> QED  BY <1>2, <2>1, UndoKeepsIInv
<1> QED  BY <1>1, <1>2 DEF ar_pm_register

-----------------------------------------------------------------------------
(* Removing the hooks                                                      *)

\* ar_exit puts what is registered on its list.
LEMMA ExitKeepsIInv ==
  ASSUME IInv, ar_exit
  PROVE  IInv'
<1>0. /\ pc = "live" /\ pc' = "exit" /\ todo' = ExitList
      /\ UNCHANGED <<result, reg, ptr, sized, failed, misused, files>>
  BY DEF ar_exit, ExitList
<1> USE <1>0 DEF IInv, files
<1>1. TypeOK'
  BY ExitHooks DEF TypeOK
<1>2. HooksInOrder' /\ LiveInOrder' /\ UnloadedClean' /\ FreedOnce'
  BY DEF HooksInOrder, LiveInOrder, UnloadedClean, FreedOnce
<1>3. RemovalComplete'
  BY ExitHooks DEF RemovalComplete, HooksInOrder, TypeOK
<1>4. FreedBefore'
  BY DEF FreedBefore, Gone, Removing
<1> QED  BY <1>1, <1>2, <1>3, <1>4

\* Removing a hook frees its own pointers, and uses them if they dangle.
LEMMA DropEffect ==
  ASSUME ptr \in [Ptr -> State], NEW h \in Hook
  PROVE  /\ Drop(h) \in [Ptr -> State]
         /\ \A p \in Tables : Drop(h)[p] = ptr[p]
         /\ Drop(h)["ar_dir"] = "dangling" =>
                ptr["ar_dir"] = "dangling" \/ h = "proc"
         /\ Drop(h)["ar_data"] = "dangling" => ptr["ar_data"] = "dangling"
         /\ Drop(h)["ar_kobj"] = "dangling" =>
                ptr["ar_kobj"] = "dangling" \/ h = "sysfs"
         /\ Dangling(Freed(h)) \subseteq Ptr
         /\ "ar_dir" \in Dangling(Freed(h)) =>
                h = "proc" /\ ptr["ar_dir"] = "dangling"
         /\ "ar_data" \in Dangling(Freed(h)) => ptr["ar_data"] = "dangling"
         /\ "ar_kobj" \in Dangling(Freed(h)) =>
                h = "sysfs" /\ ptr["ar_kobj"] = "dangling"
<1>1. Freed(h) = IF h = "sysfs" THEN {"ar_kobj"}
                 ELSE IF h = "proc" THEN {"ar_dir", "ar_data"} ELSE {}
  BY DEF Freed
<1>2. {"ar_dir", "ar_data", "ar_kobj"} \subseteq Ptr \ Tables
        /\ Tables \subseteq Ptr
  BY DEF Ptr, Tables
<1>3. Drop(h) \in [Ptr -> State]
  BY DEF Drop, State
<1>4. \A p \in Ptr : Drop(h)[p] =
            IF h = "proc" /\ p = "ar_data" THEN "null"
            ELSE IF p \in Freed(h) /\ ptr[p] = "live" THEN "dangling"
            ELSE ptr[p]
  BY DEF Drop
<1>5. \A p : p \in Dangling(Freed(h)) <=> p \in Freed(h) /\ ptr[p] = "dangling"
  BY DEF Dangling
<1> QED  BY <1>1, <1>2, <1>3, <1>4, <1>5

\* Removing the next hook keeps the list complete, and the last one leaves
\* nothing.
LEMMA UnregisterKeepsIInv ==
  ASSUME IInv, Unregister
  PROVE  IInv'
<1> DEFINE h == Head(todo)
<1>1. /\ todo \in Seq(Hook) /\ todo # <<>> /\ Distinct(todo) /\ Removing
      /\ ptr \in [Ptr -> State] /\ reg \subseteq Names(todo)
  BY DEF IInv, TypeOK, RemovalComplete, Unregister, Removing, State
<1>2. /\ h \in Names(todo) /\ h \in Hook
      /\ todo' \in Seq(Hook) /\ Distinct(todo')
      /\ Names(todo') = Names(todo) \ {h}
      /\ Len(todo) = 1 <=> todo' = <<>>
  BY <1>1, TailHooks DEF Unregister
<1>3. /\ reg' = reg \ {h} /\ ptr' = Drop(h)
      /\ misused' = misused \cup Dangling(Freed(h))
      /\ UNCHANGED <<sized, failed>>
      /\ \/ /\ Len(todo) = 1 /\ pc' = "out" /\ file' = {}
            /\ orphan' = orphan \cup file
            /\ result' \in {"removed", result}
         \/ Len(todo) # 1 /\ UNCHANGED <<pc, result, files>>
  BY DEF Unregister, Misuse, Return
<1> HIDE DEF h
<1>4. reg' \subseteq Names(todo')
  BY <1>1, <1>2, <1>3
<1>5. \/ pc' = "out" /\ todo' = <<>> /\ reg' = {}
      \/ pc' = pc /\ todo' # <<>>
  <2>1. Names(<<>>) = {}
    BY DEF Names
  <2> QED  BY <1>2, <1>3, <1>4, <2>1
<1>6. TypeOK'
  BY <1>1, <1>2, <1>3, <1>5, DropEffect
     DEF IInv, TypeOK, State, files, Removing
<1>7. RemovalComplete'
  BY <1>2, <1>4 DEF RemovalComplete
<1>8. HooksInOrder'
  BY <1>1, <1>3, <1>5 DEF IInv, HooksInOrder, Removing
<1>9. LiveInOrder'
  BY <1>1, <1>2, <1>3, <1>5, DropEffect DEF IInv, LiveInOrder, Removing
<1>10. UnloadedClean'
  BY <1>1, <1>5 DEF UnloadedClean, Removing
<1>11. \A g \in {"proc", "sysfs"} : Gone(g) \/ g = h => Gone(g)'
  BY <1>1, <1>2, <1>5 DEF Gone, Removing
<1>12. FreedBefore'
  BY <1>1, <1>2, <1>3, <1>11, DropEffect DEF IInv, FreedBefore
<1>13. ~Gone(h)
  BY <1>1, <1>2 DEF Gone, Removing
<1>14. FreedOnce'
  BY <1>1, <1>2, <1>3, <1>13, DropEffect DEF IInv, FreedBefore, FreedOnce
<1> QED  BY <1>6, <1>7, <1>8, <1>9, <1>10, <1>12, <1>14 DEF IInv

-----------------------------------------------------------------------------
(* Clients                                                                 *)

\* A call that changes no hook and no pointer but a string it makes live.
LEMMA CallKeepsIInv ==
  ASSUME IInv, UNCHANGED <<pc, todo, result, reg, sized, failed>>,
         ptr' \in [Ptr -> State],
         \A p \in Ptr : ptr'[p] = ptr[p] \/ (p \in Strings /\ ptr'[p] = "live"),
         misused' \subseteq
            misused \cup (Ptr \ {"ar_dir", "ar_data", "ar_kobj"}) \cup {"text"},
         file' \subseteq Device, orphan' \subseteq Device
  PROVE  IInv'
<1> USE DEF IInv
<1>1. {"ar_dir", "ar_data", "ar_kobj", "ar_snmp_entity"} \cup Tables
            \cup Rules \subseteq Ptr \ Strings
  BY DEF Ptr, Tables, Rules, Strings
<1>2. Strings \subseteq Ptr
  BY DEF Ptr
<1>3. TypeOK'
  BY DEF TypeOK, State
<1>4. RemovalComplete' /\ HooksInOrder' /\ UnloadedClean'
  BY DEF RemovalComplete, HooksInOrder, UnloadedClean, Removing
<1>5. LiveInOrder'
  BY <1>1, <1>2 DEF LiveInOrder
<1>6. FreedBefore' /\ FreedOnce'
  BY <1>1 DEF FreedBefore, FreedOnce, Gone, Removing
<1> QED  BY <1>3, <1>4, <1>5, <1>6

\* The calls of clients do no more than that.
LEMMA ClientKeepsIInv ==
  ASSUME IInv, Client
  PROVE  IInv'
<1>1. /\ ptr \in [Ptr -> State]
      /\ file \subseteq Device /\ orphan \subseteq Device
      /\ misused \subseteq Ptr \cup {"text"}
  BY DEF IInv, TypeOK, State
<1>2. {"ar_snmp_entity"} \cup Tables \cup Rules \cup Strings
            \subseteq Ptr \ {"ar_dir", "ar_data", "ar_kobj"}
  BY DEF Ptr, Tables, Rules, Strings
<1>3. ASSUME NEW v \in Device, Open(v) \/ Release(v)
      PROVE  IInv'
  BY <1>1, <1>3, CallKeepsIInv DEF Open, Release, Misuse
<1>4. ASSUME NEW S \in SUBSET (Ptr \ {"ar_dir", "ar_data", "ar_kobj"}),
             misused' \subseteq misused \cup S,
             UNCHANGED <<pc, todo, result, reg, ptr, sized, failed, files>>
      PROVE  IInv'
  BY <1>1, <1>4, CallKeepsIInv DEF files
<1>5. CASE \/ IoctlAdd("ar_dev", "snmp", {"ar_snmp_entity"})
           \/ IoctlAdd("ar_wakeup_dev", "wakeup", Rules)
  BY <1>2, <1>4, <1>5 DEF IoctlAdd, Misuse, NotLive
<1>6. ASSUME NEW s \in Strings, SysfsStore(s)
      PROVE  IInv'
  BY <1>2, <1>4, <1>6 DEF SysfsStore, Misuse, NotLive
<1>7. ASSUME NEW g, DeepSleepEvent(g)
      PROVE  IInv'
  BY <1>2, <1>4, <1>7 DEF DeepSleepEvent, Misuse, NotLive
<1>8. ASSUME NEW s \in Strings, ar_snmp_config_comm_str(s)
      PROVE  IInv'
  <2>1. /\ UNCHANGED <<pc, todo, result, reg, sized, failed, file, orphan>>
        /\ ptr' = [ptr EXCEPT ![s] = "live"]
        /\ misused' \subseteq misused \cup {s}
    BY <1>8 DEF ar_snmp_config_comm_str, Misuse, Dangling, files
  <2>2. ptr' \in [Ptr -> State] /\ \A p \in Ptr \ {s} : ptr'[p] = ptr[p]
            /\ ptr'[s] = "live"
    BY <1>1, <1>2, <2>1 DEF State
  <2> QED  BY <1>1, <1>2, <2>1, <2>2, CallKeepsIInv
<1> QED  BY <1>3, <1>5, <1>6, <1>7, <1>8 DEF Client

-----------------------------------------------------------------------------
(* The invariant                                                           *)

\* The kernel before the first load.
LEMMA InitIInv == Init => IInv
<1> SUFFICES ASSUME Init
             PROVE  IInv
  OBVIOUS
<1>1. /\ ptr \in [Ptr -> State]
      /\ \A p \in {"ar_dir", "ar_data", "ar_kobj"} : ptr[p] = "null"
  BY DEF Init, State, Ptr
<1>2. TypeOK
  BY <1>1 DEF Init, TypeOK, State
<1>3. RemovalComplete /\ HooksInOrder /\ LiveInOrder
  BY DEF Init, RemovalComplete, HooksInOrder, LiveInOrder, Removing, Distinct
<1>4. FreedBefore /\ UnloadedClean /\ FreedOnce
  BY <1>1 DEF Init, FreedBefore, UnloadedClean, FreedOnce
<1> QED  BY <1>2, <1>3, <1>4 DEF IInv

\* Every call of ar_init and ar_exit and every call of a client keeps it.
LEMMA NextIInv == IInv /\ [Next]_vars => IInv'
<1> SUFFICES ASSUME IInv, [Next]_vars
             PROVE  IInv'
  OBVIOUS
<1>1. CASE Module
  BY <1>1, RegisterKeepsIInv, ProcKeepsIInv, SysfsKeepsIInv, IntfKeepsIInv,
     SnmpKeepsIInv, WakeupKeepsIInv, PmKeepsIInv, UnregisterKeepsIInv
     DEF Module
<1>2. CASE UNCHANGED vars
  <2>1. /\ ptr' \in [Ptr -> State]
        /\ file' \subseteq Device /\ orphan' \subseteq Device
    BY <1>2 DEF IInv, TypeOK, State, vars, files
  <2> QED  BY <1>2, <2>1, CallKeepsIInv DEF vars, files
<1> QED  BY <1>1, <1>2, InsmodKeepsIInv, ExitKeepsIInv, ClientKeepsIInv DEF Next

\* The inductive invariant holds through every sequence of loads, failures,
\* unloads and calls of clients.
THEOREM Invariance == Spec => []IInv
  BY InitIInv, NextIInv, PTL DEF Spec

\* The state keeps its type, and hooks are on the list exactly while the
\* module is being taken down.
THEOREM TypeCorrect == Spec => []TypeOK
  BY Invariance, PTL DEF IInv

\* A suspend never meets an address table that is not allocated.
THEOREM SuspendServed == Spec => []PmServed
<1>1. IInv => PmServed
  BY DEF IInv, HooksInOrder, LiveInOrder, PmServed, NotLive
<1> QED  BY <1>1, Invariance, PTL

\* An unload, and a load that fails in ar_intf_init_db or ar_pm_register,
\* leave no hook behind.
THEOREM UnloadsClean == Spec => []UnloadedClean
  BY Invariance, PTL DEF IInv

\* Taking the module down frees nothing twice, but for what a creation that
\* failed half way had freed.
THEOREM FreesOnce == Spec => []FreedOnce
  BY Invariance, PTL DEF IInv

-----------------------------------------------------------------------------
(* Clients of a load that succeeded                                        *)

\* A call that comes while the module is loaded, after a load in which
\* nothing failed, uses no pointer that is not live.
LEMMA CallIsSafe ==
  ASSUME IInv, pc = "live", failed = {}, Next
  PROVE  misused' \subseteq misused \cup {"text"}
<1>1. \A p \in Tables \cup Rules \cup Strings \cup {"ar_snmp_entity"} :
        ptr[p] = "live"
  BY DEF IInv, LiveInOrder
<1>2. todo = <<>>
  BY DEF IInv, TypeOK
<1>3. ~Insmod /\ ~Module
  BY <1>2 DEF Insmod, Module, RegisterChrdev, ar_proc_init, ar_create_sysfs,
              ar_intf_init_db, ar_snmp_init_db, ar_wakeup_init_db,
              ar_pm_register, Unregister
<1>4. CASE ar_exit
  BY <1>4 DEF ar_exit
<1>5. CASE Client
  BY <1>1, <1>5 DEF Client, Open, Release, IoctlAdd, ar_snmp_config_comm_str,
                    SysfsStore, DeepSleepEvent, Misuse, NotLive, Dangling
<1> QED  BY <1>3, <1>4, <1>5 DEF Next

\* After a load in which nothing failed, no call of a client uses memory
\* that is not there, until the module is removed.
THEOREM ClientCallsSafe == Spec => ClientsSafe
<1> DEFINE Safe == pc = "live" /\ failed = {} =>
                        misused' \subseteq misused \cup {"text"}
<1>1. IInv /\ [Next]_vars => [Safe]_vars
  BY CallIsSafe
<1>2. Spec => [][Next]_vars
  BY DEF Spec
<1> QED  BY <1>1, <1>2, Invariance, PTL DEF ClientsSafe
=============================================================================
